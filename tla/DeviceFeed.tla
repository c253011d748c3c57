----------------------------- MODULE DeviceFeed -----------------------------
(* The device table of the brain (brain_main.c), the handler that streams what changed since a    *)
(* merge (cluster_web.c), and the page that gathers it in the browser                              *)
(* (tools/capture_viewer/index.html, accStart to accPull).  bus_task updates the table a record at *)
(* a time under s_dev_mux, the web task takes the mutex for one entry at a time and reads the      *)
(* number of merges and of entries without it; the page keeps rows and cursor in two transactions. *)
EXTENDS Integers, Sequences

CONSTANTS
  Devices,     \* the keys line_key makes of the records
  Capacity,    \* DEV_MAX
  Windows,     \* what a merge may bring, in order: sequences of Devices
  MaxMerges,   \* bound: merges of one life of the brain
  MaxBoots,    \* bound: lives of the brain
  MaxFaults    \* bound: lost connections and reloads of the page

ASSUME DeviceFeedAssumption ==
  /\ Capacity \in Nat \ {0}
  /\ Windows \subseteq Seq(Devices)
  /\ {MaxMerges, MaxFaults} \subseteq Nat /\ MaxBoots \in Nat \ {0}

VARIABLES
  table,    \* s_devtab[0 .. s_dev_n - 1]: device and last_scan
  count,    \* s_merge_count
  bus,      \* bus_task: where it is, the records it has still to take into the table
  boot,     \* s_sess_id
  http,     \* devices_get: where it is, the query, the headers, the loop, the rows sent
  page,     \* the page: where accPull is, ACC_CURSOR, ACC_SESSION
  kept,     \* the store of records: of which life and merge the row of each device is, 0 for none
  meta,     \* the store of the cursor
  orphans,  \* for the properties: rows were stored and the page reloaded before any session was
  skipped,  \* for the properties: merges of this life the cursor passes without their rows being asked for
  faults

brainVars == <<table, count, bus, boot>>
pageVars == <<page, kept, meta>>
vars == <<brainVars, http, pageVars, orphans, skipped, faults>>

NoRows == [d \in Devices |-> 0]
NothingKept == [d \in Devices |-> [life |-> 0, scan |-> 0]]
IdleHttp == [pc |-> "idle", since |-> 0, merge |-> 0, session |-> 0, n |-> 0, i |-> 1, rows |-> NoRows]

Init ==
  /\ table = <<>> /\ count = 0 /\ boot = 1
  /\ bus = [pc |-> "poll", todo |-> <<>>]
  /\ http = IdleHttp
  /\ page = [pc |-> "idle", cursor |-> 0, session |-> 0]
  /\ kept = NothingKept
  /\ meta = [cursor |-> 0, session |-> 0]
  /\ orphans = FALSE
  /\ skipped = {}
  /\ faults = 0

-----------------------------------------------------------------------------
(* bus_task *)

DoMerge ==
  /\ bus.pc = "poll" /\ count < MaxMerges
  /\ \E w \in Windows : bus' = [pc |-> "merged", todo |-> w]
  /\ count' = count + 1
  /\ UNCHANGED <<table, boot, http, pageVars, skipped, faults, orphans>>

TakeMutex ==
  /\ bus.pc = "merged"
  /\ bus' = [bus EXCEPT !.pc = "ingest"]
  /\ UNCHANGED <<table, count, boot, http, pageVars, skipped, faults, orphans>>

SlotsOf(d) == {i \in DOMAIN table : table[i].dev = d}

\* the first of the entries seen least recently
Lru ==
  CHOOSE i \in DOMAIN table :
    \A j \in DOMAIN table : table[i].scan < table[j].scan \/ (table[i].scan = table[j].scan /\ i <= j)

UpsertedBeyond(d) ==   \* mutant: the capacity is not looked at
  LET e == [dev |-> d, scan |-> count]
  IN IF SlotsOf(d) # {} THEN [i \in DOMAIN table |-> IF i \in SlotsOf(d) THEN e ELSE table[i]]
     ELSE Append(table, e)

Upserted(d) ==
  LET e == [dev |-> d, scan |-> count]
  IN IF SlotsOf(d) # {} THEN [i \in DOMAIN table |-> IF i \in SlotsOf(d) THEN e ELSE table[i]]
     ELSE IF Len(table) < Capacity THEN Append(table, e)
     ELSE [table EXCEPT ![Lru] = e]

Upsert ==
  /\ bus.pc = "ingest" /\ bus.todo # <<>>
  /\ table' = Upserted(Head(bus.todo))
  /\ bus' = [bus EXCEPT !.todo = Tail(@)]
  /\ UNCHANGED <<count, boot, http, pageVars, skipped, faults, orphans>>

GiveMutex ==
  /\ bus.pc = "ingest" /\ bus.todo = <<>>
  /\ bus' = [bus EXCEPT !.pc = "poll"]
  /\ UNCHANGED <<table, count, boot, http, pageVars, skipped, faults, orphans>>

-----------------------------------------------------------------------------
(* devices_get *)

\* The header carries a number of merges whose rows may not be in the table yet.
ReadCount ==
  /\ http.pc = "query"
  /\ http' = [http EXCEPT !.pc = "headed", !.merge = count, !.session = boot]
  /\ skipped' = IF bus.pc = "poll" THEN skipped ELSE skipped \cup {count}
  /\ UNCHANGED <<brainVars, pageVars, faults, orphans>>

EntriesButLast == Len(table) - 1   \* mutant: the loop stops one short

Entries == Len(table)

ReadNumber ==
  /\ http.pc = "headed"
  /\ http' = [http EXCEPT !.pc = "rows", !.n = Entries, !.i = 1]
  /\ UNCHANGED <<brainVars, pageVars, skipped, faults, orphans>>

NewSince(e, since) == e.scan > since

SendRow ==
  /\ http.pc = "rows" /\ http.i <= http.n /\ bus.pc # "ingest"
  /\ LET e == table[http.i]
     IN http' = [http EXCEPT !.i = @ + 1,
                             !.rows = IF NewSince(e, http.since) THEN [@ EXCEPT ![e.dev] = e.scan] ELSE @]
  /\ UNCHANGED <<brainVars, pageVars, skipped, faults, orphans>>

EndRows ==
  /\ http.pc = "rows" /\ http.i > http.n
  /\ http' = [http EXCEPT !.pc = "sent"]
  /\ UNCHANGED <<brainVars, pageVars, skipped, faults, orphans>>

-----------------------------------------------------------------------------
(* accPull *)

Ask ==
  /\ page.pc = "idle"
  /\ http' = [IdleHttp EXCEPT !.pc = "query", !.since = page.cursor]
  /\ page' = [page EXCEPT !.pc = "asked"]
  /\ UNCHANGED <<brainVars, kept, meta, skipped, faults, orphans>>

SameLife == FALSE   \* mutant: a restart of the brain is not noticed

OtherLife == page.session # 0 /\ http.session # page.session

\* On a new session the page begins again, but the rows at hand were asked for with the old cursor.
TakeAnswer ==
  /\ page.pc = "asked" /\ http.pc = "sent"
  /\ page' = [pc |-> "put", session |-> http.session, cursor |-> IF OtherLife THEN 0 ELSE page.cursor]
  /\ kept' = IF OtherLife THEN NothingKept ELSE kept
  /\ skipped' = IF OtherLife THEN skipped \cup 1 .. http.since ELSE skipped
  /\ UNCHANGED <<brainVars, http, meta, faults, orphans>>

PutRows ==
  /\ page.pc = "put"
  /\ kept' = [d \in Devices |->
                IF http.rows[d] > 0 THEN [life |-> http.session, scan |-> http.rows[d]] ELSE kept[d]]
  /\ page' = [page EXCEPT !.pc = "move"]
  /\ UNCHANGED <<brainVars, http, meta, skipped, faults, orphans>>

LaterCounted(merge) == count   \* mutant: the number of merges at the end of the answer

Later(merge) == IF merge >= page.cursor THEN merge ELSE page.cursor

MoveCursor ==
  /\ page.pc = "move"
  /\ page' = [page EXCEPT !.pc = "idle", !.cursor = Later(http.merge)]
  /\ meta' = [cursor |-> page'.cursor, session |-> page.session]
  /\ http' = IdleHttp
  /\ UNCHANGED <<brainVars, kept, skipped, faults, orphans>>

-----------------------------------------------------------------------------
(* What breaks *)

Restart ==
  /\ boot < MaxBoots
  /\ boot' = boot + 1 /\ table' = <<>> /\ count' = 0 /\ skipped' = {}
  /\ bus' = [pc |-> "poll", todo |-> <<>>]
  /\ IF page.pc = "asked" /\ http.pc # "sent"
       THEN http' = IdleHttp /\ page' = [page EXCEPT !.pc = "idle"]
       ELSE UNCHANGED <<http, page>>
  /\ UNCHANGED <<kept, meta, faults, orphans>>

LoseConnection ==
  /\ faults < MaxFaults /\ page.pc = "asked"
  /\ http' = IdleHttp
  /\ page' = [page EXCEPT !.pc = "idle"]
  /\ faults' = faults + 1
  /\ UNCHANGED <<brainVars, kept, meta, skipped, orphans>>

\* accStart takes up what the two stores hold.
Reload ==
  /\ faults < MaxFaults
  /\ page' = [pc |-> "idle", cursor |-> meta.cursor, session |-> meta.session]
  /\ http' = IdleHttp
  /\ orphans' = (orphans \/ (meta.session = 0 /\ kept # NothingKept))
  /\ faults' = faults + 1
  /\ UNCHANGED <<brainVars, kept, meta, skipped>>

-----------------------------------------------------------------------------
Bus == DoMerge \/ TakeMutex \/ Upsert \/ GiveMutex
Web == ReadCount \/ ReadNumber \/ SendRow \/ EndRows
Page == Ask \/ TakeAnswer \/ PutRows \/ MoveCursor
Next == Bus \/ Web \/ Page \/ Restart \/ LoseConnection \/ Reload

Spec == Init /\ [][Next]_vars

\* The tasks are scheduled, and the page asks again every few seconds.
Fairness == WF_vars(TakeMutex \/ Upsert \/ GiveMutex) /\ WF_vars(Web) /\ WF_vars(Page)
FairSpec == Spec /\ Fairness

-----------------------------------------------------------------------------
(* Properties *)

Merges == 0 .. MaxMerges
Rows == [Devices -> Merges]

\* Every variable holds a value the code gives it; the table never outgrows its slots.
TypeOK ==
  /\ table \in Seq([dev : Devices, scan : Merges]) /\ Len(table) <= Capacity
  /\ count \in Merges /\ boot \in 1 .. MaxBoots
  /\ bus \in [pc : {"poll", "merged", "ingest"}, todo : Seq(Devices)]
  /\ http \in [pc : {"idle", "query", "headed", "rows", "sent"}, since : Merges, merge : Merges,
               session : 0 .. MaxBoots, n : 0 .. Capacity, i : 1 .. Capacity + 1, rows : Rows]
  /\ page \in [pc : {"idle", "asked", "put", "move"}, cursor : Merges, session : 0 .. MaxBoots]
  /\ kept \in [Devices -> [life : 0 .. MaxBoots, scan : Merges]] /\ orphans \in BOOLEAN
  /\ meta \in [cursor : Merges, session : 0 .. MaxBoots]
  /\ skipped \subseteq Merges /\ faults \in 0 .. MaxFaults

Has(d, s) == kept[d].life = boot /\ kept[d].scan >= s

\* Whatever part of an entry's history the cursor covers is in the browser: when the stored cursor has reached
\* the merge an entry was last seen in, the page has the row, unless the header ran ahead of the table or the
\* page changed to a new life of the brain over that merge.
CursorHonest ==
  \A i \in DOMAIN table :
    meta.session = boot /\ table[i].scan <= meta.cursor /\ table[i].scan \notin skipped
      => Has(table[i].dev, table[i].scan)

\* dev_upsert keeps one entry per device however entries are replaced.
OneEntryEach == \A i, j \in DOMAIN table : table[i].dev = table[j].dev => i = j

\* The page never mixes the lives of the brain: what it has accumulated under the session it talks to is of that
\* session, unless the very first rows were stored and the session was not.
OneLife ==
  meta.session = boot /\ page.session = boot /\ ~ orphans => \A d \in Devices : kept[d].life \in {0, boot}

Holds(d, s) == \E i \in DOMAIN table : table[i].dev = d /\ table[i].scan = s

\* Every entry that stays in the table reaches the page, through lost connections, reloads and restarts, unless
\* its merge was skipped.
EntryShown ==
  \A d \in Devices, s \in Merges : Holds(d, s) ~> (~ Holds(d, s) \/ Has(d, s) \/ s \in skipped)
=============================================================================
