-------------------------- MODULE DeviceFeed_proofs --------------------------
(* DeviceFeed: type correctness, one entry per device, the honesty of the cursor and the lives of the   *)
(* rows, for tables of any size and any number of merges, restarts and faults.                          *)
EXTENDS DeviceFeed, TLAPS

-----------------------------------------------------------------------------
(* The inductive invariant *)

\* The mutex keeps the table below its capacity, every entry is of a merge that was counted.
TableCounted ==
  /\ \A i \in DOMAIN table : table[i].scan \in 1 .. count
  /\ bus.pc # "poll" => count > 0

Answering == http.pc \in {"headed", "rows", "sent"}

\* Where the page, the handler and the stored cursor are together.
Conversation ==
  /\ page.pc = "idle" <=> http.pc = "idle"
  /\ page.pc \in {"idle", "asked"} => page.cursor = meta.cursor /\ page.session = meta.session
  /\ page.pc # "idle" => http.since = meta.cursor
  /\ page.pc \in {"put", "move"} => http.pc = "sent" /\ page.session = http.session
  /\ meta.session <= boot /\ (meta.session = 0 => meta.cursor = 0)
  /\ Answering => meta.session <= http.session /\ http.session \in 1 .. boot
  /\ http.pc \in {"headed", "rows"} => http.session = boot
  /\ page.pc = "asked" /\ http.pc = "query" => http.rows = NoRows

\* What becomes of the cursor: it stays, or the page begins again and the merges before it are skipped.
CursorStays == page.cursor = meta.cursor /\ meta.session \in {0, page.session}
CursorReset == page.cursor = 0 /\ (http.session = boot => 1 .. http.since \subseteq skipped)
CursorTaken == page.pc \in {"put", "move"} => CursorStays \/ CursorReset

Due(i) == table[i].scan \in http.since + 1 .. http.merge /\ table[i].scan \notin skipped

\* An entry that the header promises is still ahead of the loop, or its row is under way, or in the browser.
Promise(i) ==
  /\ http.pc = "rows" => i <= http.n /\ (i < http.i => http.rows[table[i].dev] >= table[i].scan)
  /\ http.pc = "sent" /\ page.pc # "move" => http.rows[table[i].dev] >= table[i].scan
  /\ page.pc = "move" => Has(table[i].dev, table[i].scan)

Answered ==
  /\ http.pc # "idle" => \A d \in Devices : http.rows[d] = 0 \/ http.rows[d] > http.since
  /\ Answering /\ http.session = boot =>
       /\ http.merge <= count
       /\ bus.pc # "poll" /\ count = http.merge => count \in skipped
       /\ http.pc = "rows" => http.n <= Len(table)
       /\ \A i \in DOMAIN table : Due(i) => Promise(i)

\* The cursor has passed no merge that is not in the table, but those that are skipped.
CursorBehind ==
  meta.session = boot =>
    meta.cursor <= count /\ (bus.pc # "poll" /\ count = meta.cursor => count \in skipped)

\* Of which lives of the brain the rows in the browser are.
Lives ==
  /\ \A d \in Devices : kept[d].life <= boot
  /\ Answering => \A d \in Devices : kept[d].life <= http.session
  /\ ~ orphans =>
       /\ \A d \in Devices : kept[d].life = 0 \/ kept[d].life >= meta.session
       /\ page.pc \in {"put", "move"} => \A d \in Devices : kept[d].life \in {0, page.session}
       /\ page.pc \in {"idle", "asked"} /\ meta.session = 0 => kept = NothingKept

IInv ==
  /\ TypeOK /\ TableCounted /\ OneEntryEach /\ Conversation /\ CursorTaken
  /\ Answered /\ CursorBehind /\ Lives /\ CursorHonest

-----------------------------------------------------------------------------
(* Initial states *)

\* A brain that starts, and a browser that has stored nothing.
LEMMA InitIInv == Init => IInv
<1> SUFFICES ASSUME Init PROVE IInv
  OBVIOUS
<1> USE DeviceFeedAssumption DEF Init, IdleHttp, NoRows, NothingKept
<1>1. TypeOK
  <2>1. table \in Seq([dev : Devices, scan : Merges]) /\ Len(table) <= Capacity
    OBVIOUS
  <2>2. bus \in [pc : {"poll", "merged", "ingest"}, todo : Seq(Devices)]
    OBVIOUS
  <2>3. NoRows \in Rows /\ {0} \subseteq Merges /\ NothingKept \in [Devices -> [life : 0 .. MaxBoots, scan : Merges]]
    BY DEF Rows, Merges
  <2>4. http \in [pc : {"idle", "query", "headed", "rows", "sent"}, since : Merges, merge : Merges,
                  session : 0 .. MaxBoots, n : 0 .. Capacity, i : 1 .. Capacity + 1, rows : Rows]
    <3> HIDE DEF NoRows
    <3> QED BY <2>3
  <2>5. /\ page \in [pc : {"idle", "asked", "put", "move"}, cursor : Merges, session : 0 .. MaxBoots]
        /\ meta \in [cursor : Merges, session : 0 .. MaxBoots]
    BY <2>3
  <2>6. count \in Merges /\ boot \in 1 .. MaxBoots /\ skipped \subseteq Merges /\ faults \in 0 .. MaxFaults
    BY <2>3
  <2>7. orphans \in BOOLEAN
    OBVIOUS
  <2> HIDE DEF NothingKept, NoRows, IdleHttp
  <2> QED BY <2>1, <2>2, <2>3, <2>4, <2>5, <2>6, <2>7 DEF TypeOK
<1>2. TableCounted /\ OneEntryEach /\ CursorHonest
  BY DEF TableCounted, OneEntryEach, CursorHonest
<1>3. Conversation /\ CursorTaken
  BY DEF Conversation, CursorTaken, Answering
<1>4. Answered /\ Lives /\ CursorBehind
  BY DEF Answered, Lives, Answering, CursorBehind
<1> QED BY <1>1, <1>2, <1>3, <1>4 DEF IInv

-----------------------------------------------------------------------------
(* The table *)

\* dev_upsert leaves a table within its capacity in which every entry is an old one or that of the record.
LEMMA UpsertedFacts ==
  ASSUME TypeOK, OneEntryEach, NEW d \in Devices
  PROVE  /\ Upserted(d) \in Seq([dev : Devices, scan : Merges])
         /\ Len(Upserted(d)) <= Capacity
         /\ Len(Upserted(d)) >= Len(table)
         /\ \A i \in DOMAIN Upserted(d) :
              \/ i \in DOMAIN table /\ Upserted(d)[i] = table[i]
              \/ Upserted(d)[i] = [dev |-> d, scan |-> count]
         /\ \A i, j \in DOMAIN Upserted(d) : Upserted(d)[i].dev = Upserted(d)[j].dev => i = j
<1> DEFINE R == [dev : Devices, scan : Merges]
           e == [dev |-> d, scan |-> count]
           t == Upserted(d)
<1>0. /\ table \in Seq(R) /\ Len(table) \in Nat /\ Len(table) <= Capacity
      /\ DOMAIN table = 1 .. Len(table) /\ e \in R /\ Capacity \in Nat
  BY DeviceFeedAssumption DEF TypeOK
<1>1. CASE SlotsOf(d) # {}
  <2>1. t = [i \in 1 .. Len(table) |-> IF i \in SlotsOf(d) THEN e ELSE table[i]]
    BY <1>0, <1>1 DEF Upserted
  <2>2. t \in Seq(R) /\ Len(t) = Len(table) /\ DOMAIN t = DOMAIN table
    <3> HIDE DEF t, e, R
    <3>1. \A i \in 1 .. Len(table) : t[i] \in R
      BY <1>0, <2>1
    <3> QED BY <1>0, <2>1, <3>1
  <2>3. \A i \in DOMAIN t : t[i] = IF i \in SlotsOf(d) THEN e ELSE table[i]
    BY <1>0, <2>1
  <2>4. \A i, j \in DOMAIN t : t[i].dev = t[j].dev => i = j
    <3> SUFFICES ASSUME NEW i \in DOMAIN t, NEW j \in DOMAIN t, t[i].dev = t[j].dev PROVE i = j
      OBVIOUS
    <3>1. table[i].dev = t[i].dev /\ table[j].dev = t[j].dev
      <4> HIDE DEF t, R
      <4> QED BY <2>2, <2>3 DEF SlotsOf
    <3> HIDE DEF t, R
    <3> QED BY <2>2, <3>1 DEF OneEntryEach
  <2> HIDE DEF t, R
  <2> QED BY <1>0, <2>2, <2>3, <2>4 DEF t, R
<1>2. CASE SlotsOf(d) = {} /\ Len(table) < Capacity
  <2>1. t = Append(table, e)
    BY <1>2 DEF Upserted
  <2>2. t \in Seq(R) /\ Len(t) = Len(table) + 1 /\ DOMAIN t = 1 .. Len(table) + 1
    <3> HIDE DEF t, e, R
    <3> QED BY <1>0, <2>1
  <2>3. /\ t[Len(table) + 1] = e
        /\ \A i \in DOMAIN table : t[i] = table[i]
    <3> HIDE DEF t, e, R
    <3> QED BY <1>0, <2>1
  <2>4. \A i \in DOMAIN table : table[i].dev # d
    BY <1>2 DEF SlotsOf
  <2>5. \A i, j \in DOMAIN t : t[i].dev = t[j].dev => i = j
    <3> HIDE DEF t, R
    <3> QED BY <1>0, <2>2, <2>3, <2>4 DEF OneEntryEach
  <2>6. \A i \in DOMAIN t : i \in DOMAIN table \/ i = Len(table) + 1
    <3> HIDE DEF t, R
    <3> QED BY <1>0, <2>2
  <2> HIDE DEF t, R
  <2> QED BY <1>0, <1>2, <2>2, <2>3, <2>5, <2>6 DEF t, R
<1>3. CASE SlotsOf(d) = {} /\ ~ (Len(table) < Capacity)
  <2>1. t = [table EXCEPT ![Lru] = e]
    BY <1>3 DEF Upserted
  <2>2. DOMAIN t = DOMAIN table /\ \A i \in DOMAIN t : t[i] = IF i = Lru THEN e ELSE table[i]
    <3> HIDE DEF e, R
    <3> QED BY <1>0, <2>1
  <2>3. t \in Seq(R) /\ Len(t) = Len(table)
    <3>1. t = [i \in 1 .. Len(table) |-> IF i = Lru THEN e ELSE table[i]]
      <4> HIDE DEF e, R
      <4> QED BY <1>0, <2>1
    <3> HIDE DEF t, e, R
    <3>2. \A i \in 1 .. Len(table) : t[i] \in R
      BY <1>0, <3>1
    <3> QED BY <1>0, <3>1, <3>2
  <2>4. \A i \in DOMAIN table : table[i].dev # d
    BY <1>3 DEF SlotsOf
  <2>5. \A i, j \in DOMAIN t : t[i].dev = t[j].dev => i = j
    <3> HIDE DEF t, R
    <3> QED BY <2>2, <2>4 DEF OneEntryEach
  <2> HIDE DEF t, R
  <2> QED BY <1>0, <2>2, <2>3, <2>5 DEF t, R
<1> QED BY <1>1, <1>2, <1>3

\* Every action that leaves the table alone keeps what is said of it alone.
LEMMA TableStep == IInv /\ Next => TableCounted' /\ OneEntryEach'
<1> SUFFICES ASSUME IInv, Next PROVE TableCounted' /\ OneEntryEach'
  OBVIOUS
<1> USE DEF brainVars, pageVars
<1>0. TypeOK /\ TableCounted /\ OneEntryEach
  BY DEF IInv
<1>1. ASSUME DoMerge PROVE TableCounted' /\ OneEntryEach'
  <2>1. table' = table /\ count' = count + 1 /\ count \in Nat
    BY <1>0, <1>1 DEF DoMerge, TypeOK, Merges
  <2> QED BY <1>0, <2>1 DEF TableCounted, OneEntryEach
<1>2. ASSUME TakeMutex \/ GiveMutex PROVE TableCounted' /\ OneEntryEach'
  BY <1>0, <1>2 DEF TakeMutex, GiveMutex, TypeOK, TableCounted, OneEntryEach
<1>3. ASSUME Upsert PROVE TableCounted' /\ OneEntryEach'
  <2> DEFINE d == Head(bus.todo)
  <2>1. d \in Devices /\ table' = Upserted(d) /\ count' = count /\ count \in Nat /\ count > 0
    BY <1>0, <1>3 DEF Upsert, TypeOK, Merges, TableCounted
  <2> HIDE DEF d
  <2>2. /\ \A i \in DOMAIN table' : (i \in DOMAIN table /\ table'[i] = table[i]) \/ table'[i] = [dev |-> d, scan |-> count]
        /\ \A i, j \in DOMAIN table' : table'[i].dev = table'[j].dev => i = j
    BY <1>0, <2>1, UpsertedFacts
  <2>3. \A i \in DOMAIN table' : table'[i].scan \in 1 .. count'
    BY <1>0, <2>1, <2>2 DEF TableCounted
  <2> QED BY <2>1, <2>2, <2>3 DEF TableCounted, OneEntryEach
<1>4. ASSUME Web \/ Page \/ LoseConnection \/ Reload PROVE TableCounted' /\ OneEntryEach'
  BY <1>0, <1>4 DEF Web, Page, ReadCount, ReadNumber, SendRow, EndRows, Ask, TakeAnswer, PutRows, MoveCursor,
     LoseConnection, Reload, TableCounted, OneEntryEach
<1>5. ASSUME Restart PROVE TableCounted' /\ OneEntryEach'
  BY <1>5 DEF Restart, TableCounted, OneEntryEach
<1> QED BY <1>1, <1>2, <1>3, <1>4, <1>5 DEF Next, Bus

-----------------------------------------------------------------------------
(* Types *)

\* The row of an entry the loop has not reached yet is in the table.
LEMMA RowAtHand ==
  ASSUME IInv, SendRow
  PROVE  http.i \in DOMAIN table /\ http.session = boot /\ table[http.i].dev \in Devices /\ table[http.i].scan \in Merges
<1>1. http.i \in DOMAIN table /\ http.session = boot
  BY DEF IInv, SendRow, Answered, Answering, Conversation, TypeOK
<1>2. table[http.i] \in [dev : Devices, scan : Merges]
  <2> DEFINE R == [dev : Devices, scan : Merges]
  <2>1. table \in Seq(R)
    BY DEF IInv, TypeOK
  <2> HIDE DEF R
  <2>2. table[http.i] \in R
    BY <1>1, <2>1
  <2> QED BY <2>2 DEF R
<1> QED BY <1>1, <1>2

HttpStates ==
  [pc : {"idle", "query", "headed", "rows", "sent"}, since : Merges, merge : Merges, session : 0 .. MaxBoots,
   n : 0 .. Capacity, i : 1 .. Capacity + 1, rows : Rows]
PageStates == [pc : {"idle", "asked", "put", "move"}, cursor : Merges, session : 0 .. MaxBoots]
RowStates == [life : 0 .. MaxBoots, scan : Merges]
MetaStates == [cursor : Merges, session : 0 .. MaxBoots]

\* The values everything begins with are well-typed.
LEMMA Idle == IdleHttp \in HttpStates /\ NothingKept \in [Devices -> RowStates] /\ 0 \in Merges
<1>1. 0 \in Merges /\ NoRows \in Rows
  BY DeviceFeedAssumption DEF NoRows, Rows, Merges
<1>2. IdleHttp \in HttpStates
  BY <1>1, DeviceFeedAssumption DEF IdleHttp, HttpStates
<1>3. [life |-> 0, scan |-> 0] \in RowStates
  BY <1>1, DeviceFeedAssumption DEF RowStates
<1> QED BY <1>1, <1>2, <1>3 DEF NothingKept

\* No step leaves the types.
LEMMA TypeStep == IInv /\ Next => TypeOK'
<1> SUFFICES ASSUME IInv, Next PROVE TypeOK'
  OBVIOUS
<1> USE DeviceFeedAssumption DEF brainVars, pageVars
<1>0. /\ table \in Seq([dev : Devices, scan : Merges]) /\ Len(table) \in Nat /\ Len(table) <= Capacity
      /\ count \in Merges /\ boot \in 1 .. MaxBoots
      /\ bus \in [pc : {"poll", "merged", "ingest"}, todo : Seq(Devices)]
      /\ http \in HttpStates /\ page \in PageStates /\ kept \in [Devices -> RowStates]
      /\ meta \in MetaStates /\ orphans \in BOOLEAN /\ skipped \subseteq Merges /\ faults \in 0 .. MaxFaults
  BY DEF IInv, TypeOK, HttpStates, PageStates, MetaStates, RowStates
<1> SUFFICES
      /\ (table \in Seq([dev : Devices, scan : Merges]) /\ Len(table) <= Capacity)'
      /\ (count \in Merges /\ boot \in 1 .. MaxBoots)'
      /\ (bus \in [pc : {"poll", "merged", "ingest"}, todo : Seq(Devices)])'
      /\ (http \in HttpStates)'
      /\ (page \in PageStates)'
      /\ (kept \in [Devices -> RowStates])'
      /\ (meta \in MetaStates)'
      /\ (orphans \in BOOLEAN)'
      /\ (skipped \subseteq Merges)' /\ (faults \in 0 .. MaxFaults)'
  BY DEF TypeOK, HttpStates, PageStates, MetaStates, RowStates
<1>1. (table \in Seq([dev : Devices, scan : Merges]) /\ Len(table) <= Capacity)'
  <2>1. CASE Upsert
    <3>1. Head(bus.todo) \in Devices
      BY <1>0, <2>1 DEF Upsert
    <3>2. TypeOK /\ OneEntryEach
      BY DEF IInv
    <3> QED BY <2>1, <3>1, <3>2, UpsertedFacts DEF Upsert
  <2>2. CASE Restart
    <3>1. table' = <<>>
      BY <2>2 DEF Restart
    <3> QED BY <3>1
  <2>3. CASE ~ Upsert /\ ~ Restart
    <3>1. table' = table
      BY <2>3 DEF Next, Bus, Web, Page, DoMerge, TakeMutex, GiveMutex, ReadCount, ReadNumber, SendRow, EndRows,
         Ask, TakeAnswer, PutRows, MoveCursor, LoseConnection, Reload
    <3> QED BY <1>0, <3>1
  <2> QED BY <2>1, <2>2, <2>3
<1>2. (count \in Merges /\ boot \in 1 .. MaxBoots /\ faults \in 0 .. MaxFaults)'
  BY <1>0 DEF Next, Bus, Web, Page, DoMerge, TakeMutex, Upsert, GiveMutex, ReadCount, ReadNumber, SendRow, EndRows,
     Ask, TakeAnswer, PutRows, MoveCursor, LoseConnection, Reload, Restart, Merges
<1>3. (bus \in [pc : {"poll", "merged", "ingest"}, todo : Seq(Devices)])'
  <2>1. CASE Upsert
    <3>1. Tail(bus.todo) \in Seq(Devices)
      BY <1>0, <2>1 DEF Upsert
    <3> QED BY <1>0, <2>1, <3>1 DEF Upsert
  <2>2. CASE DoMerge
    <3>1. PICK w \in Windows : bus' = [pc |-> "merged", todo |-> w]
      BY <2>2 DEF DoMerge
    <3> QED BY <3>1
  <2>3. CASE TakeMutex \/ GiveMutex
    BY <1>0, <2>3 DEF TakeMutex, GiveMutex
  <2>4. CASE Restart
    <3>1. <<>> \in Seq(Devices)
      OBVIOUS
    <3> QED BY <2>4, <3>1 DEF Restart
  <2>5. CASE Web \/ Page \/ LoseConnection \/ Reload
    <3>1. bus' = bus
      BY <2>5 DEF Web, Page, ReadCount, ReadNumber, SendRow, EndRows, Ask, TakeAnswer, PutRows, MoveCursor,
         LoseConnection, Reload
    <3> QED BY <1>0, <3>1
  <2> QED BY <2>1, <2>2, <2>3, <2>4, <2>5 DEF Next, Bus
<1>4. (http \in HttpStates)'
  <2>1. CASE ReadCount \/ ReadNumber \/ EndRows
    <3>1. CASE ReadCount
      <4>1. boot \in 0 .. MaxBoots /\ count \in Merges
        BY <1>0
      <4>2. http' = [http EXCEPT !.pc = "headed", !.merge = count, !.session = boot]
        BY <3>1 DEF ReadCount
      <4> QED BY <1>0, <4>1, <4>2 DEF HttpStates
    <3>2. CASE ReadNumber
      <4>1. Len(table) \in 0 .. Capacity /\ 1 \in 1 .. Capacity + 1
        BY <1>0
      <4> QED BY <1>0, <3>2, <4>1 DEF ReadNumber, Entries, HttpStates
    <3>3. CASE EndRows
      BY <1>0, <3>3 DEF EndRows, HttpStates
    <3> QED BY <2>1, <3>1, <3>2, <3>3
  <2>2. CASE SendRow
    <3> DEFINE e == table[http.i]
               r == IF NewSince(e, http.since) THEN [http.rows EXCEPT ![e.dev] = e.scan] ELSE http.rows
    <3>1. http.rows \in Rows /\ http.i \in Nat /\ http.i <= Capacity
      BY <1>0, <2>2 DEF SendRow, HttpStates
    <3>2. r \in Rows
      BY <2>2, <3>1, RowAtHand DEF Rows
    <3>3. http' = [http EXCEPT !.i = http.i + 1, !.rows = r]
      BY <1>0, <2>2 DEF SendRow, HttpStates
    <3>4. http.i + 1 \in 1 .. Capacity + 1
      BY <3>1
    <3> HIDE DEF r
    <3> QED BY <1>0, <3>2, <3>3, <3>4 DEF HttpStates
  <2>3. CASE Ask
    BY <1>0, <2>3, Idle DEF Ask, HttpStates, PageStates
  <2>4. CASE MoveCursor \/ LoseConnection \/ Reload \/ Restart
    BY <1>0, <2>4, Idle DEF MoveCursor, LoseConnection, Reload, Restart
  <2>5. CASE Bus \/ TakeAnswer \/ PutRows
    <3>1. http' = http
      BY <2>5 DEF Bus, DoMerge, TakeMutex, Upsert, GiveMutex, TakeAnswer, PutRows
    <3> QED BY <1>0, <3>1
  <2> QED BY <2>1, <2>2, <2>3, <2>4, <2>5 DEF Next, Web, Page
<1>5. (page \in PageStates)' /\ (meta \in MetaStates)'
  <2>1. http.merge \in Merges /\ http.session \in 0 .. MaxBoots /\ page.cursor \in Merges /\ 0 \in Merges
    BY <1>0, Idle DEF HttpStates, PageStates
  <2>2. CASE MoveCursor
    BY <1>0, <2>1, <2>2 DEF MoveCursor, Later, PageStates, MetaStates
  <2>3. CASE Ask \/ TakeAnswer \/ PutRows \/ Restart \/ LoseConnection \/ Reload
    BY <1>0, <2>1, <2>3 DEF Ask, TakeAnswer, PutRows, Restart, LoseConnection, Reload, PageStates, MetaStates
  <2>4. CASE Bus \/ Web
    BY <1>0, <2>4 DEF Bus, Web, DoMerge, TakeMutex, Upsert, GiveMutex, ReadCount, ReadNumber, SendRow, EndRows
  <2> QED BY <2>2, <2>3, <2>4 DEF Next, Page
<1>6. (kept \in [Devices -> RowStates])'
  <2>1. CASE TakeAnswer
    BY <1>0, <2>1, Idle DEF TakeAnswer
  <2>2. CASE PutRows
    <3>1. http.rows \in [Devices -> Merges] /\ http.session \in 0 .. MaxBoots
      BY <1>0 DEF HttpStates, Rows
    <3>2. \A d \in Devices : [life |-> http.session, scan |-> http.rows[d]] \in RowStates
      BY <3>1 DEF RowStates
    <3>3. \A d \in Devices : kept[d] \in RowStates
      BY <1>0
    <3> QED BY <2>2, <3>2, <3>3 DEF PutRows
  <2>3. CASE Next /\ ~ TakeAnswer /\ ~ PutRows
    <3>1. kept' = kept
      BY <2>3 DEF Next, Bus, Web, Page, DoMerge, TakeMutex, Upsert, GiveMutex, ReadCount, ReadNumber, SendRow, EndRows,
         Ask, MoveCursor, LoseConnection, Reload, Restart
    <3> QED BY <1>0, <3>1
  <2> QED BY <2>1, <2>2, <2>3
<1>7. (orphans \in BOOLEAN)'
  BY <1>0 DEF Next, Bus, Web, Page, DoMerge, TakeMutex, Upsert, GiveMutex, ReadCount, ReadNumber, SendRow, EndRows,
     Ask, TakeAnswer, PutRows, MoveCursor, LoseConnection, Reload, Restart
<1>8. (skipped \subseteq Merges)'
  <2>1. http.since \in Merges
    BY <1>0 DEF HttpStates
  <2> QED BY <1>0, <2>1 DEF Next, Bus, Web, Page, DoMerge, TakeMutex, Upsert, GiveMutex, ReadCount, ReadNumber, SendRow,
       EndRows, Ask, TakeAnswer, PutRows, MoveCursor, LoseConnection, Reload, Restart, Merges
<1> QED BY <1>1, <1>2, <1>3, <1>4, <1>5, <1>6, <1>7, <1>8

\* The types in the form in which the lemmas below use them.
LEMMA Typed ==
  ASSUME IInv
  PROVE  /\ http \in HttpStates /\ page \in PageStates /\ kept \in [Devices -> RowStates] /\ meta \in MetaStates
         /\ count \in Nat /\ boot \in Nat /\ boot > 0 /\ Len(table) \in Nat /\ DOMAIN table = 1 .. Len(table)
         /\ http.since \in Nat /\ http.merge \in Nat /\ http.session \in Nat /\ http.n \in Nat /\ http.i \in Nat \ {0}
         /\ http.rows \in [Devices -> Nat]
         /\ page.cursor \in Nat /\ page.session \in Nat /\ meta.cursor \in Nat /\ meta.session \in Nat
         /\ \A i \in DOMAIN table : table[i].dev \in Devices /\ table[i].scan \in Nat
         /\ \A d \in Devices : kept[d].life \in Nat /\ kept[d].scan \in Nat
<1>1. /\ http \in HttpStates /\ page \in PageStates /\ kept \in [Devices -> RowStates] /\ meta \in MetaStates
      /\ count \in Merges /\ boot \in 1 .. MaxBoots
  BY DEF IInv, TypeOK, HttpStates, PageStates, MetaStates, RowStates
<1>2. Merges \subseteq Nat /\ (0 .. MaxBoots) \subseteq Nat
  BY DeviceFeedAssumption DEF Merges
<1>3. http.rows \in [Devices -> Nat]
  BY <1>1, <1>2 DEF HttpStates, Rows
<1>4. /\ http.since \in Nat /\ http.merge \in Nat /\ http.session \in Nat /\ http.n \in Nat /\ http.i \in Nat \ {0}
      /\ page.cursor \in Nat /\ page.session \in Nat /\ meta.cursor \in Nat /\ meta.session \in Nat
  <2>1. http.since \in Nat /\ http.merge \in Nat
    BY <1>1, <1>2 DEF HttpStates
  <2>2. http.session \in Nat /\ http.n \in Nat /\ http.i \in Nat \ {0}
    BY <1>1, <1>2, DeviceFeedAssumption DEF HttpStates
  <2>3. page.cursor \in Nat /\ page.session \in Nat /\ meta.cursor \in Nat /\ meta.session \in Nat
    BY <1>1, <1>2 DEF PageStates, MetaStates
  <2> QED BY <2>1, <2>2, <2>3
<1>5. \A d \in Devices : kept[d].life \in Nat /\ kept[d].scan \in Nat
  BY <1>1, <1>2 DEF RowStates
<1>6. boot \in Nat /\ boot > 0 /\ count \in Nat
  BY <1>1, <1>2, DeviceFeedAssumption
<1>7. Len(table) \in Nat /\ DOMAIN table = 1 .. Len(table) /\ \A i \in DOMAIN table : table[i].dev \in Devices /\ table[i].scan \in Nat
  <2> DEFINE R == [dev : Devices, scan : Merges]
  <2>1. table \in Seq(R)
    BY DEF IInv, TypeOK
  <2>2. Len(table) \in Nat /\ DOMAIN table = 1 .. Len(table) /\ \A i \in DOMAIN table : table[i] \in R
    <3> HIDE DEF R
    <3> QED BY <2>1
  <2> QED BY <1>2, <2>2
<1> QED BY <1>1, <1>3, <1>4, <1>5, <1>6, <1>7

-----------------------------------------------------------------------------
(* The page, the handler and the stored cursor *)

\* Page, handler and stored cursor go on together, through lost connections, reloads and restarts.
LEMMA ConversationStep == IInv /\ Next => Conversation' /\ CursorTaken'
<1> SUFFICES ASSUME IInv, Next PROVE Conversation' /\ CursorTaken'
  OBVIOUS
<1> USE DEF brainVars, pageVars
<1>0. Conversation /\ CursorTaken
  BY DEF IInv
<1>t. /\ http \in HttpStates /\ page \in PageStates /\ meta \in MetaStates /\ boot \in Nat /\ boot > 0
      /\ page.cursor \in Nat /\ page.session \in Nat /\ http.merge \in Nat /\ http.session \in Nat
      /\ meta.session \in Nat
  BY Typed
<1> USE DEF HttpStates, PageStates, MetaStates, Answering
<1>1. ASSUME Bus PROVE Conversation' /\ CursorTaken'
  <2>1. UNCHANGED <<http, page, meta, boot, skipped>>
    BY <1>1 DEF Bus, DoMerge, TakeMutex, Upsert, GiveMutex
  <2> QED BY <1>0, <2>1 DEF Conversation, CursorTaken, CursorStays, CursorReset
<1>2. ASSUME Web PROVE Conversation' /\ CursorTaken'
  <2>1. /\ UNCHANGED <<page, meta, boot>> /\ http.pc \in {"query", "headed", "rows"} /\ http'.since = http.since
        /\ http'.pc \in {"headed", "rows", "sent"} /\ (http.pc = "query" => http'.session = boot)
        /\ (http.pc # "query" => http'.session = http.session)
    BY <1>t, <1>2 DEF Web, ReadCount, ReadNumber, SendRow, EndRows
  <2>2. page.pc = "asked"
    BY <1>0, <1>t, <2>1 DEF Conversation
  <2> QED BY <1>0, <1>t, <2>1, <2>2 DEF Conversation, CursorTaken
<1>3. ASSUME Ask PROVE Conversation' /\ CursorTaken'
  BY <1>0, <1>t, <1>3 DEF Ask, IdleHttp, Conversation, CursorTaken
<1>4. ASSUME TakeAnswer PROVE Conversation' /\ CursorTaken'
  <2>1. /\ page.pc = "asked" /\ http.pc = "sent" /\ UNCHANGED <<http, meta, boot>>
        /\ page'.pc = "put" /\ page'.session = http.session
        /\ page'.cursor = IF OtherLife THEN 0 ELSE page.cursor
        /\ skipped' = IF OtherLife THEN skipped \cup 1 .. http.since ELSE skipped
    BY <1>4 DEF TakeAnswer
  <2>2. Conversation'
    BY <1>0, <1>t, <2>1 DEF Conversation
  <2>3. CASE OtherLife
    <3>1. page'.cursor = 0 /\ skipped' = skipped \cup 1 .. http.since /\ http' = http
      BY <2>1, <2>3
    <3>2. 1 .. http'.since \subseteq skipped'
      BY <3>1
    <3>3. CursorReset'
      BY <3>1, <3>2 DEF CursorReset
    <3> QED BY <2>2, <3>3 DEF CursorTaken
  <2>4. CASE ~ OtherLife
    BY <1>0, <2>1, <2>4 DEF OtherLife, Conversation, CursorTaken, CursorStays
  <2> QED BY <2>2, <2>3, <2>4
<1>5. ASSUME PutRows PROVE Conversation' /\ CursorTaken'
  <2>1. /\ page.pc = "put" /\ page'.pc = "move" /\ page'.cursor = page.cursor /\ page'.session = page.session
        /\ UNCHANGED <<http, meta, boot, skipped>>
    BY <1>t, <1>5 DEF PutRows
  <2> QED BY <1>0, <2>1 DEF Conversation, CursorTaken, CursorStays, CursorReset
<1>6. ASSUME MoveCursor PROVE Conversation' /\ CursorTaken'
  <2>1. /\ page.pc = "move" /\ page'.pc = "idle" /\ page'.session = page.session /\ http' = IdleHttp /\ boot' = boot
        /\ meta'.cursor = page'.cursor /\ meta'.session = page.session
    BY <1>t, <1>6 DEF MoveCursor
  <2> QED BY <1>0, <1>t, <2>1 DEF Conversation, CursorTaken, IdleHttp
<1>7. ASSUME Restart PROVE Conversation' /\ CursorTaken'
  <2>1. CASE page.pc = "asked" /\ http.pc # "sent"
    <3>1. http' = IdleHttp /\ page' = [page EXCEPT !.pc = "idle"] /\ meta' = meta /\ boot' = boot + 1
      BY <1>7, <2>1 DEF Restart
    <3> QED BY <1>0, <1>t, <2>1, <3>1 DEF Conversation, CursorTaken, IdleHttp
  <2>2. CASE ~ (page.pc = "asked" /\ http.pc # "sent")
    <3>1. UNCHANGED <<http, page, meta>> /\ boot' = boot + 1
      BY <1>7, <2>2 DEF Restart
    <3>2. http.pc \in {"idle", "sent"}
      BY <1>0, <1>t, <2>2 DEF Conversation
    <3>3. Conversation'
      BY <1>0, <1>t, <3>1, <3>2 DEF Conversation
    <3>4. CursorTaken'
      BY <1>0, <1>t, <3>1, <3>2 DEF Conversation, CursorTaken, CursorStays, CursorReset
    <3> QED BY <3>3, <3>4
  <2> QED BY <2>1, <2>2
<1>8. ASSUME LoseConnection PROVE Conversation' /\ CursorTaken'
  BY <1>0, <1>t, <1>8 DEF LoseConnection, IdleHttp, Conversation, CursorTaken
<1>9. ASSUME Reload PROVE Conversation' /\ CursorTaken'
  BY <1>0, <1>t, <1>9 DEF Reload, IdleHttp, Conversation, CursorTaken
<1> QED BY <1>1, <1>2, <1>3, <1>4, <1>5, <1>6, <1>7, <1>8, <1>9 DEF Next, Page

-----------------------------------------------------------------------------
(* What an answer promises *)

\* An entry that an answer promises stays ahead of the loop or its row is under way, whatever the table does.
LEMMA AnsweredStep == IInv /\ Next => Answered'
<1> SUFFICES ASSUME IInv, Next PROVE Answered'
  OBVIOUS
<1> USE DEF brainVars, pageVars
<1>0. Answered /\ Conversation /\ OneEntryEach /\ TableCounted
  BY DEF IInv
<1>t. /\ http \in HttpStates /\ page \in PageStates /\ count \in Nat /\ boot \in Nat
      /\ Len(table) \in Nat /\ DOMAIN table = 1 .. Len(table)
      /\ http.since \in Nat /\ http.merge \in Nat /\ http.n \in Nat /\ http.i \in Nat \ {0}
      /\ http.session \in Nat /\ http.rows \in [Devices -> Nat]
      /\ \A i \in DOMAIN table : table[i].dev \in Devices /\ table[i].scan \in Nat
  BY Typed
<1>1. ASSUME DoMerge PROVE Answered'
  <2>1. UNCHANGED <<table, http, page, kept, boot, skipped>> /\ count' = count + 1
    BY <1>1 DEF DoMerge
  <2> QED BY <1>0, <1>t, <2>1 DEF Answered, Answering, Due, Promise, Has
<1>2. ASSUME TakeMutex \/ GiveMutex PROVE Answered'
  <2>1. UNCHANGED <<table, http, page, kept, boot, skipped, count>> /\ (bus.pc = "poll" => bus'.pc = "poll")
    BY <1>2 DEF TakeMutex, GiveMutex
  <2>2. bus'.pc # "poll" => bus.pc # "poll"
    BY <2>1
  <2> QED BY <1>0, <1>t, <2>1, <2>2 DEF Answered, Answering, Due, Promise, Has
<1>3. ASSUME Upsert PROVE Answered'
  <2> DEFINE d == Head(bus.todo)
  <2>1. /\ d \in Devices /\ table' = Upserted(d) /\ bus.pc # "poll"
        /\ UNCHANGED <<http, page, kept, boot, skipped, count>>
    BY <1>3 DEF IInv, Upsert, TypeOK
  <2> HIDE DEF d
  <2>2. /\ Len(table') >= Len(table)
        /\ \A i \in DOMAIN table' :
             \/ i \in DOMAIN table /\ table'[i] = table[i]
             \/ table'[i] = [dev |-> d, scan |-> count]
        /\ Len(table') \in Nat
    BY <2>1, UpsertedFacts DEF IInv
  <2>3. CASE Answering /\ http.session = boot
    <3>1. http.merge <= count /\ (count = http.merge => count \in skipped) /\ (http.pc = "rows" => http.n <= Len(table))
      BY <1>0, <2>1, <2>3 DEF Answered
    <3>2. ASSUME NEW i \in DOMAIN table', Due(i)' PROVE Promise(i)'
      <4>1. table'[i] # [dev |-> d, scan |-> count]
        BY <1>t, <2>1, <3>1, <3>2 DEF Due
      <4>2. i \in DOMAIN table /\ table'[i] = table[i]
        BY <2>2, <4>1
      <4>3. Promise(i)
        BY <1>0, <2>1, <2>3, <3>2, <4>2 DEF Answered, Due
      <4> QED BY <2>1, <4>2, <4>3 DEF Promise, Has
    <3>3. http.pc = "rows" => http.n <= Len(table')
      BY <1>t, <2>2, <3>1
    <3> QED BY <1>0, <2>1, <3>1, <3>2, <3>3 DEF Answered, Answering
  <2>4. CASE ~ (Answering /\ http.session = boot)
    BY <1>0, <2>1, <2>4 DEF Answered, Answering
  <2> QED BY <2>3, <2>4
<1>4. ASSUME ReadCount PROVE Answered'
  <2>1. /\ http.pc = "query" /\ http'.pc = "headed" /\ http'.merge = count /\ http'.session = boot
        /\ http'.since = http.since /\ http'.rows = http.rows
        /\ skipped' = (IF bus.pc = "poll" THEN skipped ELSE skipped \cup {count})
        /\ UNCHANGED <<table, count, bus, boot, page, kept>>
    BY <1>t, <1>4 DEF ReadCount, HttpStates
  <2>2. page.pc # "move"
    BY <1>0, <2>1 DEF Conversation
  <2> QED BY <1>0, <1>t, <2>1, <2>2 DEF Answered, Promise
<1>5. ASSUME ReadNumber PROVE Answered'
  <2>1. /\ http.pc = "headed" /\ http'.pc = "rows" /\ http'.n = Len(table) /\ http'.i = 1
        /\ http'.merge = http.merge /\ http'.session = http.session
        /\ http'.since = http.since /\ http'.rows = http.rows
        /\ UNCHANGED <<table, count, bus, boot, page, kept, skipped>>
    BY <1>t, <1>5 DEF ReadNumber, Entries, HttpStates
  <2>2. page.pc # "move"
    BY <1>0, <2>1 DEF Conversation
  <2> QED BY <1>0, <1>t, <2>1, <2>2 DEF Answered, Answering, Promise
<1>6. ASSUME SendRow PROVE Answered'
  <2> DEFINE e == table[http.i]
  <2>1. /\ http.pc = "rows" /\ http'.pc = "rows" /\ http.i <= http.n /\ http'.i = http.i + 1 /\ http'.n = http.n
        /\ http'.merge = http.merge /\ http'.session = http.session /\ http'.since = http.since
        /\ http'.rows = IF e.scan > http.since THEN [http.rows EXCEPT ![e.dev] = e.scan] ELSE http.rows
        /\ UNCHANGED <<table, count, bus, boot, page, kept, skipped>>
    BY <1>t, <1>6 DEF SendRow, NewSince, HttpStates
  <2>2. page.pc # "move"
    BY <1>0, <2>1 DEF Conversation
  <2>3. http.i \in DOMAIN table /\ e.dev \in Devices /\ e.scan \in Nat /\ http.session = boot
    BY <1>6, <1>t, RowAtHand
  <2> HIDE DEF e
  <2>4. \A d \in Devices : http'.rows[d] = IF e.scan > http.since /\ d = e.dev THEN e.scan ELSE http.rows[d]
    BY <1>t, <2>1, <2>3
  <2>5. \A d \in Devices : http'.rows[d] = 0 \/ http'.rows[d] > http'.since
    BY <1>0, <2>1, <2>4 DEF Answered
  <2>6. ASSUME NEW j \in DOMAIN table, Due(j)' PROVE Promise(j)'
    <3>1. Due(j) /\ Promise(j) /\ table[j].dev \in Devices
      BY <1>0, <1>t, <2>1, <2>3, <2>6 DEF Answered, Answering, Due
    <3>2. CASE j = http.i
      BY <1>t, <2>1, <2>2, <2>4, <3>1, <3>2 DEF Due, Promise, e
    <3>3. CASE j # http.i
      <4>1. table[j].dev # e.dev
        BY <1>0, <2>3, <3>3 DEF OneEntryEach, e
      <4>2. http'.rows[table[j].dev] = http.rows[table[j].dev]
        BY <2>4, <3>1, <4>1
      <4> QED BY <1>t, <2>1, <2>2, <3>1, <3>3, <4>2 DEF Promise
    <3> QED BY <3>2, <3>3
  <2> QED BY <1>0, <2>1, <2>5, <2>6 DEF Answered, Answering
<1>7. ASSUME EndRows PROVE Answered'
  <2>1. /\ http.pc = "rows" /\ http'.pc = "sent" /\ http.i > http.n
        /\ http'.merge = http.merge /\ http'.session = http.session
        /\ http'.since = http.since /\ http'.rows = http.rows
        /\ UNCHANGED <<table, count, bus, boot, page, kept, skipped>>
    BY <1>t, <1>7 DEF EndRows, HttpStates
  <2>2. page.pc # "move"
    BY <1>0, <2>1 DEF Conversation
  <2> QED BY <1>0, <1>t, <2>1, <2>2 DEF Answered, Answering, Due, Promise
<1>8. ASSUME Ask PROVE Answered'
  BY <1>8 DEF Ask, IdleHttp, NoRows, Answered, Answering
<1>9. ASSUME TakeAnswer PROVE Answered'
  <2>1. /\ page.pc = "asked" /\ page'.pc = "put" /\ http.pc = "sent" /\ skipped \subseteq skipped'
        /\ UNCHANGED <<table, count, bus, boot, http>>
    BY <1>9 DEF TakeAnswer
  <2> QED BY <1>0, <2>1 DEF Answered, Answering, Due, Promise
<1>10. ASSUME PutRows PROVE Answered'
  <2>1. /\ page.pc = "put" /\ page'.pc = "move"
        /\ \A d \in Devices :
              kept'[d] = IF http.rows[d] > 0 THEN [life |-> http.session, scan |-> http.rows[d]] ELSE kept[d]
        /\ UNCHANGED <<table, count, bus, boot, http, skipped>>
    BY <1>t, <1>10 DEF PutRows, PageStates
  <2>2. http.pc = "sent"
    BY <1>0, <2>1 DEF Conversation
  <2>3. ASSUME http.session = boot, NEW i \in DOMAIN table, Due(i) PROVE Promise(i)'
    <3>1. http.rows[table[i].dev] >= table[i].scan
      BY <1>0, <2>1, <2>2, <2>3 DEF Answered, Answering, Promise
    <3>2. http.rows[table[i].dev] > 0 /\ http.rows[table[i].dev] \in Nat /\ table[i].dev \in Devices
      BY <1>t, <2>3, <3>1 DEF Due
    <3>3. Has(table[i].dev, table[i].scan)'
      <4>1. kept'[table[i].dev] = [life |-> http.session, scan |-> http.rows[table[i].dev]]
        BY <2>1, <3>2
      <4>2. kept'[table[i].dev].life = boot /\ kept'[table[i].dev].scan >= table[i].scan
        BY <2>3, <3>1, <4>1
      <4> QED BY <2>1, <4>2 DEF Has
    <3> QED BY <2>1, <2>2, <3>3 DEF Promise
  <2> QED BY <1>0, <2>1, <2>3 DEF Answered, Answering, Due
<1>11. ASSUME MoveCursor \/ LoseConnection \/ Reload PROVE Answered'
  <2>1. http' = IdleHttp
    BY <1>11 DEF MoveCursor, LoseConnection, Reload
  <2> QED BY <2>1 DEF IdleHttp, Answered, Answering
<1>12. ASSUME Restart PROVE Answered'
  <2>1. boot' = boot + 1 /\ (http' = IdleHttp \/ http' = http)
    BY <1>12 DEF Restart
  <2>2. CASE http' = IdleHttp
    BY <2>2 DEF IdleHttp, Answered, Answering
  <2>3. CASE http' = http
    <3>1. Answering => http.session # boot'
      BY <1>0, <1>t, <2>1 DEF Conversation
    <3> QED BY <1>0, <2>3, <3>1 DEF Answered, Answering
  <2> QED BY <2>1, <2>2, <2>3
<1> QED BY <1>1, <1>2, <1>3, <1>4, <1>5, <1>6, <1>7, <1>8, <1>9, <1>10, <1>11, <1>12 DEF Next, Bus, Web, Page

-----------------------------------------------------------------------------
(* The lives of the rows *)

\* Rows of an older life are gone before rows of a newer one are stored.
LEMMA LivesStep == IInv /\ Next => Lives'
<1> SUFFICES ASSUME IInv, Next PROVE Lives'
  OBVIOUS
<1> USE DEF brainVars, pageVars
<1>0. Lives /\ Conversation
  BY DEF IInv
<1>t. /\ http \in HttpStates /\ page \in PageStates /\ kept \in [Devices -> RowStates] /\ boot \in Nat
      /\ http.session \in Nat /\ page.session \in Nat /\ meta.session \in Nat
      /\ \A d \in Devices : kept[d].life \in Nat
  BY Typed
<1>1. ASSUME Bus PROVE Lives'
  <2>1. UNCHANGED <<http, page, meta, kept, boot, orphans>>
    BY <1>1 DEF Bus, DoMerge, TakeMutex, Upsert, GiveMutex
  <2> QED BY <1>0, <2>1 DEF Lives, Answering
<1>2. ASSUME Web PROVE Lives'
  <2>1. /\ UNCHANGED <<page, meta, kept, boot, orphans>> /\ http.pc \in {"query", "headed", "rows"}
        /\ (http.pc = "query" => http'.session = boot)
        /\ (http.pc # "query" => http'.session = http.session)
    BY <1>t, <1>2 DEF Web, ReadCount, ReadNumber, SendRow, EndRows, HttpStates
  <2> QED BY <1>0, <2>1 DEF Lives, Answering
<1>3. ASSUME Ask PROVE Lives'
  <2>1. UNCHANGED <<kept, meta, boot, orphans>> /\ page.pc = "idle" /\ page'.pc = "asked" /\ http'.pc = "query"
    BY <1>t, <1>3 DEF Ask, IdleHttp, PageStates
  <2> QED BY <1>0, <2>1 DEF Lives, Answering
<1>4. ASSUME TakeAnswer PROVE Lives'
  <2>1. /\ page.pc = "asked" /\ http.pc = "sent" /\ page'.pc = "put" /\ page'.session = http.session
        /\ kept' = (IF OtherLife THEN NothingKept ELSE kept)
        /\ UNCHANGED <<http, meta, boot, orphans>>
    BY <1>4 DEF TakeAnswer
  <2>2. CASE OtherLife
    <3>1. \A d \in Devices : kept'[d].life = 0
      BY <2>1, <2>2 DEF NothingKept
    <3> QED BY <1>0, <1>t, <2>1, <3>1 DEF Lives, Answering
  <2>3. CASE ~ OtherLife
    <3>1. page.session = meta.session /\ (page.session = 0 \/ page.session = http.session)
      BY <1>0, <2>1, <2>3 DEF OtherLife, Conversation
    <3>2. kept' = kept /\ \A d \in Devices : kept[d].life <= boot /\ kept[d].life <= http.session
      BY <1>0, <2>1, <2>3 DEF Lives, Answering
    <3>3. ASSUME ~ orphans, NEW d \in Devices PROVE kept[d].life = 0 \/ (kept[d].life = http.session /\ kept[d].life >= meta.session)
      <4>1. CASE page.session = 0
        <5>1. kept = NothingKept
          BY <1>0, <2>1, <3>1, <3>3, <4>1 DEF Lives
        <5> QED BY <3>3, <5>1 DEF NothingKept
      <4>2. CASE page.session = http.session
        BY <1>0, <1>t, <3>1, <3>2, <3>3, <4>2 DEF Lives
      <4> QED BY <3>1, <4>1, <4>2
    <3> QED BY <2>1, <3>2, <3>3 DEF Lives, Answering
  <2> QED BY <2>2, <2>3
<1>5. ASSUME PutRows PROVE Lives'
  <2>1. /\ page.pc = "put" /\ page'.pc = "move" /\ page'.session = page.session
        /\ \A d \in Devices :
              kept'[d] = IF http.rows[d] > 0 THEN [life |-> http.session, scan |-> http.rows[d]] ELSE kept[d]
        /\ UNCHANGED <<boot, http, meta, orphans>>
    BY <1>t, <1>5 DEF PutRows, PageStates
  <2>2. http.pc = "sent" /\ page.session = http.session /\ meta.session <= http.session /\ http.session <= boot
    BY <1>0, <1>t, <2>1 DEF Conversation, Answering
  <2>3. \A d \in Devices : kept'[d].life = http.session \/ kept'[d].life = kept[d].life
    <3> SUFFICES ASSUME NEW d \in Devices PROVE kept'[d].life = http.session \/ kept'[d].life = kept[d].life
      OBVIOUS
    <3>1. CASE http.rows[d] > 0
      <4>1. kept'[d] = [life |-> http.session, scan |-> http.rows[d]]
        BY <2>1, <3>1
      <4> QED BY <4>1
    <3>2. CASE ~ (http.rows[d] > 0)
      BY <2>1, <3>2
    <3> QED BY <3>1, <3>2
  <2> QED BY <1>0, <1>t, <2>1, <2>2, <2>3 DEF Lives, Answering
<1>6. ASSUME MoveCursor PROVE Lives'
  <2>1. /\ page.pc = "move" /\ page'.pc = "idle" /\ http' = IdleHttp /\ meta'.session = page.session
        /\ UNCHANGED <<kept, boot, orphans>>
    BY <1>t, <1>6 DEF MoveCursor, PageStates
  <2>2. page.session # 0
    BY <1>0, <1>t, <2>1 DEF Conversation, Answering
  <2> QED BY <1>0, <1>t, <2>1, <2>2 DEF Lives, Answering, IdleHttp
<1>7. ASSUME Restart PROVE Lives'
  <2>1. /\ boot' = boot + 1 /\ UNCHANGED <<orphans, kept, meta>>
        /\ \/ http' = IdleHttp /\ page.pc = "asked" /\ page' = [page EXCEPT !.pc = "idle"]
           \/ UNCHANGED <<http, page>>
    BY <1>7 DEF Restart
  <2>2. CASE UNCHANGED <<http, page>>
    BY <1>0, <1>t, <2>1, <2>2 DEF Lives, Answering
  <2>3. CASE http' = IdleHttp /\ page.pc = "asked" /\ page' = [page EXCEPT !.pc = "idle"]
    <3>1. page'.pc = "idle" /\ http'.pc = "idle"
      BY <1>t, <2>3 DEF IdleHttp, PageStates
    <3> QED BY <1>0, <1>t, <2>1, <2>3, <3>1 DEF Lives, Answering
  <2> QED BY <2>1, <2>2, <2>3
<1>8. ASSUME LoseConnection PROVE Lives'
  <2>1. UNCHANGED <<kept, meta, boot, orphans>> /\ page.pc = "asked" /\ page'.pc = "idle" /\ http'.pc = "idle"
    BY <1>t, <1>8 DEF LoseConnection, IdleHttp, PageStates
  <2> QED BY <1>0, <2>1 DEF Lives, Answering
<1>9. ASSUME Reload PROVE Lives'
  <2>1. /\ UNCHANGED <<kept, meta, boot>> /\ page'.pc = "idle" /\ http'.pc = "idle"
        /\ (~ orphans' => ~ orphans /\ (meta.session = 0 => kept = NothingKept))
    BY <1>9 DEF Reload, IdleHttp
  <2> QED BY <1>0, <2>1 DEF Lives, Answering
<1> QED BY <1>1, <1>2, <1>3, <1>4, <1>5, <1>6, <1>7, <1>8, <1>9 DEF Next, Page

-----------------------------------------------------------------------------
(* The cursor *)

\* The cursor does not run ahead of the table, but for the merges that are skipped.
LEMMA BehindStep == IInv /\ Next => CursorBehind'
<1> SUFFICES ASSUME IInv, Next PROVE CursorBehind'
  OBVIOUS
<1> USE DEF brainVars, pageVars
<1>0. CursorBehind /\ Conversation /\ CursorTaken /\ Answered
  BY DEF IInv
<1>t. /\ count \in Nat /\ boot \in Nat /\ http.merge \in Nat /\ http.session \in Nat
      /\ page.session \in Nat /\ page.cursor \in Nat /\ meta.session \in Nat /\ meta.cursor \in Nat
      /\ page \in PageStates
  BY Typed
<1>1. ASSUME DoMerge PROVE CursorBehind'
  <2>1. UNCHANGED <<meta, boot, skipped>> /\ count' = count + 1
    BY <1>1 DEF DoMerge
  <2> QED BY <1>0, <1>t, <2>1 DEF CursorBehind
<1>2. ASSUME TakeMutex \/ Upsert \/ GiveMutex PROVE CursorBehind'
  <2>1. UNCHANGED <<meta, boot, skipped, count>> /\ (bus'.pc # "poll" => bus.pc # "poll")
    BY <1>2 DEF TakeMutex, Upsert, GiveMutex
  <2> QED BY <1>0, <2>1 DEF CursorBehind
<1>3. ASSUME Web \/ Ask \/ TakeAnswer \/ PutRows \/ LoseConnection \/ Reload PROVE CursorBehind'
  <2>1. UNCHANGED <<meta, boot, bus, count>> /\ skipped \subseteq skipped'
    BY <1>3 DEF Web, ReadCount, ReadNumber, SendRow, EndRows, Ask, TakeAnswer, PutRows, LoseConnection, Reload
  <2> QED BY <1>0, <2>1 DEF CursorBehind
<1>4. ASSUME MoveCursor PROVE CursorBehind'
  <2>1. /\ page.pc = "move" /\ meta'.session = page.session
        /\ meta'.cursor = IF http.merge >= page.cursor THEN http.merge ELSE page.cursor
        /\ UNCHANGED <<count, bus, boot, skipped>>
    BY <1>t, <1>4 DEF MoveCursor, Later, PageStates
  <2>2. SUFFICES ASSUME page.session = boot PROVE CursorBehind'
    BY <2>1 DEF CursorBehind
  <2>3. http.session = boot /\ Answering
    BY <1>0, <2>1, <2>2 DEF Conversation, Answering
  <2>4. http.merge <= count /\ (bus.pc # "poll" /\ count = http.merge => count \in skipped)
    BY <1>0, <2>3 DEF Answered
  <2>5. page.cursor <= http.merge \/ (page.cursor = meta.cursor /\ meta.session = boot)
    BY <1>0, <1>t, <2>1, <2>2 DEF CursorTaken, CursorStays, CursorReset, Conversation
  <2> QED BY <1>0, <1>t, <2>1, <2>4, <2>5 DEF CursorBehind
<1>5. ASSUME Restart PROVE CursorBehind'
  <2>1. boot' = boot + 1 /\ meta' = meta /\ meta.session <= boot
    BY <1>0, <1>5 DEF Restart, Conversation
  <2> QED BY <1>t, <2>1 DEF CursorBehind
<1> QED BY <1>1, <1>2, <1>3, <1>4, <1>5 DEF Next, Bus, Page

\* Whatever the cursor passes is in the browser.
LEMMA CursorStep == IInv /\ Next => CursorHonest'
<1> SUFFICES ASSUME IInv, Next PROVE CursorHonest'
  OBVIOUS
<1> USE DEF brainVars, pageVars
<1>0. CursorHonest /\ Conversation /\ CursorTaken /\ Answered /\ CursorBehind /\ TableCounted
  BY DEF IInv
<1>t. /\ http \in HttpStates /\ page \in PageStates /\ count \in Nat /\ boot \in Nat
      /\ http.since \in Nat /\ http.merge \in Nat /\ http.session \in Nat /\ http.rows \in [Devices -> Nat]
      /\ page.session \in Nat /\ page.cursor \in Nat /\ meta.session \in Nat /\ meta.cursor \in Nat
      /\ \A i \in DOMAIN table : table[i].dev \in Devices /\ table[i].scan \in Nat
  BY Typed
<1>1. ASSUME DoMerge \/ TakeMutex \/ GiveMutex \/ Ask PROVE CursorHonest'
  <2>1. UNCHANGED <<table, meta, kept, boot, skipped>>
    BY <1>1 DEF DoMerge, TakeMutex, GiveMutex, Ask
  <2> QED BY <1>0, <2>1 DEF CursorHonest, Has
<1>2. ASSUME Upsert PROVE CursorHonest'
  <2> DEFINE d == Head(bus.todo)
  <2>1. /\ d \in Devices /\ table' = Upserted(d) /\ bus.pc # "poll"
        /\ UNCHANGED <<meta, kept, boot, skipped, count>>
    BY <1>2 DEF IInv, Upsert, TypeOK
  <2> HIDE DEF d
  <2>2. \A i \in DOMAIN table' :
           \/ i \in DOMAIN table /\ table'[i] = table[i]
           \/ table'[i] = [dev |-> d, scan |-> count]
    BY <2>1, UpsertedFacts DEF IInv
  <2>3. ASSUME meta.session = boot, NEW i \in DOMAIN table', table'[i].scan <= meta.cursor, table'[i].scan \notin skipped
        PROVE  Has(table'[i].dev, table'[i].scan)
    <3>1. meta.cursor <= count /\ (count = meta.cursor => count \in skipped)
      BY <1>0, <2>1, <2>3 DEF CursorBehind
    <3>2. table'[i] # [dev |-> d, scan |-> count]
      BY <1>t, <2>3, <3>1
    <3> QED BY <1>0, <2>2, <2>3, <3>2 DEF CursorHonest
  <2> QED BY <2>1, <2>3 DEF CursorHonest, Has
<1>3. ASSUME Web \/ LoseConnection \/ Reload PROVE CursorHonest'
  <2>1. UNCHANGED <<table, meta, kept, boot>> /\ skipped \subseteq skipped'
    BY <1>3 DEF Web, ReadCount, ReadNumber, SendRow, EndRows, LoseConnection, Reload
  <2> QED BY <1>0, <2>1 DEF CursorHonest, Has
<1>4. ASSUME TakeAnswer PROVE CursorHonest'
  <2>1. /\ UNCHANGED <<table, meta, boot>> /\ skipped \subseteq skipped' /\ (~ OtherLife => kept' = kept)
        /\ page.pc = "asked" /\ http.pc = "sent"
    BY <1>4 DEF TakeAnswer
  <2>2. meta.session = boot => ~ OtherLife
    BY <1>0, <1>t, <2>1 DEF Conversation, OtherLife, Answering
  <2> QED BY <1>0, <2>1, <2>2 DEF CursorHonest, Has
<1>5. ASSUME PutRows PROVE CursorHonest'
  <2>1. /\ page.pc = "put"
        /\ \A d \in Devices :
              kept'[d] = IF http.rows[d] > 0 THEN [life |-> http.session, scan |-> http.rows[d]] ELSE kept[d]
        /\ UNCHANGED <<table, boot, meta, skipped>>
    BY <1>5 DEF PutRows
  <2>2. SUFFICES ASSUME meta.session = boot, NEW i \in DOMAIN table, table[i].scan <= meta.cursor, table[i].scan \notin skipped
                 PROVE  Has(table[i].dev, table[i].scan)'
    BY <2>1 DEF CursorHonest, Has
  <2>3. Has(table[i].dev, table[i].scan)
    BY <1>0, <2>2 DEF CursorHonest
  <2>4. http.session = boot /\ http.since = meta.cursor
    BY <1>0, <1>t, <2>1, <2>2 DEF Conversation, Answering
  <2> DEFINE d == table[i].dev
  <2>5. CASE http.rows[d] > 0
    <3>1. http.rows[d] > http.since /\ http.rows[d] \in Nat /\ d \in Devices
      <4>1. d \in Devices /\ http.pc = "sent"
        BY <1>0, <1>t, <2>1, <2>2 DEF Conversation
      <4> HIDE DEF d
      <4> QED BY <1>0, <1>t, <2>5, <4>1 DEF Answered
    <3>2. kept'[d] = [life |-> http.session, scan |-> http.rows[d]]
      <4> HIDE DEF d
      <4> QED BY <2>1, <2>5, <3>1
    <3>3. kept'[d].life = boot /\ kept'[d].scan >= table[i].scan
      <4>1. kept'[d].life = boot /\ kept'[d].scan = http.rows[d]
        BY <2>4, <3>2
      <4> QED BY <1>t, <2>2, <2>4, <3>1, <4>1
    <3> QED BY <2>1, <3>3 DEF Has
  <2>6. CASE ~ (http.rows[d] > 0)
    <3>1. kept'[d] = kept[d]
      BY <1>t, <2>1, <2>2, <2>6
    <3> QED BY <2>1, <2>3, <3>1 DEF Has
  <2> QED BY <2>5, <2>6
<1>6. ASSUME MoveCursor PROVE CursorHonest'
  <2>1. /\ page.pc = "move" /\ meta'.session = page.session
        /\ meta'.cursor = IF http.merge >= page.cursor THEN http.merge ELSE page.cursor
        /\ UNCHANGED <<table, boot, skipped, kept>>
    BY <1>t, <1>6 DEF MoveCursor, Later, PageStates
  <2>2. SUFFICES ASSUME page.session = boot, NEW i \in DOMAIN table, table[i].scan <= meta'.cursor, table[i].scan \notin skipped
                 PROVE  Has(table[i].dev, table[i].scan)
    BY <2>1 DEF CursorHonest, Has
  <2>3. http.session = boot /\ Answering /\ http.since = meta.cursor /\ (CursorStays \/ CursorReset)
    BY <1>0, <2>1, <2>2 DEF Conversation, CursorTaken, Answering
  <2>4. table[i].scan >= 1 /\ table[i].scan \in Nat
    BY <1>0, <1>t DEF TableCounted
  <2>5. CASE table[i].scan <= http.since
    <3>1. CASE CursorStays
      BY <1>0, <1>t, <2>2, <2>3, <2>4, <2>5, <3>1 DEF CursorStays, CursorHonest, Conversation
    <3>2. CASE CursorReset
      BY <1>t, <2>2, <2>3, <2>4, <2>5, <3>2 DEF CursorReset
    <3> QED BY <2>3, <3>1, <3>2
  <2>6. CASE table[i].scan > http.since
    <3>1. table[i].scan <= http.merge
      BY <1>t, <2>1, <2>2, <2>3, <2>4, <2>6 DEF CursorStays, CursorReset
    <3>2. Due(i)
      BY <1>t, <2>2, <2>4, <2>6, <3>1 DEF Due
    <3> QED BY <1>0, <2>1, <2>3, <3>2 DEF Answered, Promise
  <2> QED BY <1>t, <2>4, <2>5, <2>6
<1>7. ASSUME Restart PROVE CursorHonest'
  BY <1>7 DEF Restart, CursorHonest
<1> QED BY <1>1, <1>2, <1>3, <1>4, <1>5, <1>6, <1>7 DEF Next, Bus, Page

-----------------------------------------------------------------------------
(* The theorems *)

\* The inductive invariant holds.
THEOREM Invariant == Spec => []IInv
<1>1. IInv /\ [Next]_vars => IInv'
  <2> SUFFICES ASSUME IInv, [Next]_vars PROVE IInv'
    OBVIOUS
  <2>1. CASE Next
    BY <2>1, TypeStep, TableStep, ConversationStep, AnsweredStep, BehindStep, LivesStep, CursorStep DEF IInv
  <2>2. CASE UNCHANGED vars
    <3> USE <2>2 DEF vars, brainVars, pageVars
    <3>1. TypeOK' /\ TableCounted' /\ OneEntryEach'
      BY DEF IInv, TypeOK, TableCounted, OneEntryEach
    <3>2. Conversation' /\ CursorTaken'
      BY DEF IInv, Conversation, CursorTaken, CursorStays, CursorReset, Answering
    <3>3. Answered' /\ CursorBehind'
      BY DEF IInv, Answered, CursorBehind, Answering, Due, Promise, Has
    <3>4. Lives' /\ CursorHonest'
      BY DEF IInv, Lives, CursorHonest, Answering, Has
    <3> QED BY <3>1, <3>2, <3>3, <3>4 DEF IInv
  <2> QED BY <2>1, <2>2
<1> QED BY <1>1, InitIInv, PTL DEF Spec

\* Every reachable state is well-typed: dev_upsert never goes beyond DEV_MAX, devices_get never beyond the table.
THEOREM DeviceTypeCorrect == Spec => []TypeOK
<1>1. IInv => TypeOK
  BY DEF IInv
<1> QED BY <1>1, Invariant, PTL

\* dev_upsert keeps one entry per device.
THEOREM OneEntryCorrect == Spec => []OneEntryEach
<1>1. IInv => OneEntryEach
  BY DEF IInv
<1> QED BY <1>1, Invariant, PTL

\* What the stored cursor has passed is in the browser, but for the merges that are skipped.
THEOREM CursorCorrect == Spec => []CursorHonest
<1>1. IInv => CursorHonest
  BY DEF IInv
<1> QED BY <1>1, Invariant, PTL

\* Rows of different lives of the brain do not mix.
THEOREM LifeCorrect == Spec => []OneLife
<1>1. IInv => OneLife
  <2> SUFFICES ASSUME IInv, meta.session = boot, ~ orphans, NEW d \in Devices PROVE kept[d].life \in {0, boot}
    BY DEF OneLife
  <2>1. kept[d].life <= boot /\ (kept[d].life = 0 \/ kept[d].life >= boot)
    BY DEF IInv, Lives
  <2>2. kept[d].life \in Nat /\ boot \in Nat
    BY Typed
  <2> QED BY <2>1, <2>2
<1> QED BY <1>1, Invariant, PTL
=============================================================================
