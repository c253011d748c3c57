------------------------------- MODULE Archive -------------------------------
(***************************************************************************)
(* The archive of the standalone firmware on its microSD card: sd_store.c, *)
(* archive_rotate and archive_session_finish of app_main.c, and the        *)
(* handlers of download_http.c that save, delete, rename and wipe.         *)
(*                                                                         *)
(* A session is a file of records and a file of what is known about it     *)
(* (its meta).  A scan, a walk and a learning run are sessions of their    *)
(* own: archive_rotate closes one and opens the next.  The file is made    *)
(* when the first record comes.  An operation takes s_lock and the bus and *)
(* changes memory and card in several steps; those still to do are todo,   *)
(* and nobody else may touch the card until they are done.  Memory is read *)
(* without the lock, though, and power may go at any step.                 *)
(***************************************************************************)
EXTENDS Naturals, Sequences, FiniteSets, Functions

CONSTANTS
  Budgets,    \* bounds, of which a behaviour has one: [sessions, records, requests, faults].  Records are
              \* those emitted, the two of every preamble not counted; requests those of the web app, and
              \* footer commands; faults are power losses, opens, writes, syncs and renames that fail, locks
              \* not had in a second, and times the card is found full or free again
  Names,      \* names that sessions are given
  MaxCopies,  \* sessions that may have one name: 99
  MaxFails    \* SD_MAX_WRITE_FAILS

ASSUME ArchiveBoundsAssumption ==
  /\ Budgets \subseteq [sessions : Nat, records : Nat, requests : Nat, faults : Nat]
  /\ MaxCopies \in Nat \ {0} /\ MaxFails \in Nat \ {0}
ASSUME NamesAssumption == Names \cap {"segment", "none"} = {}

VARIABLES
  files,      \* the .jsonl files: id -> [recs, safe]; recs are the writes to the file, what stdio still has in
              \* its buffer with them, and safe of them are within the size on the card
  metas,      \* the .meta files: id -> [sess, records, complete]
  mounted,    \* s_st.mounted
  full,       \* s_st.full
  fails,      \* s_write_fails
  sid,        \* s_sess_id
  pending,    \* s_sess_pending
  fp,         \* the id of the file behind s_fp
  content,    \* s_sess_content
  preRecords, \* s_sess_pre_records
  records,    \* s_st.records
  sess,       \* sessions opened so far; writes are marked with the number of theirs
  todo,       \* what the holder of the bus has still to do
  holder,     \* who that is, or was last
  rot,        \* the task that changes sessions: [pc, name]
  web,        \* the task of the web server: [pc, id, live, wiping]; live: id was the one being recorded when
              \* the request looked
  budget,     \* what is left of the bounds
  saved,      \* records of each session that were written out, each in a line of its own
  removed,    \* sessions whose removal a client asked for
  crossed,    \* sessions that have met another by a new name, or a delete under way (see Crossing)
  torn,       \* sessions of which a write failed
  flags       \* what else has happened, see the properties

card    == <<files, metas>>
status  == <<mounted, full, fails>>
session == <<sid, pending, fp, content, preRecords, records, sess>>
bus     == <<todo, holder>>
history == <<saved, removed, crossed, torn, flags>>
vars == <<card, status, session, bus, rot, web, budget, history>>

NoId == <<>>
NoName == "none"

SegmentSame(n) == <<"segment", 1>>   \* the number of the segment is not in its name

Segment(n) == <<"segment", n>>

NoMeta == [sess |-> 0, records |-> 0, complete |-> FALSE]   \* an empty .meta

Pays(r, q, f) ==
  /\ budget.records >= r /\ budget.requests >= q /\ budget.faults >= f
  /\ budget' = [budget EXCEPT !.records = @ - r, !.requests = @ - q, !.faults = @ - f]
Free    == Pays(0, 0, 0)
Fault   == Pays(0, 0, 1)
Request == Pays(0, 1, 0)

\* A write of session sess.  It ends its line, and is a preamble or a record in a line of its own, or is
\* glued to what an earlier write left of a line; or it is such a piece, without a newline.  type is the
\* one that a reader finds in the line up to here: none, that of a header or codebook, or any other.
Last(recs)    == recs[Len(recs)]
Unended(recs) == recs # <<>> /\ Last(recs).kind = "piece"
Typed(recs)   == Unended(recs) /\ Last(recs).type # "none"

\* a line written behind recs
Line(recs, kind) == [sess |-> sess, kind |-> IF Unended(recs) THEN "glued" ELSE kind,
                     type |-> IF Typed(recs) THEN Last(recs).type ELSE kind]

\* what there may be of the write w behind recs when its end is lost: the type may be lost too, or cut
Pieces(recs, w) ==
  {[w EXCEPT !.kind = "piece", !.type = t] : t \in {w.type} \cup (IF Typed(recs) THEN {} ELSE {"none", "record"})}

\* What may be left of recs when stdio cannot write its buffer, and gives it up: safe of the writes are
\* certainly out.
Cuts(recs, safe) ==
  UNION {LET r == SubSeq(recs, 1, n) IN {r} \cup {Append(r, p) : p \in Pieces(r, recs[n + 1])} :
           n \in safe..(Len(recs) - 1)}

Whole(recs, s)     == {i \in DOMAIN recs : recs[i].sess = s /\ recs[i].kind # "piece"}
RecordsOf(recs, s) == {i \in DOMAIN recs : recs[i].sess = s /\ recs[i].kind = "record"}
Sessions(id)       == {files[id].recs[i].sess : i \in DOMAIN files[id].recs}

\* f with v for k
Put(f, k, v) == [j \in DOMAIN f \cup {k} |-> IF j = k THEN v ELSE f[j]]

Do(what, id)       == [do |-> what, id |-> id, to |-> NoId]
Move(what, id, to) == [do |-> what, id |-> id, to |-> to]

\* lock(), or bus_lock alone: whose turn it is on the card
Takes(task) == todo = <<>> /\ holder' = task
Busy(task)  == todo # <<>> /\ holder = task

Booting == rot.pc \in {"prune", "bootOpen", "bootHeader", "bootCodebook", "bootMark"}

WebIdle == [pc |-> "idle", id |-> NoId, live |-> FALSE, wiping |-> FALSE]
Boot    == [pc |-> "prune", name |-> NoName]

Init ==
  /\ files = <<>> /\ metas = <<>>
  /\ mounted = TRUE /\ full = FALSE /\ fails = 0
  /\ sid = NoId /\ pending = FALSE /\ fp = NoId
  /\ content = FALSE /\ preRecords = 0 /\ records = 0 /\ sess = 0
  /\ todo = <<>> /\ holder = "rot"
  /\ rot = Boot /\ web = WebIdle
  /\ budget \in Budgets
  /\ saved = <<>> /\ removed = {} /\ crossed = {} /\ torn = {} /\ flags = {}

----------------------------------------------------------------------------
(* The steps of an operation that holds the bus *)

Doing(whats) ==
  /\ todo # <<>> /\ Head(todo).do \in whats
  /\ todo' = Tail(todo) /\ holder' = holder
Id == Head(todo).id

\* What is in the file behind s_fp, and how much of it is within the size on the card.  Of a file that was
\* deleted under the hands of the writer, nothing is found again.
Written == IF fp \in DOMAIN files THEN files[fp].recs ELSE <<>>
Safe    == IF fp \in DOMAIN files THEN files[fp].safe ELSE 0

\* recs come to be in it, and with a sync within the size on the card
Puts(recs, sync) ==
  files' = IF fp \in DOMAIN files
           THEN [files EXCEPT ![fp] = [recs |-> recs, safe |-> IF sync THEN Len(recs) ELSE @.safe]]
           ELSE files

\* A call of stdio fails, for which recs may be left in the file.
Fails(recs) == Fault /\ torn' = torn \cup {sess} /\ recs \in {Written} \cup Cuts(Written, Safe)
Works(recs) == Free /\ torn' = torn /\ recs = Written

Counted(recs) == [saved EXCEPT ![sess] = IF @ > Cardinality(RecordsOf(recs, sess)) THEN @
                                         ELSE Cardinality(RecordsOf(recs, sess))]

SyncedBuffered(recs) == Puts(recs, FALSE) /\ saved' = Counted(recs)   \* fflush without fsync

Synced(recs) == Puts(recs, TRUE) /\ saved' = Counted(recs)

Open ==   \* fopen of a .jsonl to append to it
  /\ Doing({"open"})
  /\ files' = IF Id \in DOMAIN files THEN files ELSE Put(files, Id, [recs |-> <<>>, safe |-> 0])
  /\ fp' = Id /\ pending' = FALSE
  /\ UNCHANGED <<metas, status, sid, content, preRecords, records, sess, rot, web, budget, history>>

WriteLine ==   \* whether its newline can be written, or the flush after it works, nobody looks
  /\ Doing({"preamble", "record"})
  /\ LET all == Append(Written, Line(Written, Head(todo).do))
     IN \/ Free /\ torn' = torn /\ Puts(all, FALSE)
        \/ Fault /\ torn' = torn \cup {sess} /\ \E recs \in Cuts(all, Safe) : Puts(recs, FALSE)
  /\ records' = records + 1 /\ fails' = 0
  /\ content' = (content \/ records + 1 > preRecords)
  /\ UNCHANGED <<metas, mounted, full, sid, pending, fp, preRecords, sess, rot, web, saved, removed, crossed,
                 flags>>

\* the line that falls short
Shorted == Line(Written, IF holder = "rot" THEN "preamble" ELSE "record")

WriteFailsLate ==   \* one failure too many is put up with
  /\ Doing({"short"})
  /\ fails' = fails + 1 /\ torn' = torn \cup {sess}
  /\ \E recs \in Cuts(Append(Written, Shorted), Safe) : Puts(recs, fails = MaxFails)
  /\ IF fails = MaxFails
     THEN mounted' = FALSE /\ fp' = NoId
     ELSE UNCHANGED <<mounted, fp>>
  /\ UNCHANGED <<metas, full, sid, pending, content, preRecords, records, sess, rot, web, budget,
                 saved, removed, crossed, flags>>

WriteFails ==   \* a piece of the line may be in the file; after some failures the card is given up
  /\ Doing({"short"})
  /\ fails' = fails + 1 /\ torn' = torn \cup {sess}
  /\ \E recs \in Cuts(Append(Written, Shorted), Safe) : Puts(recs, fails + 1 = MaxFails)
  /\ IF fails + 1 = MaxFails
     THEN mounted' = FALSE /\ fp' = NoId
     ELSE UNCHANGED <<mounted, fp>>
  /\ UNCHANGED <<metas, full, sid, pending, content, preRecords, records, sess, rot, web, budget,
                 saved, removed, crossed, flags>>

Sync ==   \* sync_locked: nobody looks whether fflush and fsync work
  /\ Doing({"sync"})
  /\ \/ \E recs \in {Written} \cup Cuts(Written, Safe) : (Works(recs) \/ Fails(recs)) /\ Synced(recs)
     \/ \E recs \in {Written} \cup Cuts(Written, Safe) : Fails(recs) /\ Puts(recs, FALSE) /\ saved' = saved
  /\ UNCHANGED <<metas, status, session, rot, web, removed, crossed, flags>>

Close ==   \* fclose(s_fp): what could not be written is lost
  /\ Doing({"close"})
  /\ \E recs \in {Written} \cup Cuts(Written, Safe) : (Works(recs) \/ Fails(recs)) /\ Synced(recs)
  /\ fp' = NoId
  /\ UNCHANGED <<metas, status, sid, pending, content, preRecords, records, sess, rot, web,
                 removed, crossed, flags>>

WriteMeta ==   \* write_meta_locked; a file that cannot be opened stays as it was, one not written is empty
  /\ Doing({"meta", "endMeta"})
  /\ \/ /\ Free
        /\ metas' = Put(metas, Id, [sess |-> sess, records |-> records, complete |-> Head(todo).do = "endMeta"])
     \/ Fault /\ metas' \in {metas, Put(metas, Id, NoMeta)}
  /\ UNCHANGED <<files, status, session, rot, web, history>>

EditMeta ==   \* meta_rename_locked writes back what it read, with another name in it
  /\ Doing({"edit"})
  /\ \/ Free /\ metas' = metas
     \/ Fault /\ Id \in DOMAIN metas /\ metas' = [metas EXCEPT ![Id] = NoMeta]
  /\ UNCHANGED <<files, status, session, rot, web, history>>

Unlink ==
  /\ Doing({"unlink"})
  /\ files' = Restrict(files, DOMAIN files \ {Id})
  /\ UNCHANGED <<metas, status, session, rot, web, budget, history>>

UnlinkMeta ==
  /\ Doing({"unlinkMeta"})
  /\ metas' = Restrict(metas, DOMAIN metas \ {Id})
  /\ UNCHANGED <<files, status, session, rot, web, budget, history>>

Rename ==
  /\ Doing({"rename"})
  /\ files' = Put(Restrict(files, DOMAIN files \ {Id}), Head(todo).to, files[Id])
  /\ UNCHANGED <<metas, status, session, rot, web, budget, history>>

RenameMeta ==   \* FAT renames nothing to a name that exists; nobody looks at the result
  /\ Doing({"renameMeta"})
  /\ metas' = IF Head(todo).to \in DOMAIN metas THEN metas
              ELSE Put(Restrict(metas, DOMAIN metas \ {Id}), Head(todo).to, metas[Id])
  /\ UNCHANGED <<files, status, session, rot, web, budget, history>>

SetId ==
  /\ Doing({"sid"})
  /\ sid' = Id
  /\ UNCHANGED <<card, status, pending, fp, content, preRecords, records, sess, rot, web, budget, history>>

Forget ==   \* the end of sd_store_session_close
  /\ Doing({"forget"})
  /\ sid' = NoId /\ pending' = FALSE /\ content' = FALSE /\ preRecords' = 0
  /\ UNCHANGED <<card, status, fp, records, sess, rot, web, budget, history>>

DeclareKeeps ==   \* the count of records goes on
  /\ Doing({"declare"})
  /\ sid' = Id /\ pending' = TRUE /\ content' = FALSE /\ preRecords' = 0 /\ records' = records
  /\ sess' = sess + 1 /\ saved' = Append(saved, 0)
  /\ UNCHANGED <<card, status, fp, rot, web, budget, removed, crossed, torn, flags>>

Declare ==   \* the end of sd_store_session_open
  /\ Doing({"declare"})
  /\ sid' = Id /\ pending' = TRUE /\ content' = FALSE /\ preRecords' = 0 /\ records' = 0
  /\ sess' = sess + 1 /\ saved' = Append(saved, 0)
  /\ UNCHANGED <<card, status, fp, rot, web, budget, removed, crossed, torn, flags>>

RefreshFree ==   \* refresh_free finds something else than before
  /\ Doing({"free"})
  /\ IF budget.faults = 0 THEN Free /\ full' = full ELSE Fault /\ full' = ~ full
  /\ UNCHANGED <<card, mounted, fails, session, rot, web, history>>

OpStep ==
  \/ Open \/ WriteLine \/ WriteFails \/ Sync \/ Close \/ WriteMeta \/ EditMeta \/ Unlink \/ UnlinkMeta
  \/ Rename \/ RenameMeta \/ SetId \/ Forget \/ Declare \/ RefreshFree

----------------------------------------------------------------------------
(* The operations: what they find under the lock says what they do *)

Flushed == <<Do("sync", sid), Do("meta", sid)>>

\* a look at the free space that changes something
Looks == {<<>>} \cup (IF budget.faults = 0 THEN {} ELSE {<<Do("free", NoId)>>})

Recording == mounted /\ ~ full /\ (fp # NoId \/ pending)

\* sd_store_append.  The size of the file on the card is renewed with the first record, and then when 32
\* records have come and the meta is older than 30 seconds.
Appended(kind) ==
  LET made  == IF fp = NoId THEN <<Do("open", sid), Do("meta", sid)>> ELSE <<>>
      first == IF ~ content /\ records + 1 > preRecords THEN Flushed ELSE <<>>
  IN \/ /\ Pays(IF kind = "record" THEN 1 ELSE 0, 0, 0)
        /\ \E due \in {<<>>, Flushed}, look \in Looks :
             todo' = made \o <<Do(kind, NoId)>> \o first \o due \o look
     \/ Fault /\ fp = NoId /\ todo' = <<>>
     \/ Fault /\ todo' = made \o <<Do("short", NoId)>>

\* sd_store_session_close
Closed ==
  todo' = (IF fp = NoId THEN <<>>
           ELSE IF content THEN <<Do("sync", sid), Do("close", sid), Do("endMeta", sid)>>
           ELSE <<Do("close", sid), Do("unlink", sid), Do("unlinkMeta", sid)>>)
          \o <<Do("forget", NoId)>>

Deleted(id) == <<Do("unlink", id), Do("unlinkMeta", id)>>

\* unique_id_locked: the first copy of the name that no file has
FreeCopies(name) == {k \in 1..MaxCopies : <<name, k>> \notin DOMAIN files}

CanName(id, name) == name = NoName \/ <<name, 1>> = id \/ FreeCopies(name) # {}

NewId(id, name) ==
  IF name = NoName \/ <<name, 1>> = id THEN id
  ELSE <<name, CHOOSE k \in FreeCopies(name) : \A j \in FreeCopies(name) : k <= j>>

ReopenedNot(id) == <<>>   \* left to the next record, though the session is not pending

Reopened(id) == <<Do("open", id)>>

\* the sessions with records in the file, and the one being recorded if the name is its own
Owners(id) == (IF id \in DOMAIN files THEN Sessions(id) ELSE {}) \cup (IF id = sid THEN {sess} ELSE {})

\* Whose records meet others under the new name, or are deleted for them: NewId looks for the name among
\* the files, and finds it free though it is that of a session without a file, or one that a delete is under
\* way for; and the new name of a session without a file is free to the next that looks.
Crossing(id, new) ==
  IF new # id /\ ((id = sid /\ pending) \/ new = sid \/ (web.pc \in {"check", "delete"} /\ new = web.id))
  THEN Owners(id) \cup Owners(new)
  ELSE {}

\* sd_store_rename_session, asked by q requests
Named(id, name, q) ==
  LET new    == NewId(id, name)
      live   == id = sid
      moving == new # id /\ ~ (live /\ pending)
      shut   == IF moving /\ live /\ fp # NoId THEN <<Do("close", id)>> ELSE <<>>
      again(i) == IF moving /\ live THEN Reopened(i) ELSE <<>>
      moved  == IF moving
                THEN <<Move("rename", id, new)>>
                     \o (IF id \in DOMAIN metas THEN <<Move("renameMeta", id, new)>> ELSE <<>>)
                ELSE <<>>
      noted  == IF ~ live THEN <<Do("edit", new)>>
                ELSE <<Do("sid", new)>> \o (IF pending THEN <<>> ELSE <<Do("meta", new)>>)
  IN \/ /\ moving => id \in DOMAIN files
        /\ Pays(0, q, 0)
        /\ todo' = shut \o moved \o again(new) \o noted
        /\ crossed' = crossed \cup Crossing(id, new) /\ flags' = flags
     \/ /\ moving
        /\ Pays(0, q, IF id \in DOMAIN files THEN 1 ELSE 0)
        /\ todo' = shut \o again(id) /\ UNCHANGED <<crossed, flags>>
     \/ /\ moving /\ live /\ id \in DOMAIN files   \* the file is not had again
        /\ Pays(0, q, 1)
        /\ todo' = shut \o moved \o <<Do("sid", NoId)>>
        /\ crossed' = crossed \cup Crossing(id, new) /\ flags' = flags \cup {"off"}

----------------------------------------------------------------------------
(* Records, from whatever task; those that find no session open are dropped *)

Emit ==
  /\ ~ Booting /\ Takes("emit") /\ Recording
  /\ Appended("record")
  /\ UNCHANGED <<card, status, session, rot, web, history>>

----------------------------------------------------------------------------
(* archive_rotate, from the tasks that begin and end walks and learning runs; the same steps at boot *)

RotGoes(pc) == rot' = [rot EXCEPT !.pc = pc]

RotBegin ==   \* sd_store_ok is read without the lock
  /\ rot.pc = "idle" /\ ~ Busy("rot")
  /\ mounted /\ fp # NoId /\ ~ full
  /\ budget.sessions > 0
  /\ \E n \in Names \cup {NoName} : rot' = [pc |-> "close", name |-> n]
  /\ UNCHANGED <<card, status, session, bus, web, budget, history>>

Footer ==   \* the footer command finishes the session and opens none
  /\ rot.pc = "idle" /\ ~ Busy("rot") /\ ~ Booting
  /\ Request
  /\ RotGoes("footer") /\ flags' = flags \cup {"off"}
  /\ UNCHANGED <<card, status, session, bus, web, saved, removed, crossed, torn>>

RotClose ==
  /\ rot.pc \in {"close", "footer"} /\ Takes("rot")
  /\ Closed
  /\ RotGoes(IF rot.pc = "close" THEN "open" ELSE "idle")
  /\ UNCHANGED <<card, status, session, web, budget, history>>

RotOpen ==   \* sd_store_session_open
  /\ rot.pc \in {"open", "bootOpen"} /\ Takes("rot")
  /\ IF mounted /\ budget.sessions > 0
     THEN /\ todo' = (IF fp = NoId THEN <<>> ELSE <<Do("close", sid)>>) \o <<Do("declare", Segment(sess + 1))>>
          /\ budget' = [budget EXCEPT !.sessions = @ - 1]
          /\ RotGoes(IF rot.pc = "open" THEN "header" ELSE "bootHeader")
          /\ flags' = flags
     ELSE /\ todo' = todo /\ budget' = budget
          /\ rot' = [pc |-> "idle", name |-> NoName]
          /\ flags' = flags \cup {"off"}
  /\ UNCHANGED <<card, status, session, web, saved, removed, crossed, torn>>

AfterLine ==
  CASE rot.pc = "header" -> "codebook"
    [] rot.pc = "codebook" -> "mark"
    [] rot.pc = "bootHeader" -> "bootCodebook"
    [] rot.pc = "bootCodebook" -> "bootMark"

RotLine ==   \* capture_emit_header, capture_emit_codebook
  /\ rot.pc \in {"header", "codebook", "bootHeader", "bootCodebook"} /\ ~ Busy("rot")
  /\ RotGoes(AfterLine)
  /\ IF Recording
     THEN Takes("rot") /\ Appended("preamble")
     ELSE UNCHANGED bus /\ Free
  /\ UNCHANGED <<card, status, session, web, history>>

AfterMark == IF rot.name = NoName THEN "idle" ELSE "rename"

RotMark ==   \* sd_store_session_mark_preamble_end
  /\ rot.pc \in {"mark", "bootMark"} /\ todo = <<>>
  /\ preRecords' = IF content THEN preRecords ELSE records
  /\ RotGoes(AfterMark)
  /\ UNCHANGED <<card, status, sid, pending, fp, content, records, sess, bus, web, budget, history>>

RotRename ==   \* learn_begin gives the segment it has opened the name of the run
  /\ rot.pc = "rename" /\ Takes("rot")
  /\ IF mounted /\ CanName(Segment(sess), rot.name)
     THEN Named(Segment(sess), rot.name, 0)
     ELSE todo' = todo /\ Free /\ UNCHANGED <<crossed, flags>>
  /\ rot' = [pc |-> "idle", name |-> NoName]
  /\ UNCHANGED <<card, status, session, web, saved, removed, torn>>

\* lock() gives up after a second: what was to be done is not done
RotTimeout ==
  /\ todo # <<>> /\ ~ Busy("rot") /\ Fault
  /\ \/ rot.pc = "close" /\ RotGoes("open") /\ flags' = flags
     \/ rot.pc \in {"header", "codebook"} /\ RotGoes(AfterLine) /\ flags' = flags
     \/ rot.pc = "mark" /\ RotGoes(AfterMark) /\ flags' = flags
     \/ rot.pc \in {"footer", "rename"} /\ rot' = [pc |-> "idle", name |-> NoName] /\ flags' = flags
     \/ rot.pc = "open" /\ rot' = [pc |-> "idle", name |-> NoName] /\ flags' = flags \cup {"off"}
  /\ UNCHANGED <<card, status, session, bus, web, saved, removed, crossed, torn>>

----------------------------------------------------------------------------
(* The web server, one request after the other *)

WebFree == ~ Booting /\ mounted /\ web.pc = "idle" /\ ~ Busy("web")

Save ==   \* sd_store_flush; also before the session that is being recorded is read or listed
  /\ WebFree /\ Request /\ Takes("web") /\ fp # NoId
  /\ todo' = Flushed
  /\ UNCHANGED <<card, status, session, rot, web, history>>

WebRename ==
  /\ WebFree /\ Takes("web")
  /\ \E id \in DOMAIN files, n \in Names \cup {NoName} : CanName(id, n) /\ Named(id, n, 1)
  /\ UNCHANGED <<card, status, session, rot, web, saved, removed, torn>>

DeleteAsked ==   \* of a session that the page has listed
  /\ WebFree /\ Request /\ todo = <<>>
  /\ \E id \in DOMAIN files : web' = [web EXCEPT !.pc = "check", !.id = id]
  /\ UNCHANGED <<card, status, session, bus, rot, history>>

WipeAsked ==   \* s_fp is read without the lock
  /\ WebFree /\ Request /\ fp = NoId
  /\ web' = [web EXCEPT !.pc = "scan", !.wiping = TRUE]
  /\ UNCHANGED <<card, status, session, bus, rot, history>>

WipeNext ==   \* the first session the directory gives
  /\ web.pc = "scan" /\ Takes("web")
  /\ IF files = <<>>
     THEN web' = [web EXCEPT !.pc = "wiped"]
     ELSE \E id \in DOMAIN files : web' = [web EXCEPT !.pc = "check", !.id = id]
  /\ UNCHANGED <<todo, card, status, session, rot, budget, history>>

WipeLast ==   \* the index is removed, and the free space looked at
  /\ web.pc = "wiped" /\ Takes("web")
  /\ todo' \in Looks
  /\ web' = WebIdle
  /\ UNCHANGED <<card, status, session, rot, budget, history>>

Refused == web' = IF web.wiping THEN [web EXCEPT !.pc = "wiped"] ELSE WebIdle   \* which ends a wipe

DeleteCheckBlind ==   \* of any session
  /\ web.pc = "check"
  /\ IF mounted
     THEN /\ web' = [web EXCEPT !.pc = "delete", !.live = web.id = sid]
          /\ removed' = removed \cup (IF web.id \in DOMAIN files THEN Sessions(web.id) ELSE {})
     ELSE Refused /\ removed' = removed
  /\ UNCHANGED <<card, status, session, bus, rot, budget, saved, crossed, torn, flags>>

DeleteCheck ==   \* sd_store_delete_session: s_sess_id is read without the lock
  /\ web.pc = "check"
  /\ IF mounted /\ web.id # sid
     THEN /\ web' = [web EXCEPT !.pc = "delete", !.live = web.id = sid]
          /\ removed' = removed \cup (IF web.id \in DOMAIN files THEN Sessions(web.id) ELSE {})
     ELSE Refused /\ removed' = removed
  /\ UNCHANGED <<card, status, session, bus, rot, budget, saved, crossed, torn, flags>>

Delete ==
  /\ web.pc = "delete" /\ Takes("web")
  /\ IF web.id \in DOMAIN files
     THEN /\ \E look \in Looks : todo' = Deleted(web.id) \o look
          /\ web' = IF web.wiping THEN [WebIdle EXCEPT !.pc = "scan", !.wiping = TRUE] ELSE WebIdle
     ELSE todo' = todo /\ Refused
  /\ flags' = IF \/ web.id = sid /\ ~ web.live
                 \/ web.id \in DOMAIN files /\ ~ Sessions(web.id) \subseteq removed
              THEN flags \cup {"stale"} ELSE flags
  /\ UNCHANGED <<card, status, session, rot, budget, saved, removed, crossed, torn>>

----------------------------------------------------------------------------
(* Power loss, and the boot after it *)

PowerLoss ==
  /\ Fault
  /\ files' = [id \in DOMAIN files |-> [files[id] EXCEPT !.recs = SubSeq(@, 1, files[id].safe)]]
  /\ LET now == IF todo = <<>> THEN "nothing" ELSE Head(todo).do
     IN /\ \/ metas' = metas
           \/ now \in {"meta", "endMeta"} /\ metas' = Put(metas, Id, NoMeta)
           \/ now = "edit" /\ Id \in DOMAIN metas /\ metas' = [metas EXCEPT ![Id] = NoMeta]
        /\ flags' = (flags \ {"off"}) \cup (IF now \in {"unlinkMeta", "renameMeta"} THEN {"halved"} ELSE {})
  /\ mounted' = TRUE /\ fails' = 0
  /\ sid' = NoId /\ pending' = FALSE /\ fp' = NoId
  /\ content' = FALSE /\ preRecords' = 0 /\ records' = 0
  /\ todo' = <<>> /\ holder' = "rot"
  /\ rot' = Boot /\ web' = WebIdle
  /\ UNCHANGED <<full, sess, saved, removed, crossed, torn>>

\* file_has_content finds nothing but headers and codebooks: it looks at the first type of every line, and
\* takes a line that shows none for content
Empty(id) ==
  LET recs == files[id].recs
  IN \A i \in DOMAIN recs : recs[i].type = "preamble" \/ (recs[i].type = "none" /\ i # Len(recs))

Prune ==   \* sd_store_prune_empty of sd_store_init
  /\ rot.pc = "prune" /\ Takes("rot")
  /\ \/ /\ \E id \in DOMAIN files : Empty(id) /\ todo' = Deleted(id)
        /\ rot' = rot
     \/ /\ \A id \in DOMAIN files : ~ Empty(id)
        /\ todo' = todo /\ RotGoes("bootOpen")
  /\ UNCHANGED <<card, status, session, web, budget, history>>

----------------------------------------------------------------------------
Rotate == RotClose \/ RotOpen \/ RotLine \/ RotMark \/ RotRename \/ Prune
Web == WipeNext \/ WipeLast \/ DeleteCheck \/ Delete

Next ==
  \/ OpStep \/ Rotate \/ Web
  \/ Emit \/ RotBegin \/ Footer \/ RotTimeout
  \/ Save \/ WebRename \/ DeleteAsked \/ WipeAsked
  \/ PowerLoss

Spec == Init /\ [][Next]_vars
----------------------------------------------------------------------------
Kinds == {"preamble", "record", "glued", "piece"}
Types == {"preamble", "record", "none"}
IsId(id) == id = NoId \/ id \in Names \X (1..MaxCopies) \/ \E n \in 1..(sess + 1) : id = Segment(n)

\* The values of the variables: files and metas of sessions that were opened, and what is written out is
\* within what was written.
TypeOK ==
  /\ \A id \in DOMAIN files :
       /\ IsId(id)
       /\ files[id].recs \in Seq([sess : 1..sess, kind : Kinds, type : Types])
       /\ files[id].safe \in 0..Len(files[id].recs)
  /\ \A id \in DOMAIN metas :
       IsId(id) /\ metas[id] \in [sess : 0..sess, records : Nat, complete : BOOLEAN]
  /\ {mounted, full, pending, content, web.live, web.wiping} \subseteq BOOLEAN
  /\ IsId(sid) /\ IsId(fp) /\ {records, preRecords, sess} \subseteq Nat
  /\ fails \in 0..MaxFails
  /\ \A i \in DOMAIN todo : IsId(todo[i].id) /\ IsId(todo[i].to)
  /\ holder \in {"rot", "web", "emit"} /\ rot.name \in Names \cup {NoName}
  /\ web.pc \in {"idle", "check", "delete", "scan", "wiped"} /\ IsId(web.id)
  /\ budget \in [sessions : Nat, records : Nat, requests : Nat, faults : Nat]
  /\ saved \in [1..sess -> Nat] /\ removed \cup crossed \cup torn \subseteq 1..sess
  /\ flags \subseteq {"halved", "off", "stale"}

\* sync_locked, sd_store_session_close, sd_store_prune_empty: a record that was written out in a line of its
\* own stays in the archive, under whatever name, through writes that fail, power losses and the pruning at
\* boot, until a client asks for the removal of its session, unless the session got a name that met
\* another's, or a delete under way.
SavedKept ==
  \A s \in 1..sess :
    saved[s] > 0 /\ s \notin removed \cup crossed =>
      \E id \in DOMAIN files : Cardinality(RecordsOf(files[id].recs, s)) >= saved[s]

\* unique_id_locked: a file holds the records of one session, unless all of them are of sessions that got
\* a name which met another's: the name is only looked for among the files.
OneSessionPerFile ==
  \A id \in DOMAIN files : Cardinality(Sessions(id)) <= 1 \/ Sessions(id) \subseteq crossed

\* write_meta_locked and the renames: a meta that says complete tells how many lines were ended in its file,
\* or may tell more of a session of which a write, a newline or a flush failed, but never fewer; unless power
\* went between the two files of a session, or a file was deleted while it was written.
MetaTrue ==
  {"stale", "halved"} \cap flags # {} \/
  \A id \in DOMAIN files \cap DOMAIN metas : metas[id].complete =>
    LET lines == Cardinality(Whole(files[id].recs, metas[id].sess))
    IN lines <= metas[id].records /\ (lines = metas[id].records \/ metas[id].sess \in torn)

\* sd_store_delete_session, sd_store_wipe, sd_store_rename_session: the file that is being written is that
\* of the session, and is never deleted or renamed under the hands of the writer, unless its session got
\* the name between the look of a delete at the names and the delete; and a delete did hit it then.
LiveKept ==
  fp # NoId => /\ fp \in DOMAIN files \/ (sess \in crossed /\ "stale" \in flags)
               /\ todo = <<>> => fp = sid

\* archive_rotate: while the card works there is a session to write to, unless a lock was not had in time,
\* the file could not be opened again after a rename, or the footer command was given.
ArchiveOn ==
  mounted /\ rot.pc = "idle" /\ todo = <<>> => fp # NoId \/ pending \/ "off" \in flags

=============================================================================
