------------------------------ MODULE HeadFeed ------------------------------
(***************************************************************************)
(* The way of a merged window from the cluster's brain to the microSD card *)
(* of the S3 node: push_merge_to_s3 of brain_main.c, the receive ISR,      *)
(* ingest_task and status_task of head_main.c, append and flush of         *)
(* head_sd.c.                                                              *)
(*                                                                         *)
(* The brain sends a window chunk by chunk and stops at the first failed   *)
(* transfer.  The ISR drops what is damaged, and what the queue has no     *)
(* room for.  ingest_task cuts the bytes into lines; a line whose middle is*)
(* missing is given up.  Lines go to a file buffer that both ingest_task   *)
(* and status_task write out, without a lock; the counter of what is       *)
(* unwritten is part of that.  A write that fails leaves a piece of a line *)
(* in the file, and the next record goes on behind it.  Either board may   *)
(* lose its power.                                                         *)
(***************************************************************************)
EXTENDS Integers, Sequences, FiniteSets

CONSTANTS
  Layouts,      \* the windows the brain may send: [len |-> bytes, ends |-> offsets of the record ends]
  MaxPushes,    \* bound: the windows it sends
  ChunkLen,     \* CL_CHUNK_PAYLOAD
  QueueDepth,   \* of s_rxq
  LineMax,      \* sizeof s_line - 1
  FlushEvery,   \* lines that make head_sd_append flush
  MaxFaults     \* bound: transfers lost, restarts of the brain, power losses of the S3 node, failed writes,
                \* and times the card is found full or free again, all together

ASSUME LayoutsAssumption ==
  \A l \in Layouts : l.len \in Nat /\ l.ends \subseteq 0..(l.len - 1)
ASSUME SizesAssumption ==
  /\ ChunkLen \in Nat \ {0} /\ QueueDepth \in Nat \ {0}
  /\ LineMax \in Nat \ {0} /\ FlushEvery \in Nat \ {0}
ASSUME BoundsAssumption ==
  MaxPushes \in Nat /\ MaxFaults \in Nat

VARIABLES
  pushes,      \* every window sent: [num, layout]; the last is the one in s_merge_buf
  mergeCount,  \* s_merge_count of the brain
  off,         \* of the next chunk to send; Idle when no push is under way
  rxq,         \* s_rxq: chunks [push, off, len]
  pc,          \* where ingest_task is
  ch,          \* its chunk
  at,          \* offset of the next byte to feed
  curSeq,      \* cur_seq
  expOff,      \* exp_off
  line,        \* s_line
  buf,         \* writes in the buffer of s_fp: [bytes, open]
  card,        \* writes on the card
  unflushed,   \* s_unflushed
  full,        \* s_st.full
  statusPc,    \* where status_task is in head_sd_flush
  done,        \* windows whose end ingest_task has seen
  hurt,        \* windows of which something was lost on the way
  glued,       \* windows of which a record went behind what a failed write had left
  failed,      \* writes that have failed since the file was last written out
  faults       \* those that have happened

brainVars  == <<pushes, mergeCount, off>>
ingestVars == <<pc, ch, at, curSeq, expOff, line>>
sdVars     == <<buf, card, unflushed, full, glued, failed>>
vars == <<brainVars, rxq, ingestVars, sdVars, statusPc, done, hurt, faults>>

Idle == -1
NoChunk == [push |-> 0, off |-> 0, len |-> 0]

Chunk(p, o) ==
  LET rest == pushes[p].layout.len - o
  IN [push |-> p, off |-> o, len |-> IF rest > ChunkLen THEN ChunkLen ELSE rest]

Byte == [push |-> ch.push, off |-> at]
IsRecordEnd(b) == b.off \in pushes[b.push].layout.ends

\* What the card keeps, before any of this is about a file or a task.
Store == INSTANCE RecordLog WITH log <- card \o buf

Faults(n) == faults + n <= MaxFaults /\ faults' = faults + n
Fault == Faults(1)

Init ==
  /\ pushes = <<>> /\ mergeCount = 0 /\ off = Idle
  /\ rxq = <<>> /\ pc = "wait" /\ ch = NoChunk /\ at = 0
  /\ curSeq = 0 /\ expOff = 0 /\ line = <<>>
  /\ buf = <<>> /\ card = <<>> /\ unflushed = 0 /\ full = FALSE /\ statusPc = "idle"
  /\ done = {} /\ hurt = {} /\ glued = {} /\ failed = 0
  /\ faults = 0

----------------------------------------------------------------------------
(* The brain *)

Merge ==   \* do_merge, and the start of the push
  /\ off = Idle /\ Len(pushes) < MaxPushes
  /\ mergeCount' = mergeCount + 1
  /\ \E l \in Layouts : pushes' = Append(pushes, [num |-> mergeCount + 1, layout |-> l])
  /\ off' = 0
  /\ UNCHANGED <<rxq, ingestVars, sdVars, statusPc, done, hurt, faults>>

\* on_receive_cb: a chunk is queued, or dropped without a word
Queued(c, damaged) ==
  IF damaged \/ Len(rxq) = QueueDepth
  THEN rxq' = rxq /\ hurt' = hurt \cup {c.push}
  ELSE rxq' = Append(rxq, c) /\ hurt' = hurt

PushChunk ==
  /\ off # Idle
  /\ LET c == Chunk(Len(pushes), off) IN
       /\ \E damaged \in BOOLEAN :
            /\ IF damaged THEN Fault ELSE faults' = faults
            /\ Queued(c, damaged)
       /\ off' = IF c.len = 0 THEN Idle ELSE off + c.len
  /\ UNCHANGED <<pushes, mergeCount, ingestVars, sdVars, statusPc, done>>

PushFails ==   \* i2c_master_transmit fails: the rest of the window is not sent
  /\ off # Idle /\ Fault
  /\ off' = Idle /\ hurt' = hurt \cup {Len(pushes)}
  /\ UNCHANGED <<pushes, mergeCount, rxq, ingestVars, sdVars, statusPc, done>>

BrainRestarts ==
  /\ Fault
  /\ mergeCount' = 0 /\ off' = Idle
  /\ hurt' = IF off = Idle THEN hurt ELSE hurt \cup {Len(pushes)}
  /\ UNCHANGED <<pushes, rxq, ingestVars, sdVars, statusPc, done>>

----------------------------------------------------------------------------
(* ingest_task.  head_sd_append returns to what follows it at once, or after *)
(* a flush: "sync" and "clear" are the two halves of that flush, "end" what  *)
(* is left to do after the last chunk.                                       *)

Starts(c) == c.off = 0

OursAny(c) == TRUE   \* mutant: the number of the window is not compared

Ours(c) == Starts(c) \/ pushes[c.push].num = curSeq

InStepLoose(c) == ~ Starts(c)   \* mutant: a gap goes unnoticed

InStep(c) == ~ Starts(c) /\ c.off = expOff

Receive ==
  /\ pc = "wait" /\ rxq # <<>>
  /\ LET c == Head(rxq) IN
       /\ ch' = c
       /\ curSeq' = IF Starts(c) THEN pushes[c.push].num ELSE curSeq
       /\ IF Ours(c)
          THEN /\ line' = IF InStep(c) THEN line ELSE <<>>
               /\ expOff' = c.off + c.len
               /\ at' = c.off
               /\ pc' = IF c.len = 0 THEN "last" ELSE "feed"
          ELSE UNCHANGED <<line, expOff, at, pc>>
       /\ rxq' = Tail(rxq)
  /\ UNCHANGED <<brainVars, sdVars, statusPc, done, hurt, faults>>

\* ++s_unflushed against s_unflushed = 0 of the other task: the read may come before the zero and the
\* write after it
Counted ==
  /\ unflushed' = unflushed + 1
  /\ statusPc' \in {statusPc} \cup (IF statusPc = "clear" THEN {"idle"} ELSE {})

FlushDueLate == unflushed + 1 > FlushEvery   \* mutant: one line too late

FlushDue == unflushed + 1 >= FlushEvery

\* the windows of which something is in s and not in r, what is left of it
Lost(s, r) ==
  {p \in DOMAIN pushes :
     \E i \in DOMAIN s : /\ i > Len(r) \/ r[i] # s[i]
                        /\ \E k \in DOMAIN s[i].bytes : s[i].bytes[k].push = p}

LeftOpen(s) == s # <<>> /\ s[Len(s)].open

AppendSkipped(l) ==   \* the card is full
  /\ full
  /\ hurt' = hurt \cup {ch.push}
  /\ UNCHANGED <<buf, unflushed, statusPc, glued, failed, faults>>

AppendDone(l) ==
  /\ ~ full
  /\ buf' = Append(buf, Store!Whole(l))
  /\ glued' = IF LeftOpen(card \o buf) THEN glued \cup {ch.push} ELSE glued
  /\ Counted
  /\ UNCHANGED <<hurt, failed, faults>>

\* stdio gives up its buffer when it cannot write it: the line falls short and is not counted, or only its
\* newline is missing, which append does not see
AppendFails(l) ==
  /\ ~ full /\ Fault
  /\ buf' \in Store!Cuts(Append(buf, Store!Unended(l)))
  /\ hurt' = hurt \cup Lost(Append(buf, Store!Whole(l)), buf')
  /\ failed' = failed + 1
  /\ Counted \/ UNCHANGED <<unflushed, statusPc>>
  /\ UNCHANGED glued

\* head_sd_append, then on with the caller at next
Appended(l, next) ==
  /\ AppendSkipped(l) \/ AppendDone(l) \/ AppendFails(l)
  /\ pc' = IF unflushed' > unflushed /\ FlushDue THEN "sync" ELSE next

OverlongLate == Len(line) > LineMax   \* mutant: one byte too many

Overlong == Len(line) = LineMax

AfterByte == IF at + 1 = ch.off + ch.len THEN "wait" ELSE "feed"

FeedByte ==   \* feed_payload, one byte
  /\ pc = "feed" /\ at < ch.off + ch.len
  /\ at' = at + 1
  /\ IF IsRecordEnd(Byte) /\ line # <<>>
     THEN Appended(line, AfterByte)
     ELSE /\ pc' = AfterByte
          /\ hurt' = IF Overlong THEN hurt \cup {ch.push} ELSE hurt
          /\ UNCHANGED <<buf, unflushed, statusPc, glued, failed, faults>>
  /\ line' = IF IsRecordEnd(Byte) \/ Overlong THEN <<>> ELSE Append(line, Byte)
  /\ UNCHANGED <<brainVars, rxq, ch, curSeq, expOff, card, full, done>>

LastLine ==   \* the chunk without bytes: what is left in s_line is a line
  /\ pc = "last"
  /\ IF line # <<>>
     THEN Appended(line, "end")
     ELSE pc' = "end" /\ UNCHANGED <<buf, unflushed, statusPc, hurt, glued, failed, faults>>
  /\ line' = <<>>
  /\ UNCHANGED <<brainVars, rxq, ch, at, curSeq, expOff, card, full, done>>

\* head_sd_refresh_free, when ten seconds have passed since the last time
FreeRefreshed(n) == full' = IF n = 1 THEN ~ full ELSE full

\* fflush and fsync, whose results nobody looks at
Written ==
  /\ card' = card \o buf /\ buf' = <<>> /\ failed' = 0
  /\ UNCHANGED hurt

WriteFails ==
  \E r \in Store!Cuts(buf) :
    /\ hurt' = hurt \cup Lost(buf, r)
    /\ \/ card' = card \o r /\ buf' = <<>> /\ failed' = 0
       \/ card' = card /\ buf' = r /\ failed' = failed + 1

ResumedSkipping ==   \* mutant: what is left of the chunk is forgotten
  CASE pc \in {"end", "clearEnd"} -> "count"
    [] ch.len = 0 -> "end"
    [] OTHER -> "wait"

ResumedUncounted ==   \* mutant: a window that ends with a flush is not counted
  CASE pc = "end" -> "count"
    [] pc = "clearEnd" -> "wait"
    [] ch.len = 0 -> "end"
    [] at = ch.off + ch.len -> "wait"
    [] OTHER -> "feed"

\* what follows a flush: the place where append was called, or the count of the window
Resumed ==
  CASE pc \in {"end", "clearEnd"} -> "count"
    [] ch.len = 0 -> "end"
    [] at = ch.off + ch.len -> "wait"
    [] OTHER -> "feed"

IngestSync ==   \* head_sd_flush up to fsync
  /\ pc \in {"sync", "end"}
  /\ \E flips, fails \in {0, 1} :
       /\ FreeRefreshed(flips) /\ Faults(flips + fails)
       /\ IF unflushed = 0
          THEN fails = 0 /\ pc' = Resumed /\ UNCHANGED <<buf, card, hurt, failed>>
          ELSE /\ pc' = IF pc = "sync" THEN "clear" ELSE "clearEnd"
               /\ IF fails = 0 THEN Written ELSE WriteFails
  /\ UNCHANGED <<brainVars, rxq, ch, at, curSeq, expOff, line, unflushed, glued, statusPc, done>>

IngestClear ==   \* s_unflushed = 0, and back to where append was called
  /\ pc \in {"clear", "clearEnd"}
  /\ unflushed' = 0
  /\ pc' = Resumed
  /\ UNCHANGED <<brainVars, rxq, ch, at, curSeq, expOff, line, buf, card, full, glued, failed, statusPc,
                 done, hurt, faults>>

CountWindow ==   \* s_window++
  /\ pc = "count" /\ pc' = "wait"
  /\ done' = done \cup {ch.push}
  /\ UNCHANGED <<brainVars, rxq, ch, at, curSeq, expOff, line, sdVars, statusPc, hurt, faults>>

----------------------------------------------------------------------------
(* status_task, every two seconds *)

StatusSync ==
  /\ statusPc = "idle"
  /\ \E flips, fails \in {0, 1} :
       /\ FreeRefreshed(flips) /\ Faults(flips + fails)
       /\ IF unflushed = 0
          THEN fails = 0 /\ UNCHANGED <<statusPc, buf, card, hurt, failed>>
          ELSE statusPc' = "clear" /\ IF fails = 0 THEN Written ELSE WriteFails
  /\ UNCHANGED <<brainVars, rxq, ingestVars, unflushed, glued, done>>

StatusClear ==
  /\ statusPc = "clear" /\ statusPc' = "idle"
  /\ unflushed' = 0
  /\ UNCHANGED <<brainVars, rxq, ingestVars, buf, card, full, glued, failed, done, hurt, faults>>

----------------------------------------------------------------------------
\* What was not written out, and what was on its way, is gone.  The next boot has a file of its own, or, if
\* the millisecond of its name is the same, goes on in this one with the line "store opened".
PowerLoss ==
  /\ Fault
  /\ hurt' = hurt \cup Lost(buf, <<>>) \cup
               {p \in DOMAIN pushes :
                  \/ \E i \in DOMAIN rxq : rxq[i].push = p
                  \/ p = Len(pushes) /\ off # Idle
                  \/ p = ch.push /\ p \notin done}
  /\ rxq' = <<>> /\ pc' = "wait" /\ ch' = NoChunk /\ at' = 0
  /\ curSeq' = 0 /\ expOff' = 0 /\ line' = <<>>
  /\ buf' = <<>> /\ card' \in {card, Store!Shut(card)} /\ unflushed' = 0 /\ failed' = 0
  /\ statusPc' = "idle"
  /\ UNCHANGED <<brainVars, full, glued, done>>

Ingest == Receive \/ FeedByte \/ LastLine \/ IngestSync \/ IngestClear \/ CountWindow
Status == StatusSync \/ StatusClear
Brain  == Merge \/ PushChunk \/ PushFails \/ BrainRestarts

Next == Brain \/ Ingest \/ Status \/ PowerLoss

Spec == Init /\ [][Next]_vars

\* both tasks of the S3 node are scheduled, and a push that has begun goes on
FairSpec == Spec /\ WF_vars(Ingest) /\ WF_vars(Status) /\ WF_vars(PushChunk \/ PushFails)
----------------------------------------------------------------------------
Bytes == [push : DOMAIN pushes, off : Nat]
Windows == 0..MaxPushes
Writes == [bytes : Seq(Bytes), open : BOOLEAN]
Chunks == [push : Windows, off : Nat, len : 0..ChunkLen]

\* The values of the variables: chunks of windows that were sent, counters within their bounds, a line
\* that fits in s_line.
TypeOK ==
  /\ pushes \in Seq([num : 1..MaxPushes, layout : Layouts]) /\ Len(pushes) <= MaxPushes
  /\ mergeCount \in 0..Len(pushes)
  /\ off \in {Idle} \cup Nat
  /\ off # Idle => pushes # <<>> /\ off <= pushes[Len(pushes)].layout.len
  /\ rxq \in Seq([push : DOMAIN pushes, off : Nat, len : 0..ChunkLen]) /\ Len(rxq) <= QueueDepth
  /\ pc \in {"wait", "feed", "last", "sync", "clear", "end", "clearEnd", "count"}
  /\ ch \in Chunks /\ at \in Nat
  /\ pc # "wait" => ch.push \in DOMAIN pushes
  /\ curSeq \in 0..MaxPushes /\ expOff \in Nat
  /\ line \in Seq(Bytes) /\ Len(line) <= LineMax
  /\ buf \in Seq(Writes) /\ card \in Seq(Writes)
  /\ unflushed \in 0..FlushEvery /\ full \in BOOLEAN
  /\ statusPc \in {"idle", "clear"}
  /\ done \subseteq DOMAIN pushes /\ hurt \subseteq DOMAIN pushes /\ glued \subseteq DOMAIN pushes
  /\ failed \in Nat
  /\ faults \in 0..MaxFaults

\* head_sd.c, head_main.c: what reaches the card is a log of writes that are runs of bytes, in order and
\* each kept once, whatever is lost, dropped, cut off or fails on the way.
KeepsLog == Store!Spec

\* feed_payload after a gap, append after a failed write: no write holds the head of one record and the
\* tail of another.  A line of text is one write, or several where a write between them has failed.
NoSplice ==
  \A i \in DOMAIN (card \o buf) : Store!IsLine((card \o buf)[i].bytes)

\* A window of which nothing was lost on the way is on the S3 node record by record, each with its newline
\* and each in a line of text of its own, unless the write before it had failed when it was written.
Record(p, first, last) == [i \in 1..(last - first + 1) |-> [push |-> p, off |-> first + i - 1]]
IsRecord(p, first, last) ==
  LET ends == pushes[p].layout.ends
  IN /\ last + 1 \in ends
     /\ (first..last) \cap ends = {}
     /\ first = 0 \/ first - 1 \in ends
Stands(l, p, i) ==
  LET file == card \o buf
  IN /\ file[i] = Store!Whole(l)
     /\ i > 1 /\ file[i - 1].open => p \in glued
IntactWindowsWhole ==
  \A p \in done \ hurt :
    \A first, last \in 0..(pushes[p].layout.len - 1) :
      first <= last /\ IsRecord(p, first, last) =>
        \E i \in DOMAIN (card \o buf) : Stands(Record(p, first, last), p, i)

\* head_sd_append and head_sd_flush in two tasks, and a flush that zeroes the counter though it fails:
\* however they meet, a power loss takes at most twice the lines that make append flush, and as many again
\* for every write that has failed since the last one that did not.
LossBounded == Len(buf) <= 2 * FlushEvery * (1 + failed)

\* A window that is sent is counted by the S3 node (s_window), unless something of it was lost.
WindowsCounted ==
  \A p \in 1..MaxPushes : Len(pushes) >= p ~> p \in done \cup hurt
=============================================================================
