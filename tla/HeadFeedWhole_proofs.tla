------------------------- MODULE HeadFeedWhole_proofs -------------------------
(***************************************************************************)
(* For windows of any layout and number and any number of faults: a window *)
(* of which nothing was lost is on the S3 node record by record.           *)
(***************************************************************************)
EXTENDS HeadFeed_proofs

Lasting(p) == p # 0 /\ p \notin hurt   \* of window p nothing was lost so far

EndChunk(c) == c.len = 0 => c.off = pushes[c.push].layout.len

\* after chunk a, the next one is at offset o of window p
Link(a, p, o) == o = 0 \/ (a.push = p /\ a.off + a.len = o /\ a.len > 0)

\* The chunks of a window of which nothing was lost follow each other without a gap: the one last read,
\* the queue, and what the brain sends next.
Chained ==
  /\ \A i \in DOMAIN rxq :
       /\ EndChunk(rxq[i])
       /\ Lasting(rxq[i].push) =>
            Link(IF i = 1 THEN ch ELSE rxq[i - 1], rxq[i].push, rxq[i].off)
  /\ off # Idle /\ Lasting(Len(pushes)) =>
       Link(IF Len(rxq) = 0 THEN ch ELSE rxq[Len(rxq)], Len(pushes), off)

\* The chunk last read, of a window of which nothing was lost, was taken and not refused.
Heard ==
  /\ ch.push # 0 => ch.push \in DOMAIN pushes /\ EndChunk(ch)
  /\ Lasting(ch.push) => pushes[ch.push].num = curSeq /\ expOff = ch.off + ch.len
  /\ pc \in {"last", "end", "clearEnd", "count"} => ch.len = 0
  /\ pc # "wait" /\ ch.len = 0 => at = ch.off
  /\ pc = "wait" => at = ch.off + ch.len \/ ~ Lasting(ch.push)

\* at f, with the ends of records given, a record begins that goes on at o
From(f, o, ends) == (f = 0 \/ f - 1 \in ends) /\ (f..(o - 1)) \cap ends = {}

\* The line holds what was read since the last record end.
Collected ==
  Lasting(ch.push) /\ (ch.len > 0 \/ pc = "last") =>
    /\ \A f \in 0..at : From(f, at, pushes[ch.push].layout.ends) => line = Record(ch.push, f, at - 1)
    /\ \A k \in 1..Len(line) : line[k].push = ch.push

\* The records of window p, of the layout given, that end before o are in the log, each with its newline and
\* none behind an open write unless p is one of behind.
Covered(log, behind, p, layout, o) ==
  \A first, last \in 0..(layout.len - 1) :
    /\ first <= last /\ last + 1 < o /\ last + 1 \in layout.ends
    /\ (first..last) \cap layout.ends = {} /\ (first = 0 \/ first - 1 \in layout.ends)
    => \E i \in 1..Len(log) : /\ log[i] = Store!Whole(Record(p, first, last))
                              /\ i > 1 /\ log[i - 1].open => p \in behind

Whole ==
  /\ Lasting(ch.push) => Covered(Log, glued, ch.push, pushes[ch.push].layout, at)
  /\ \A p \in done \ hurt : Covered(Log, glued, p, pushes[p].layout, pushes[p].layout.len)

Intact == Chained /\ Heard /\ Collected /\ Whole

----------------------------------------------------------------------------
LEMMA WindowStays ==
  ASSUME Typed, [Next]_vars, NEW p \in DOMAIN pushes
  PROVE  p \in DOMAIN pushes' /\ pushes'[p] = pushes[p]
  BY MergeGrows, PushesStay DEF Typed

LEMMA HurtGrows ==
  ASSUME Typed, [Next]_vars
  PROVE  hurt \subseteq hurt' /\ glued \subseteq glued'
  <1>1. CASE Brain \/ PowerLoss \/ UNCHANGED vars
    BY <1>1, PushView DEF Brain, Merge, PushFails, BrainRestarts, PowerLoss, vars, sdVars
  <1>2. CASE Receive \/ FeedByte \/ LastLine \/ FlushStep
    BY <1>2, ReceiveView, FeedView, LastView, FlushView DEF sdVars
  <1>3. QED
    BY <1>1, <1>2 DEF Next, Ingest, Status, FlushStep

\* A write that has its newline stays where it is, and what is before it too, as long as nothing is lost of a
\* window that it holds a byte of.
LEMMA WriteStays ==
  ASSUME Typed, [Next]_vars, NEW i \in 1..Len(Log), ~ Log[i].open,
         NEW k \in 1..Len(Log[i].bytes), Log[i].bytes[k].push \notin hurt'
  PROVE  i \in 1..Len(Log') /\ Log'[i] = Log[i] /\ (i > 1 => Log'[i - 1] = Log[i - 1])
  <1>1. /\ Log \in Seq(Writes) /\ Len(Log) \in Nat /\ card \in Seq(Writes) /\ buf \in Seq(Writes)
        /\ Len(card) \in Nat /\ Len(buf) \in Nat /\ DOMAIN buf = 1..Len(buf)
        /\ Log[i].bytes \in Lines
    BY LogType
  <1>2. Log[i].bytes[k].push \in DOMAIN pushes /\ DOMAIN Log[i].bytes = 1..Len(Log[i].bytes)
    <2>1. Log[i].bytes \in Seq(Bytes)
      BY <1>1 DEF Lines
    <2>2. Log[i].bytes[k] \in Bytes
      BY <2>1, ElementOfSeq
    <2>3. QED
      BY <2>1, <2>2 DEF Bytes
  <1>3. /\ Len(Log) = Len(card) + Len(buf)
        /\ \A j \in 1..(Len(card) + Len(buf)) : Log[j] = IF j <= Len(card) THEN card[j] ELSE buf[j - Len(card)]
    BY <1>1, ConcatProperties DEF Log
  <1>4. i > Len(card) => /\ i - Len(card) \in 1..Len(buf) /\ Log[i] = buf[i - Len(card)]
    BY <1>1, <1>3
  <1>5. i <= Len(card) => i \in 1..Len(card) /\ Log[i] = card[i]
    BY <1>1, <1>3
  <1>6. CASE Log' = Log
    BY <1>6
  <1>7. CASE \E v \in Writes : Adds(v)
    <2>1. PICK v \in Writes : Log' = Append(Log, v)
      BY <1>7 DEF Adds
    <2>2. QED
      BY <1>1, <2>1, AppendProperties
  <1>8. CASE Crops
    <2>1. PICK r \in Store!Cuts(buf) : Log' = card \o r /\ Lost(buf, r) \subseteq hurt'
      BY <1>8 DEF Crops
    <2>2. r \in Seq(Writes) /\ Len(r) \in Nat
      BY <1>1, CutType
    <2>3. /\ Len(Log') = Len(card) + Len(r)
          /\ \A j \in 1..(Len(card) + Len(r)) : Log'[j] = IF j <= Len(card) THEN card[j] ELSE r[j - Len(card)]
      BY <1>1, <2>1, <2>2, ConcatProperties
    <2>4. i > Len(card) => i - Len(card) <= Len(r) /\ r[i - Len(card)] = Log[i]
      <3>1. SUFFICES ASSUME i > Len(card), i - Len(card) > Len(r) \/ r[i - Len(card)] # buf[i - Len(card)]
                     PROVE  FALSE
        BY <1>1, <1>4, <2>2
      <3>2. Log[i].bytes[k].push \in Lost(buf, r)
        BY <1>1, <1>2, <1>4, <3>1 DEF Lost
      <3>3. QED
        BY <2>1, <3>2
    <2>5. i \in 1..Len(Log') /\ Log'[i] = Log[i]
      <3>1. CASE i > Len(card)
        <4>1. i \in 1..(Len(card) + Len(r)) /\ ~(i <= Len(card))
          BY <1>1, <2>2, <2>4, <3>1
        <4>2. QED
          BY <2>3, <2>4, <3>1, <4>1
      <3>2. CASE ~(i > Len(card))
        <4>1. i \in 1..(Len(card) + Len(r)) /\ i <= Len(card)
          BY <1>1, <2>2, <3>2
        <4>2. QED
          BY <1>5, <2>3, <4>1
      <3>3. QED
        BY <3>1, <3>2
    <2>6. i > 1 => i - 1 \in 1..Len(Log') /\ i - 1 < Len(Log')
      BY <1>1, <2>2, <2>3, <2>5
    <2>7. QED
      BY <1>8, <2>5, <2>6, LogLost
  <1>9. CASE PowerLoss
    <2>1. card' \in {card, Store!Shut(card)} /\ buf' = <<>> /\ Lost(buf, <<>>) \subseteq hurt'
      BY <1>9 DEF PowerLoss
    <2>2. card' \in Seq(Writes) /\ Len(card') = Len(card)
      BY <1>1, <2>1, ShutType
    <2>3. Log' = card'
      BY <2>1, <2>2, ConcatEmptySeq DEF Log
    <2>4. i <= Len(card)
      <3>1. SUFFICES ASSUME i > Len(card)
                     PROVE  FALSE
        BY <1>1
      <3>2. i - Len(card) > Len(<<>>)
        BY <1>1, <3>1
      <3>3. Log[i].bytes[k].push \in Lost(buf, <<>>)
        BY <1>1, <1>2, <1>4, <3>1, <3>2 DEF Lost
      <3>4. QED
        BY <2>1, <3>3
    <2>5. card'[i] = card[i]
      BY <1>1, <1>5, <2>1, <2>4, ShutType
    <2>6. i > 1 => i - 1 \in 1..Len(Log') /\ i - 1 < Len(Log')
      BY <1>1, <1>5, <2>2, <2>3, <2>4
    <2>7. QED
      BY <1>5, <1>9, <2>2, <2>3, <2>4, <2>5, <2>6, LogLost
  <1>10. QED
    BY <1>6, <1>7, <1>8, <1>9, LogSteps

LEMMA CoveredStays ==
  ASSUME Typed, [Next]_vars, NEW p \in DOMAIN pushes, p \notin hurt', NEW layout, layout.len \in Nat,
         NEW o, Covered(Log, glued, p, layout, o)
  PROVE  Covered(Log', glued', p, layout, o)
  <1> DEFINE Is(log, behind, first, last, i) ==
               /\ log[i] = Store!Whole(Record(p, first, last))
               /\ i > 1 /\ log[i - 1].open => p \in behind
  <1>0. SUFFICES ASSUME NEW first \in 0..(layout.len - 1), NEW last \in 0..(layout.len - 1), first <= last,
                        NEW i \in 1..Len(Log), Is(Log, glued, first, last, i)
                 PROVE  i \in 1..Len(Log') /\ Is(Log', glued', first, last, i)
    <2> HIDE DEF Is
    <2>1. ASSUME NEW first \in 0..(layout.len - 1), NEW last \in 0..(layout.len - 1), first <= last,
                 \E i \in 1..Len(Log) : Is(Log, glued, first, last, i)
          PROVE  \E i \in 1..Len(Log') : Is(Log', glued', first, last, i)
      BY <2>1
    <2>2. QED
      BY <2>1 DEF Covered, Is
  <1>1. ~ Log[i].open /\ Log[i].bytes = Record(p, first, last)
    BY <1>0 DEF Store!Whole
  <1>2. 1 \in DOMAIN Log[i].bytes /\ Log[i].bytes[1].push = p
    BY <1>0, <1>1 DEF Record
  <1>3. 1 \in 1..Len(Log[i].bytes)
    <2>1. Log[i].bytes \in Lines
      BY LogType
    <2>2. QED
      BY <1>2, <2>1 DEF Lines
  <1>4. i \in 1..Len(Log') /\ Log'[i] = Log[i] /\ (i > 1 => Log'[i - 1] = Log[i - 1])
    BY <1>1, <1>2, <1>3, WriteStays
  <1>5. QED
    BY <1>0, <1>4, HurtGrows

----------------------------------------------------------------------------
(* Chained and Heard, action by action *)

\* The brain ends a window with a chunk without bytes, at its end.
LEMMA PushedChunk ==
  ASSUME Typed, PushChunk
  PROVE  \E c \in Queued1 :
         /\ off # Idle /\ off \in Nat /\ c.push = Len(pushes) /\ c.off = off /\ c.len \in Nat
         /\ EndChunk(c)
         /\ off' = Idle \/ (off' = off + c.len /\ c.len > 0)
         /\ pushes' = pushes /\ ch' = ch /\ hurt \subseteq hurt'
         /\ \/ rxq' = rxq /\ Len(pushes) \in hurt'
            \/ /\ Len(rxq') = Len(rxq) + 1 /\ DOMAIN rxq' = 1..(Len(rxq) + 1) /\ rxq'[Len(rxq) + 1] = c
               /\ \A i \in DOMAIN rxq : rxq'[i] = rxq[i]
  <1> DEFINE c == Chunk(Len(pushes), off)
  <1>1. BrainOK /\ off # Idle /\ off \in Nat /\ Len(pushes) \in DOMAIN pushes
    BY PushView, OrderTypes DEF Typed
  <1>2. c \in Queued1 /\ c.push = Len(pushes) /\ c.off = off
    BY <1>1, ChunkType
  <1>3. c.len \in Nat
    BY <1>2 DEF Queued1
  <1>4. EndChunk(c)
    <2>1. off <= pushes[Len(pushes)].layout.len /\ pushes[Len(pushes)].layout.len \in Nat
      BY <1>1, OrderTypes DEF BrainOK
    <2>2. c.len = 0 => off = pushes[Len(pushes)].layout.len
      BY <1>1, <2>1, SizesAssumption DEF Chunk
    <2>3. QED
      BY <1>2, <2>2 DEF EndChunk
  <1>5. off' = IF c.len = 0 THEN Idle ELSE off + c.len
    BY PushView
  <1>6. pushes' = pushes /\ ch' = ch /\ hurt \subseteq hurt'
    BY PushView DEF ingestVars
  <1>7. CASE rxq' = rxq /\ hurt' = hurt \cup {Len(pushes)}
    BY <1>1, <1>2, <1>3, <1>4, <1>5, <1>6, <1>7
  <1>8. CASE rxq' = Append(rxq, c)
    <2>1. rxq \in Seq(Queued1)
      BY DEF Typed, QueueOK
    <2>2. /\ Len(rxq') = Len(rxq) + 1 /\ rxq'[Len(rxq) + 1] = c /\ rxq' \in Seq(Queued1)
          /\ \A i \in 1..Len(rxq) : rxq'[i] = rxq[i]
      BY <1>2, <1>8, <2>1, AppendProperties
    <2>3. DOMAIN rxq' = 1..Len(rxq') /\ DOMAIN rxq = 1..Len(rxq)
      BY <2>1, <2>2
    <2>4. QED
      BY <1>1, <1>2, <1>3, <1>4, <1>5, <1>6, <2>2, <2>3
  <1>9. QED
    BY <1>7, <1>8, PushView

LEMMA ChainedPush ==
  ASSUME Typed, Chained, PushChunk
  PROVE  Chained'
  <1>1. PICK c \in Queued1 :
         /\ off # Idle /\ off \in Nat /\ c.push = Len(pushes) /\ c.off = off /\ c.len \in Nat
         /\ EndChunk(c)
         /\ off' = Idle \/ (off' = off + c.len /\ c.len > 0)
         /\ pushes' = pushes /\ ch' = ch /\ hurt \subseteq hurt'
         /\ \/ rxq' = rxq /\ Len(pushes) \in hurt'
            \/ /\ Len(rxq') = Len(rxq) + 1 /\ DOMAIN rxq' = 1..(Len(rxq) + 1) /\ rxq'[Len(rxq) + 1] = c
               /\ \A i \in DOMAIN rxq : rxq'[i] = rxq[i]
    BY PushedChunk
  <1>2. DOMAIN rxq = 1..Len(rxq) /\ Len(rxq) \in Nat
    BY OrderTypes
  <1>3. CASE rxq' = rxq /\ Len(pushes) \in hurt'
    BY <1>1, <1>3 DEF Chained, Lasting, EndChunk
  <1>4. CASE /\ Len(rxq') = Len(rxq) + 1 /\ DOMAIN rxq' = 1..(Len(rxq) + 1) /\ rxq'[Len(rxq) + 1] = c
             /\ \A i \in DOMAIN rxq : rxq'[i] = rxq[i]
    <2>1. ASSUME NEW i \in DOMAIN rxq
          PROVE  /\ EndChunk(rxq'[i])
                 /\ Lasting(rxq'[i].push) =>
                      Link(IF i = 1 THEN ch ELSE rxq'[i - 1], rxq'[i].push, rxq'[i].off)
      <3>1. i # 1 => i - 1 \in DOMAIN rxq
        BY <1>2
      <3>2. QED
        BY <1>4, <3>1 DEF Chained
    <2>2. Lasting(Len(pushes)) => Link(IF Len(rxq) = 0 THEN ch ELSE rxq[Len(rxq)], Len(pushes), off)
      BY <1>1 DEF Chained
    <2>3. Lasting(c.push) =>
            Link(IF Len(rxq) + 1 = 1 THEN ch ELSE rxq'[Len(rxq) + 1 - 1], c.push, c.off)
      <3>1. CASE Len(rxq) = 0
        BY <1>1, <2>2, <3>1
      <3>2. CASE Len(rxq) # 0
        <4>1. Len(rxq) \in DOMAIN rxq /\ Len(rxq) + 1 # 1 /\ Len(rxq) + 1 - 1 = Len(rxq)
          BY <1>2, <3>2
        <4>2. rxq'[Len(rxq) + 1 - 1] = rxq[Len(rxq)]
          BY <1>4, <4>1
        <4>3. QED
          BY <1>1, <2>2, <3>2, <4>1, <4>2
      <3>3. QED
        BY <3>1, <3>2
    <2>4. \A p : Lasting(p)' => Lasting(p)
      BY <1>1 DEF Lasting
    <2>5. ASSUME NEW i \in DOMAIN rxq'
          PROVE  /\ EndChunk(rxq'[i])
                 /\ Lasting(rxq'[i].push) =>
                      Link(IF i = 1 THEN ch ELSE rxq'[i - 1], rxq'[i].push, rxq'[i].off)
      <3>1. CASE i \in DOMAIN rxq
        BY <2>1, <3>1
      <3>2. CASE i \notin DOMAIN rxq
        <4>1. i = Len(rxq) + 1
          BY <1>2, <1>4, <3>2
        <4>2. QED
          BY <1>1, <1>4, <2>3, <4>1
      <3>3. QED
        BY <3>1, <3>2
    <2>6. off' # Idle => Link(c, Len(pushes), off')
      BY <1>1 DEF Link
    <2>7. Len(rxq') # 0 /\ rxq'[Len(rxq')] = c
      BY <1>2, <1>4
    <2>8. QED
      BY <1>1, <2>4, <2>5, <2>6, <2>7 DEF Chained, EndChunk, Lasting
  <1>5. QED
    BY <1>1, <1>3, <1>4

LEMMA ChainedStays ==
  ASSUME Typed, Chained, [Next]_vars
  PROVE  Chained'
  <1>1. \A p : Lasting(p)' => Lasting(p)
    BY HurtGrows DEF Lasting
  <1>2. /\ \A i \in DOMAIN rxq : rxq[i].push \in DOMAIN pushes
        /\ \A p \in DOMAIN pushes : pushes'[p] = pushes[p]
    BY OrderTypes, WindowStays
  <1>3. CASE Merge
    BY <1>1, <1>2, <1>3 DEF Merge, Chained, EndChunk, Link, ingestVars
  <1>4. CASE PushChunk
    BY <1>4, ChainedPush
  <1>5. CASE PushFails \/ BrainRestarts
    BY <1>1, <1>5 DEF PushFails, BrainRestarts, Chained, EndChunk, ingestVars
  <1>6. CASE Receive
    <2>1. UNCHANGED <<pushes, off>> /\ rxq' = Tail(rxq) /\ ch' = Head(rxq) /\ rxq # <<>>
      BY <1>6, ReceiveView DEF brainVars
    <2>2. /\ Len(rxq) \in Nat \ {0} /\ Len(rxq') = Len(rxq) - 1 /\ ch' = rxq[1]
          /\ DOMAIN rxq = 1..Len(rxq) /\ DOMAIN rxq' = 1..Len(rxq')
          /\ \A i \in 1..Len(rxq') : rxq'[i] = rxq[i + 1]
      BY <2>1, HeadType, OrderTypes
    <2>3. ASSUME NEW i \in DOMAIN rxq'
          PROVE  /\ EndChunk(rxq'[i])
                 /\ Lasting(rxq'[i].push) =>
                      Link(IF i = 1 THEN ch' ELSE rxq'[i - 1], rxq'[i].push, rxq'[i].off)
      <3>1. i + 1 \in DOMAIN rxq /\ rxq'[i] = rxq[i + 1] /\ i + 1 # 1 /\ i + 1 - 1 = i
        BY <2>2
      <3>2. (IF i = 1 THEN ch' ELSE rxq'[i - 1]) = rxq[i]
        BY <2>2
      <3>3. /\ EndChunk(rxq[i + 1])
            /\ Lasting(rxq[i + 1].push) => Link(rxq[i], rxq[i + 1].push, rxq[i + 1].off)
        <4>1. PICK j \in DOMAIN rxq : j = i + 1 /\ j # 1 /\ j - 1 = i
          BY <2>2, <3>1
        <4>2. /\ EndChunk(rxq[j])
              /\ Lasting(rxq[j].push) => Link(rxq[j - 1], rxq[j].push, rxq[j].off)
          BY <4>1 DEF Chained
        <4>3. QED
          BY <4>1, <4>2
      <3>4. QED
        BY <3>1, <3>2, <3>3
    <2>4. off # Idle /\ Lasting(Len(pushes)) =>
            Link(IF Len(rxq') = 0 THEN ch' ELSE rxq'[Len(rxq')], Len(pushes), off)
      <3>1. (IF Len(rxq') = 0 THEN ch' ELSE rxq'[Len(rxq')]) = rxq[Len(rxq)] /\ Len(rxq) # 0
        BY <2>2
      <3>2. QED
        BY <3>1 DEF Chained
    <2>5. QED
      BY <1>1, <2>1, <2>3, <2>4 DEF Chained, EndChunk
  <1>7. CASE FeedByte \/ LastLine \/ FlushStep
    <2>1. UNCHANGED <<pushes, off, rxq, ch>>
      BY <1>7, FeedView, LastView, FlushView DEF brainVars
    <2>2. QED
      BY <1>1, <2>1 DEF Chained, EndChunk
  <1>8. CASE PowerLoss
    <2>1. UNCHANGED <<pushes, off>> /\ rxq' = <<>>
      BY <1>8 DEF PowerLoss, brainVars
    <2>2. off # Idle => Len(pushes) \in hurt'
      BY <1>8, OrderTypes DEF PowerLoss
    <2>3. QED
      BY <2>1, <2>2 DEF Chained, Lasting
  <1>9. CASE UNCHANGED vars
    BY <1>1, <1>9 DEF vars, brainVars, ingestVars, Chained, EndChunk
  <1>10. QED
    BY <1>3, <1>4, <1>5, <1>6, <1>7, <1>8, <1>9 DEF Next, Brain, Ingest, Status, FlushStep

\* A chunk of a window of which nothing was lost is taken; it begins the window, or goes on where the last
\* one ended, with the line that was collected so far.
LEMMA ReceiveLasting ==
  ASSUME Typed, Chained, Heard, Receive, Lasting(ch'.push)
  PROVE  /\ curSeq' = pushes[ch'.push].num /\ expOff' = ch'.off + ch'.len /\ at' = ch'.off
         /\ pc' = IF ch'.len = 0 THEN "last" ELSE "feed"
         /\ \/ ch'.off = 0 /\ line' = <<>>
            \/ ch'.off # 0 /\ ch.push = ch'.push /\ ch.len > 0 /\ at' = at /\ line' = line
  <1> DEFINE c == Head(rxq)
  <1>1. pc = "wait" /\ rxq # <<>> /\ ch' = c
    BY ReceiveView
  <1>2. c = rxq[1] /\ 1 \in DOMAIN rxq
    BY <1>1, HeadType, OrderTypes
  <1>3. Link(ch, c.push, c.off)
    BY <1>1, <1>2 DEF Chained
  <1>4. CASE c.off = 0
    BY <1>1, <1>4 DEF Receive, Starts, Ours, InStep
  <1>5. CASE c.off # 0
    <2>1. ch.push = c.push /\ ch.off + ch.len = c.off /\ ch.len > 0
      BY <1>3, <1>5 DEF Link
    <2>2. pushes[c.push].num = curSeq /\ expOff = c.off /\ at = c.off
      BY <1>1, <2>1 DEF Heard
    <2>3. Ours(c) /\ InStep(c) /\ ~ Starts(c)
      BY <1>5, <2>2 DEF Ours, InStep, Starts
    <2>4. QED
      BY <1>1, <1>5, <2>1, <2>2, <2>3 DEF Receive
  <1>6. QED
    BY <1>4, <1>5

LEMMA FlushPlace ==
  ASSUME Typed, FlushStep
  PROVE  /\ pc' = "wait" => pc = "wait" \/ at = ch.off + ch.len \/ pc = "count"
         /\ pc' = "last" => pc = "last"
         /\ pc' \in {"end", "clearEnd", "count"} => ch.len = 0 \/ pc \in {"end", "clearEnd", "count"}
         /\ pc = "wait" => pc' = "wait"
         /\ done' = done \/ (pc = "count" /\ done' = done \cup {ch.push})
  <1>1. CASE IngestSync
    <2>1. /\ pc \in {"sync", "end"} /\ done' = done
          /\ pc' = Resumed \/ pc' = IF pc = "sync" THEN "clear" ELSE "clearEnd"
      BY <1>1 DEF IngestSync
    <2>2. QED
      BY <2>1 DEF Resumed
  <1>2. CASE IngestClear
    BY <1>2 DEF IngestClear, Resumed
  <1>3. CASE CountWindow
    BY <1>3 DEF CountWindow
  <1>4. CASE StatusSync \/ StatusClear
    BY <1>4 DEF StatusSync, StatusClear, ingestVars
  <1>5. QED
    BY <1>1, <1>2, <1>3, <1>4 DEF FlushStep

LEMMA HeardStays ==
  ASSUME Typed, Chained, Heard, [Next]_vars
  PROVE  Heard'
  <1>1. \A p : Lasting(p)' => Lasting(p)
    BY HurtGrows DEF Lasting
  <1>2. /\ \A p \in DOMAIN pushes : p \in DOMAIN pushes' /\ pushes'[p] = pushes[p]
        /\ at \in Nat /\ ch.off \in Nat /\ ch.len \in Nat
    BY OrderTypes, WindowStays
  <1>3. CASE Brain \/ UNCHANGED vars
    <2>1. UNCHANGED <<pc, ch, at, curSeq, expOff>>
      BY <1>3 DEF Brain, Merge, PushChunk, PushFails, BrainRestarts, vars, ingestVars
    <2>2. ch.push \in DOMAIN pushes => ch.push \in DOMAIN pushes' /\ pushes'[ch.push] = pushes[ch.push]
      BY <1>2
    <2>3. hurt \subseteq hurt'
      BY HurtGrows
    <2>4. QED
      BY <2>1, <2>2, <2>3 DEF Heard, EndChunk, Lasting
  <1>4. CASE Receive
    <2>1. /\ pc = "wait" /\ rxq # <<>> /\ ch' = Head(rxq) /\ pushes' = pushes
          /\ pc' \in {"wait", "last", "feed"}
          /\ pc' # "wait" => at' = ch'.off /\ (pc' = "last" <=> ch'.len = 0)
      BY <1>4, ReceiveView DEF brainVars
    <2>2. ch' = rxq[1] /\ 1 \in DOMAIN rxq
      BY <2>1, HeadType, OrderTypes
    <2>3. ch'.push \in DOMAIN pushes /\ EndChunk(ch')
      BY <2>2, OrderTypes DEF Chained
    <2>4. Lasting(ch'.push) => /\ pushes[ch'.push].num = curSeq' /\ expOff' = ch'.off + ch'.len
                               /\ pc' # "wait"
      BY <1>4, ReceiveLasting
    <2>5. /\ ch'.push \in DOMAIN pushes' /\ EndChunk(ch)'
          /\ pc' \in {"last", "end", "clearEnd", "count"} => ch'.len = 0
          /\ pc' # "wait" /\ ch'.len = 0 => at' = ch'.off
      BY <2>1, <2>3 DEF EndChunk
    <2>6. Lasting(ch.push)' => Lasting(ch'.push)
      BY HurtGrows DEF Lasting
    <2>7. QED
      BY <2>1, <2>4, <2>5, <2>6 DEF Heard
  <1>5. CASE FeedByte
    <2>1. /\ UNCHANGED <<pushes, ch, curSeq, expOff>> /\ at' = at + 1 /\ pc = "feed" /\ at < ch.off + ch.len
          /\ pc' \in {"sync", "wait", "feed"} /\ (pc' = "wait" => at' = ch.off + ch.len)
      BY <1>5, FeedView DEF brainVars, AfterByte
    <2>2. ch.len # 0
      BY <1>2, <2>1 DEF Heard
    <2>3. QED
      BY <1>1, <2>1, <2>2 DEF Heard, EndChunk
  <1>6. CASE LastLine
    <2>1. UNCHANGED <<pushes, ch, at, curSeq, expOff>> /\ pc = "last" /\ pc' \in {"sync", "end"}
      BY <1>6, LastView DEF brainVars
    <2>2. QED
      BY <1>1, <2>1 DEF Heard, EndChunk
  <1>7. CASE FlushStep
    <2>1. UNCHANGED <<pushes, ch, at, curSeq, expOff>>
      BY <1>7, FlushView DEF brainVars
    <2>2. pc = "count" => at = ch.off + ch.len
      BY <1>2 DEF Heard
    <2>3. QED
      BY <1>1, <1>7, <2>1, <2>2, FlushPlace DEF Heard, EndChunk
  <1>8. CASE PowerLoss
    BY <1>8 DEF PowerLoss, NoChunk, Heard, Lasting
  <1>9. QED
    BY <1>3, <1>4, <1>5, <1>6, <1>7, <1>8 DEF Next, Ingest, Status, FlushStep

----------------------------------------------------------------------------
(* Collected and Whole *)

LEMMA RecordType ==
  ASSUME NEW p, NEW f \in Nat, NEW o \in Nat, f <= o, NEW b, b = [push |-> p, off |-> o]
  PROVE  Append(Record(p, f, o - 1), b) = Record(p, f, o)
  <1> DEFINE r == Record(p, f, o - 1)
             r2 == Record(p, f, o)
             S == [push : {p}, off : Int]
  <1>1. r = [i \in 1..(o - f) |-> [push |-> p, off |-> f + i - 1]]
    <2>1. (o - 1) - f + 1 = o - f
      OBVIOUS
    <2>2. QED
      BY <2>1 DEF Record
  <1>2. r2 = [i \in 1..(o - f + 1) |-> [push |-> p, off |-> f + i - 1]]
    BY DEF Record
  <1>3. r \in Seq(S) /\ Len(r) = o - f
    <2>1. PICK n \in Nat : n = o - f
      OBVIOUS
    <2>2. r = [i \in 1..n |-> [push |-> p, off |-> f + i - 1]]
      BY <1>1, <2>1
    <2> HIDE DEF r
    <2>3. \A i \in 1..n : [push |-> p, off |-> f + i - 1] \in S
      OBVIOUS
    <2>4. /\ [i \in 1..n |-> [push |-> p, off |-> f + i - 1]] \in Seq(S)
          /\ Len([i \in 1..n |-> [push |-> p, off |-> f + i - 1]]) = n
      BY <2>3
    <2>5. QED
      BY <2>1, <2>2, <2>4
  <1>4. r2 \in Seq(S) /\ Len(r2) = o - f + 1
    <2>1. PICK n \in Nat : n = o - f + 1
      OBVIOUS
    <2>2. r2 = [i \in 1..n |-> [push |-> p, off |-> f + i - 1]]
      BY <1>2, <2>1
    <2> HIDE DEF r2
    <2>3. \A i \in 1..n : [push |-> p, off |-> f + i - 1] \in S
      OBVIOUS
    <2>4. /\ [i \in 1..n |-> [push |-> p, off |-> f + i - 1]] \in Seq(S)
          /\ Len([i \in 1..n |-> [push |-> p, off |-> f + i - 1]]) = n
      BY <2>3
    <2>5. QED
      BY <2>1, <2>2, <2>4
  <1>5. b \in S
    OBVIOUS
  <1> HIDE DEF r, r2
  <1>6. /\ Append(r, b) \in Seq(S) /\ Len(Append(r, b)) = o - f + 1
        /\ \A i \in 1..(o - f) : Append(r, b)[i] = r[i]
        /\ Append(r, b)[o - f + 1] = b
    BY <1>3, <1>5, AppendProperties
  <1>7. ASSUME NEW i \in 1..(o - f + 1)
        PROVE  Append(r, b)[i] = r2[i]
    <2>1. r2[i] = [push |-> p, off |-> f + i - 1]
      BY <1>2
    <2>2. CASE i \in 1..(o - f)
      <3>1. r[i] = [push |-> p, off |-> f + i - 1]
        BY <1>1, <2>2
      <3>2. Append(r, b)[i] = r[i]
        BY <1>6, <2>2
      <3>3. QED
        BY <2>1, <3>1, <3>2
    <2>3. CASE i = o - f + 1
      <3>1. f + i - 1 = o
        BY <2>3
      <3>2. QED
        BY <1>6, <2>1, <2>3, <3>1
    <2>4. i \in 1..(o - f) \/ i = o - f + 1
      OBVIOUS
    <2>5. QED
      BY <2>2, <2>3, <2>4
  <1>8. Append(r, b) = r2
    BY <1>4, <1>6, <1>7, SeqEqual
  <1>9. QED
    BY <1>8 DEF r, r2

LEMMA NoRecord == ASSUME NEW p, NEW o \in Nat PROVE Record(p, o, o - 1) = <<>>
  <1>1. o - 1 - o + 1 = 0
    OBVIOUS
  <1>2. Record(p, o, o - 1) = [i \in 1..0 |-> [push |-> p, off |-> o + i - 1]]
    BY <1>1 DEF Record
  <1>3. QED
    BY <1>2

\* A write that fails has lost something of the window, its newline if nothing else.
LEMMA SpoiltHurts ==
  ASSUME Typed, Spoilt, NEW k \in 1..Len(line), line[k].push \in DOMAIN pushes
  PROVE  line[k].push \in hurt'
  <1> DEFINE w == Store!Unended(line)
             s == Append(buf, Store!Whole(line))
             n == Len(buf) + 1
  <1>1. buf \in Seq(Writes) /\ w \in Writes /\ Store!Whole(line) \in Writes /\ line \in Lines
    BY LogType, WrittenLine
  <1>2. /\ s[n] = Store!Whole(line) /\ Len(s) = n /\ s \in Seq(Writes) /\ n \in Nat /\ n \in DOMAIN s
    BY <1>1, AppendProperties
  <1>3. /\ Append(buf, w) \in Seq(Writes) /\ Len(Append(buf, w)) = n /\ Append(buf, w)[n] = w
    BY <1>1, AppendProperties
  <1>4. /\ buf' \in Store!Cuts(Append(buf, w)) /\ hurt' = hurt \cup Lost(s, buf')
    BY DEF Spoilt
  <1> HIDE DEF s, n
  <1>5. n > Len(buf') \/ buf'[n] # s[n]
    <2>1. SUFFICES ASSUME ~(n > Len(buf'))
                   PROVE  buf'[n].open
      BY <1>2 DEF Store!Whole
    <2>2. /\ Len(buf') \in 0..n
          /\ buf' # <<>> => buf'[Len(buf')] \in Store!Rests(Append(buf, w)[Len(buf')])
      BY <1>3, <1>4, CutType
    <2>3. Len(buf') = n /\ n # 0
      BY <1>2, <2>1, <2>2 DEF n
    <2>4. buf' # <<>>
      BY <2>3
    <2>5. buf'[n] \in Store!Rests(w)
      BY <1>3, <2>2, <2>3, <2>4
    <2>6. QED
      BY <2>5 DEF Store!Rests, Store!Unended
  <1>6. k \in DOMAIN s[n].bytes /\ s[n].bytes[k] = line[k]
    BY <1>1, <1>2 DEF Store!Whole, Lines
  <1>7. line[k].push \in Lost(s, buf')
    BY <1>2, <1>5, <1>6 DEF Lost
  <1>8. QED
    BY <1>4, <1>7

\* One more byte of a window of which nothing is lost: it is collected, or the line that it ends is kept.
LEMMA FeedLasting ==
  ASSUME Typed, InOrder, Heard, Collected, FeedByte, ch'.push # 0, ch'.push \notin hurt'
  PROVE  /\ pc = "feed" /\ at' = at + 1 /\ ch' = ch /\ pushes' = pushes /\ at \in Nat
         /\ Lasting(ch.push) /\ ch.push \in DOMAIN pushes /\ ch.len > 0
         /\ \A f \in 0..at : From(f, at, pushes[ch.push].layout.ends) => line = Record(ch.push, f, at - 1)
         /\ \A k \in 1..Len(line) : line[k].push = ch.push
         /\ \/ at \notin pushes[ch.push].layout.ends /\ line' = Append(line, Byte)
            \/ /\ at \in pushes[ch.push].layout.ends /\ line' = <<>>
               /\ line # <<>> => /\ Log' = Append(Log, Store!Whole(line))
                                 /\ LeftOpen(Log) => ch.push \in glued'
  <1>1. /\ pc = "feed" /\ at' = at + 1 /\ ch' = ch /\ pushes' = pushes /\ at < ch.off + ch.len /\ card' = card
    BY FeedView DEF brainVars
  <1>2. Lasting(ch.push) /\ ch.push \notin hurt'
    <2>1. hurt \subseteq hurt'
      BY HurtGrows DEF Next, Ingest
    <2>2. QED
      BY <1>1, <2>1 DEF Lasting
  <1>3. ch.push \in DOMAIN pushes /\ at \in Nat /\ ch.off \in Nat /\ ch.len \in Nat
    BY <1>1, OrderTypes
  <1>4. ch.len > 0
    BY <1>1, <1>3 DEF Heard
  <1>5. /\ \A f \in 0..at : From(f, at, pushes[ch.push].layout.ends) => line = Record(ch.push, f, at - 1)
        /\ \A k \in 1..Len(line) : line[k].push = ch.push
    BY <1>2, <1>4 DEF Collected
  <1>6. IsRecordEnd(Byte) <=> at \in pushes[ch.push].layout.ends
    BY DEF IsRecordEnd, Byte
  <1>7. CASE IsRecordEnd(Byte)
    <2>1. line' = <<>>
      BY <1>7 DEF FeedByte
    <2>2. ASSUME line # <<>>
          PROVE  Kept
      <3>1. AppendSkipped(line) \/ AppendDone(line) \/ AppendFails(line)
        BY <1>7, <2>2 DEF FeedByte, Appended
      <3>2. ~ AppendSkipped(line)
        BY <1>2 DEF AppendSkipped
      <3>3. ~ AppendFails(line)
        <4>1. SUFFICES ASSUME AppendFails(line)
                       PROVE  FALSE
          OBVIOUS
        <4>2. Spoilt
          BY <4>1 DEF AppendFails, Spoilt, Counted
        <4>3. 1 \in 1..Len(line) /\ line[1].push = ch.push
          BY <1>5, <2>2, LogType, LastByteType
        <4>4. ch.push \in hurt'
          BY <1>3, <4>2, <4>3, SpoiltHurts
        <4>5. QED
          BY <1>2, <4>4
      <3>4. QED
        BY <3>1, <3>2, <3>3 DEF AppendDone, Kept, Counted, Log
    <2>3. ASSUME line # <<>>
          PROVE  Log' = Append(Log, Store!Whole(line)) /\ (LeftOpen(Log) => ch.push \in glued')
      <3>1. Kept /\ Adds(Store!Whole(line))
        BY <1>1, <2>1, <2>2, <2>3, LogKept
      <3>2. QED
        BY <3>1 DEF Adds, Kept
    <2>4. QED
      BY <1>1, <1>2, <1>3, <1>4, <1>5, <1>6, <1>7, <2>1, <2>3
  <1>8. CASE ~ IsRecordEnd(Byte)
    <2>1. ~ Overlong
      BY <1>2, <1>8 DEF FeedByte
    <2>2. line' = Append(line, Byte)
      BY <1>8, <2>1 DEF FeedByte
    <2>3. QED
      BY <1>1, <1>2, <1>3, <1>4, <1>5, <1>6, <1>8, <2>2
  <1>9. QED
    BY <1>7, <1>8

LEMMA CollectedFeed ==
  ASSUME Typed, InOrder, Heard, Collected, FeedByte
  PROVE  Collected'
  <1>0. ASSUME ch'.push # 0, ch'.push \notin hurt', NEW k \in 1..Len(line')
        PROVE  line'[k].push = ch'.push
    <2>1. ch' = ch /\ \A j \in 1..Len(line) : line[j].push = ch.push
      BY <1>0, FeedLasting
    <2>2. line' = Append(line, Byte) \/ line' = <<>>
      BY <1>0, FeedLasting
    <2>3. CASE line' = Append(line, Byte)
      <3>1. line \in Seq(Bytes) /\ Byte \in Bytes
        BY <1>0, FeedLasting, LogType DEF Byte, Bytes, Lines
      <3>2. Len(line') = Len(line) + 1 /\ line'[Len(line) + 1] = Byte /\ Len(line) \in Nat
            /\ \A j \in 1..Len(line) : line'[j] = line[j]
        BY <2>3, <3>1, AppendProperties
      <3>3. k \in 1..Len(line) \/ k = Len(line) + 1
        BY <3>2
      <3>4. QED
        BY <2>1, <3>2, <3>3 DEF Byte
    <2>4. CASE line' = <<>>
      BY <2>4
    <2>5. QED
      BY <2>2, <2>3, <2>4
  <1> SUFFICES ASSUME ch'.push # 0, ch'.push \notin hurt', NEW f \in 0..at',
                      From(f, at', pushes'[ch'.push].layout.ends)
               PROVE  line' = Record(ch'.push, f, at' - 1)
    BY <1>0 DEF Collected, Lasting
  <1> DEFINE ends == pushes[ch.push].layout.ends
  <1>1. /\ at' = at + 1 /\ ch' = ch /\ pushes' = pushes /\ at \in Nat
        /\ \A g \in 0..at : From(g, at, ends) => line = Record(ch.push, g, at - 1)
    BY FeedLasting
  <1>2. f \in Nat /\ f <= at + 1 /\ at + 1 - 1 = at
    BY <1>1
  <1>3. (f = 0 \/ f - 1 \in ends) /\ (f..at) \cap ends = {}
    BY <1>1, <1>2 DEF From
  <1>4. CASE at \notin ends /\ line' = Append(line, Byte)
    <2>1. f # at + 1
      <3>1. f - 1 = at => f = 0
        BY <1>3, <1>4
      <3>2. QED
        BY <1>1, <1>2, <3>1
    <2>2. f \in 0..at /\ f <= at
      BY <1>1, <1>2, <2>1
    <2>3. From(f, at, ends)
      BY <1>1, <1>2, <1>3 DEF From
    <2>4. line = Record(ch.push, f, at - 1)
      BY <1>1, <2>2, <2>3
    <2>5. Append(line, Byte) = Record(ch.push, f, at)
      BY <1>1, <1>2, <2>2, <2>4, RecordType DEF Byte
    <2>6. QED
      BY <1>1, <1>2, <1>4, <2>5
  <1>5. CASE at \in ends /\ line' = <<>>
    <2>1. f = at + 1
      BY <1>1, <1>2, <1>3, <1>5
    <2>2. Record(ch.push, f, f - 1) = <<>>
      BY <1>2, NoRecord
    <2>3. QED
      BY <1>1, <1>2, <1>5, <2>1, <2>2
  <1>6. QED
    BY <1>4, <1>5, FeedLasting

LEMMA CollectedStays ==
  ASSUME Typed, InOrder, Chained, Heard, Collected, [Next]_vars
  PROVE  Collected'
  <1>1. /\ \A p \in DOMAIN pushes : pushes'[p] = pushes[p]
        /\ hurt \subseteq hurt'
        /\ Lasting(ch.push) => ch.push \in DOMAIN pushes
    BY WindowStays, HurtGrows DEF Heard, Lasting
  <1>2. ASSUME UNCHANGED <<ch, at, line>>, pc' = "last" => pc = "last"
        PROVE  Collected'
    <2>1. SUFFICES ASSUME ch.push # 0, ch.push \notin hurt', ch.len > 0 \/ pc' = "last"
                   PROVE  /\ \A f \in 0..at : From(f, at, pushes'[ch.push].layout.ends) =>
                                                line = Record(ch.push, f, at - 1)
                          /\ \A k \in 1..Len(line) : line[k].push = ch.push
      BY <1>2 DEF Collected, Lasting
    <2>2. Lasting(ch.push) /\ pushes'[ch.push] = pushes[ch.push]
      BY <1>1, <1>2, <2>1 DEF Lasting
    <2>3. QED
      BY <1>2, <2>1, <2>2 DEF Collected
  <1>3. CASE Brain \/ UNCHANGED vars
    <2>1. UNCHANGED <<ch, at, line, pc>>
      BY <1>3 DEF Brain, Merge, PushChunk, PushFails, BrainRestarts, vars, ingestVars
    <2>2. QED
      BY <1>2, <2>1
  <1>4. CASE Receive
    <2>1. SUFFICES ASSUME ch'.push # 0, ch'.push \notin hurt'
                   PROVE  /\ \A f \in 0..at' : From(f, at', pushes'[ch'.push].layout.ends) =>
                                                 line' = Record(ch'.push, f, at' - 1)
                          /\ \A k \in 1..Len(line') : line'[k].push = ch'.push
      BY DEF Collected, Lasting
    <2>2. pushes' = pushes /\ Lasting(ch'.push)
      BY <1>1, <1>4, <2>1, ReceiveView DEF brainVars, Lasting
    <2>3. at' = ch'.off
      BY <1>4, <2>2, ReceiveLasting
    <2>4. CASE ch'.off = 0 /\ line' = <<>>
      <3>1. \A f \in 0..at' : f = 0
        BY <2>3, <2>4
      <3>2. Record(ch'.push, 0, 0 - 1) = <<>>
        BY NoRecord
      <3>3. Len(<<>>) = 0
        OBVIOUS
      <3>4. QED
        BY <2>3, <2>4, <3>1, <3>2, <3>3
    <2>5. CASE ch.push = ch'.push /\ ch.len > 0 /\ at' = at /\ line' = line
      <3>1. Lasting(ch.push)
        BY <2>1, <2>2, <2>5
      <3>2. QED
        BY <2>1, <2>2, <2>5, <3>1 DEF Collected
    <2>6. QED
      BY <1>4, <2>2, <2>4, <2>5, ReceiveLasting
  <1>5. CASE FeedByte
    BY <1>5, CollectedFeed
  <1>6. CASE LastLine
    <2>1. ch' = ch /\ pc = "last" /\ pc' # "last"
      BY <1>6, LastView
    <2>2. QED
      BY <2>1 DEF Collected, Heard
  <1>7. CASE FlushStep
    BY <1>2, <1>7, FlushView, FlushPlace
  <1>8. CASE PowerLoss
    BY <1>8 DEF PowerLoss, NoChunk, Collected, Lasting
  <1>9. QED
    BY <1>3, <1>4, <1>5, <1>6, <1>7, <1>8 DEF Next, Ingest, Status, FlushStep

\* The byte that ends a record keeps it: with at, the records that are in the log go on.
LEMMA CoveredFeed ==
  ASSUME Typed, InOrder, Heard, Collected, Whole, FeedByte, ch'.push # 0, ch'.push \notin hurt'
  PROVE  Covered(Log', glued', ch'.push, pushes'[ch'.push].layout, at')
  <1> DEFINE layout == pushes[ch.push].layout
  <1>1. /\ at' = at + 1 /\ ch' = ch /\ pushes' = pushes /\ at \in Nat
        /\ Lasting(ch.push) /\ ch.push \in DOMAIN pushes
        /\ \A f \in 0..at : From(f, at, layout.ends) => line = Record(ch.push, f, at - 1)
        /\ \/ at \notin layout.ends
           \/ /\ at \in layout.ends
              /\ line # <<>> => Log' = Append(Log, Store!Whole(line)) /\ (LeftOpen(Log) => ch.push \in glued')
    BY FeedLasting
  <1>2. layout.len \in Nat
    BY <1>1, OrderTypes
  <1>3. Covered(Log, glued, ch.push, layout, at)
    BY <1>1 DEF Whole
  <1>4. [Next]_vars
    BY DEF Next, Ingest
  <1>5. Covered(Log', glued', ch.push, layout, at)
    BY <1>1, <1>2, <1>3, <1>4, CoveredStays
  <1> HIDE DEF layout
  <1>6. ASSUME NEW first \in 0..(layout.len - 1), NEW last \in 0..(layout.len - 1),
               first <= last, last + 1 = at, last + 1 \in layout.ends,
               (first..last) \cap layout.ends = {}, first = 0 \/ first - 1 \in layout.ends
        PROVE  \E i \in 1..Len(Log') : /\ Log'[i] = Store!Whole(Record(ch.push, first, last))
                                       /\ i > 1 /\ Log'[i - 1].open => ch.push \in glued'
    <2>1. first \in 0..at /\ at - 1 = last /\ first \in Nat /\ last \in Nat
      BY <1>1, <1>2, <1>6
    <2>2. line = Record(ch.push, first, last)
      BY <1>1, <1>6, <2>1 DEF From
    <2>3. 1 \in DOMAIN line
      BY <1>6, <2>1, <2>2 DEF Record
    <2>4. Log' = Append(Log, Store!Whole(line)) /\ (LeftOpen(Log) => ch.push \in glued')
      BY <1>1, <1>6, <2>3
    <2>5. Store!Whole(line) \in Writes /\ Log \in Seq(Writes)
      BY LogType, WrittenLine
    <2>6. /\ Len(Log') = Len(Log) + 1 /\ Log'[Len(Log) + 1] = Store!Whole(line) /\ Len(Log) \in Nat
          /\ \A i \in 1..Len(Log) : Log'[i] = Log[i]
      BY <2>4, <2>5, AppendProperties
    <2>7. PICK i \in 1..Len(Log') : i = Len(Log) + 1
      BY <2>6
    <2>8. i > 1 /\ Log'[i - 1].open => LeftOpen(Log)
      <3>1. SUFFICES ASSUME i > 1
                     PROVE  Log'[i - 1] = Log[Len(Log)] /\ Log # <<>>
        BY DEF LeftOpen
      <3>2. i - 1 = Len(Log) /\ Len(Log) \in 1..Len(Log)
        BY <2>6, <2>7, <3>1
      <3>3. QED
        BY <2>6, <3>2
    <2>9. QED
      BY <2>2, <2>4, <2>6, <2>7, <2>8
  <1>7. ASSUME NEW last \in 0..(layout.len - 1), last + 1 < at + 1
        PROVE  last + 1 < at \/ last + 1 = at
    BY <1>1, <1>2, <1>7
  <1>8. Covered(Log', glued', ch.push, layout, at + 1)
    BY <1>5, <1>6, <1>7 DEF Covered
  <1>9. QED
    BY <1>1, <1>8 DEF layout

LEMMA WholeStays ==
  ASSUME Typed, InOrder, Chained, Heard, Collected, Whole, [Next]_vars
  PROVE  Whole'
  <1>1. /\ \A p \in DOMAIN pushes : pushes'[p] = pushes[p] /\ pushes[p].layout.len \in Nat
        /\ hurt \subseteq hurt' /\ done \subseteq DOMAIN pushes
        /\ Lasting(ch.push) => ch.push \in DOMAIN pushes
    BY WindowStays, HurtGrows, OrderTypes DEF Heard, Lasting, Typed, RestOK
  <1>2. ASSUME ch.push # 0, ch.push \notin hurt'
        PROVE  Covered(Log', glued', ch.push, pushes'[ch.push].layout, at)
    <2>1. Lasting(ch.push)
      BY <1>1, <1>2 DEF Lasting
    <2>2. Covered(Log, glued, ch.push, pushes[ch.push].layout, at)
      BY <2>1 DEF Whole
    <2>3. QED
      BY <1>1, <1>2, <2>1, <2>2, CoveredStays
  <1>3. ASSUME ch'.push # 0, ch'.push \notin hurt'
        PROVE  Covered(Log', glued', ch'.push, pushes'[ch'.push].layout, at')
    <2>1. CASE Brain \/ UNCHANGED vars \/ LastLine \/ FlushStep
      <3>1. UNCHANGED <<ch, at>>
        BY <2>1, LastView, FlushView DEF Brain, Merge, PushChunk, PushFails, BrainRestarts, vars, ingestVars
      <3>2. QED
        BY <1>2, <1>3, <3>1
    <2>2. CASE Receive
      <3>1. pushes' = pushes /\ Lasting(ch'.push)
        BY <1>1, <1>3, <2>2, ReceiveView DEF brainVars, Lasting
      <3>2. at' = ch'.off
        BY <2>2, <3>1, ReceiveLasting
      <3>3. CASE ch'.off = 0
        <4>1. ch'.push \in DOMAIN pushes
          <5>1. ch' = rxq[1] /\ 1 \in DOMAIN rxq
            BY <2>2, ReceiveView, HeadType, OrderTypes
          <5>2. QED
            BY <5>1, OrderTypes
        <4>2. pushes[ch'.push].layout.len \in Nat
          BY <1>1, <4>1
        <4>3. QED
          BY <3>1, <3>2, <3>3, <4>2 DEF Covered
      <3>4. CASE ch.push = ch'.push /\ at' = at
        BY <1>2, <1>3, <3>4
      <3>5. QED
        BY <2>2, <3>1, <3>3, <3>4, ReceiveLasting
    <2>3. CASE FeedByte
      BY <1>3, <2>3, CoveredFeed
    <2>4. CASE PowerLoss
      BY <1>3, <2>4 DEF PowerLoss, NoChunk
    <2>5. QED
      BY <2>1, <2>2, <2>3, <2>4 DEF Next, Ingest, Status, FlushStep
  <1>4. ASSUME NEW p \in done', p \notin hurt'
        PROVE  Covered(Log', glued', p, pushes'[p].layout, pushes'[p].layout.len)
    <2>1. CASE p \in done
      <3>1. p \in DOMAIN pushes /\ Covered(Log, glued, p, pushes[p].layout, pushes[p].layout.len)
        BY <1>1, <1>4, <2>1 DEF Whole
      <3>2. QED
        BY <1>1, <1>4, <3>1, CoveredStays
    <2>2. CASE p \notin done
      <3>1. CountWindow /\ pc = "count" /\ p = ch.push
        BY <1>4, <2>2 DEF Next, Brain, Ingest, Status, Merge, PushChunk, PushFails, BrainRestarts, Receive,
          FeedByte, LastLine, IngestSync, IngestClear, CountWindow, StatusSync, StatusClear, PowerLoss, vars
      <3>2. ch.push \in DOMAIN pushes /\ ch.push # 0
        BY <3>1, OrderTypes
      <3>3. at = pushes[ch.push].layout.len
        BY <3>1, <3>2 DEF Heard, EndChunk
      <3>4. QED
        BY <1>1, <1>2, <1>4, <3>1, <3>2, <3>3
    <2>3. QED
      BY <2>1, <2>2
  <1>5. QED
    BY <1>3, <1>4 DEF Whole, Lasting

----------------------------------------------------------------------------
LEMMA InitIntact == Init => Intact
  BY DEF Init, Idle, NoChunk, Intact, Chained, Heard, Collected, Whole, Lasting

LEMMA AlwaysIntact == Spec => []Intact
  <1>1. Typed /\ InOrder /\ Intact /\ [Next]_vars => Intact'
    BY ChainedStays, HeardStays, CollectedStays, WholeStays DEF Intact
  <1>2. QED
    BY <1>1, InitIntact, AlwaysTyped, AlwaysInOrder, PTL DEF Spec

\* head_main.c feed_payload and the chunks it is fed: a window of which nothing was dropped, cut off, refused
\* by a full card, short of a write or lost with the power is on the S3 node with every one of its records,
\* each in one piece, with its newline, and behind nothing in its line of text but, when the write before it
\* had failed, what that one had left there.
THEOREM WholeCorrect == Spec => []IntactWindowsWhole
  <1>1. Typed /\ Intact => IntactWindowsWhole
    <2> SUFFICES ASSUME Typed, Intact, NEW p \in done \ hurt,
                        NEW first \in 0..(pushes[p].layout.len - 1), NEW last \in 0..(pushes[p].layout.len - 1),
                        first <= last, IsRecord(p, first, last)
                 PROVE  \E i \in DOMAIN Log : /\ Log[i] = Store!Whole(Record(p, first, last))
                                              /\ i > 1 /\ Log[i - 1].open => p \in glued
      BY DEF IntactWindowsWhole, Stands, Log
    <2>1. p \in DOMAIN pushes /\ pushes[p].layout \in Layouts
      <3>1. done \subseteq DOMAIN pushes /\ pushes \in Seq(Pushes)
        BY DEF Typed, BrainOK, RestOK
      <3>2. p \in DOMAIN pushes
        BY <3>1
      <3>3. pushes[p] \in Pushes
        BY <3>1, <3>2
      <3>4. QED
        BY <3>2, <3>3 DEF Pushes
    <2>2. pushes[p].layout.len \in Nat /\ pushes[p].layout.ends \subseteq 0..(pushes[p].layout.len - 1)
      BY <2>1, LayoutsAssumption
    <2>3. last + 1 < pushes[p].layout.len
      BY <2>2 DEF IsRecord
    <2>4. Covered(Log, glued, p, pushes[p].layout, pushes[p].layout.len)
      BY DEF Intact, Whole
    <2>5. \E i \in 1..Len(Log) : /\ Log[i] = Store!Whole(Record(p, first, last))
                                 /\ i > 1 /\ Log[i - 1].open => p \in glued
      BY <2>3, <2>4 DEF Covered, IsRecord
    <2>6. DOMAIN Log = 1..Len(Log)
      BY LogType
    <2>7. QED
      BY <2>5, <2>6
  <1>2. QED
    BY <1>1, AlwaysTyped, AlwaysIntact, PTL
=============================================================================
