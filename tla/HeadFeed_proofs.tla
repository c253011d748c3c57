--------------------------- MODULE HeadFeed_proofs ---------------------------
(***************************************************************************)
(* For windows of any layout and number, any sizes of chunk, queue, line   *)
(* and flush, and any number of faults: what the S3 node keeps is a log of *)
(* runs of bytes, whichever writes fail, and a power loss takes a bounded  *)
(* part of it.                                                             *)
(***************************************************************************)
EXTENDS HeadFeed, SequenceTheorems, TLAPS

Pushes == [num : 1..MaxPushes, layout : Layouts]
Queued1 == [push : DOMAIN pushes, off : Nat, len : 0..ChunkLen]
Lines == Seq(Bytes)

\* The parts of the type invariant.
BrainOK ==
  /\ pushes \in Seq(Pushes) /\ Len(pushes) <= MaxPushes
  /\ mergeCount \in 0..Len(pushes)
  /\ off \in {Idle} \cup Nat
  /\ off # Idle => pushes # <<>> /\ off <= pushes[Len(pushes)].layout.len
QueueOK == rxq \in Seq(Queued1) /\ Len(rxq) <= QueueDepth
IngestOK ==
  /\ pc \in {"wait", "feed", "last", "sync", "clear", "end", "clearEnd", "count"}
  /\ ch \in Chunks /\ at \in Nat
  /\ pc # "wait" => ch.push \in DOMAIN pushes
  /\ curSeq \in 0..MaxPushes /\ expOff \in Nat
LineOK == line \in Lines /\ Len(line) <= LineMax
StoreOK == buf \in Seq(Writes) /\ card \in Seq(Writes) /\ full \in BOOLEAN
CountOK ==
  /\ unflushed \in 0..FlushEvery /\ statusPc \in {"idle", "clear"}
  /\ unflushed = FlushEvery => pc \in {"sync", "clear"}
RestOK ==
  /\ done \subseteq DOMAIN pushes /\ hurt \subseteq DOMAIN pushes /\ glued \subseteq DOMAIN pushes
  /\ failed \in Nat /\ faults \in 0..MaxFaults

\* The type invariant is inductive with this: a count that is due is dealt with at once.
FlushPending == unflushed = FlushEvery => pc \in {"sync", "clear"}

Typed == BrainOK /\ QueueOK /\ IngestOK /\ LineOK /\ StoreOK /\ CountOK /\ RestOK

LEMMA TypedParts == (TypeOK /\ FlushPending) <=> Typed
  BY DEF TypeOK, FlushPending, Typed, BrainOK, QueueOK, IngestOK, LineOK, StoreOK, CountOK, RestOK,
         Pushes, Queued1, Lines

LEMMA PushesType ==
  ASSUME BrainOK
  PROVE  /\ DOMAIN pushes = 1..Len(pushes) /\ Len(pushes) \in Nat
         /\ \A p \in DOMAIN pushes : /\ pushes[p] \in Pushes
                                     /\ pushes[p].layout.len \in Nat
                                     /\ pushes[p].layout.ends \subseteq Nat
                                     /\ p \in Windows /\ p # 0
  <1>1. pushes \in Seq(Pushes) /\ Len(pushes) <= MaxPushes
    BY DEF BrainOK
  <1>2. DOMAIN pushes = 1..Len(pushes) /\ Len(pushes) \in Nat
    BY <1>1
  <1>3. ASSUME NEW p \in DOMAIN pushes
        PROVE  pushes[p] \in Pushes
    BY <1>1, <1>2, <1>3, ElementOfSeq
  <1>4. ASSUME NEW p \in DOMAIN pushes
        PROVE  pushes[p].layout.len \in Nat /\ pushes[p].layout.ends \subseteq Nat
    <2>1. pushes[p].layout \in Layouts
      BY <1>3 DEF Pushes
    <2>2. QED
      BY <2>1, LayoutsAssumption
  <1>5. ASSUME NEW p \in DOMAIN pushes
        PROVE  p \in Windows /\ p # 0
    BY <1>1, <1>2, BoundsAssumption DEF Windows
  <1>6. QED
    BY <1>2, <1>3, <1>4, <1>5

----------------------------------------------------------------------------
(* What is left of a sequence of writes that has lost its end *)

LEMMA WriteType ==
  ASSUME NEW w \in Writes
  PROVE  /\ w.bytes \in Lines /\ w.open \in BOOLEAN /\ Len(w.bytes) \in Nat
         /\ w = [bytes |-> w.bytes, open |-> w.open]
  BY DEF Writes, Lines

LEMMA WrittenLine ==
  ASSUME NEW l \in Lines
  PROVE  Store!Whole(l) \in Writes /\ Store!Unended(l) \in Writes
  BY DEF Writes, Lines, Store!Whole, Store!Unended

\* What is left of a write holds its first bytes.
LEMMA RestType ==
  ASSUME NEW w \in Writes, NEW v \in Store!Rests(w)
  PROVE  /\ v \in Writes /\ Len(v.bytes) \in Nat /\ Len(v.bytes) <= Len(w.bytes)
         /\ \A k \in 1..Len(v.bytes) : v.bytes[k] = w.bytes[k]
         /\ w.bytes # <<>> => v.bytes # <<>>
  <1>1. w.bytes \in Seq(Bytes) /\ Len(w.bytes) \in Nat
    BY WriteType DEF Lines
  <1>2. CASE v = w
    BY <1>1, <1>2
  <1>3. CASE v # w
    <2>1. PICK k \in 1..Len(w.bytes) : v = Store!Unended(SubSeq(w.bytes, 1, k))
      BY <1>3 DEF Store!Rests
    <2> DEFINE l == SubSeq(w.bytes, 1, k)
    <2>2. \A i \in 1..k : w.bytes[i] \in Bytes
      BY <1>1, ElementOfSeq
    <2>3. /\ l \in Seq(Bytes) /\ Len(l) = k
          /\ \A i \in 1..k : l[i] = w.bytes[i]
      BY <1>1, <2>2, SubSeqProperties
    <2>4. v = [bytes |-> l, open |-> TRUE]
      BY <2>1 DEF Store!Unended
    <2> HIDE DEF l
    <2>5. l # <<>>
      BY <1>1, <2>3
    <2>6. QED
      BY <1>1, <2>3, <2>4, <2>5 DEF Writes
  <1>4. QED
    BY <1>2, <1>3

\* A cut ends in what is left of one write, or is empty.
LEMMA CutCases ==
  ASSUME NEW s \in Seq(Writes), NEW r \in Store!Cuts(s), r # <<>>
  PROVE  \E i \in 1..Len(s) : \E v \in Store!Rests(s[i]) : r = Append(SubSeq(s, 1, i - 1), v)
  <1>1. DOMAIN s = 1..Len(s)
    OBVIOUS
  <1>2. QED
    BY <1>1 DEF Store!Cuts

LEMMA CutAt ==
  ASSUME NEW s, NEW i \in DOMAIN s, NEW v \in Store!Rests(s[i])
  PROVE  Append(SubSeq(s, 1, i - 1), v) \in Store!Cuts(s)
  <1> DEFINE At(j) == {Append(SubSeq(s, 1, j - 1), w) : w \in Store!Rests(s[j])}
  <1>1. Append(SubSeq(s, 1, i - 1), v) \in At(i)
    OBVIOUS
  <1> HIDE DEF At
  <1>2. Append(SubSeq(s, 1, i - 1), v) \in UNION {At(j) : j \in DOMAIN s}
    BY <1>1
  <1>3. QED
    BY <1>2 DEF At, Store!Cuts

LEMMA Prefix ==
  ASSUME NEW s \in Seq(Writes), NEW n \in 0..Len(s)
  PROVE  /\ SubSeq(s, 1, n) \in Seq(Writes) /\ Len(SubSeq(s, 1, n)) = n
         /\ \A i \in 1..n : SubSeq(s, 1, n)[i] = s[i]
  <1>1. \A i \in 1..n : s[i] \in Writes
    BY ElementOfSeq
  <1>2. QED
    BY <1>1, SubSeqProperties

LEMMA CutType ==
  ASSUME NEW s \in Seq(Writes), NEW r \in Store!Cuts(s)
  PROVE  /\ r \in Seq(Writes) /\ Len(r) \in 0..Len(s)
         /\ \A i \in 1..Len(r) : i < Len(r) => r[i] = s[i]
         /\ r # <<>> => r[Len(r)] \in Store!Rests(s[Len(r)])
  <1>1. Len(s) \in Nat
    OBVIOUS
  <1>2. CASE r = <<>>
    BY <1>1, <1>2, EmptySeq
  <1>3. CASE r # <<>>
    <2>1. PICK i \in 1..Len(s) : \E v \in Store!Rests(s[i]) : r = Append(SubSeq(s, 1, i - 1), v)
      BY <1>3, CutCases
    <2>1a. PICK v \in Store!Rests(s[i]) : r = Append(SubSeq(s, 1, i - 1), v)
      BY <2>1
    <2>2. s[i] \in Writes
      BY <2>1, ElementOfSeq
    <2>3. v \in Writes
      BY <2>1a, <2>2, RestType
    <2>4. /\ SubSeq(s, 1, i - 1) \in Seq(Writes) /\ Len(SubSeq(s, 1, i - 1)) = i - 1
          /\ \A k \in 1..(i - 1) : SubSeq(s, 1, i - 1)[k] = s[k]
      BY <1>1, Prefix
    <2>5. /\ r \in Seq(Writes) /\ Len(r) = i /\ r[i] = v
          /\ \A k \in 1..(i - 1) : r[k] = SubSeq(s, 1, i - 1)[k]
      BY <2>1a, <2>3, <2>4, AppendProperties
    <2>6. QED
      BY <1>1, <2>1, <2>4, <2>5
  <1>4. QED
    BY <1>2, <1>3

\* A sequence is a cut of itself, and of every longer one.
LEMMA CutBegins ==
  ASSUME NEW a \in Seq(Writes), NEW b \in Seq(Writes)
  PROVE  a \in Store!Cuts(a \o b)
  <1>1. CASE a = <<>>
    BY <1>1 DEF Store!Cuts
  <1>2. CASE a # <<>>
    <2> DEFINE n == Len(a)
               s == a \o b
    <2>1. n \in Nat \ {0}
      BY <1>2, EmptySeq
    <2>2. /\ s \in Seq(Writes) /\ Len(s) = n + Len(b) /\ Len(b) \in Nat
          /\ \A i \in 1..n : s[i] = a[i]
      <3>1. /\ s \in Seq(Writes) /\ Len(s) = n + Len(b) /\ Len(b) \in Nat
            /\ \A i \in 1..(n + Len(b)) : s[i] = IF i <= n THEN a[i] ELSE b[i - n]
        BY ConcatProperties
      <3> HIDE DEF s
      <3>2. QED
        BY <2>1, <3>1
    <2> HIDE DEF s
    <2>3. n \in DOMAIN s /\ s[n] = a[n] /\ a[n] \in Writes
      BY <2>1, <2>2, ElementOfSeq
    <2>4. /\ SubSeq(s, 1, n - 1) \in Seq(Writes) /\ Len(SubSeq(s, 1, n - 1)) = n - 1
          /\ \A i \in 1..(n - 1) : SubSeq(s, 1, n - 1)[i] = s[i]
      <3>1. n - 1 \in 0..Len(s) /\ s \in Seq(Writes)
        BY <2>1, <2>2
      <3>2. QED
        BY <3>1, Prefix
    <2>5. /\ Append(SubSeq(s, 1, n - 1), s[n]) \in Seq(Writes) /\ Len(Append(SubSeq(s, 1, n - 1), s[n])) = n
          /\ \A i \in 1..n : Append(SubSeq(s, 1, n - 1), s[n])[i] = a[i]
      BY <2>1, <2>2, <2>3, <2>4, AppendProperties
    <2>6. a = Append(SubSeq(s, 1, n - 1), s[n])
      BY <2>5, SeqEqual
    <2>7. s[n] \in Store!Rests(s[n])
      BY DEF Store!Rests
    <2>8. Append(SubSeq(s, 1, n - 1), s[n]) \in Store!Cuts(s)
      BY <2>3, <2>7, CutAt
    <2>9. QED
      BY <2>6, <2>8 DEF s
  <1>3. QED
    BY <1>1, <1>2

\* What is cut from the end of the buffer is cut from the end of the file.
LEMMA CutConcat ==
  ASSUME NEW a \in Seq(Writes), NEW b \in Seq(Writes), NEW r \in Store!Cuts(b)
  PROVE  a \o r \in Store!Cuts(a \o b)
  <1>1. CASE r = <<>>
    <2>1. a \o r = a
      BY <1>1, ConcatEmptySeq
    <2>2. QED
      BY <2>1, CutBegins
  <1>2. CASE r # <<>>
    <2> DEFINE n == Len(a)
               s == a \o b
    <2>1. PICK i \in 1..Len(b) : \E v \in Store!Rests(b[i]) : r = Append(SubSeq(b, 1, i - 1), v)
      BY <1>2, CutCases
    <2>1a. PICK v \in Store!Rests(b[i]) : r = Append(SubSeq(b, 1, i - 1), v)
      BY <2>1
    <2>2. n \in Nat /\ Len(b) \in Nat /\ b[i] \in Writes /\ v \in Writes
      <3>1. n \in Nat /\ Len(b) \in Nat /\ b[i] \in Writes
        BY ElementOfSeq
      <3>2. QED
        BY <3>1, RestType
    <2>3. /\ s \in Seq(Writes) /\ Len(s) = n + Len(b)
          /\ \A k \in 1..(n + Len(b)) : s[k] = IF k <= n THEN a[k] ELSE b[k - n]
      BY ConcatProperties
    <2> HIDE DEF s
    <2>4. n + i \in DOMAIN s /\ s[n + i] = b[i]
      <3>1. n + i \in 1..(n + Len(b)) /\ ~(n + i <= n) /\ n + i - n = i
        BY <2>2
      <3>2. DOMAIN s = 1..(n + Len(b))
        BY <2>3
      <3>3. QED
        BY <2>3, <3>1, <3>2
    <2> DEFINE p == SubSeq(b, 1, i - 1)
               q == SubSeq(s, 1, n + i - 1)
    <2>5. p \in Seq(Writes) /\ Len(p) = i - 1 /\ \A k \in 1..(i - 1) : p[k] = b[k]
      BY <2>2, Prefix
    <2>6. q \in Seq(Writes) /\ Len(q) = n + i - 1 /\ \A k \in 1..(n + i - 1) : q[k] = s[k]
      BY <2>2, <2>3, Prefix
    <2>7. r = Append(p, v)
      BY <2>1a
    <2> HIDE DEF p, q
    <2>8. /\ a \o p \in Seq(Writes) /\ Len(a \o p) = n + (i - 1)
          /\ \A k \in 1..(n + (i - 1)) : (a \o p)[k] = IF k <= n THEN a[k] ELSE p[k - n]
      <3>1. /\ a \o p \in Seq(Writes) /\ Len(a \o p) = n + Len(p)
            /\ \A k \in 1..(n + Len(p)) : (a \o p)[k] = IF k <= n THEN a[k] ELSE p[k - n]
        BY <2>5, ConcatProperties
      <3>2. QED
        BY <2>5, <3>1
    <2>9. a \o p = q
      <3>1. ASSUME NEW k \in 1..(n + i - 1)
            PROVE  (a \o p)[k] = q[k]
        <4>1. q[k] = IF k <= n THEN a[k] ELSE b[k - n]
          BY <2>2, <2>3, <2>6
        <4>2. k <= n \/ k - n \in 1..(i - 1)
          BY <2>2
        <4>3. QED
          BY <2>5, <2>8, <4>1, <4>2
      <3>2. QED
        <4>1. n + (i - 1) = n + i - 1
          BY <2>2
        <4>2. QED
          BY <2>6, <2>8, <3>1, <4>1, SeqEqual
    <2>10. a \o r = Append(q, v)
      <3>1. r = p \o <<v>> /\ Append(q, v) = q \o <<v>> /\ <<v>> \in Seq(Writes)
        BY <2>2, <2>5, <2>6, <2>7, AppendIsConcat
      <3>2. a \o (p \o <<v>>) = (a \o p) \o <<v>>
        BY <2>5, <3>1, ConcatAssociative
      <3>3. QED
        BY <2>9, <3>1, <3>2
    <2>11. QED
      <3>1. v \in Store!Rests(s[n + i])
        BY <2>4
      <3>2. Append(q, v) \in Store!Cuts(s)
        BY <2>4, <3>1, CutAt DEF q
      <3>3. QED
        BY <2>10, <3>2 DEF s
  <1>3. QED
    BY <1>1, <1>2

\* What is left after a last write has failed: less than there was before, or that and a piece of it.
LEMMA CutAppend ==
  ASSUME NEW b \in Seq(Writes), NEW w \in Writes, NEW r \in Store!Cuts(Append(b, w))
  PROVE  r \in Store!Cuts(b) \/ \E v \in Store!Rests(w) : r = Append(b, v)
  <1> DEFINE s == Append(b, w)
             n == Len(b)
  <1>1. /\ s \in Seq(Writes) /\ Len(s) = n + 1 /\ s[n + 1] = w /\ n \in Nat
        /\ \A k \in 1..n : s[k] = b[k]
    BY AppendProperties
  <1>2. CASE r = <<>>
    BY <1>2 DEF Store!Cuts
  <1>3. CASE r # <<>>
    <2>1. r \in Store!Cuts(s)
      OBVIOUS
    <2> HIDE DEF s
    <2>2. PICK i \in 1..Len(s) : \E v \in Store!Rests(s[i]) : r = Append(SubSeq(s, 1, i - 1), v)
      BY <1>1, <1>3, <2>1, CutCases
    <2>2a. PICK v \in Store!Rests(s[i]) : r = Append(SubSeq(s, 1, i - 1), v)
      BY <2>2
    <2>3. /\ i \in 1..(n + 1) /\ SubSeq(s, 1, i - 1) \in Seq(Writes) /\ Len(SubSeq(s, 1, i - 1)) = i - 1
          /\ \A k \in 1..(i - 1) : SubSeq(s, 1, i - 1)[k] = s[k]
      BY <1>1, Prefix
    <2>4. /\ SubSeq(b, 1, i - 1) \in Seq(Writes) /\ Len(SubSeq(b, 1, i - 1)) = i - 1
          /\ \A k \in 1..(i - 1) : SubSeq(b, 1, i - 1)[k] = b[k]
      BY <1>1, <2>3, Prefix
    <2>5. SubSeq(s, 1, i - 1) = SubSeq(b, 1, i - 1)
      BY <1>1, <2>3, <2>4, SeqEqual
    <2>6. CASE i = n + 1
      <3>1. SubSeq(b, 1, n) = b
        BY SubSeqFull
      <3>2. i - 1 = n
        BY <1>1, <2>6
      <3>3. QED
        BY <1>1, <2>2a, <2>5, <2>6, <3>1, <3>2
    <2>7. CASE i # n + 1
      <3>1. i \in DOMAIN b /\ s[i] = b[i]
        BY <1>1, <2>3, <2>7
      <3>2. v \in Store!Rests(b[i])
        BY <3>1
      <3>3. QED
        BY <2>2a, <2>5, <3>1, <3>2, CutAt
    <2>8. QED
      BY <2>6, <2>7
  <1>4. QED
    BY <1>2, <1>3

LEMMA ShutType ==
  ASSUME NEW s \in Seq(Writes)
  PROVE  /\ Store!Shut(s) \in Seq(Writes) /\ Len(Store!Shut(s)) = Len(s)
         /\ \A i \in 1..Len(s) : /\ Store!Shut(s)[i].bytes = s[i].bytes
                                 /\ i < Len(s) \/ ~ s[i].open => Store!Shut(s)[i] = s[i]
                                 /\ i = Len(s) => ~ Store!Shut(s)[i].open
  <1>1. CASE s = <<>>
    BY <1>1, EmptySeq DEF Store!Shut
  <1>2. CASE s # <<>>
    <2> DEFINE n == Len(s)
               w == [s[n] EXCEPT !.open = FALSE]
    <2>1. n \in Nat \ {0} /\ n \in 1..Len(s)
      BY <1>2, EmptySeq
    <2>2. s[n] \in Writes
      BY <2>1, ElementOfSeq
    <2>3. w \in Writes /\ w.bytes = s[n].bytes /\ ~ w.open /\ (~ s[n].open => w = s[n])
      BY <2>2 DEF Writes
    <2>4. Store!Shut(s) = [s EXCEPT ![n] = w]
      BY <1>2 DEF Store!Shut
    <2> HIDE DEF w
    <2>5. /\ Store!Shut(s) \in Seq(Writes) /\ Len(Store!Shut(s)) = Len(s)
          /\ \A j \in 1..Len(s) : Store!Shut(s)[j] = IF j = n THEN w ELSE s[j]
      BY <2>1, <2>3, <2>4, ExceptSeq
    <2>6. QED
      BY <2>1, <2>3, <2>5
  <1>3. QED
    BY <1>1, <1>2

----------------------------------------------------------------------------
\* The chunk that the brain sends next lies within the window.
LEMMA ChunkType ==
  ASSUME BrainOK, off # Idle
  PROVE  LET c == Chunk(Len(pushes), off) IN
         /\ c \in Queued1 /\ c.push = Len(pushes) /\ c.off = off
         /\ off + c.len <= pushes[Len(pushes)].layout.len
  <1> DEFINE c == Chunk(Len(pushes), off)
             size == pushes[Len(pushes)].layout.len
  <1>1. off \in Nat /\ off <= size /\ pushes # <<>>
    BY DEF BrainOK
  <1>2. Len(pushes) \in DOMAIN pushes
    BY <1>1, PushesType, EmptySeq DEF BrainOK
  <1>3. size \in Nat
    BY <1>2, PushesType
  <1>4. c = [push |-> Len(pushes), off |-> off, len |-> IF size - off > ChunkLen THEN ChunkLen ELSE size - off]
    BY DEF Chunk
  <1>5. c.len \in 0..ChunkLen /\ off + c.len <= size
    BY <1>1, <1>3, <1>4, SizesAssumption
  <1>6. QED
    BY <1>1, <1>2, <1>4, <1>5 DEF Queued1

----------------------------------------------------------------------------
(* The type invariant, action by action *)

LEMMA InitTyped == Init => Typed
  <1> SUFFICES ASSUME Init PROVE Typed
    OBVIOUS
  <1> USE SizesAssumption, BoundsAssumption, EmptySeq DEF Init
  <1>1. BrainOK
    BY DEF BrainOK, Idle
  <1>2. QueueOK
    BY DEF QueueOK
  <1>3. IngestOK
    BY DEF IngestOK, Chunks, NoChunk, Windows
  <1>4. LineOK
    BY DEF LineOK, Lines
  <1>5. StoreOK
    BY DEF StoreOK
  <1>6. CountOK
    BY DEF CountOK
  <1>7. RestOK
    BY DEF RestOK
  <1>8. QED
    BY <1>1, <1>2, <1>3, <1>4, <1>5, <1>6, <1>7 DEF Typed

\* One more window in the history leaves every reference to a window what it was.
LEMMA MergeGrows ==
  ASSUME BrainOK, Merge
  PROVE  /\ pushes' \in Seq(Pushes) /\ Len(pushes') = Len(pushes) + 1 /\ Len(pushes') <= MaxPushes
         /\ DOMAIN pushes \subseteq DOMAIN pushes'
         /\ \A p \in DOMAIN pushes : pushes'[p] = pushes[p]
         /\ \E n \in 1..MaxPushes, l \in Layouts : pushes' = Append(pushes, [num |-> n, layout |-> l])
         /\ mergeCount' \in 0..Len(pushes')
  <1>1. PICK l \in Layouts : pushes' = Append(pushes, [num |-> mergeCount + 1, layout |-> l])
    BY DEF Merge
  <1>2. /\ pushes \in Seq(Pushes) /\ Len(pushes) < MaxPushes /\ mergeCount \in 0..Len(pushes)
        /\ Len(pushes) \in Nat /\ mergeCount' = mergeCount + 1
    BY PushesType DEF BrainOK, Merge
  <1>3. [num |-> mergeCount + 1, layout |-> l] \in Pushes
    BY <1>2, BoundsAssumption DEF Pushes
  <1>4. /\ pushes' \in Seq(Pushes) /\ Len(pushes') = Len(pushes) + 1
        /\ \A i \in 1..Len(pushes) : pushes'[i] = pushes[i]
    BY <1>1, <1>2, <1>3, AppendProperties
  <1>5. DOMAIN pushes = 1..Len(pushes) /\ DOMAIN pushes' = 1..Len(pushes')
    BY <1>2, <1>4
  <1>6. QED
    BY <1>1, <1>2, <1>3, <1>4, <1>5, BoundsAssumption DEF Pushes

LEMMA MergeTyped ==
  ASSUME Typed, Merge
  PROVE  Typed'
  <1>1. BrainOK
    BY DEF Typed
  <1>2. UNCHANGED <<rxq, ingestVars, sdVars, statusPc, done, hurt, faults>> /\ off' = 0
    BY DEF Merge
  <1>3. BrainOK'
    <2>1. pushes' # <<>> /\ Len(pushes') \in DOMAIN pushes'
      BY <1>1, MergeGrows, PushesType
    <2>2. pushes'[Len(pushes')] \in Pushes
      <3>1. pushes' \in Seq(Pushes) /\ Len(pushes') \in 1..Len(pushes')
        BY <1>1, MergeGrows, PushesType
      <3>2. QED
        BY <3>1, ElementOfSeq
    <2>3. pushes'[Len(pushes')].layout \in Layouts
      BY <2>2 DEF Pushes
    <2>4. QED
      BY <1>1, <1>2, <2>1, <2>3, MergeGrows, LayoutsAssumption DEF BrainOK
  <1>4. DOMAIN pushes \subseteq DOMAIN pushes'
    BY <1>1, MergeGrows
  <1>5. QueueOK'
    <2>1. Queued1 \subseteq Queued1'
      BY <1>4 DEF Queued1
    <2>2. QED
      BY <1>2, <2>1, SeqMonotonic DEF Typed, QueueOK
  <1>6. IngestOK'
    BY <1>2, <1>4 DEF Typed, IngestOK, ingestVars, Chunks, Windows
  <1>7. Lines \subseteq Lines' /\ Writes \subseteq Writes'
    <2>1. Bytes \subseteq Bytes'
      BY <1>4 DEF Bytes
    <2>2. Lines \subseteq Lines'
      BY <2>1, SeqMonotonic DEF Lines
    <2>3. QED
      BY <2>2 DEF Writes, Lines
  <1>8. LineOK'
    BY <1>2, <1>7 DEF Typed, LineOK, ingestVars
  <1>9. StoreOK'
    BY <1>2, <1>7, SeqMonotonic DEF Typed, StoreOK, sdVars
  <1>10. CountOK' /\ RestOK'
    BY <1>2, <1>4 DEF Typed, CountOK, RestOK, ingestVars, sdVars
  <1>11. QED
    BY <1>3, <1>5, <1>6, <1>8, <1>9, <1>10 DEF Typed

\* What a transfer leaves: the next chunk is queued, or something of the window is lost.
LEMMA PushView ==
  ASSUME Typed, PushChunk
  PROVE  LET c == Chunk(Len(pushes), off) IN
         /\ off # Idle /\ UNCHANGED <<pushes, mergeCount, ingestVars, sdVars, statusPc, done>>
         /\ off' = IF c.len = 0 THEN Idle ELSE off + c.len
         /\ faults' = faults \/ (faults + 1 <= MaxFaults /\ faults' = faults + 1)
         /\ \/ rxq' = rxq /\ hurt' = hurt \cup {Len(pushes)}
            \/ rxq' = Append(rxq, c) /\ Len(rxq) # QueueDepth /\ hurt' = hurt
  <1>1. off # Idle
    BY DEF PushChunk
  <1>2. BrainOK
    BY DEF Typed
  <1>3. Chunk(Len(pushes), off).push = Len(pushes)
    BY <1>1, <1>2, ChunkType
  <1>4. QED
    BY <1>1, <1>3 DEF PushChunk, Queued, Fault, Faults

LEMMA PushTyped ==
  ASSUME Typed, PushChunk
  PROVE  Typed'
  <1> DEFINE c == Chunk(Len(pushes), off)
  <1>1. BrainOK /\ off # Idle
    BY PushView DEF Typed
  <1>2. /\ c \in Queued1 /\ off \in Nat /\ c.len \in Nat
        /\ off + c.len <= pushes[Len(pushes)].layout.len
    BY <1>1, ChunkType DEF BrainOK, Queued1
  <1>3. Len(pushes) \in DOMAIN pushes
    BY <1>1, PushesType, EmptySeq DEF BrainOK
  <1>4. UNCHANGED <<pushes, mergeCount, ingestVars, sdVars, statusPc, done>>
    BY PushView
  <1>5. BrainOK'
    <2>1. off' = Idle \/ off' = off + c.len
      BY PushView
    <2>2. QED
      BY <1>1, <1>2, <1>4, <2>1 DEF BrainOK, Idle
  <1>6. QueueOK'
    <2>1. rxq \in Seq(Queued1) /\ Len(rxq) <= QueueDepth /\ Queued1' = Queued1
      BY <1>4 DEF Typed, QueueOK, Queued1
    <2>2. CASE rxq' = rxq
      BY <2>1, <2>2 DEF QueueOK
    <2>3. CASE rxq' = Append(rxq, c) /\ Len(rxq) # QueueDepth
      <3>1. rxq' \in Seq(Queued1) /\ Len(rxq') = Len(rxq) + 1 /\ Len(rxq) \in Nat
        BY <1>2, <2>1, <2>3, AppendProperties
      <3>2. QED
        BY <2>1, <2>3, <3>1, SizesAssumption DEF QueueOK
    <2>4. QED
      BY <2>2, <2>3, PushView
  <1>7. IngestOK' /\ LineOK' /\ StoreOK' /\ CountOK'
    <2>1. IngestOK' /\ LineOK'
      BY <1>4 DEF Typed, IngestOK, LineOK, ingestVars, Chunks, Windows, Lines, Bytes
    <2>2. StoreOK' /\ CountOK'
      BY <1>4 DEF Typed, StoreOK, CountOK, ingestVars, sdVars, Writes, Bytes
    <2>3. QED
      BY <2>1, <2>2
  <1>8. RestOK'
    <2>1. hurt' \subseteq hurt \cup {Len(pushes)}
      BY PushView
    <2>2. faults' \in 0..MaxFaults
      BY PushView, BoundsAssumption DEF Typed, RestOK
    <2>3. QED
      BY <1>3, <1>4, <2>1, <2>2 DEF Typed, RestOK, sdVars
  <1>9. QED
    BY <1>5, <1>6, <1>7, <1>8 DEF Typed

\* The push is given up, by a transfer that fails or by a restart.
LEMMA StopTyped ==
  ASSUME Typed, PushFails \/ BrainRestarts
  PROVE  Typed'
  <1>1. /\ UNCHANGED <<pushes, rxq, ingestVars, sdVars, statusPc, done>> /\ off' = Idle
        /\ mergeCount' = mergeCount \/ mergeCount' = 0
        /\ faults + 1 <= MaxFaults /\ faults' = faults + 1
        /\ hurt' = hurt \/ (off # Idle /\ hurt' = hurt \cup {Len(pushes)})
    BY DEF PushFails, BrainRestarts, Fault, Faults
  <1>2. BrainOK
    BY DEF Typed
  <1>3. BrainOK'
    BY <1>1, <1>2, PushesType DEF BrainOK
  <1>4. QueueOK' /\ IngestOK' /\ LineOK'
    BY <1>1 DEF Typed, QueueOK, IngestOK, LineOK, ingestVars, Chunks, Windows, Lines, Bytes, Queued1
  <1>5. StoreOK' /\ CountOK'
    BY <1>1 DEF Typed, StoreOK, CountOK, ingestVars, sdVars, Writes, Bytes
  <1>6. RestOK'
    <2>1. off # Idle => Len(pushes) \in DOMAIN pushes
      BY <1>2, PushesType, EmptySeq DEF BrainOK
    <2>2. faults' \in 0..MaxFaults
      BY <1>1, BoundsAssumption DEF Typed, RestOK
    <2>3. QED
      BY <1>1, <2>1, <2>2 DEF Typed, RestOK, sdVars
  <1>7. QED
    BY <1>3, <1>4, <1>5, <1>6 DEF Typed

\* What taking a chunk off the queue leaves.
LEMMA ReceiveView ==
  ASSUME Typed, Receive
  PROVE  LET c == Head(rxq) IN
         /\ pc = "wait" /\ rxq # <<>> /\ ch' = c /\ rxq' = Tail(rxq)
         /\ UNCHANGED <<brainVars, sdVars, statusPc, done, hurt, faults>>
         /\ \/ /\ curSeq' = pushes[c.push].num
               /\ \/ line' = <<>>
                  \/ line' = line /\ c.off = expOff /\ curSeq' = curSeq
               /\ expOff' = c.off + c.len /\ at' = c.off
               /\ pc' = IF c.len = 0 THEN "last" ELSE "feed"
            \/ curSeq' = curSeq /\ UNCHANGED <<line, expOff, at, pc>>
  BY DEF Receive, Ours, Starts, InStep

LEMMA HeadType ==
  ASSUME Typed, rxq # <<>>
  PROVE  /\ Head(rxq) \in Queued1 /\ Head(rxq) \in Chunks /\ Head(rxq) = rxq[1]
         /\ Tail(rxq) \in Seq(Queued1) /\ Len(Tail(rxq)) = Len(rxq) - 1 /\ Len(rxq) \in Nat \ {0}
         /\ \A i \in 1..Len(Tail(rxq)) : Tail(rxq)[i] = rxq[i + 1]
  <1>1. rxq \in Seq(Queued1) /\ BrainOK
    BY DEF Typed, QueueOK
  <1>2. /\ Head(rxq) \in Queued1 /\ Tail(rxq) \in Seq(Queued1)
        /\ Len(Tail(rxq)) = Len(rxq) - 1 /\ Len(rxq) \in Nat \ {0}
        /\ \A i \in 1..Len(Tail(rxq)) : Tail(rxq)[i] = rxq[i + 1]
    BY <1>1, HeadTailProperties, EmptySeq
  <1>3. Head(rxq) = rxq[1]
    OBVIOUS
  <1>4. Head(rxq) \in Chunks
    BY <1>1, <1>2, PushesType DEF Queued1, Chunks
  <1>5. QED
    BY <1>2, <1>3, <1>4

LEMMA ReceiveTyped ==
  ASSUME Typed, Receive
  PROVE  Typed'
  <1> DEFINE c == Head(rxq)
  <1>1. /\ UNCHANGED <<brainVars, sdVars, statusPc, done, hurt, faults>>
        /\ ch' = c /\ rxq' = Tail(rxq) /\ pc = "wait" /\ rxq # <<>>
    BY ReceiveView
  <1>2. /\ c \in Queued1 /\ c \in Chunks /\ Tail(rxq) \in Seq(Queued1)
        /\ Len(Tail(rxq)) = Len(rxq) - 1 /\ Len(rxq) \in Nat
    BY <1>1, HeadType
  <1>3. BrainOK /\ BrainOK'
    BY <1>1 DEF Typed, BrainOK, brainVars
  <1>4. c.push \in DOMAIN pushes /\ c.off \in Nat /\ c.len \in Nat /\ pushes[c.push].num \in 0..MaxPushes
    <2>1. c.push \in DOMAIN pushes /\ c.off \in Nat /\ c.len \in Nat
      BY <1>2 DEF Queued1
    <2>2. pushes[c.push] \in Pushes
      BY <1>3, <2>1, PushesType
    <2>3. QED
      BY <2>1, <2>2 DEF Pushes
  <1>5. QueueOK'
    BY <1>1, <1>2, SizesAssumption DEF Typed, QueueOK, Queued1, brainVars
  <1>6. IngestOK'
    BY <1>1, <1>2, <1>4, ReceiveView DEF Typed, IngestOK, Chunks, Windows, brainVars
  <1>7. LineOK'
    <2>1. line' = <<>> \/ line' = line
      BY ReceiveView
    <2>2. <<>> \in Lines /\ Len(<<>>) <= LineMax
      BY SizesAssumption, EmptySeq DEF Lines
    <2>3. Lines' = Lines
      BY <1>1 DEF Lines, Bytes, brainVars
    <2>4. QED
      BY <2>1, <2>2, <2>3 DEF Typed, LineOK
  <1>8. StoreOK' /\ RestOK'
    BY <1>1 DEF Typed, StoreOK, RestOK, sdVars, brainVars, Writes, Bytes
  <1>9. CountOK'
    BY <1>1 DEF Typed, CountOK, sdVars
  <1>10. QED
    BY <1>3, <1>5, <1>6, <1>7, <1>8, <1>9 DEF Typed

Log == card \o buf

\* A line is handed to the file whole, or in part and perhaps with the end of what came before, or is not.
Kept ==
  /\ ~ full /\ buf' = Append(buf, Store!Whole(line))
  /\ unflushed' = unflushed + 1 /\ (statusPc' = statusPc \/ statusPc' = "idle")
  /\ glued' = IF LeftOpen(Log) THEN glued \cup {ch.push} ELSE glued
  /\ failed' = failed
Spoilt ==
  /\ buf' \in Store!Cuts(Append(buf, Store!Unended(line)))
  /\ hurt' = hurt \cup Lost(Append(buf, Store!Whole(line)), buf')
  /\ \/ unflushed' = unflushed + 1 /\ (statusPc' = statusPc \/ statusPc' = "idle")
     \/ UNCHANGED <<unflushed, statusPc>>
  /\ failed' = failed + 1 /\ glued' = glued
NotKept == UNCHANGED <<buf, unflushed, statusPc, glued, failed>>

LEMMA AppendedView ==
  ASSUME Typed, NEW next, Appended(line, next), ch.push \in DOMAIN pushes
  PROVE  /\ Kept \/ Spoilt \/ NotKept
         /\ hurt \subseteq hurt' /\ hurt' \subseteq hurt \cup DOMAIN pushes
         /\ glued \subseteq glued' /\ glued' \subseteq glued \cup {ch.push}
         /\ faults' = faults \/ (faults + 1 <= MaxFaults /\ faults' = faults + 1)
         /\ pc' = IF unflushed' > unflushed /\ FlushDue THEN "sync" ELSE next
  <1>1. pc' = IF unflushed' > unflushed /\ FlushDue THEN "sync" ELSE next
    BY DEF Appended
  <1>2. CASE AppendSkipped(line)
    BY <1>1, <1>2 DEF AppendSkipped, NotKept
  <1>3. CASE AppendDone(line)
    BY <1>1, <1>3 DEF AppendDone, Kept, Counted, Log
  <1>4. CASE AppendFails(line)
    <2>1. Lost(Append(buf, Store!Whole(line)), buf') \subseteq DOMAIN pushes
      BY DEF Lost
    <2>2. Spoilt
      BY <1>4 DEF AppendFails, Spoilt, Counted
    <2>3. /\ hurt' = hurt \cup Lost(Append(buf, Store!Whole(line)), buf') /\ glued' = glued
          /\ faults + 1 <= MaxFaults /\ faults' = faults + 1
      BY <1>4 DEF AppendFails, Fault, Faults
    <2>4. QED
      BY <1>1, <2>1, <2>2, <2>3
  <1>5. QED
    BY <1>2, <1>3, <1>4 DEF Appended

LEMMA FeedView ==
  ASSUME Typed, FeedByte
  PROVE  /\ pc = "feed" /\ at < ch.off + ch.len /\ at' = at + 1
         /\ UNCHANGED <<brainVars, rxq, ch, curSeq, expOff, card, full, done>>
         /\ hurt \subseteq hurt' /\ hurt' \subseteq hurt \cup DOMAIN pushes
         /\ glued \subseteq glued' /\ glued' \subseteq glued \cup {ch.push}
         /\ faults' = faults \/ (faults + 1 <= MaxFaults /\ faults' = faults + 1)
         /\ \/ /\ Kept \/ Spoilt \/ NotKept
               /\ line # <<>> /\ line' = <<>>
               /\ pc' = IF unflushed' > unflushed /\ FlushDue THEN "sync" ELSE AfterByte
            \/ NotKept /\ line' = <<>> /\ pc' = AfterByte
            \/ /\ NotKept /\ pc' = AfterByte
               /\ ~ IsRecordEnd(Byte) /\ Len(line) # LineMax /\ line' = Append(line, Byte)
  <1>1. /\ pc = "feed" /\ at < ch.off + ch.len /\ at' = at + 1
        /\ UNCHANGED <<brainVars, rxq, ch, curSeq, expOff, card, full, done>>
    BY DEF FeedByte
  <1>2. ch.push \in DOMAIN pushes
    BY <1>1 DEF Typed, IngestOK
  <1>3. CASE IsRecordEnd(Byte) /\ line # <<>>
    <2>1. line' = <<>> /\ Appended(line, AfterByte)
      BY <1>3 DEF FeedByte
    <2>2. QED
      BY <1>1, <1>2, <1>3, <2>1, AppendedView
  <1>4. CASE ~(IsRecordEnd(Byte) /\ line # <<>>)
    <2>1. /\ pc' = AfterByte /\ NotKept /\ faults' = faults
          /\ hurt' = hurt \/ hurt' = hurt \cup {ch.push}
      BY <1>4 DEF FeedByte, NotKept
    <2>2. /\ hurt \subseteq hurt' /\ hurt' \subseteq hurt \cup DOMAIN pushes
          /\ glued \subseteq glued' /\ glued' \subseteq glued \cup {ch.push}
      BY <1>2, <2>1 DEF NotKept
    <2>3. CASE IsRecordEnd(Byte) \/ Overlong
      <3>1. line' = <<>>
        BY <2>3 DEF FeedByte
      <3>2. QED
        BY <1>1, <2>1, <2>2, <3>1
    <2>4. CASE ~(IsRecordEnd(Byte) \/ Overlong)
      <3>1. line' = Append(line, Byte) /\ ~ IsRecordEnd(Byte) /\ Len(line) # LineMax
        BY <2>4 DEF FeedByte, Overlong
      <3>2. QED
        BY <1>1, <2>1, <2>2, <3>1
    <2>5. QED
      BY <2>3, <2>4
  <1>5. QED
    BY <1>3, <1>4

LEMMA LastView ==
  ASSUME Typed, LastLine
  PROVE  /\ pc = "last" /\ line' = <<>>
         /\ UNCHANGED <<brainVars, rxq, ch, at, curSeq, expOff, card, full, done>>
         /\ hurt \subseteq hurt' /\ hurt' \subseteq hurt \cup DOMAIN pushes
         /\ glued \subseteq glued' /\ glued' \subseteq glued \cup {ch.push}
         /\ faults' = faults \/ (faults + 1 <= MaxFaults /\ faults' = faults + 1)
         /\ \/ /\ Kept \/ Spoilt \/ NotKept
               /\ line # <<>>
               /\ pc' = IF unflushed' > unflushed /\ FlushDue THEN "sync" ELSE "end"
            \/ NotKept /\ pc' = "end"
  <1>1. /\ pc = "last" /\ line' = <<>>
        /\ UNCHANGED <<brainVars, rxq, ch, at, curSeq, expOff, card, full, done>>
    BY DEF LastLine
  <1>2. ch.push \in DOMAIN pushes
    BY <1>1 DEF Typed, IngestOK
  <1>3. CASE line # <<>>
    <2>1. Appended(line, "end")
      BY <1>3 DEF LastLine
    <2>2. QED
      BY <1>1, <1>2, <1>3, <2>1, AppendedView
  <1>4. CASE line = <<>>
    BY <1>1, <1>4 DEF LastLine, NotKept
  <1>5. QED
    BY <1>3, <1>4

\* What handing over a line, or not, does to the store and its count.
LEMMA KeptTyped ==
  ASSUME Typed, Kept \/ Spoilt \/ NotKept, UNCHANGED <<pushes, card, full>>
  PROVE  StoreOK'
  <1>1. Writes' = Writes
    BY DEF Writes, Bytes
  <1>2. buf \in Seq(Writes) /\ line \in Lines
    BY DEF Typed, StoreOK, LineOK
  <1>3. Store!Whole(line) \in Writes /\ Store!Unended(line) \in Writes
    BY <1>2, WrittenLine
  <1>4. CASE Kept
    <2>1. buf' \in Seq(Writes)
      BY <1>2, <1>3, <1>4, AppendProperties DEF Kept
    <2>2. QED
      BY <1>1, <2>1 DEF Typed, StoreOK
  <1>5. CASE Spoilt
    <2>1. Append(buf, Store!Unended(line)) \in Seq(Writes)
      BY <1>2, <1>3, AppendProperties
    <2>2. buf' \in Seq(Writes)
      BY <1>5, <2>1, CutType DEF Spoilt
    <2>3. QED
      BY <1>1, <2>2 DEF Typed, StoreOK
  <1>6. CASE NotKept
    BY <1>1, <1>6 DEF NotKept, Typed, StoreOK
  <1>7. QED
    BY <1>4, <1>5, <1>6

LEMMA IngestTyped ==
  ASSUME Typed, FeedByte \/ LastLine
  PROVE  Typed'
  <1>1. /\ UNCHANGED <<brainVars, rxq, ch, curSeq, expOff, card, full, done>>
        /\ at' = at \/ at' = at + 1
        /\ pc \in {"feed", "last"} /\ (Kept \/ Spoilt \/ NotKept)
        /\ hurt' \subseteq hurt \cup DOMAIN pushes /\ glued' \subseteq glued \cup {ch.push}
        /\ faults' = faults \/ (faults + 1 <= MaxFaults /\ faults' = faults + 1)
    BY FeedView, LastView
  <1>2. pc' \in {"sync", "wait", "feed", "end"}
    BY FeedView, LastView DEF AfterByte
  <1>3. BrainOK' /\ QueueOK'
    BY <1>1 DEF Typed, BrainOK, QueueOK, brainVars, Queued1
  <1>4. IngestOK'
    BY <1>1, <1>2 DEF Typed, IngestOK, brainVars, Chunks, Windows
  <1>5. LineOK'
    <2>1. <<>> \in Lines /\ Len(<<>>) <= LineMax
      BY SizesAssumption, EmptySeq DEF Lines
    <2>2. Lines' = Lines
      BY <1>1 DEF Lines, Bytes, brainVars
    <2>3. ASSUME FeedByte, Len(line) # LineMax, line' = Append(line, Byte)
          PROVE  line' \in Lines /\ Len(line') <= LineMax
      <3>1. Byte \in Bytes
        BY <1>1 DEF Typed, IngestOK, Byte, Bytes
      <3>2. line \in Seq(Bytes) /\ Len(line) <= LineMax
        BY DEF Typed, LineOK, Lines
      <3>3. line' \in Seq(Bytes) /\ Len(line') = Len(line) + 1 /\ Len(line) \in Nat
        BY <2>3, <3>1, <3>2, AppendProperties
      <3>4. QED
        BY <2>3, <3>2, <3>3, SizesAssumption DEF Lines
    <2>4. QED
      BY <2>1, <2>2, <2>3, FeedView, LastView DEF LineOK
  <1>6. StoreOK'
    BY <1>1, KeptTyped DEF brainVars
  <1>7. CountOK'
    <2>1. unflushed \in 0..FlushEvery /\ unflushed # FlushEvery /\ statusPc \in {"idle", "clear"}
      BY <1>1 DEF Typed, CountOK
    <2>2. /\ unflushed' = unflushed \/ unflushed' = unflushed + 1
          /\ statusPc' \in {"idle", "clear"}
      BY <1>1, <2>1 DEF Kept, Spoilt, NotKept
    <2>3. unflushed' > unflushed /\ unflushed + 1 >= FlushEvery => pc' = "sync"
      <3>1. ASSUME NotKept
            PROVE  ~(unflushed' > unflushed)
        BY <2>1, <3>1 DEF NotKept
      <3>2. QED
        BY <3>1, FeedView, LastView DEF FlushDue
    <2>4. QED
      BY <2>1, <2>2, <2>3, SizesAssumption DEF CountOK
  <1>8. RestOK'
    <2>1. ch.push \in DOMAIN pushes /\ pushes' = pushes
      BY <1>1 DEF Typed, IngestOK, brainVars
    <2>2. failed' \in Nat
      BY <1>1 DEF Kept, Spoilt, NotKept, Typed, RestOK
    <2>3. faults' \in 0..MaxFaults
      BY <1>1, BoundsAssumption DEF Typed, RestOK
    <2>4. QED
      BY <1>1, <2>1, <2>2, <2>3 DEF Typed, RestOK
  <1>9. QED
    BY <1>3, <1>4, <1>5, <1>6, <1>7, <1>8 DEF Typed

\* What a flush leaves: the lines are on the card, or as much of them as were written, or nothing has
\* happened to them.
LEMMA WrittenTyped ==
  ASSUME Typed, Written \/ WriteFails \/ UNCHANGED <<buf, card, hurt, failed>>, UNCHANGED pushes
  PROVE  /\ buf' \in Seq(Writes') /\ card' \in Seq(Writes') /\ failed' \in Nat
         /\ hurt \subseteq hurt' /\ hurt' \subseteq hurt \cup DOMAIN pushes
  <1>1. Writes' = Writes /\ buf \in Seq(Writes) /\ card \in Seq(Writes) /\ failed \in Nat
    BY DEF Typed, StoreOK, RestOK, Writes, Bytes
  <1>2. card \o buf \in Seq(Writes) /\ <<>> \in Seq(Writes)
    BY <1>1, ConcatProperties, EmptySeq
  <1>3. CASE Written
    BY <1>1, <1>2, <1>3 DEF Written
  <1>4. CASE WriteFails
    <2>1. PICK r \in Store!Cuts(buf) :
            /\ hurt' = hurt \cup Lost(buf, r)
            /\ \/ card' = card \o r /\ buf' = <<>> /\ failed' = 0
               \/ card' = card /\ buf' = r /\ failed' = failed + 1
      BY <1>4 DEF WriteFails
    <2>2. r \in Seq(Writes)
      BY <1>1, CutType
    <2>3. card \o r \in Seq(Writes)
      BY <1>1, <2>2, ConcatProperties
    <2>4. Lost(buf, r) \subseteq DOMAIN pushes
      BY DEF Lost
    <2>5. hurt \subseteq hurt' /\ hurt' \subseteq hurt \cup DOMAIN pushes
      BY <2>1, <2>4
    <2>6. buf' \in Seq(Writes) /\ card' \in Seq(Writes) /\ failed' \in Nat
      <3>1. CASE card' = card \o r /\ buf' = <<>> /\ failed' = 0
        BY <1>2, <2>3, <3>1
      <3>2. CASE card' = card /\ buf' = r /\ failed' = failed + 1
        BY <1>1, <2>2, <3>2
      <3>3. QED
        BY <2>1, <3>1, <3>2
    <2>7. QED
      BY <1>1, <2>5, <2>6, Zenon
  <1>5. CASE UNCHANGED <<buf, card, hurt, failed>>
    BY <1>1, <1>5
  <1>6. QED
    BY <1>3, <1>4, <1>5

LEMMA ResumedPlace == Resumed \in {"count", "end", "wait", "feed"}
  BY DEF Resumed

\* The steps of a flush, of whichever task, and the count of the windows.
FlushStep == IngestSync \/ IngestClear \/ CountWindow \/ StatusSync \/ StatusClear

LEMMA FlushView ==
  ASSUME Typed, FlushStep
  PROVE  /\ UNCHANGED <<brainVars, rxq, ch, at, curSeq, expOff, line, glued>>
         /\ Written \/ WriteFails \/ UNCHANGED <<buf, card, hurt, failed>>
         /\ hurt \subseteq hurt' /\ hurt' \subseteq hurt \cup DOMAIN pushes
         /\ \/ pc' = pc
            \/ pc \in {"sync", "end", "clear", "clearEnd"} /\ pc' \in {"clear", "clearEnd", Resumed}
            \/ pc = "count" /\ pc' = "wait"
  <1>1. /\ UNCHANGED <<brainVars, rxq, ch, at, curSeq, expOff, line, glued>>
        /\ Written \/ WriteFails \/ UNCHANGED <<buf, card, hurt, failed>>
        /\ \/ pc' = pc
           \/ pc \in {"sync", "end", "clear", "clearEnd"} /\ pc' \in {"clear", "clearEnd", Resumed}
           \/ pc = "count" /\ pc' = "wait"
    <2>1. CASE IngestSync
      <3>1. PICK flips \in {0, 1} : \E fails \in {0, 1} :
               IF unflushed = 0
               THEN fails = 0 /\ pc' = Resumed /\ UNCHANGED <<buf, card, hurt, failed>>
               ELSE /\ pc' = IF pc = "sync" THEN "clear" ELSE "clearEnd"
                    /\ IF fails = 0 THEN Written ELSE WriteFails
        BY <2>1 DEF IngestSync
      <3>2. QED
        BY <2>1, <3>1 DEF IngestSync
    <2>2. CASE IngestClear
      BY <2>2 DEF IngestClear
    <2>3. CASE CountWindow
      BY <2>3 DEF CountWindow, sdVars
    <2>4. CASE StatusSync
      <3>1. PICK flips \in {0, 1} : \E fails \in {0, 1} :
               IF unflushed = 0
               THEN fails = 0 /\ UNCHANGED <<statusPc, buf, card, hurt, failed>>
               ELSE statusPc' = "clear" /\ IF fails = 0 THEN Written ELSE WriteFails
        BY <2>4 DEF StatusSync
      <3>2. QED
        BY <2>4, <3>1 DEF StatusSync, ingestVars
    <2>5. CASE StatusClear
      BY <2>5 DEF StatusClear, ingestVars
    <2>6. QED
      BY <2>1, <2>2, <2>3, <2>4, <2>5 DEF FlushStep
  <1>2. hurt \subseteq hurt' /\ hurt' \subseteq hurt \cup DOMAIN pushes
    BY <1>1, WrittenTyped DEF brainVars
  <1>3. QED
    BY <1>1, <1>2

LEMMA FlushTyped ==
  ASSUME Typed, FlushStep
  PROVE  Typed'
  <1>1. /\ UNCHANGED <<brainVars, rxq, ch, at, curSeq, expOff, line, glued>>
        /\ Written \/ WriteFails \/ UNCHANGED <<buf, card, hurt, failed>>
        /\ hurt' \subseteq hurt \cup DOMAIN pushes
    BY FlushView
  <1>2. pc = "wait" => pc' = "wait"
    BY FlushView
  <1>3. pc' \in {"wait", "feed", "last", "sync", "clear", "end", "clearEnd", "count"}
    BY FlushView, ResumedPlace DEF Typed, IngestOK
  <1>4. BrainOK' /\ QueueOK' /\ LineOK'
    BY <1>1 DEF Typed, BrainOK, QueueOK, LineOK, brainVars, Queued1, Lines, Bytes
  <1>5. IngestOK'
    BY <1>1, <1>2, <1>3 DEF Typed, IngestOK, brainVars, Chunks, Windows
  <1>6. faults' \in 0..MaxFaults /\ full' \in BOOLEAN
    <2>1. full \in BOOLEAN /\ faults \in 0..MaxFaults
      BY DEF Typed, StoreOK, RestOK
    <2>2. CASE IngestSync \/ StatusSync
      <3>1. PICK flips \in {0, 1} : \E fails \in {0, 1} : FreeRefreshed(flips) /\ Faults(flips + fails)
        BY <2>2 DEF IngestSync, StatusSync
      <3>2. PICK fails \in {0, 1} : FreeRefreshed(flips) /\ Faults(flips + fails)
        BY <3>1
      <3>3. faults' \in 0..MaxFaults
        BY <2>1, <3>2, BoundsAssumption DEF Faults
      <3>4. full' = full \/ full' = ~ full
        BY <3>2 DEF FreeRefreshed
      <3>5. full' \in BOOLEAN
        BY <2>1, <3>4, Zenon
      <3>6. QED
        BY <3>3, <3>5
    <2>3. CASE IngestClear \/ CountWindow \/ StatusClear
      BY <2>1, <2>3 DEF IngestClear, CountWindow, StatusClear, sdVars
    <2>4. QED
      BY <2>2, <2>3 DEF FlushStep
  <1>7. StoreOK' /\ failed' \in Nat
    BY <1>1, <1>6, WrittenTyped DEF StoreOK, brainVars
  <1>8. CountOK'
    <2>1. unflushed \in 0..FlushEvery /\ statusPc \in {"idle", "clear"}
      BY DEF Typed, CountOK
    <2>2. unflushed = FlushEvery => pc \in {"sync", "clear"}
      BY DEF Typed, CountOK
    <2>3. unflushed' = unflushed \/ unflushed' = 0
      BY DEF FlushStep, IngestSync, IngestClear, CountWindow, StatusSync, StatusClear, sdVars
    <2>4. statusPc' \in {"idle", "clear"}
      BY <2>1 DEF FlushStep, IngestSync, IngestClear, CountWindow, StatusSync, StatusClear
    <2>5. ASSUME unflushed' = FlushEvery
          PROVE  pc' \in {"sync", "clear"}
      <3>1. unflushed = FlushEvery /\ unflushed # 0 /\ unflushed' # 0
        BY <2>3, <2>5, SizesAssumption
      <3>2. ~ IngestClear /\ ~ CountWindow
        BY <2>2, <3>1 DEF IngestClear, CountWindow
      <3>3. IngestSync => pc' = "clear"
        BY <2>2, <3>1 DEF IngestSync
      <3>4. StatusSync \/ StatusClear => pc' = pc
        BY DEF StatusSync, StatusClear, ingestVars
      <3>5. QED
        BY <2>2, <3>1, <3>2, <3>3, <3>4 DEF FlushStep
    <2>6. QED
      BY <2>1, <2>3, <2>4, <2>5, SizesAssumption DEF CountOK
  <1>9. RestOK'
    <2>1. done' \subseteq done \cup {ch.push} /\ (done' = done \/ pc = "count")
      BY DEF FlushStep, IngestSync, IngestClear, CountWindow, StatusSync, StatusClear
    <2>2. QED
      BY <1>1, <1>6, <1>7, <2>1 DEF Typed, RestOK, IngestOK, brainVars
  <1>10. QED
    BY <1>4, <1>5, <1>7, <1>8, <1>9 DEF Typed

LEMMA PowerTyped ==
  ASSUME Typed, PowerLoss
  PROVE  Typed'
  <1>1. /\ UNCHANGED <<brainVars, full, done, glued>>
        /\ rxq' = <<>> /\ pc' = "wait" /\ ch' = NoChunk /\ at' = 0
        /\ curSeq' = 0 /\ expOff' = 0 /\ line' = <<>>
        /\ buf' = <<>> /\ unflushed' = 0 /\ statusPc' = "idle" /\ failed' = 0
        /\ faults + 1 <= MaxFaults /\ faults' = faults + 1
        /\ card' \in {card, Store!Shut(card)}
    BY DEF PowerLoss, Fault, Faults
  <1>2. hurt' \subseteq hurt \cup DOMAIN pushes
    BY DEF PowerLoss, Lost
  <1> USE SizesAssumption, BoundsAssumption, EmptySeq
  <1>3. BrainOK' /\ RestOK'
    <2>1. BrainOK'
      BY <1>1 DEF Typed, BrainOK, brainVars
    <2>2. faults' \in 0..MaxFaults
      BY <1>1 DEF Typed, RestOK
    <2>3. QED
      BY <1>1, <1>2, <2>1, <2>2 DEF Typed, RestOK, brainVars
  <1>4. QueueOK' /\ LineOK' /\ CountOK'
    BY <1>1 DEF QueueOK, LineOK, CountOK, Lines
  <1>5. IngestOK'
    BY <1>1 DEF IngestOK, Chunks, NoChunk, Windows
  <1>6. StoreOK'
    <2>1. Writes' = Writes /\ card \in Seq(Writes)
      BY <1>1 DEF Typed, StoreOK, Writes, Bytes, brainVars
    <2>2. card' \in Seq(Writes)
      BY <1>1, <2>1, ShutType
    <2>3. QED
      BY <1>1, <2>1, <2>2 DEF Typed, StoreOK
  <1>7. QED
    BY <1>3, <1>4, <1>5, <1>6 DEF Typed

LEMMA StutterTyped ==
  ASSUME Typed, UNCHANGED vars
  PROVE  Typed'
  <1>1. BrainOK' /\ QueueOK' /\ IngestOK' /\ LineOK'
    BY DEF Typed, BrainOK, QueueOK, IngestOK, LineOK, vars, brainVars, ingestVars, Queued1, Chunks, Windows,
           Lines, Bytes
  <1>2. StoreOK' /\ CountOK' /\ RestOK'
    BY DEF Typed, StoreOK, CountOK, RestOK, vars, brainVars, ingestVars, sdVars, Writes, Bytes
  <1>3. QED
    BY <1>1, <1>2 DEF Typed

LEMMA StepTyped == Typed /\ [Next]_vars => Typed'
  <1> SUFFICES ASSUME Typed, [Next]_vars
               PROVE  Typed'
    OBVIOUS
  <1>1. CASE Merge
    BY <1>1, MergeTyped
  <1>2. CASE PushChunk
    BY <1>2, PushTyped
  <1>3. CASE PushFails \/ BrainRestarts
    BY <1>3, StopTyped
  <1>4. CASE Receive
    BY <1>4, ReceiveTyped
  <1>5. CASE FeedByte \/ LastLine
    BY <1>5, IngestTyped
  <1>6. CASE FlushStep
    BY <1>6, FlushTyped
  <1>7. CASE PowerLoss
    BY <1>7, PowerTyped
  <1>8. CASE UNCHANGED vars
    BY <1>8, StutterTyped
  <1>9. QED
    BY <1>1, <1>2, <1>3, <1>4, <1>5, <1>6, <1>7, <1>8 DEF Next, Brain, Ingest, Status, FlushStep

LEMMA AlwaysTyped == Spec => []Typed
  BY InitTyped, StepTyped, PTL DEF Spec

\* Every reachable state of the way from the brain to the card is well-typed.
THEOREM FeedTypeCorrect == Spec => []TypeOK
  <1>1. Typed => TypeOK
    BY TypedParts
  <1>2. QED
    BY <1>1, AlwaysTyped, PTL

----------------------------------------------------------------------------
(* LossBounded.  While status_task has written out and not yet zeroed the  *)
(* count, every line in the buffer is counted; while ingest_task has, the  *)
(* buffer is empty; and what the zero of the one hides from the other is   *)
(* less than one flush.  Slack is for the writes that have failed: a flush *)
(* that fails is counted as one that did not.                              *)

Slack == 2 * FlushEvery * failed

Counting ==
  /\ statusPc = "clear" => Len(buf) <= unflushed + Slack
  /\ pc \in {"clear", "clearEnd"} => Len(buf) <= Slack
  /\ Len(buf) <= unflushed + FlushEvery + Slack

LEMMA BufLength == ASSUME Typed PROVE Len(buf) \in Nat /\ unflushed \in 0..FlushEvery
  BY DEF Typed, StoreOK, CountOK

LEMMA SlackType ==
  ASSUME Typed
  PROVE  /\ Slack \in Nat /\ (failed' = failed => Slack' = Slack)
         /\ failed' = failed + 1 => Slack' = Slack + 2 * FlushEvery
         /\ failed' = 0 => Slack' = 0
         /\ 2 * FlushEvery * (1 + failed) = Slack + 2 * FlushEvery
  <1> USE SizesAssumption DEF Slack
  <1>1. failed \in Nat /\ FlushEvery \in Nat
    BY DEF Typed, RestOK
  <1>2. PICK f \in Nat, n \in Nat : f = 2 * FlushEvery /\ n = failed
    BY <1>1
  <1>3. f * n \in Nat /\ f * (n + 1) = f * n + f /\ f * (1 + n) = f * n + f /\ f * 0 = 0
    BY <1>2
  <1>4. QED
    BY <1>1, <1>2, <1>3

LEMMA IngestCounting ==
  ASSUME Typed, Counting, FeedByte \/ LastLine
  PROVE  Counting'
  <1>1. /\ Kept \/ Spoilt \/ NotKept
        /\ pc' \in {"sync", "wait", "feed", "end"}
    BY FeedView, LastView DEF AfterByte
  <1>2. /\ Len(buf) \in Nat /\ unflushed \in 0..FlushEvery /\ buf \in Seq(Writes)
        /\ Store!Whole(line) \in Writes /\ Store!Unended(line) \in Writes /\ Slack \in Nat
    BY BufLength, WrittenLine, SlackType DEF Typed, StoreOK, LineOK
  <1>3. CASE Kept
    <2>1. Len(buf') = Len(buf) + 1
      BY <1>2, <1>3, AppendProperties DEF Kept
    <2>2. Slack' = Slack
      BY <1>3, SlackType DEF Kept
    <2> HIDE DEF Slack
    <2>3. QED
      BY <1>1, <1>2, <1>3, <2>1, <2>2, SizesAssumption DEF Kept, Counting
  <1>4. CASE Spoilt
    <2>1. Len(buf') <= Len(buf) + 1 /\ Len(buf') \in Nat
      <3>1. Append(buf, Store!Unended(line)) \in Seq(Writes) /\ Len(Append(buf, Store!Unended(line))) = Len(buf) + 1
        BY <1>2, AppendProperties
      <3>2. Len(buf') \in 0..(Len(buf) + 1)
        BY <1>4, <3>1, CutType DEF Spoilt
      <3>3. QED
        BY <1>2, <3>2
    <2>2. Slack' = Slack + 2 * FlushEvery
      BY <1>4, SlackType DEF Spoilt
    <2>3. unflushed' \in Nat /\ unflushed' >= unflushed
      BY <1>2, <1>4 DEF Spoilt
    <2>4. Len(buf) <= unflushed + FlushEvery + Slack
      BY DEF Counting
    <2>5. Len(buf') <= unflushed' + Slack'
      BY <1>2, <2>1, <2>2, <2>3, <2>4, SizesAssumption
    <2>6. Slack' \in Nat
      BY <1>2, <2>2, SizesAssumption
    <2>7. QED
      BY <1>1, <2>1, <2>3, <2>5, <2>6, SizesAssumption DEF Counting
  <1>5. CASE NotKept
    <2>1. Slack' = Slack
      BY <1>5, SlackType DEF NotKept
    <2>2. QED
      BY <1>1, <1>5, <2>1 DEF NotKept, Counting
  <1>6. QED
    BY <1>1, <1>3, <1>4, <1>5

\* A flush that fails leaves less than one flush may take, and is zeroed like one that does not.
LEMMA WrittenCounting ==
  ASSUME Typed, Counting, Written \/ WriteFails
  PROVE  Len(buf') \in Nat /\ Slack' \in Nat /\ Slack' >= 0 /\ Len(buf') <= Slack'
         /\ (buf' = <<>> \/ Slack' >= Slack)
  <1>1. Len(buf) \in Nat /\ unflushed \in 0..FlushEvery /\ buf \in Seq(Writes) /\ Slack \in Nat
    BY BufLength, SlackType DEF Typed, StoreOK
  <1>2. ASSUME buf' = <<>>, failed' = 0
        PROVE  Len(buf') = 0 /\ Slack' = 0
    BY <1>2, SlackType
  <1>3. CASE Written
    BY <1>2, <1>3 DEF Written
  <1>4. CASE WriteFails
    <2>1. PICK r \in Store!Cuts(buf) :
            \/ card' = card \o r /\ buf' = <<>> /\ failed' = 0
            \/ card' = card /\ buf' = r /\ failed' = failed + 1
      BY <1>4 DEF WriteFails
    <2>2. CASE buf' = <<>> /\ failed' = 0
      BY <1>2, <2>2
    <2>3. CASE buf' = r /\ failed' = failed + 1
      <3>1. Len(r) \in 0..Len(buf)
        BY <1>1, CutType
      <3>2. Slack' = Slack + 2 * FlushEvery
        BY <2>3, SlackType
      <3>3. Len(buf) <= unflushed + FlushEvery + Slack
        BY DEF Counting
      <3>4. QED
        BY <1>1, <2>3, <3>1, <3>2, <3>3, SizesAssumption
    <2>4. QED
      BY <2>1, <2>2, <2>3
  <1>5. QED
    BY <1>3, <1>4

LEMMA FlushCounting ==
  ASSUME Typed, Counting, FlushStep
  PROVE  Counting'
  <1>1. Len(buf) \in Nat /\ unflushed \in 0..FlushEvery /\ Slack \in Nat /\ FlushEvery \in Nat
    BY BufLength, SlackType, SizesAssumption
  <1>2. CASE IngestSync \/ StatusSync
    <2>1. unflushed' = unflushed /\ (IngestSync => statusPc' = statusPc) /\ (StatusSync => pc' = pc)
      BY <1>2 DEF IngestSync, StatusSync, ingestVars
    <2>2. CASE unflushed = 0
      <3>1. /\ buf' = buf /\ failed' = failed /\ statusPc' = statusPc
            /\ pc' = pc \/ pc' = Resumed
        BY <1>2, <2>1, <2>2 DEF IngestSync, StatusSync
      <3>2. Slack' = Slack
        BY <3>1, SlackType
      <3>3. QED
        BY <2>1, <3>1, <3>2, ResumedPlace DEF Counting
    <2>3. CASE unflushed # 0
      <3>1. Written \/ WriteFails
        BY <1>2, <2>3 DEF IngestSync, StatusSync
      <3>2. Len(buf') \in Nat /\ Slack' \in Nat /\ Len(buf') <= Slack'
        BY <3>1, WrittenCounting
      <3>3. QED
        BY <1>1, <2>1, <3>2 DEF Counting
    <2>4. QED
      BY <2>2, <2>3
  <1>3. CASE IngestClear
    <2>1. buf' = buf /\ failed' = failed /\ unflushed' = 0 /\ pc' = Resumed /\ pc \in {"clear", "clearEnd"}
      BY <1>3 DEF IngestClear
    <2>2. Len(buf) <= Slack /\ Slack' = Slack
      BY <2>1, SlackType DEF Counting
    <2>3. QED
      BY <1>1, <2>1, <2>2, ResumedPlace DEF Counting
  <1>4. CASE CountWindow
    <2>1. UNCHANGED <<buf, failed, unflushed, statusPc>> /\ pc' = "wait"
      BY <1>4 DEF CountWindow, sdVars
    <2>2. QED
      BY <2>1, SlackType DEF Counting
  <1>5. CASE StatusClear
    <2>1. UNCHANGED <<buf, failed, pc>> /\ unflushed' = 0 /\ statusPc' = "idle" /\ statusPc = "clear"
      BY <1>5 DEF StatusClear, ingestVars
    <2>2. Len(buf) <= unflushed + Slack /\ Slack' = Slack
      BY <2>1, SlackType DEF Counting
    <2>3. QED
      BY <1>1, <2>1, <2>2 DEF Counting
  <1>6. QED
    BY <1>2, <1>3, <1>4, <1>5 DEF FlushStep

LEMMA StepCounting == Typed /\ Counting /\ [Next]_vars => Counting'
  <1> SUFFICES ASSUME Typed, Counting, [Next]_vars
               PROVE  Counting'
    OBVIOUS
  <1>1. CASE Brain \/ Receive \/ UNCHANGED vars
    <2>1. UNCHANGED <<buf, failed, unflushed, statusPc>>
      BY <1>1 DEF Brain, Merge, PushChunk, PushFails, BrainRestarts, Receive, vars, sdVars
    <2>2. pc' = pc \/ pc' \in {"feed", "last"}
      BY <1>1, ReceiveView DEF Brain, Merge, PushChunk, PushFails, BrainRestarts, vars, ingestVars
    <2>3. QED
      BY <2>1, <2>2, SlackType DEF Counting
  <1>2. CASE FeedByte \/ LastLine
    BY <1>2, IngestCounting
  <1>3. CASE FlushStep
    BY <1>3, FlushCounting
  <1>4. CASE PowerLoss
    <2>1. /\ buf' = <<>> /\ failed' = 0 /\ unflushed' = 0 /\ pc' = "wait" /\ statusPc' = "idle"
          /\ Len(buf') = 0
      BY <1>4 DEF PowerLoss
    <2>2. QED
      BY <2>1, SlackType, SizesAssumption DEF Counting
  <1>5. QED
    BY <1>1, <1>2, <1>3, <1>4 DEF Next, Ingest, Status, FlushStep

\* Whatever ingest_task and status_task do to the count of unwritten lines, and whichever flush fails, a
\* power loss takes at most twice as many as make append flush, and as many again for every failed write.
THEOREM LossCorrect == Spec => []LossBounded
  <1>1. Init => Counting
    BY SizesAssumption DEF Init, Counting, Slack
  <1>2. Typed /\ Counting => LossBounded
    <2> SUFFICES ASSUME Typed, Counting
                 PROVE  LossBounded
      OBVIOUS
    <2>1. Len(buf) \in Nat /\ unflushed \in 0..FlushEvery /\ Slack \in Nat /\ FlushEvery \in Nat
      BY BufLength, SlackType, SizesAssumption
    <2>2. 2 * FlushEvery * (1 + failed) = Slack + 2 * FlushEvery
      BY SlackType
    <2>3. Len(buf) <= unflushed + FlushEvery + Slack
      BY DEF Counting
    <2>4. QED
      BY <2>1, <2>2, <2>3 DEF LossBounded
  <1>3. QED
    BY <1>1, <1>2, StepCounting, AlwaysTyped, PTL DEF Spec

----------------------------------------------------------------------------
(* NoSplice and KeepsLog.  Everything that moves towards the card lies in   *)
(* one order: the lines that were kept, the line being collected, the chunk *)
(* being read, the queue, and what the brain has still to send.  Passed     *)
(* says it of a byte, Good of a whole line.                                 *)

Behind(b, p, o) == b.push < p \/ (b.push = p /\ b.off < o)
EndsBy(c, p, o) == c.push < p \/ (c.push = p /\ c.off + c.len <= o)
InWindow(c) == c.off + c.len <= pushes[c.push].layout.len

Passed(b) ==
  /\ \A i \in DOMAIN rxq : Behind(b, rxq[i].push, rxq[i].off)
  /\ off # Idle => Behind(b, Len(pushes), off)
  /\ pc # "wait" => Behind(b, ch.push, at)

Good(l) == Store!IsLine(l) /\ \A k \in 1..Len(l) : Passed(l[k])

QueueInOrder ==
  /\ \A i \in DOMAIN rxq : InWindow(rxq[i]) /\ (off # Idle => EndsBy(rxq[i], Len(pushes), off))
  /\ \A i, j \in DOMAIN rxq : i < j => EndsBy(rxq[i], rxq[j].push, rxq[j].off)

ChunkInOrder == pc # "wait" =>
  /\ InWindow(ch) /\ pushes[ch.push].num = curSeq
  /\ expOff = ch.off + ch.len /\ at <= ch.off + ch.len
  /\ \A i \in DOMAIN rxq : EndsBy(ch, rxq[i].push, rxq[i].off)
  /\ off # Idle => EndsBy(ch, Len(pushes), off)

LineInOrder == line # <<>> =>
  /\ Good(line) /\ pc \in {"wait", "feed", "last"}
  /\ pushes[line[Len(line)].push].num = curSeq
  /\ line[Len(line)].off + 1 = IF pc = "wait" THEN expOff ELSE at
  /\ \A i \in 1..Len(Log) : \A k \in 1..Len(Log[i].bytes) : Store!Before(Log[i].bytes[k], line[1])

LogInOrder == \A i \in 1..Len(Log) : Good(Log[i].bytes)

InOrder == QueueInOrder /\ ChunkInOrder /\ LineInOrder /\ LogInOrder

LEMMA LogType ==
  ASSUME Typed
  PROVE  /\ Log \in Seq(Writes) /\ Len(Log) \in Nat /\ DOMAIN Log = 1..Len(Log)
         /\ card \in Seq(Writes) /\ buf \in Seq(Writes) /\ line \in Lines
         /\ \A i \in 1..Len(Log) : Log[i] \in Writes /\ Log[i].bytes \in Lines
  <1>1. card \in Seq(Writes) /\ buf \in Seq(Writes) /\ line \in Lines
    BY DEF Typed, StoreOK, LineOK
  <1>2. Log \in Seq(Writes)
    BY <1>1, ConcatProperties DEF Log
  <1>3. \A i \in 1..Len(Log) : Log[i] \in Writes
    BY <1>2, ElementOfSeq
  <1>4. QED
    BY <1>1, <1>2, <1>3, WriteType

LEMMA LastByteType ==
  ASSUME NEW l \in Lines, l # <<>>
  PROVE  /\ Len(l) \in Nat \ {0} /\ DOMAIN l = 1..Len(l)
         /\ l[1] \in Bytes /\ l[Len(l)] \in Bytes
  <1>1. l \in Seq(Bytes)
    BY DEF Lines
  <1>2. Len(l) \in Nat \ {0}
    BY <1>1, EmptySeq
  <1>3. QED
    BY <1>1, <1>2, ElementOfSeq

\* What a line begins with is a line as well, behind as much.
LEMMA GoodBegins ==
  ASSUME NEW m \in Lines, Good(m), NEW l \in Lines, l # <<>>, Len(l) <= Len(m), \A k \in 1..Len(l) : l[k] = m[k]
  PROVE  Good(l)
  <1>1. /\ Len(l) \in Nat /\ Len(m) \in Nat
        /\ DOMAIN l = 1..Len(l) /\ DOMAIN m = 1..Len(m)
    BY DEF Lines
  <1>2. DOMAIN l \subseteq DOMAIN m
    BY <1>1
  <1>3. ASSUME NEW i \in DOMAIN l
        PROVE  Store!IsByte(l[i]) /\ ~ Store!IsRecordEnd(l[i])
    <2>1. i \in DOMAIN m /\ l[i] = m[i]
      BY <1>1, <1>2
    <2>2. QED
      BY <2>1 DEF Good, Store!IsLine
  <1>4. ASSUME NEW i \in DOMAIN l, i > 1
        PROVE  Store!Continues(l[i - 1], l[i])
    <2>1. i \in DOMAIN m /\ l[i] = m[i] /\ l[i - 1] = m[i - 1]
      BY <1>1, <1>2, <1>4
    <2>2. QED
      BY <1>4, <2>1 DEF Good, Store!IsLine
  <1>5. \A k \in 1..Len(l) : Passed(l[k])
    BY <1>1, <1>2 DEF Good
  <1>6. QED
    BY <1>3, <1>4, <1>5 DEF Good, Store!IsLine

\* What the file gets is the next write of the log, or the log has lost its end, and with it a window for
\* whose loss the node is known.
Adds(v) ==
  /\ line # <<>> /\ line' = <<>> /\ pushes' = pushes
  /\ v = Store!Whole(line) \/ v \in Store!Rests(Store!Unended(line))
  /\ Log' = Append(Log, v)
Crops ==
  /\ pushes' = pushes
  /\ \E r \in Store!Cuts(buf) : Log' = card \o r /\ Lost(buf, r) \subseteq hurt'

LEMMA LogAppended ==
  ASSUME Typed, NEW v \in Writes, buf' = Append(buf, v), UNCHANGED card
  PROVE  Log' = Append(Log, v)
  <1>1. card \in Seq(Writes) /\ buf \in Seq(Writes) /\ <<v>> \in Seq(Writes)
    BY LogType
  <1>2. buf' = buf \o <<v>>
    BY <1>1, AppendIsConcat
  <1>3. Log' = Log \o <<v>>
    BY <1>1, <1>2, ConcatAssociative DEF Log
  <1>4. QED
    BY <1>1, <1>3, LogType, AppendIsConcat

LEMMA LogKept ==
  ASSUME Typed, Kept, line # <<>>, line' = <<>>, UNCHANGED <<card, pushes>>
  PROVE  Adds(Store!Whole(line))
  <1>1. Store!Whole(line) \in Writes /\ buf' = Append(buf, Store!Whole(line))
    BY LogType, WrittenLine DEF Kept
  <1>2. Log' = Append(Log, Store!Whole(line))
    BY <1>1, LogAppended
  <1>3. QED
    BY <1>2 DEF Adds

LEMMA LogSpoilt ==
  ASSUME Typed, Spoilt, line # <<>>, line' = <<>>, UNCHANGED <<card, pushes>>
  PROVE  Crops \/ \E v \in Writes : Adds(v)
  <1> DEFINE w == Store!Unended(line)
             u == Store!Whole(line)
  <1>1. buf \in Seq(Writes) /\ w \in Writes /\ u \in Writes
    BY LogType, WrittenLine
  <1>2. buf' \in Store!Cuts(Append(buf, w)) /\ Lost(Append(buf, u), buf') \subseteq hurt'
    BY DEF Spoilt
  <1> HIDE DEF w, u
  <1>3. buf' \in Store!Cuts(buf) \/ \E v \in Store!Rests(w) : buf' = Append(buf, v)
    BY <1>1, <1>2, CutAppend
  <1>4. CASE buf' \in Store!Cuts(buf)
    <2>1. /\ DOMAIN buf = 1..Len(buf) /\ Len(buf) \in Nat
          /\ DOMAIN Append(buf, u) = 1..(Len(buf) + 1)
          /\ \A i \in 1..Len(buf) : Append(buf, u)[i] = buf[i]
      BY <1>1, AppendProperties
    <2>2. \A i \in DOMAIN buf : i \in DOMAIN Append(buf, u) /\ Append(buf, u)[i] = buf[i]
      BY <2>1
    <2>3. Lost(buf, buf') \subseteq Lost(Append(buf, u), buf')
      BY <2>2 DEF Lost
    <2>4. Log' = card \o buf'
      BY DEF Log
    <2>5. QED
      BY <1>2, <1>4, <2>3, <2>4 DEF Crops
  <1>5. CASE \E v \in Store!Rests(w) : buf' = Append(buf, v)
    <2>1. PICK v \in Store!Rests(w) : buf' = Append(buf, v)
      BY <1>5
    <2>2. v \in Writes
      BY <1>1, RestType
    <2>3. Log' = Append(Log, v)
      BY <2>1, <2>2, LogAppended
    <2>4. QED
      BY <2>1, <2>2, <2>3 DEF Adds, w
  <1>6. QED
    BY <1>3, <1>4, <1>5

LEMMA LogWritten ==
  ASSUME Typed, Written \/ UNCHANGED <<buf, card>>
  PROVE  Log' = Log
  <1>1. CASE Written
    BY <1>1, LogType, ConcatEmptySeq DEF Written, Log
  <1>2. CASE UNCHANGED <<buf, card>>
    BY <1>2 DEF Log
  <1>3. QED
    BY <1>1, <1>2

LEMMA LogWriteFails ==
  ASSUME Typed, WriteFails, UNCHANGED pushes
  PROVE  Crops
  <1>1. PICK r \in Store!Cuts(buf) :
          /\ hurt' = hurt \cup Lost(buf, r)
          /\ \/ card' = card \o r /\ buf' = <<>>
             \/ card' = card /\ buf' = r
    BY DEF WriteFails
  <1>2. card \o r \in Seq(Writes)
    BY LogType, CutType, ConcatProperties
  <1>3. (card \o r) \o <<>> = card \o r
    BY <1>2, ConcatEmptySeq
  <1>4. Log' = card \o r
    BY <1>1, <1>3 DEF Log
  <1>5. QED
    BY <1>1, <1>4 DEF Crops

\* A log that has lost its end holds what is left of it, and of every write there the first bytes.
LEMMA LogLost ==
  ASSUME Typed, Crops \/ PowerLoss
  PROVE  /\ pushes' = pushes
         /\ \E r \in Store!Cuts(Log) : Log' \in {r, Store!Shut(r)}
         /\ Len(Log') \in 0..Len(Log)
         /\ \A i \in 1..Len(Log') :
              /\ i < Len(Log') => Log'[i] = Log[i]
              /\ Log'[i].bytes \in Lines /\ Len(Log'[i].bytes) <= Len(Log[i].bytes)
              /\ \A k \in 1..Len(Log'[i].bytes) : Log'[i].bytes[k] = Log[i].bytes[k]
              /\ Log[i].bytes # <<>> => Log'[i].bytes # <<>>
  <1>1. card \in Seq(Writes) /\ buf \in Seq(Writes) /\ Log \in Seq(Writes) /\ Len(Log) \in Nat
    BY LogType
  <1>2. pushes' = pushes
    BY DEF Crops, PowerLoss, brainVars
  <1>3. \E r \in Store!Cuts(Log) : Log' \in {r, Store!Shut(r)}
    <2>1. CASE Crops
      <3>1. PICK r \in Store!Cuts(buf) : Log' = card \o r
        BY <2>1 DEF Crops
      <3>2. card \o r \in Store!Cuts(card \o buf)
        BY <1>1, CutConcat
      <3>3. QED
        BY <3>1, <3>2 DEF Log
    <2>2. CASE PowerLoss
      <3>1. card' \in {card, Store!Shut(card)} /\ buf' = <<>>
        BY <2>2 DEF PowerLoss
      <3>2. card' \in Seq(Writes)
        BY <1>1, <3>1, ShutType
      <3>3. Log' = card'
        BY <3>1, <3>2, ConcatEmptySeq DEF Log
      <3>4. card \in Store!Cuts(card \o buf)
        BY <1>1, CutBegins
      <3>5. QED
        BY <3>1, <3>3, <3>4 DEF Log
    <2>3. QED
      BY <2>1, <2>2
  <1>4. PICK r \in Store!Cuts(Log) : Log' \in {r, Store!Shut(r)}
    BY <1>3
  <1>5. /\ r \in Seq(Writes) /\ Len(r) \in 0..Len(Log)
        /\ \A i \in 1..Len(r) : i < Len(r) => r[i] = Log[i]
        /\ r # <<>> => r[Len(r)] \in Store!Rests(Log[Len(r)])
    BY <1>1, CutType
  <1>6. /\ Len(Log') = Len(r) /\ Len(r) \in Nat
        /\ \A i \in 1..Len(r) : Log'[i].bytes = r[i].bytes /\ (i < Len(r) => Log'[i] = r[i])
    BY <1>4, <1>5, ShutType
  <1>7. ASSUME NEW i \in 1..Len(r)
        PROVE  /\ r[i].bytes \in Lines /\ Len(r[i].bytes) <= Len(Log[i].bytes)
               /\ \A k \in 1..Len(r[i].bytes) : r[i].bytes[k] = Log[i].bytes[k]
               /\ Log[i].bytes # <<>> => r[i].bytes # <<>>
    <2>1. i \in 1..Len(Log)
      BY <1>1, <1>5, <1>6
    <2>2. Log[i] \in Writes /\ r[i] \in Writes
      BY <1>1, <1>5, <2>1, ElementOfSeq
    <2>3. CASE i < Len(r)
      BY <1>5, <2>2, <2>3, WriteType
    <2>4. CASE ~(i < Len(r))
      <3>1. i = Len(r) /\ r # <<>>
        BY <1>5, <1>6, <2>4, EmptySeq
      <3>2. r[i] \in Store!Rests(Log[i])
        BY <1>5, <3>1
      <3>3. QED
        BY <2>2, <3>2, RestType, WriteType
    <2>5. QED
      BY <2>3, <2>4
  <1>8. QED
    BY <1>2, <1>3, <1>5, <1>6, <1>7

\* A line stays one when a window is sent, whatever else happens.
LEMMA LineStays ==
  ASSUME Typed, NEW l \in Lines, Store!IsLine(l), Merge \/ UNCHANGED pushes
  PROVE  Store!IsLine(l)'
  <1>1. \A p \in DOMAIN pushes : p \in DOMAIN pushes' /\ pushes'[p] = pushes[p]
    BY MergeGrows DEF Typed
  <1>2. DOMAIN l = 1..Len(l) /\ Len(l) \in Nat
    BY DEF Lines
  <1>3. \A i \in DOMAIN l : l[i].push \in DOMAIN pushes /\ pushes'[l[i].push] = pushes[l[i].push]
    BY <1>1 DEF Store!IsLine, Store!IsByte
  <1>4. ASSUME NEW i \in DOMAIN l
        PROVE  Store!IsByte(l[i])' /\ ~ Store!IsRecordEnd(l[i])'
    BY <1>1, <1>3 DEF Store!IsLine, Store!IsByte, Store!IsRecordEnd
  <1>5. ASSUME NEW i \in DOMAIN l, i > 1
        PROVE  Store!Continues(l[i - 1], l[i])'
    <2>1. i - 1 \in DOMAIN l
      BY <1>2, <1>5
    <2>2. QED
      BY <1>3, <1>5, <2>1 DEF Store!IsLine, Store!Continues
  <1>6. QED
    BY <1>4, <1>5 DEF Store!IsLine

\* The types that the order speaks about.
LEMMA OrderTypes ==
  ASSUME Typed
  PROVE  /\ DOMAIN rxq = 1..Len(rxq) /\ Len(rxq) \in Nat /\ Len(pushes) \in Nat /\ DOMAIN pushes = 1..Len(pushes)
         /\ \A i \in DOMAIN rxq : rxq[i].push \in DOMAIN pushes /\ rxq[i].off \in Nat /\ rxq[i].len \in Nat
         /\ off # Idle => off \in Nat /\ Len(pushes) \in DOMAIN pushes
         /\ at \in Nat /\ expOff \in Nat /\ ch.push \in Nat /\ ch.off \in Nat /\ ch.len \in Nat
         /\ pc # "wait" => ch.push \in DOMAIN pushes
         /\ \A p \in DOMAIN pushes : p \in Nat /\ pushes[p].layout.len \in Nat
  <1>1. BrainOK /\ QueueOK /\ IngestOK
    BY DEF Typed
  <1>2. rxq \in Seq(Queued1)
    BY <1>1 DEF QueueOK
  <1>3. DOMAIN rxq = 1..Len(rxq) /\ Len(rxq) \in Nat /\ \A i \in 1..Len(rxq) : rxq[i] \in Queued1
    BY <1>2, ElementOfSeq
  <1>4. \A i \in DOMAIN rxq : rxq[i].push \in DOMAIN pushes /\ rxq[i].off \in Nat /\ rxq[i].len \in Nat
    BY <1>3 DEF Queued1
  <1>5. off # Idle => off \in Nat /\ Len(pushes) \in DOMAIN pushes
    BY <1>1, PushesType, EmptySeq DEF BrainOK
  <1>6. /\ at \in Nat /\ expOff \in Nat /\ ch.push \in Nat /\ ch.off \in Nat /\ ch.len \in Nat
        /\ pc # "wait" => ch.push \in DOMAIN pushes
    BY <1>1, BoundsAssumption DEF IngestOK, Chunks, Windows
  <1>7. QED
    BY <1>1, <1>3, <1>4, <1>5, <1>6, PushesType

\* The chunk that a transfer adds comes after everything.
LEMMA PushOrder ==
  ASSUME Typed, PushChunk
  PROVE  \E c \in Queued1 :
         /\ off # Idle /\ off \in Nat /\ c.push = Len(pushes) /\ c.off = off /\ c.len \in Nat
         /\ InWindow(c)
         /\ off' = Idle \/ off' = off + c.len
         /\ UNCHANGED <<pushes, pc, ch, at, curSeq, expOff, line, buf, card>>
         /\ DOMAIN rxq \subseteq DOMAIN rxq'
         /\ \A i \in DOMAIN rxq : rxq'[i] = rxq[i]
         /\ \A i \in DOMAIN rxq' \ DOMAIN rxq : rxq'[i] = c /\ \A j \in DOMAIN rxq' : j <= i
  <1> DEFINE c == Chunk(Len(pushes), off)
  <1>1. BrainOK /\ off # Idle /\ off \in Nat
    BY PushView, OrderTypes DEF Typed
  <1>2. c \in Queued1 /\ c.push = Len(pushes) /\ c.off = off /\ off + c.len <= pushes[Len(pushes)].layout.len
    BY <1>1, ChunkType
  <1>3. c.len \in Nat /\ InWindow(c)
    BY <1>2 DEF Queued1, InWindow
  <1>4. /\ off' = Idle \/ off' = off + c.len
        /\ UNCHANGED <<pushes, pc, ch, at, curSeq, expOff, line, buf, card>>
    BY PushView DEF ingestVars, sdVars
  <1>5. CASE rxq' = Append(rxq, c)
    <2>1. rxq \in Seq(Queued1)
      BY DEF Typed, QueueOK
    <2>2. /\ Len(rxq') = Len(rxq) + 1 /\ rxq'[Len(rxq) + 1] = c /\ rxq' \in Seq(Queued1)
          /\ \A i \in 1..Len(rxq) : rxq'[i] = rxq[i]
      BY <1>2, <1>5, <2>1, AppendProperties
    <2>3. DOMAIN rxq' = 1..Len(rxq') /\ DOMAIN rxq = 1..Len(rxq)
      BY <2>1, <2>2
    <2>4. /\ DOMAIN rxq \subseteq DOMAIN rxq'
          /\ \A i \in DOMAIN rxq : rxq'[i] = rxq[i]
          /\ \A i \in DOMAIN rxq' \ DOMAIN rxq : i = Len(rxq) + 1
      BY <2>1, <2>2, <2>3
    <2>5. \A i \in DOMAIN rxq' \ DOMAIN rxq : rxq'[i] = c /\ \A j \in DOMAIN rxq' : j <= i
      BY <2>2, <2>3, <2>4
    <2>6. QED
      BY <1>1, <1>2, <1>3, <1>4, <2>4, <2>5
  <1>6. CASE rxq' = rxq
    BY <1>1, <1>2, <1>3, <1>4, <1>6
  <1>7. QED
    BY <1>5, <1>6, PushView

\* What is behind everything that is on its way stays behind it.
LEMMA PassedStays ==
  ASSUME Typed, NEW b \in Bytes, Passed(b), [Next]_vars
  PROVE  Passed(b)'
  <1> USE DEF Passed, Behind
  <1>1. b.push \in DOMAIN pushes /\ b.push \in Nat /\ b.off \in Nat
    BY OrderTypes DEF Bytes
  <1>2. CASE Merge
    <2>1. /\ off' = 0 /\ UNCHANGED <<rxq, pc, ch, at>>
          /\ Len(pushes') = Len(pushes) + 1 /\ b.push <= Len(pushes) /\ Len(pushes) \in Nat
      BY <1>1, <1>2, MergeGrows, OrderTypes DEF Typed, Merge, ingestVars
    <2>2. QED
      BY <1>1, <2>1
  <1>3. CASE PushChunk
    <2>1. PICK c \in Queued1 :
            /\ off # Idle /\ off \in Nat /\ c.push = Len(pushes) /\ c.off = off /\ c.len \in Nat
            /\ off' = Idle \/ off' = off + c.len
            /\ UNCHANGED <<pushes, pc, ch, at>>
            /\ \A i \in DOMAIN rxq : rxq'[i] = rxq[i]
            /\ \A i \in DOMAIN rxq' \ DOMAIN rxq : rxq'[i] = c
      BY <1>3, PushOrder
    <2>2. ASSUME NEW i \in DOMAIN rxq'
          PROVE  Behind(b, rxq'[i].push, rxq'[i].off)
      BY <2>1
    <2>3. off' # Idle => Behind(b, Len(pushes), off')
      BY <1>1, <2>1, OrderTypes
    <2>4. QED
      BY <2>1, <2>2, <2>3
  <1>4. CASE PushFails \/ BrainRestarts
    BY <1>4 DEF PushFails, BrainRestarts, ingestVars
  <1>5. CASE Receive
    <2>1. /\ UNCHANGED <<pushes, off>> /\ rxq' = Tail(rxq) /\ ch' = Head(rxq) /\ rxq # <<>>
          /\ pc' # "wait" => at' = Head(rxq).off
      BY <1>5, ReceiveView DEF brainVars
    <2>2. /\ Head(rxq) = rxq[1] /\ Len(rxq) \in Nat \ {0} /\ Len(Tail(rxq)) = Len(rxq) - 1
          /\ DOMAIN rxq = 1..Len(rxq) /\ DOMAIN Tail(rxq) = 1..Len(Tail(rxq))
          /\ \A i \in 1..Len(Tail(rxq)) : Tail(rxq)[i] = rxq[i + 1]
      BY <2>1, HeadType, OrderTypes
    <2>3. QED
      BY <2>1, <2>2
  <1>6. CASE FeedByte
    BY <1>1, <1>6, FeedView, OrderTypes DEF brainVars
  <1>7. CASE LastLine
    BY <1>7, LastView DEF brainVars
  <1>8. CASE FlushStep
    BY <1>8, FlushView DEF brainVars
  <1>9. CASE PowerLoss
    BY <1>9 DEF PowerLoss, brainVars
  <1>10. CASE UNCHANGED vars
    BY <1>10 DEF vars, brainVars, ingestVars
  <1>11. QED
    BY <1>2, <1>3, <1>4, <1>5, <1>6, <1>7, <1>8, <1>9, <1>10 DEF Next, Brain, Ingest, Status, FlushStep

LEMMA PushesStay ==
  ASSUME Typed, [Next]_vars
  PROVE  Merge \/ UNCHANGED pushes
  BY FlushView, FeedView, LastView, ReceiveView, PushView
     DEF Next, Brain, Ingest, Status, FlushStep, PushFails, BrainRestarts, PowerLoss, vars, brainVars

LEMMA GoodStays ==
  ASSUME Typed, NEW l \in Lines, Good(l), [Next]_vars
  PROVE  Good(l)'
  <1>1. Store!IsLine(l)'
    BY LineStays, PushesStay DEF Good
  <1>2. ASSUME NEW k \in 1..Len(l)
        PROVE  Passed(l[k])'
    <2>1. l[k] \in Bytes
      BY ElementOfSeq DEF Lines
    <2>2. QED
      BY <2>1, PassedStays DEF Good
  <1>3. QED
    BY <1>1, <1>2 DEF Good

----------------------------------------------------------------------------
(* QueueInOrder and ChunkInOrder, action by action *)

LEMMA QueueStaysType ==
  ASSUME Typed, [Next]_vars
  PROVE  DOMAIN rxq' = 1..Len(rxq') /\ Len(rxq') \in Nat
  <1>1. rxq' \in Seq(Queued1')
    BY StepTyped DEF Typed, QueueOK
  <1>2. QED
    BY <1>1

LEMMA QueueStays ==
  ASSUME Typed, QueueInOrder, [Next]_vars
  PROVE  QueueInOrder'
  <1> USE OrderTypes DEF QueueInOrder, EndsBy, InWindow
  <1>1. CASE Merge
    <2>1. /\ off' = 0 /\ rxq' = rxq /\ Len(pushes') = Len(pushes) + 1
          /\ \A p \in DOMAIN pushes : pushes'[p] = pushes[p]
      BY <1>1, MergeGrows DEF Typed, Merge
    <2>2. QED
      BY <2>1
  <1>2. CASE PushChunk
    <2>1. PICK c \in Queued1 :
            /\ off # Idle /\ off \in Nat /\ c.push = Len(pushes) /\ c.off = off /\ c.len \in Nat
            /\ InWindow(c) /\ (off' = Idle \/ off' = off + c.len)
            /\ pushes' = pushes
            /\ DOMAIN rxq \subseteq DOMAIN rxq'
            /\ \A i \in DOMAIN rxq : rxq'[i] = rxq[i]
            /\ \A i \in DOMAIN rxq' \ DOMAIN rxq : rxq'[i] = c /\ \A j \in DOMAIN rxq' : j <= i
      BY <1>2, PushOrder
    <2>2. ASSUME NEW i \in DOMAIN rxq'
          PROVE  InWindow(rxq[i])' /\ (off' # Idle => EndsBy(rxq'[i], Len(pushes), off'))
      <3>1. CASE i \in DOMAIN rxq
        <4>1. rxq'[i] = rxq[i] /\ InWindow(rxq[i]) /\ EndsBy(rxq[i], Len(pushes), off)
          BY <2>1, <3>1
        <4>2. rxq[i].push \in Nat /\ rxq[i].off \in Nat /\ rxq[i].len \in Nat
          BY <3>1
        <4>3. off' # Idle => EndsBy(rxq[i], Len(pushes), off')
          BY <2>1, <4>1, <4>2
        <4>4. QED
          BY <2>1, <4>1, <4>3
      <3>2. CASE i \notin DOMAIN rxq
        BY <2>1, <2>2, <3>2
      <3>3. QED
        BY <3>1, <3>2
    <2>3. ASSUME NEW i \in DOMAIN rxq', NEW j \in DOMAIN rxq', i < j
          PROVE  EndsBy(rxq'[i], rxq'[j].push, rxq'[j].off)
      <3>1. DOMAIN rxq' = 1..Len(rxq')
        BY QueueStaysType
      <3>2. i \in DOMAIN rxq
        BY <2>1, <2>3, <3>1
      <3>3. CASE j \in DOMAIN rxq
        BY <2>1, <2>3, <3>2, <3>3
      <3>4. CASE j \notin DOMAIN rxq
        BY <2>1, <3>2, <3>4
      <3>5. QED
        BY <3>3, <3>4
    <2>4. QED
      BY <2>1, <2>2, <2>3
  <1>3. CASE PushFails \/ BrainRestarts
    BY <1>3 DEF PushFails, BrainRestarts
  <1>4. CASE Receive
    <2>1. UNCHANGED <<pushes, off>> /\ rxq' = Tail(rxq) /\ rxq # <<>>
      BY <1>4, ReceiveView DEF brainVars
    <2>2. /\ Len(rxq) \in Nat \ {0} /\ Len(Tail(rxq)) = Len(rxq) - 1
          /\ DOMAIN Tail(rxq) = 1..Len(Tail(rxq))
          /\ \A i \in 1..Len(Tail(rxq)) : Tail(rxq)[i] = rxq[i + 1]
      BY <2>1, HeadType
    <2>3. \A i \in DOMAIN rxq' : i + 1 \in DOMAIN rxq /\ rxq'[i] = rxq[i + 1]
      BY <2>1, <2>2
    <2>4. QED
      BY <2>1, <2>2, <2>3
  <1>5. CASE FeedByte \/ LastLine \/ FlushStep
    BY <1>5, FeedView, LastView, FlushView DEF brainVars
  <1>6. CASE PowerLoss
    BY <1>6 DEF PowerLoss
  <1>7. CASE UNCHANGED vars
    BY <1>7 DEF vars, brainVars
  <1>8. QED
    BY <1>1, <1>2, <1>3, <1>4, <1>5, <1>6, <1>7 DEF Next, Brain, Ingest, Status, FlushStep

LEMMA ChunkStays ==
  ASSUME Typed, QueueInOrder, ChunkInOrder, [Next]_vars
  PROVE  ChunkInOrder'
  <1> USE OrderTypes DEF ChunkInOrder, EndsBy, InWindow
  <1>1. CASE Merge
    <2>1. /\ off' = 0 /\ Len(pushes') = Len(pushes) + 1 /\ UNCHANGED <<rxq, pc, ch, at, curSeq, expOff>>
          /\ \A p \in DOMAIN pushes : pushes'[p] = pushes[p]
      BY <1>1, MergeGrows DEF Typed, Merge, ingestVars
    <2>2. QED
      BY <2>1
  <1>2. CASE PushChunk
    <2>1. PICK c \in Queued1 :
            /\ off # Idle /\ off \in Nat /\ c.push = Len(pushes) /\ c.off = off /\ c.len \in Nat
            /\ off' = Idle \/ off' = off + c.len
            /\ UNCHANGED <<pushes, pc, ch, at, curSeq, expOff>>
            /\ \A i \in DOMAIN rxq : rxq'[i] = rxq[i]
            /\ \A i \in DOMAIN rxq' \ DOMAIN rxq : rxq'[i] = c
      BY <1>2, PushOrder
    <2>2. ASSUME pc # "wait", NEW i \in DOMAIN rxq'
          PROVE  EndsBy(ch, rxq'[i].push, rxq'[i].off)
      BY <2>1, <2>2
    <2>3. pc # "wait" /\ off' # Idle => EndsBy(ch, Len(pushes), off')
      BY <2>1
    <2>4. QED
      BY <2>1, <2>2, <2>3
  <1>3. CASE PushFails \/ BrainRestarts
    BY <1>3 DEF PushFails, BrainRestarts, ingestVars
  <1>4. CASE Receive
    <2>1. /\ UNCHANGED <<pushes, off>> /\ rxq' = Tail(rxq) /\ ch' = Head(rxq) /\ rxq # <<>>
          /\ pc' # "wait" => /\ curSeq' = pushes[Head(rxq).push].num /\ at' = Head(rxq).off
                             /\ expOff' = Head(rxq).off + Head(rxq).len
      BY <1>4, ReceiveView DEF brainVars
    <2>2. /\ Len(rxq) \in Nat \ {0} /\ Len(Tail(rxq)) = Len(rxq) - 1 /\ Head(rxq) = rxq[1]
          /\ DOMAIN Tail(rxq) = 1..Len(Tail(rxq))
          /\ \A i \in 1..Len(Tail(rxq)) : Tail(rxq)[i] = rxq[i + 1]
      BY <2>1, HeadType
    <2>3. 1 \in DOMAIN rxq /\ \A i \in DOMAIN rxq' : i + 1 \in DOMAIN rxq /\ i + 1 > 1 /\ rxq'[i] = rxq[i + 1]
      BY <2>1, <2>2
    <2>4. /\ InWindow(rxq[1]) /\ (off # Idle => EndsBy(rxq[1], Len(pushes), off))
          /\ \A j \in DOMAIN rxq : 1 < j => EndsBy(rxq[1], rxq[j].push, rxq[j].off)
      BY <2>3 DEF QueueInOrder
    <2>5. QED
      BY <2>1, <2>2, <2>3, <2>4
  <1>5. CASE FeedByte
    BY <1>5, FeedView DEF brainVars
  <1>6. CASE LastLine \/ FlushStep
    <2>1. UNCHANGED <<pushes, off, rxq, ch, at, curSeq, expOff>> /\ (pc = "wait" => pc' = "wait")
      BY <1>6, LastView, FlushView DEF brainVars
    <2>2. QED
      BY <2>1
  <1>7. CASE PowerLoss
    BY <1>7 DEF PowerLoss
  <1>8. CASE UNCHANGED vars
    BY <1>8 DEF vars, brainVars, ingestVars
  <1>9. QED
    BY <1>1, <1>2, <1>3, <1>4, <1>5, <1>6, <1>7, <1>8 DEF Next, Brain, Ingest, Status, FlushStep

----------------------------------------------------------------------------
(* LineInOrder and LogInOrder *)

LEMMA LogSteps ==
  ASSUME Typed, [Next]_vars
  PROVE  \/ Log' = Log
         \/ \E v \in Writes : Adds(v)
         \/ Crops /\ (line' = line \/ line' = <<>>)
         \/ PowerLoss
  <1>1. CASE Brain \/ Receive \/ UNCHANGED vars
    <2>1. UNCHANGED <<buf, card>>
      BY <1>1, ReceiveView DEF Brain, Merge, PushChunk, PushFails, BrainRestarts, vars, sdVars
    <2>2. QED
      BY <2>1, LogWritten
  <1>2. CASE FeedByte \/ LastLine
    <2>1. UNCHANGED <<card, pushes>>
      BY <1>2, FeedView, LastView DEF brainVars
    <2>2. NotKept \/ ((Kept \/ Spoilt) /\ line # <<>> /\ line' = <<>>)
      BY <1>2, FeedView, LastView
    <2>3. CASE NotKept
      BY <2>1, <2>3, LogWritten DEF NotKept
    <2>4. CASE Kept /\ line # <<>> /\ line' = <<>>
      BY <2>1, <2>4, LogKept, LogType, WrittenLine
    <2>5. CASE Spoilt /\ line # <<>> /\ line' = <<>>
      BY <2>1, <2>5, LogSpoilt
    <2>6. QED
      BY <2>2, <2>3, <2>4, <2>5
  <1>3. CASE FlushStep
    <2>1. pushes' = pushes /\ line' = line
      BY <1>3, FlushView DEF brainVars
    <2>2. QED
      BY <1>3, <2>1, FlushView, LogWritten, LogWriteFails
  <1>4. QED
    BY <1>1, <1>2, <1>3 DEF Next, Ingest, Status, FlushStep

\* What is added to the log is a line, or the beginning of one.
LEMMA AddedLine ==
  ASSUME Typed, LineInOrder, NEW v \in Writes, Adds(v)
  PROVE  /\ Good(v.bytes) /\ v.bytes \in Lines /\ v.bytes # <<>> /\ v.bytes[1] = line[1]
         /\ v \in {Store!Whole(v.bytes), Store!Unended(v.bytes)}
  <1>1. line \in Lines /\ line # <<>> /\ Good(line)
    BY LogType DEF Adds, LineInOrder
  <1>2. CASE v = Store!Whole(line)
    BY <1>1, <1>2 DEF Store!Whole
  <1>3. CASE v \in Store!Rests(Store!Unended(line))
    <2>1. Store!Unended(line) \in Writes /\ Store!Unended(line).bytes = line
      BY <1>1, WrittenLine DEF Store!Unended
    <2>2. /\ Len(v.bytes) \in Nat /\ Len(v.bytes) <= Len(line) /\ v.bytes # <<>> /\ v.bytes \in Lines
          /\ \A k \in 1..Len(v.bytes) : v.bytes[k] = line[k]
      BY <1>1, <1>3, <2>1, RestType, WriteType
    <2>3. Good(v.bytes)
      BY <1>1, <2>2, GoodBegins
    <2>4. 1 \in 1..Len(v.bytes)
      BY <2>2, LastByteType
    <2>5. v \in {Store!Whole(v.bytes), Store!Unended(v.bytes)}
      <3>1. CASE v = Store!Unended(line)
        BY <3>1 DEF Store!Unended
      <3>2. CASE v # Store!Unended(line)
        <4>1. PICK k \in 1..Len(line) : v = Store!Unended(SubSeq(line, 1, k))
          BY <1>3, <2>1, <3>2 DEF Store!Rests
        <4>2. QED
          BY <4>1 DEF Store!Unended
      <3>3. QED
        BY <3>1, <3>2
    <2>6. QED
      BY <2>2, <2>3, <2>4, <2>5
  <1>4. QED
    BY <1>2, <1>3 DEF Adds

LEMMA LogStays ==
  ASSUME Typed, LineInOrder, LogInOrder, [Next]_vars
  PROVE  LogInOrder'
  <1>1. ASSUME NEW l \in Lines, Good(l)
        PROVE  Good(l)'
    BY <1>1, GoodStays
  <1>2. /\ \A i \in 1..Len(Log) : Log[i].bytes \in Lines /\ Good(Log[i].bytes)
        /\ Len(Log) \in Nat /\ Log \in Seq(Writes)
    BY LogType DEF LogInOrder
  <1>3. CASE Log' = Log
    BY <1>1, <1>2, <1>3 DEF LogInOrder
  <1>4. CASE \E v \in Writes : Adds(v)
    <2>1. PICK v \in Writes : Adds(v)
      BY <1>4
    <2>2. v.bytes \in Lines /\ Good(v.bytes)
      BY <2>1, AddedLine
    <2>3. /\ Len(Log') = Len(Log) + 1 /\ Log'[Len(Log) + 1] = v
          /\ \A i \in 1..Len(Log) : Log'[i] = Log[i]
      BY <1>2, <2>1, AppendProperties DEF Adds
    <2>4. ASSUME NEW i \in 1..Len(Log')
          PROVE  Log'[i].bytes \in Lines /\ Good(Log'[i].bytes)
      <3>1. CASE i \in 1..Len(Log)
        BY <1>2, <2>3, <3>1
      <3>2. CASE i \notin 1..Len(Log)
        <4>1. i = Len(Log) + 1
          BY <1>2, <2>3, <2>4, <3>2
        <4>2. QED
          BY <2>2, <2>3, <4>1
      <3>3. QED
        BY <3>1, <3>2
    <2>5. QED
      BY <1>1, <2>4 DEF LogInOrder
  <1>5. CASE Crops \/ PowerLoss
    <2>1. ASSUME NEW i \in 1..Len(Log')
          PROVE  Log'[i].bytes \in Lines /\ Good(Log'[i].bytes)
      <3>1. /\ i \in 1..Len(Log)
            /\ Log'[i].bytes \in Lines /\ Len(Log'[i].bytes) <= Len(Log[i].bytes)
            /\ \A k \in 1..Len(Log'[i].bytes) : Log'[i].bytes[k] = Log[i].bytes[k]
            /\ Log[i].bytes # <<>> => Log'[i].bytes # <<>>
        BY <1>2, <1>5, LogLost
      <3>2. Log[i].bytes \in Lines /\ Good(Log[i].bytes) /\ Log[i].bytes # <<>>
        BY <1>2, <3>1 DEF Good, Store!IsLine
      <3>3. QED
        BY <3>1, <3>2, GoodBegins
    <2>2. QED
      BY <1>1, <2>1 DEF LogInOrder
  <1>6. QED
    BY <1>3, <1>4, <1>5, LogSteps

\* Every byte of the log was there before.
Shorter ==
  \A i \in 1..Len(Log') : \A k \in 1..Len(Log'[i].bytes) :
    /\ i \in 1..Len(Log) /\ k \in 1..Len(Log[i].bytes)
    /\ Log'[i].bytes[k] = Log[i].bytes[k]

LEMMA LogShorter ==
  ASSUME Typed, Log' = Log \/ Crops
  PROVE  Shorter
  <1>1. CASE Log' = Log
    BY <1>1 DEF Shorter
  <1>2. CASE Crops
    <2> SUFFICES ASSUME NEW i \in 1..Len(Log'), NEW k \in 1..Len(Log'[i].bytes)
                 PROVE  /\ i \in 1..Len(Log) /\ k \in 1..Len(Log[i].bytes)
                        /\ Log'[i].bytes[k] = Log[i].bytes[k]
      BY DEF Shorter
    <2>1. /\ i \in 1..Len(Log)
          /\ Log'[i].bytes \in Lines /\ Len(Log'[i].bytes) <= Len(Log[i].bytes)
          /\ Log'[i].bytes[k] = Log[i].bytes[k]
      BY <1>2, LogLost, LogType
    <2>2. Log[i].bytes \in Lines
      BY <2>1, LogType
    <2>3. Len(Log'[i].bytes) \in Nat /\ Len(Log[i].bytes) \in Nat
      BY <2>1, <2>2 DEF Lines
    <2>4. QED
      BY <2>1, <2>3
  <1>3. QED
    BY <1>1, <1>2

\* The line that is being collected is left alone.
LEMMA LineRests ==
  ASSUME Typed, LineInOrder, [Next]_vars, UNCHANGED <<line, pc, at, curSeq, expOff>>, Shorter
  PROVE  LineInOrder'
  <1> SUFFICES ASSUME line # <<>>
               PROVE  LineInOrder'
    BY DEF LineInOrder
  <1>1. line \in Lines /\ Good(line) /\ Good(line)'
    BY GoodStays DEF Typed, LineOK, LineInOrder
  <1>2. line[Len(line)] \in Bytes
    BY <1>1, LastByteType
  <1>3. pushes'[line[Len(line)].push] = pushes[line[Len(line)].push]
    BY <1>2, MergeGrows, PushesStay DEF Typed, Bytes
  <1>4. \A i \in 1..Len(Log') : \A k \in 1..Len(Log'[i].bytes) : Store!Before(Log'[i].bytes[k], line[1])
    BY DEF LineInOrder, Shorter
  <1>5. (\A i \in 1..Len(Log) : \A k \in 1..Len(Log[i].bytes) : Store!Before(Log[i].bytes[k], line[1]))'
    BY <1>4 DEF Store!Before
  <1>6. /\ pushes'[line'[Len(line')].push].num = curSeq'
        /\ line'[Len(line')].off + 1 = IF pc' = "wait" THEN expOff' ELSE at'
        /\ pc' \in {"wait", "feed", "last"}
    BY <1>3 DEF LineInOrder
  <1>7. Good(line)'
    BY <1>1
  <1>8. QED
    BY <1>5, <1>6, <1>7 DEF LineInOrder

\* The byte that is fed is behind all that follows it in its chunk and on the way.
LEMMA BytePassed ==
  ASSUME Typed, InOrder, FeedByte, NEW b, b = Byte
  PROVE  Passed(b)'
  <1>1. /\ pc = "feed" /\ at < ch.off + ch.len /\ at' = at + 1
        /\ UNCHANGED <<pushes, off, rxq, ch>>
    BY FeedView DEF brainVars
  <1>2. /\ at \in Nat /\ ch.off \in Nat /\ ch.len \in Nat /\ ch.push \in Nat /\ Len(pushes) \in Nat
        /\ off # Idle => off \in Nat
    BY OrderTypes
  <1>3. b.push = ch.push /\ b.off = at
    BY DEF Byte
  <1>4. /\ \A i \in DOMAIN rxq : EndsBy(ch, rxq[i].push, rxq[i].off)
        /\ off # Idle => EndsBy(ch, Len(pushes), off)
    BY <1>1 DEF InOrder, ChunkInOrder
  <1>5. ASSUME NEW i \in DOMAIN rxq
        PROVE  Behind(b, rxq[i].push, rxq[i].off)
    <2>1. rxq[i].off \in Nat /\ EndsBy(ch, rxq[i].push, rxq[i].off)
      BY <1>4, OrderTypes
    <2>2. QED
      BY <1>1, <1>2, <1>3, <2>1 DEF Behind, EndsBy
  <1>6. off # Idle => Behind(b, Len(pushes), off)
    BY <1>1, <1>2, <1>3, <1>4 DEF Behind, EndsBy
  <1>7. Behind(b, ch.push, at + 1)
    BY <1>2, <1>3 DEF Behind
  <1>8. QED
    BY <1>1, <1>5, <1>6, <1>7 DEF Passed, Behind

\* The byte that is fed continues the line, or begins one behind all that was kept.
LEMMA LineGrows ==
  ASSUME Typed, InOrder, FeedByte, ~ IsRecordEnd(Byte), line' = Append(line, Byte), pc' = AfterByte, Log' = Log
  PROVE  LineInOrder'
  <1> DEFINE last == line[Len(line)]
  <1>1. /\ pc = "feed" /\ at < ch.off + ch.len /\ at' = at + 1
        /\ UNCHANGED <<pushes, off, rxq, ch, curSeq, expOff>>
    BY FeedView DEF brainVars
  <1>2. /\ ch.push \in DOMAIN pushes /\ at \in Nat /\ ch.off + ch.len \in Nat
        /\ ch.push \in Nat /\ pushes[ch.push].layout.len \in Nat
    BY <1>1, OrderTypes
  <1>3. /\ InWindow(ch) /\ pushes[ch.push].num = curSeq /\ expOff = ch.off + ch.len
        /\ \A i \in DOMAIN rxq : EndsBy(ch, rxq[i].push, rxq[i].off)
        /\ off # Idle => EndsBy(ch, Len(pushes), off)
    BY <1>1 DEF InOrder, ChunkInOrder
  <1>4. Byte = [push |-> ch.push, off |-> at] /\ Byte \in Bytes
    BY <1>2 DEF Byte, Bytes
  <1>5. Store!IsByte(Byte) /\ ~ Store!IsRecordEnd(Byte)
    BY <1>1, <1>2, <1>3, <1>4 DEF InWindow, Store!IsByte, Store!IsRecordEnd, IsRecordEnd
  <1>6. line \in Seq(Bytes)
    BY DEF Typed, LineOK, Lines
  <1>7. /\ line' \in Seq(Bytes) /\ Len(line') = Len(line) + 1 /\ Len(line) \in Nat
        /\ line'[Len(line')] = Byte /\ \A i \in 1..Len(line) : line'[i] = line[i]
        /\ DOMAIN line' = 1..Len(line') /\ line' # <<>>
    BY <1>4, <1>6, AppendProperties
  <1>8. line # <<>> => /\ Store!IsLine(line) /\ Store!Continues(last, Byte)
                       /\ Len(line) \in 1..Len(line)
    <2>1. SUFFICES ASSUME line # <<>>
                   PROVE  /\ Store!IsLine(line) /\ Store!Continues(last, Byte)
                          /\ Len(line) \in 1..Len(line)
      OBVIOUS
    <2>2. /\ Store!IsLine(line) /\ Passed(last) /\ pushes[last.push].num = curSeq /\ last.off + 1 = at
      <3>1. Len(line) \in 1..Len(line)
        BY <1>6, <2>1, LastByteType DEF Lines
      <3>2. QED
        BY <1>1, <2>1, <3>1 DEF InOrder, LineInOrder, Good
    <2>3. Behind(last, ch.push, at)
      BY <1>1, <2>2 DEF Passed
    <2>4. last \in Bytes /\ Len(line) \in 1..Len(line)
      BY <1>6, <2>1, LastByteType DEF Lines
    <2>5. last.push <= ch.push
      BY <1>2, <2>3, <2>4, OrderTypes DEF Behind, Bytes
    <2>6. QED
      BY <1>3, <1>4, <2>2, <2>4, <2>5 DEF Store!Continues
  <1>9. Store!IsLine(line')
    <2>1. ASSUME NEW i \in DOMAIN line'
          PROVE  Store!IsByte(line'[i]) /\ ~ Store!IsRecordEnd(line'[i])
      <3>1. CASE i \in 1..Len(line)
        <4>1. line # <<>> /\ i \in DOMAIN line
          BY <1>6, <3>1
        <4>2. Store!IsByte(line[i]) /\ ~ Store!IsRecordEnd(line[i])
          BY <1>8, <4>1 DEF Store!IsLine
        <4>3. QED
          BY <1>7, <3>1, <4>2
      <3>2. CASE i \notin 1..Len(line)
        <4>1. i = Len(line')
          BY <1>7, <2>1, <3>2
        <4>2. QED
          BY <1>5, <1>7, <4>1
      <3>3. QED
        BY <3>1, <3>2
    <2>2. ASSUME NEW i \in DOMAIN line', i > 1
          PROVE  Store!Continues(line'[i - 1], line'[i])
      <3>1. i - 1 \in 1..Len(line) /\ line # <<>> /\ DOMAIN line = 1..Len(line)
        BY <1>6, <1>7, <2>2
      <3>2. CASE i \in 1..Len(line)
        <4>1. Store!Continues(line[i - 1], line[i])
          BY <1>8, <2>2, <3>1, <3>2 DEF Store!IsLine
        <4>2. QED
          BY <1>7, <3>1, <3>2, <4>1
      <3>3. CASE i \notin 1..Len(line)
        <4>1. i = Len(line') /\ i - 1 = Len(line)
          BY <1>7, <2>2, <3>3
        <4>2. line'[i - 1] = last /\ line'[i] = Byte
          BY <1>7, <3>1, <4>1
        <4>3. QED
          BY <1>8, <3>1, <4>2
      <3>4. QED
        BY <3>2, <3>3
    <2>3. QED
      BY <1>7, <2>1, <2>2 DEF Store!IsLine
  <1>10. pc' # "wait" => pc' = "feed"
    BY DEF AfterByte
  <1>11. PICK b : b = Byte
    OBVIOUS
  <1>12. PICK l : l = line'
    OBVIOUS
  <1>13. Passed(b)'
    BY <1>4, <1>11, BytePassed
  <1>14. Store!IsLine(l)'
    BY <1>1, <1>7, <1>9, <1>12, LineStays DEF Lines
  <1>15. line'[Len(line')] = b /\ b.push = ch.push /\ b.off = at
    BY <1>4, <1>7, <1>11
  <1>16. Good(line)'
    <2>1. ASSUME NEW k \in 1..Len(l)
          PROVE  Passed(l[k])'
      <3>1. CASE k \in 1..Len(line)
        <4>1. line # <<>> /\ l[k] = line[k]
          BY <1>6, <1>7, <1>12, <3>1
        <4>2. Passed(line[k]) /\ line[k] \in Bytes
          BY <1>6, <3>1, <4>1, ElementOfSeq DEF InOrder, LineInOrder, Good
        <4>3. PICK c : c = line[k]
          OBVIOUS
        <4>4. Passed(c)'
          BY <4>2, <4>3, PassedStays DEF Next, Ingest
        <4>5. QED
          BY <4>1, <4>3, <4>4
      <3>2. CASE k \notin 1..Len(line)
        <4>1. l[k] = b
          BY <1>7, <1>12, <1>15, <2>1, <3>2
        <4>2. QED
          BY <1>13, <4>1
      <3>3. QED
        BY <3>1, <3>2
    <2>2. QED
      BY <1>12, <1>14, <2>1 DEF Good
  <1>17. b.off + 1 = IF pc' = "wait" THEN expOff' ELSE at'
    BY <1>1, <1>2, <1>3, <1>15 DEF AfterByte
  <1>18. ASSUME NEW i \in 1..Len(Log), NEW k \in 1..Len(Log[i].bytes)
         PROVE  Store!Before(Log[i].bytes[k], line'[1])
    <2>1. CASE line = <<>>
      <3>1. line'[1] = Byte
        BY <1>6, <1>7, <2>1, EmptySeq
      <3>2. Passed(Log[i].bytes[k])
        BY DEF InOrder, LogInOrder, Good
      <3>3. QED
        BY <1>1, <1>4, <3>1, <3>2 DEF Passed, Behind, Store!Before
    <2>2. CASE line # <<>>
      <3>1. 1 \in 1..Len(line)
        BY <1>8, <2>2
      <3>2. QED
        BY <1>7, <2>2, <3>1 DEF InOrder, LineInOrder
    <2>3. QED
      BY <2>1, <2>2
  <1>19. QED
    <2>1. pc' \in {"wait", "feed"}
      BY <1>10
    <2>2. pushes'[line'[Len(line')].push].num = curSeq'
      BY <1>1, <1>3, <1>15
    <2>3. (\A i \in 1..Len(Log) : \A k \in 1..Len(Log[i].bytes) : Store!Before(Log[i].bytes[k], line[1]))'
      BY <1>18 DEF Store!Before
    <2>4. line'[Len(line')].off + 1 = IF pc' = "wait" THEN expOff' ELSE at'
      BY <1>15, <1>17
    <2>5. QED
      BY <1>16, <2>1, <2>2, <2>3, <2>4 DEF LineInOrder

LEMMA LineOrderStays ==
  ASSUME Typed, InOrder, [Next]_vars
  PROVE  LineInOrder'
  <1>1. LineInOrder
    BY DEF InOrder
  <1>2. line' = <<>> => LineInOrder'
    BY DEF LineInOrder
  <1>3. CASE Brain \/ UNCHANGED vars
    <2>1. UNCHANGED <<line, pc, at, curSeq, expOff, buf, card>>
      BY <1>3 DEF Brain, Merge, PushChunk, PushFails, BrainRestarts, vars, ingestVars, sdVars
    <2>2. QED
      BY <1>1, <2>1, LineRests, LogWritten, LogShorter
  <1>4. CASE Receive
    <2>1. UNCHANGED <<buf, card, pushes>> /\ Log' = Log
      BY <1>4, ReceiveView, LogWritten DEF sdVars, brainVars
    <2>2. CASE curSeq' = curSeq /\ UNCHANGED <<line, expOff, at, pc>>
      BY <1>1, <2>1, <2>2, LineRests, LogShorter
    <2>3. CASE /\ line # <<>> /\ line' = line /\ curSeq' = curSeq
               /\ Head(rxq).off = expOff /\ at' = Head(rxq).off
               /\ pc' = IF Head(rxq).len = 0 THEN "last" ELSE "feed"
      <3>1. pc = "wait" /\ pc' \in {"feed", "last"} /\ at' = expOff
        BY <1>4, <2>3, ReceiveView
      <3>2. line \in Lines /\ Good(line) /\ Good(line)'
        BY <1>1, <2>3, GoodStays DEF Typed, LineOK, LineInOrder
      <3>3. (\A i \in 1..Len(Log) : \A k \in 1..Len(Log[i].bytes) : Store!Before(Log[i].bytes[k], line[1]))'
        BY <1>1, <2>1, <2>3 DEF LineInOrder, Store!Before
      <3>4. /\ pushes'[line'[Len(line')].push].num = curSeq'
            /\ line'[Len(line')].off + 1 = at'
        BY <1>1, <2>1, <2>3, <3>1 DEF LineInOrder
      <3>5. QED
        BY <2>1, <3>1, <3>2, <3>3, <3>4 DEF LineInOrder
    <2>4. QED
      BY <1>2, <1>4, <2>2, <2>3, ReceiveView
  <1>5. CASE FeedByte
    <2>1. CASE line' # <<>>
      <3>1. /\ NotKept /\ pc' = AfterByte /\ card' = card
            /\ ~ IsRecordEnd(Byte) /\ line' = Append(line, Byte)
        BY <1>5, <2>1, FeedView
      <3>2. Log' = Log
        BY <3>1, LogWritten DEF NotKept
      <3>3. QED
        BY <1>5, <3>1, <3>2, LineGrows
    <2>2. QED
      BY <1>2, <2>1
  <1>6. CASE LastLine \/ PowerLoss
    BY <1>2, <1>6, LastView DEF PowerLoss
  <1>7. CASE FlushStep
    <2>1. /\ UNCHANGED <<line, at, curSeq, expOff, pushes>>
          /\ pc \in {"wait", "feed", "last"} => pc' = pc
      BY <1>7, FlushView DEF brainVars
    <2>2. line # <<>> => pc' = pc
      BY <1>1, <2>1 DEF LineInOrder
    <2>3. Shorter
      BY <1>7, <2>1, FlushView, LogWritten, LogWriteFails, LogShorter
    <2>4. QED
      BY <1>1, <1>2, <2>1, <2>2, <2>3, LineRests
  <1>8. QED
    BY <1>3, <1>4, <1>5, <1>6, <1>7 DEF Next, Ingest, Status, FlushStep

LEMMA StepInOrder == Typed /\ InOrder /\ [Next]_vars => InOrder'
  BY QueueStays, ChunkStays, LogStays, LineOrderStays DEF InOrder

LEMMA InitInOrder == Init => InOrder
  <1> SUFFICES ASSUME Init
               PROVE  InOrder
    OBVIOUS
  <1>1. rxq = <<>> /\ pc = "wait" /\ line = <<>> /\ buf = <<>> /\ card = <<>>
    BY DEF Init
  <1>2. Len(Log) = 0
    BY <1>1 DEF Log
  <1>3. QED
    BY <1>1, <1>2 DEF InOrder, QueueInOrder, ChunkInOrder, LineInOrder, LogInOrder

LEMMA AlwaysInOrder == Spec => []InOrder
  BY InitInOrder, StepInOrder, AlwaysTyped, PTL DEF Spec

\* After a gap, and after a write that fails, wherever it is and whatever made it, no write holds the head of
\* one record and the tail of another: every write is a run of bytes of one window number, with no record
\* end in it.
THEOREM SpliceCorrect == Spec => []NoSplice
  <1>1. Typed /\ InOrder => NoSplice
    BY LogType DEF InOrder, LogInOrder, Good, NoSplice, Log
  <1>2. QED
    BY <1>1, AlwaysTyped, AlwaysInOrder, PTL

----------------------------------------------------------------------------
(* The refinement *)

LEMMA StoreStep ==
  ASSUME Typed, InOrder, [Next]_vars
  PROVE  [Store!Next]_(Store!logVars)
  <1>1. CASE Merge
    <2>1. Log' = Log /\ Len(pushes) < MaxPushes
      BY <1>1, LogWritten DEF Merge, sdVars
    <2>2. Store!Send
      BY <1>1, <2>1, MergeGrows DEF Typed, Store!Send, Log
    <2>3. QED
      BY <2>2 DEF Store!Next
  <1>2. CASE \E v \in Writes : Adds(v)
    <2>1. PICK v \in Writes : Adds(v)
      BY <1>2
    <2>2. Log \in Seq(Writes) /\ Len(Log) \in Nat /\ LineInOrder
      BY LogType DEF InOrder
    <2>3. Log' # <<>> /\ Log'[Len(Log')] = v /\ Log' = Append(Log, v) /\ pushes' = pushes
      BY <2>1, <2>2, AppendProperties DEF Adds
    <2>4. /\ Store!IsLine(v.bytes) /\ v.bytes[1] = line[1]
          /\ v \in {Store!Whole(v.bytes), Store!Unended(v.bytes)}
      BY <2>1, <2>2, AddedLine DEF Good
    <2>5. Store!Follows(v.bytes)
      <3>1. SUFFICES ASSUME Log # <<>>
                     PROVE  Store!Before(Store!LastByte(Log[Len(Log)].bytes), v.bytes[1])
        BY DEF Store!Follows, Log
      <3>2. Len(Log) \in 1..Len(Log)
        BY <2>2, <3>1, EmptySeq
      <3>3. Log[Len(Log)].bytes \in Lines /\ Log[Len(Log)].bytes # <<>>
        BY <3>2, LogType DEF InOrder, LogInOrder, Good, Store!IsLine
      <3>4. Len(Log[Len(Log)].bytes) \in 1..Len(Log[Len(Log)].bytes)
        BY <3>3, LastByteType
      <3>5. QED
        BY <2>1, <2>2, <2>4, <3>2, <3>4 DEF Adds, LineInOrder, Store!LastByte
    <2>6. Store!Keep
      BY <2>3, <2>4, <2>5 DEF Store!Keep, Log
    <2>7. QED
      BY <2>6 DEF Store!Next
  <1>3. CASE Crops \/ PowerLoss
    <2>1. pushes' = pushes /\ \E r \in Store!Cuts(Log) : Log' \in {r, Store!Shut(r)}
      BY <1>3, LogLost
    <2>2. Store!Lose
      BY <2>1 DEF Store!Lose, Log
    <2>3. QED
      BY <2>2 DEF Store!Next
  <1>4. CASE Log' = Log /\ UNCHANGED pushes
    BY <1>4 DEF Store!logVars, Log
  <1>5. QED
    BY <1>1, <1>2, <1>3, <1>4, LogSteps, PushesStay

\* HeadFeed implements RecordLog: of the windows that were sent, the S3 node keeps whole runs, in order and
\* once each, whichever writes fail, and loses only what it kept last.
THEOREM StoreImplemented == Spec => KeepsLog
  <1>1. Init => Store!Init
    BY DEF Init, Store!Init
  <1>2. QED
    BY <1>1, StoreStep, AlwaysTyped, AlwaysInOrder, PTL DEF Spec, KeepsLog, Store!Spec
=============================================================================
