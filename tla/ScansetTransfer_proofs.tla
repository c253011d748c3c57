----------------------- MODULE ScansetTransfer_proofs -----------------------
(***************************************************************************)
(* For scansets of any length, any buffer sizes and any number of scans,   *)
(* restarts and lost transfers: an ingested scanset is one whole scan, and *)
(* not the scan that was ingested before it.                               *)
(***************************************************************************)
EXTENDS ScansetTransfer, TLAPS

Records == [0 .. Cap - 1 -> Scans]

LEMMA SizeType ==
  ASSUME NEW k \in Scans, k # 0
  PROVE  k \in 1 .. MaxScans /\ Size[k] \in 1 .. ArmBlocks
  <1>1. k \in 1 .. MaxScans
    BY ScanAssumption DEF Scans
  <1>2. QED
    BY <1>1, ScanAssumption

LEMMA BlankType == [b \in {0, 1} |-> Blank] \in [{0, 1} -> [Filled -> Scans]]
  <1>1. 0 \in Scans
    BY ScanAssumption DEF Scans
  <1>2. Blank \in [Filled -> Scans]
    BY <1>1 DEF Blank, Filled
  <1>3. QED
    BY <1>2

LEMMA NoSnapType == NoSnap \in [ptr : {0, 1}, total : 0 .. ArmBlocks, seq : Nat]
  BY CapAssumption DEF NoSnap

\* A chunk holds one block of the snapshot, or none past its end.
LEMMA ChunkType ==
  ASSUME TypeOK
  PROVE  /\ Chunk.len \in {0, 1} /\ Chunk.seq = snap.seq
         /\ Chunk.total = snap.total /\ Chunk.off = chunkOff
         /\ Chunk.len = 1 <=> chunkOff < snap.total
         /\ Chunk.len = 1 => Chunk.block = bufs[snap.ptr][chunkOff]
         /\ Chunk.len = 1 => chunkOff \in Filled /\ Chunk.block \in Scans
  <1>1. snap.total \in 0 .. ArmBlocks /\ snap.ptr \in {0, 1} /\ chunkOff \in Nat
    BY DEF TypeOK
  <1>2. /\ Chunk.len \in {0, 1} /\ Chunk.seq = snap.seq
        /\ Chunk.total = snap.total /\ Chunk.off = chunkOff
        /\ Chunk.len = 1 <=> chunkOff < snap.total
        /\ Chunk.len = 1 => Chunk.block = bufs[snap.ptr][chunkOff]
    BY DEF Chunk
  <1>3. Chunk.len = 1 => chunkOff \in Filled
    BY <1>1, <1>2, CapAssumption DEF Filled
  <1>4. bufs[snap.ptr] \in [Filled -> Scans]
    BY <1>1 DEF TypeOK
  <1>5. QED
    BY <1>2, <1>3, <1>4

\* What Read leaves, with the chunk out of sight.
LEMMA ReadSteps ==
  ASSUME TypeOK, Read
  PROVE  /\ serve /\ snap.seq = seen /\ chunkOff = off /\ serve' = FALSE
         /\ \/ off < snap.total /\ off' = off + 1
            \/ ~(off < snap.total) /\ off' = off
         /\ buf' = IF off < snap.total /\ off + 1 <= Cap
                     THEN [buf EXCEPT ![off] = bufs[snap.ptr][off]] ELSE buf
         /\ buf' \in Records
         /\ \/ /\ ~(off < snap.total) \/ off' >= snap.total
               /\ bpc' = "poll" /\ lastIngest' = seen
               /\ got' = [blocks |-> buf', len |-> off', spoiled |-> spoiled, times |-> got.times + 1]
            \/ /\ off < snap.total /\ off' < snap.total
               /\ bpc' = "ask" /\ lastIngest' = lastIngest /\ got' = got
         /\ UNCHANGED <<armVars, snap, chunkOff, seen, spoiled, bounds>>
  <1> USE ChunkType
  <1>1. serve /\ snap.seq = seen /\ chunkOff = off /\ serve' = FALSE
    BY DEF Read, Expected
  <1>2. UNCHANGED <<armVars, snap, chunkOff, seen, spoiled, bounds>>
    BY DEF Read
  <1>3. off \in Nat /\ snap.total \in Nat /\ buf \in Records
    BY DEF TypeOK, Records
  <1>4. \/ off < snap.total /\ off' = off + 1 /\ Chunk.len = 1
        \/ ~(off < snap.total) /\ off' = off /\ Chunk.len = 0
    BY <1>1, <1>3 DEF Read
  <1>5. /\ buf' = IF off < snap.total /\ off + 1 <= Cap
                    THEN [buf EXCEPT ![off] = bufs[snap.ptr][off]] ELSE buf
        /\ buf' \in Records
    <2>1. CASE off < snap.total /\ off + 1 <= Cap
      <3>1. buf' = Written(buf, off, bufs[snap.ptr][off])
        BY <1>1, <1>3, <1>4, <2>1 DEF Read, Fits
      <3>2. off \in 0 .. Cap - 1 /\ bufs[snap.ptr][off] \in Scans
        BY <1>1, <1>3, <1>4, <2>1, CapAssumption
      <3>3. QED
        BY <1>3, <2>1, <3>1, <3>2 DEF Written, Records
    <2>2. CASE ~(off < snap.total /\ off + 1 <= Cap)
      <3>1. buf' = buf
        BY <1>1, <1>3, <1>4, <2>2 DEF Read, Fits
      <3>2. QED
        BY <1>3, <2>2, <3>1
    <2>3. QED
      BY <2>1, <2>2
  <1>6. \/ /\ ~(off < snap.total) \/ off' >= snap.total
           /\ bpc' = "poll" /\ lastIngest' = seen
           /\ got' = [blocks |-> buf', len |-> off', spoiled |-> spoiled, times |-> got.times + 1]
        \/ /\ off < snap.total /\ off' < snap.total
           /\ bpc' = "ask" /\ lastIngest' = lastIngest /\ got' = got
    <2>1. off' = off + Chunk.len
      BY DEF Read
    <2>2. CASE Chunk.len = 0 \/ off' >= snap.total
      BY <1>4, <2>1, <2>2 DEF Read
    <2>3. CASE ~(Chunk.len = 0 \/ off' >= snap.total)
      BY <1>3, <1>4, <2>1, <2>3 DEF Read
    <2>4. QED
      BY <2>2, <2>3
  <1>7. QED
    BY <1>1, <1>2, <1>4, <1>5, <1>6

LEMMA ReadTyped ==
  ASSUME TypeOK, Read
  PROVE  TypeOK'
  <1>1. /\ off \in Nat /\ seen \in Nat /\ lastIngest \in Nat /\ spoiled \in BOOLEAN
        /\ got \in [blocks : Records, len : Nat, spoiled : BOOLEAN, times : Nat]
    BY DEF TypeOK, Records
  <1>2. off' \in Nat /\ buf' \in Records /\ lastIngest' \in Nat /\ serve' \in BOOLEAN
    BY <1>1, ReadSteps
  <1>3. got' \in [blocks : Records, len : Nat, spoiled : BOOLEAN, times : Nat]
    <2>1. got' = got \/ got' = [blocks |-> buf', len |-> off', spoiled |-> spoiled, times |-> got.times + 1]
      BY ReadSteps
    <2>2. QED
      BY <1>1, <1>2, <2>1
  <1>4. bpc' \in {"poll", "ask", "read"}
    BY ReadSteps
  <1>5. UNCHANGED <<armVars, snap, chunkOff, seen, spoiled, bounds>>
    BY DEF Read
  <1>6. QED
    BY <1>2, <1>3, <1>4, <1>5 DEF TypeOK, Records, armVars, bounds

\* Every reachable state of the transfer is well-typed.
THEOREM TransferTypeCorrect == Spec => []TypeOK
  <1>1. Init => TypeOK
    <2> SUFFICES ASSUME Init
                 PROVE  TypeOK
      OBVIOUS
    <2> USE CapAssumption, ScanAssumption, BoundAssumption DEF Init
    <2>1. bufs \in [{0, 1} -> [Filled -> Scans]]
      BY BlankType
    <2>2. buf \in Records
      BY DEF Records, Scans
    <2>3. got \in [blocks : Records, len : Nat, spoiled : BOOLEAN, times : Nat]
      BY <2>2
    <2>4. status \in [seq : Nat, len : 0 .. ArmBlocks]
      OBVIOUS
    <2>5. snap \in [ptr : {0, 1}, total : 0 .. ArmBlocks, seq : Nat]
      BY NoSnapType
    <2>6. /\ front \in {0, 1} /\ ssLen \in 0 .. ArmBlocks /\ seq \in Nat
          /\ fill \in 0 .. ArmBlocks /\ made \in Scans
      BY DEF Scans
    <2>7. restarts \in Nat /\ faults \in Nat
      BY BoundAssumption
    <2>8. QED
      BY <2>1, <2>2, <2>3, <2>4, <2>5, <2>6, <2>7 DEF TypeOK, Records
  <1>2. TypeOK /\ [Next]_vars => TypeOK'
    <2> SUFFICES ASSUME TypeOK, [Next]_vars
                 PROVE  TypeOK'
      OBVIOUS
    <2>1. CASE Read
      BY <2>1, ReadTyped
    <2> USE DEF TypeOK, armVars, isrVars, brainVars, bounds
    <2>2. CASE BeginPack
      <3>1. fill' \in 0 .. ArmBlocks /\ made' \in Scans /\ made' # 0
        BY <2>2, CapAssumption, ScanAssumption DEF BeginPack, Scans
      <3>2. QED
        BY <2>2, <3>1 DEF BeginPack
    <2>3. CASE PackBlock
      <3>1. fill \in Filled /\ fill' \in 0 .. ArmBlocks
        BY <2>3, SizeType, CapAssumption DEF PackBlock, Filled
      <3>2. bufs' \in [{0, 1} -> [Filled -> Scans]]
        BY <2>3, <3>1 DEF PackBlock, Back
      <3>3. spoiled' \in BOOLEAN
        BY <2>3 DEF PackBlock
      <3>4. QED
        BY <2>3, <3>1, <3>2, <3>3 DEF PackBlock
    <2>4. CASE StoreLength
      BY <2>4 DEF StoreLength
    <2>5. CASE StorePointer
      <3>1. front' \in {0, 1}
        BY <2>5 DEF StorePointer, Back
      <3>2. QED
        BY <2>5, <3>1 DEF StorePointer
    <2>6. CASE CountScan
      BY <2>6 DEF CountScan
    <2>7. CASE Publish
      <3>1. status' \in [seq : Nat, len : 0 .. ArmBlocks]
        BY <2>7 DEF Publish
      <3>2. QED
        BY <2>7, <3>1 DEF Publish
    <2>8. CASE Restart
      <3>1. bufs' \in [{0, 1} -> [Filled -> Scans]]
        BY <2>8, BlankType DEF Restart
      <3>2. snap' \in [ptr : {0, 1}, total : 0 .. ArmBlocks, seq : Nat]
        BY <2>8, NoSnapType DEF Restart
      <3>3. /\ status' \in [seq : Nat, len : 0 .. ArmBlocks]
            /\ ssLen' \in 0 .. ArmBlocks /\ fill' \in 0 .. ArmBlocks
            /\ restarts' \in Nat
        BY <2>8, CapAssumption DEF Restart
      <3>4. QED
        BY <2>8, <3>1, <3>2, <3>3 DEF Restart
    <2>9. CASE Poll
      <3>1. seen' \in Nat /\ off' \in Nat /\ bpc' \in {"poll", "ask", "read"}
        BY <2>9 DEF Poll
      <3>2. serve' \in BOOLEAN
        BY <2>9 DEF Poll
      <3>3. QED
        BY <2>9, <3>1, <3>2 DEF Poll
    <2>10. CASE Ask
      <3>1. snap' \in [ptr : {0, 1}, total : 0 .. ArmBlocks, seq : Nat]
        BY <2>10 DEF Ask
      <3>2. spoiled' \in BOOLEAN
        <4>1. Publishing \in BOOLEAN
          BY DEF Publishing
        <4>2. spoiled' = Publishing \/ spoiled' = spoiled
          BY <2>10, Zenon DEF Ask
        <4>3. QED
          BY <4>1, <4>2, Zenon
      <3>3. QED
        BY <2>10, <3>1, <3>2 DEF Ask
    <2>11. CASE Reject
      BY <2>11 DEF Reject
    <2>12. CASE Lose
      <3>1. serve' \in BOOLEAN /\ faults' \in Nat /\ bpc' \in {"poll", "ask", "read"}
        <4>1. serve' \in BOOLEAN
          BY <2>12, Zenon DEF Lose
        <4>2. faults' \in Nat /\ bpc' = "poll"
          BY <2>12 DEF Lose
        <4>3. QED
          BY <4>1, <4>2
      <3>2. QED
        BY <2>12, <3>1 DEF Lose
    <2>13. CASE UNCHANGED vars
      BY <2>13 DEF vars
    <2>14. QED
      BY <2>1, <2>2, <2>3, <2>4, <2>5, <2>6, <2>7, <2>8, <2>9, <2>10, <2>11, <2>12, <2>13
         DEF Next, PackOn, Brain
  <1>3. QED
    BY <1>1, <1>2, PTL DEF Spec
----------------------------------------------------------------------------
(* A delivery is one whole scan. *)

Holds(b, k) == \A i \in Filled : i < Size[k] => bufs[b][i] = k

\* The scan the front buffer holds, once there is one.
Newest == IF apc \in {"pack", "length"} THEN made - 1 ELSE made

\* The scans of earlier lives of the arm: its scan numbers begin again with each.
Earlier == IF apc \in {"pack", "length", "pointer"} THEN made - 1 - seq ELSE made - seq

\* How far packing and publishing have come: the back buffer holds what was
\* packed; between scans the front buffer, the length and the number agree.
FrontWhole ==
    /\ seq <= Newest
    /\ apc = "pointer" => seq < made
    /\ apc = "count" => seq > 0
    /\ status.len > 0 => status.seq > 0
    /\ apc \in {"length", "pointer", "count"} => ssLen = Size[made]
    /\ apc = "pack" => \A i \in Filled : i < fill => bufs[Back][i] = made
    /\ apc = "length" => Holds(Back, made)
    /\ apc \in {"pointer", "count"} => Holds(front, made)
    /\ apc \in {"scan", "pack"} /\ seq > 0 => ssLen = Size[Newest] /\ Holds(front, Newest)

\* A snapshot taken outside the publication, and not packed over, is one scan,
\* the one its number stands for.
SnapWhole ==
    snap.seq > 0 /\ ~spoiled =>
        /\ Earlier + snap.seq \in 1 .. made
        /\ snap.total = Size[Earlier + snap.seq]
        /\ Holds(snap.ptr, Earlier + snap.seq)

\* What the brain has copied so far is what the snapshot holds.
Copied ==
    bpc # "poll" =>
        /\ seen > 0
        /\ off > 0 /\ snap.seq = seen /\ ~spoiled =>
             /\ off < snap.total
             /\ \A i \in 0 .. Cap - 1 : i < off => buf[i] = bufs[snap.ptr][i]

\* The steps that leave the arm alone.
LEMMA ArmRests ==
  ASSUME Poll \/ Ask \/ Read \/ Reject \/ Lose \/ UNCHANGED vars
  PROVE  UNCHANGED armVars
  BY DEF Poll, Ask, Read, Reject, Lose, vars

LEMMA FrontStep ==
  ASSUME TypeOK, FrontWhole, [Next]_vars
  PROVE  FrontWhole'
  <1>0. /\ bufs \in [{0, 1} -> [Filled -> Scans]] /\ front \in {0, 1}
        /\ seq \in Nat /\ made \in Scans /\ made \in Nat /\ (apc # "scan" => made # 0)
        /\ apc \in {"scan", "pack", "length", "pointer", "count"} /\ fill \in Nat
    BY ScanAssumption DEF TypeOK, Scans
  <1>1. CASE UNCHANGED armVars
    BY <1>1 DEF FrontWhole, armVars, Newest, Holds, Back
  <1>2. CASE BeginPack
    <2>1. /\ apc = "scan" /\ apc' = "pack" /\ fill' = 0 /\ made' = made + 1
          /\ UNCHANGED <<bufs, front, ssLen, seq, status>>
      BY <1>2 DEF BeginPack
    <2>2. Newest = made /\ Newest' = made
      BY <1>0, <2>1 DEF Newest
    <2>3. seq' > 0 => ssLen' = Size[Newest'] /\ Holds(front, Newest)'
      BY <2>1, <2>2 DEF FrontWhole, Holds
    <2>4. \A i \in Filled : ~(i < fill')
      BY <2>1 DEF Filled
    <2>5. QED
      BY <2>1, <2>2, <2>3, <2>4 DEF FrontWhole
  <1>3. CASE PackBlock
    <2>1. /\ apc = "pack" /\ apc' = "pack" /\ fill' = fill + 1
          /\ bufs' = [bufs EXCEPT ![Back][fill] = made]
          /\ UNCHANGED <<front, ssLen, seq, status, made>>
      BY <1>3 DEF PackBlock
    <2>2. fill \in Filled /\ Back \in {0, 1} /\ front # Back
      BY <1>0, <1>3, SizeType, CapAssumption DEF PackBlock, Filled, Back
    <2>3. bufs'[front] = bufs[front]
      BY <1>0, <2>1, <2>2
    <2>4. \A i \in Filled : bufs'[Back][i] = IF i = fill THEN made ELSE bufs[Back][i]
      BY <1>0, <2>1, <2>2
    <2>5. \A i \in Filled : i < fill' => bufs'[Back][i] = made
      BY <1>0, <2>1, <2>4 DEF FrontWhole, Filled
    <2>6. seq > 0 => ssLen = Size[Newest] /\ Holds(front, Newest)
      BY <2>1 DEF FrontWhole
    <2>7. seq' > 0 => ssLen' = Size[Newest'] /\ Holds(front, Newest)'
      BY <2>1, <2>3, <2>6 DEF Newest, Holds
    <2>8. QED
      BY <2>1, <2>5, <2>7 DEF FrontWhole, Newest, Back
  <1>4. CASE StoreLength
    <2>1. Size[made] \in Nat
      BY <1>0, <1>4, SizeType DEF StoreLength
    <2>2. QED
      BY <1>0, <1>4, <2>1 DEF StoreLength, FrontWhole, Newest, Holds, Back
  <1>5. CASE StorePointer
    <2>1. front' = Back
      BY <1>5 DEF StorePointer
    <2>2. QED
      BY <1>0, <1>5, <2>1 DEF StorePointer, FrontWhole, Newest, Holds
  <1>6. CASE CountScan
    BY <1>0, <1>6 DEF CountScan, FrontWhole, Newest, Holds
  <1>7. CASE Publish
    BY <1>0, <1>7 DEF Publish, FrontWhole, Newest, Holds
  <1>8. CASE Restart
    BY <1>0, <1>8 DEF Restart, FrontWhole, Newest
  <1>9. QED
    BY <1>1, <1>2, <1>3, <1>4, <1>5, <1>6, <1>7, <1>8, ArmRests DEF Next, PackOn, Brain

\* Scans of this life remain scans of this life until the arm restarts.
LEMMA EarlierStep ==
  ASSUME TypeOK, FrontWhole, [Next]_vars
  PROVE  /\ Earlier \in Nat /\ Earlier <= made /\ made' \in Nat /\ made' >= made
         /\ ~Restart => Earlier' = Earlier
         /\ Restart => Earlier' = made /\ Earlier' >= Earlier
  <1>1. /\ made \in Nat /\ seq \in Nat /\ (apc # "scan" => made # 0)
        /\ apc \in {"scan", "pack", "length", "pointer", "count"}
    BY ScanAssumption DEF TypeOK, Scans
  <1>2. Earlier \in Nat /\ Earlier <= made
    BY <1>1 DEF FrontWhole, Newest, Earlier
  <1>3. CASE Restart
    <2>1. Earlier' = made /\ made' = made
      BY <1>1, <1>3 DEF Restart, Earlier
    <2>2. QED
      BY <1>1, <1>2, <1>3, <2>1
  <1>4. CASE UNCHANGED armVars /\ ~Restart
    BY <1>1, <1>2, <1>4 DEF armVars, Earlier
  <1>5. CASE BeginPack /\ ~Restart
    BY <1>1, <1>2, <1>5 DEF BeginPack, Earlier
  <1>6. CASE PackOn /\ ~Restart
    BY <1>1, <1>2, <1>6
       DEF PackOn, PackBlock, StoreLength, StorePointer, CountScan, Publish, Earlier
  <1>7. QED
    BY <1>2, <1>3, <1>4, <1>5, <1>6, ArmRests DEF Next, Brain

LEMMA SnapStep ==
  ASSUME TypeOK, FrontWhole, SnapWhole, [Next]_vars
  PROVE  SnapWhole'
  <1>0. /\ bufs \in [{0, 1} -> [Filled -> Scans]] /\ front \in {0, 1}
        /\ seq \in Nat /\ made \in Scans /\ made \in Nat /\ snap.ptr \in {0, 1}
        /\ apc \in {"scan", "pack", "length", "pointer", "count"}
    BY ScanAssumption DEF TypeOK, Scans
  <1>1. CASE UNCHANGED <<bufs, snap, spoiled>> /\ ~Restart
    <2>1. Earlier' = Earlier /\ Earlier \in Nat
      BY <1>1, EarlierStep
    <2>2. made' \in Nat /\ made' >= made /\ snap.seq \in Nat
      BY EarlierStep DEF TypeOK
    <2>3. QED
      BY <1>0, <1>1, <2>1, <2>2 DEF SnapWhole, Holds
  <1>2. CASE PackBlock
    <2>0. Earlier' = Earlier /\ made' = made
      BY <1>2 DEF PackBlock, Earlier
    <2>1. snap' = snap /\ (spoiled' <=> spoiled \/ snap.ptr = Back)
      BY <1>2 DEF PackBlock, isrVars
    <2>2. snap.ptr # Back => bufs'[snap.ptr] = bufs[snap.ptr]
      BY <1>0, <1>2 DEF PackBlock, Back
    <2>3. QED
      BY <2>0, <2>1, <2>2 DEF SnapWhole, Holds
  <1>3. CASE Restart
    BY <1>3 DEF Restart, SnapWhole, NoSnap
  <1>4. CASE Ask
    <2>1. CASE off = 0
      <3>1. /\ snap' = [ptr |-> front, total |-> ssLen, seq |-> seq]
            /\ (spoiled' <=> Publishing) /\ UNCHANGED <<bufs, made>> /\ Earlier' = Earlier
        BY <1>4, <2>1 DEF Ask, armVars, Earlier
      <3>2. ASSUME seq > 0, ~Publishing
            PROVE  /\ Newest \in 1 .. made
                   /\ ssLen = Size[Newest] /\ Holds(front, Newest)
        <4>1. Newest \in 1 .. made
          BY <1>0, <3>2, ScanAssumption DEF FrontWhole, Newest, Scans
        <4>2. CASE apc = "count"
          BY <4>1, <4>2 DEF FrontWhole, Newest
        <4>3. CASE apc \in {"scan", "pack"}
          BY <3>2, <4>1, <4>3 DEF FrontWhole
        <4>4. QED
          BY <1>0, <3>2, <4>2, <4>3 DEF Publishing
      <3>3. ~Publishing => Newest = Earlier + seq
        BY <1>0 DEF Publishing, Newest, Earlier
      <3>4. QED
        BY <3>1, <3>2, <3>3 DEF SnapWhole, Holds
    <2>2. CASE off # 0
      <3>1. UNCHANGED <<bufs, snap, spoiled, made>> /\ Earlier' = Earlier
        BY <1>4, <2>2 DEF Ask, armVars, Earlier
      <3>2. QED
        BY <3>1 DEF SnapWhole, Holds
    <2>3. QED
      BY <2>1, <2>2
  <1>5. \/ PackBlock \/ Restart \/ Ask \/ UNCHANGED <<bufs, snap, spoiled>>
    BY DEF Next, PackOn, Brain, vars, armVars, isrVars, BeginPack, StoreLength,
           StorePointer, CountScan, Publish, Poll, Read, Reject, Lose
  <1>6. QED
    BY <1>1, <1>2, <1>3, <1>4, <1>5

LEMMA CopiedStep ==
  ASSUME TypeOK, FrontWhole, Copied, [Next]_vars
  PROVE  Copied'
  <1>0. /\ bufs \in [{0, 1} -> [Filled -> Scans]] /\ snap.ptr \in {0, 1}
        /\ bpc \in {"poll", "ask", "read"} /\ off \in Nat /\ seen \in Nat
        /\ snap.total \in Nat /\ buf \in Records
        /\ status.seq \in Nat /\ status.len \in Nat
    BY DEF TypeOK, Records
  <1>1. CASE UNCHANGED <<bufs, snap, spoiled, bpc, seen, off, buf>>
    BY <1>1 DEF Copied
  <1>2. CASE PackBlock
    <2>1. /\ snap' = snap /\ (spoiled' <=> spoiled \/ snap.ptr = Back)
          /\ UNCHANGED <<bpc, seen, off, buf>>
      BY <1>2 DEF PackBlock, isrVars, brainVars
    <2>2. snap.ptr # Back => bufs'[snap.ptr] = bufs[snap.ptr]
      BY <1>0, <1>2 DEF PackBlock, Back
    <2>3. QED
      BY <2>1, <2>2 DEF Copied
  <1>3. CASE Restart
    <2>1. snap'.seq = 0 /\ UNCHANGED <<bpc, seen, off, buf>>
      BY <1>3 DEF Restart, NoSnap, brainVars
    <2>2. QED
      BY <1>0, <2>1 DEF Copied
  <1>4. CASE bpc' = "poll"
    BY <1>4 DEF Copied
  <1>5. CASE Poll
    <2>1. CASE ~serve /\ NewScan(status)
      <3>1. seen' = status.seq /\ off' = 0
        BY <1>5, <2>1 DEF Poll
      <3>2. status.seq > 0
        BY <1>0, <2>1 DEF NewScan, FrontWhole
      <3>3. QED
        BY <3>1, <3>2 DEF Copied
    <2>2. CASE ~(~serve /\ NewScan(status))
      <3>1. bpc' = "poll"
        BY <1>5, <2>2 DEF Poll
      <3>2. QED
        BY <1>4, <3>1
    <2>3. QED
      BY <2>1, <2>2
  <1>6. CASE Ask
    <2>1. /\ bpc = "ask" /\ UNCHANGED <<bufs, seen, off, buf>>
          /\ off = 0 \/ UNCHANGED <<snap, spoiled>>
      BY <1>6 DEF Ask, armVars
    <2>2. QED
      BY <1>0, <2>1 DEF Copied
  <1>7. CASE Read /\ bpc' # "poll"
    <2>1. /\ off < snap.total /\ off' = off + 1 /\ off' < snap.total
          /\ buf' = IF off + 1 <= Cap
                      THEN [buf EXCEPT ![off] = bufs[snap.ptr][off]] ELSE buf
          /\ UNCHANGED <<bufs, snap, seen, spoiled>> /\ bpc # "poll"
      BY <1>7, ReadSteps DEF armVars, Read
    <2>2. ASSUME snap.seq = seen, ~spoiled, NEW i \in 0 .. Cap - 1, i < off'
          PROVE  buf'[i] = bufs[snap.ptr][i]
      <3>1. CASE i = off
        BY <1>0, <2>1, <2>2, <3>1, CapAssumption DEF Records
      <3>2. CASE i < off
        <4>1. buf[i] = bufs[snap.ptr][i]
          BY <1>0, <2>1, <2>2, <3>2 DEF Copied
        <4>2. QED
          BY <1>0, <2>1, <3>2, <4>1 DEF Records
      <3>3. QED
        BY <1>0, <2>1, <2>2, <3>1, <3>2
    <2>3. QED
      BY <2>1, <2>2 DEF Copied
  <1>8. \/ PackBlock \/ Restart \/ bpc' = "poll" \/ Poll \/ Ask \/ Read
        \/ UNCHANGED <<bufs, snap, spoiled, bpc, seen, off, buf>>
    BY DEF Next, PackOn, Brain, vars, armVars, isrVars, brainVars, BeginPack, StoreLength,
           StorePointer, CountScan, Publish, Reject, Lose
  <1>9. QED
    BY <1>1, <1>2, <1>3, <1>4, <1>5, <1>6, <1>7, <1>8

\* The last chunk: all blocks of the snapshot are in, and it is one scan.
LEMMA OneScanStep ==
  ASSUME TypeOK, SnapWhole, Copied, OneScan, [Next]_vars
  PROVE  OneScan'
  <1>0. /\ off \in Nat /\ seen \in Nat /\ snap.total \in Nat /\ buf \in Records
        /\ snap.ptr \in {0, 1}
    BY DEF TypeOK, Records
  <1>1. CASE UNCHANGED got
    BY <1>1 DEF OneScan, Kept
  <1>2. CASE Read /\ got' # got
    <2>1. /\ (off < snap.total => off' = off + 1 /\ off' >= snap.total)
          /\ (~(off < snap.total) => off' = off)
          /\ got' = [blocks |-> buf', len |-> off', spoiled |-> spoiled, times |-> got.times + 1]
          /\ snap.seq = seen /\ bpc # "poll"
          /\ buf' = IF off < snap.total /\ off + 1 <= Cap
                      THEN [buf EXCEPT ![off] = bufs[snap.ptr][off]] ELSE buf
      BY <1>2, ReadSteps DEF Read
    <2>2. ASSUME off' > 0, ~spoiled
          PROVE  \E k \in 1 .. MaxScans :
                     off' = Size[k] /\ \A i \in 0 .. Cap - 1 : i < off' => buf'[i] = k
      <3>1. seen > 0 /\ off < snap.total /\ off' = snap.total
        BY <1>0, <2>1, <2>2 DEF Copied
      <3>2. PICK k \in 1 .. MaxScans : snap.total = Size[k] /\ Holds(snap.ptr, k)
        <4>1. 1 .. made \subseteq 1 .. MaxScans
          BY ScanAssumption DEF TypeOK, Scans
        <4>2. QED
          BY <2>1, <2>2, <3>1, <4>1 DEF SnapWhole
      <3>3. ASSUME NEW i \in 0 .. Cap - 1, i < off'
            PROVE  buf'[i] = k
        <4>1. i \in Filled /\ bufs[snap.ptr][i] = k
          <5>1. Size[k] \in 1 .. ArmBlocks
            BY ScanAssumption
          <5>2. i \in Filled
            BY <3>1, <3>2, <3>3, <5>1, CapAssumption DEF Filled
          <5>3. QED
            BY <3>1, <3>2, <3>3, <5>2 DEF Holds
        <4>2. CASE i = off
          BY <1>0, <2>1, <3>1, <4>1, <4>2, CapAssumption DEF Records
        <4>3. CASE i < off
          <5>1. buf[i] = bufs[snap.ptr][i]
            BY <1>0, <2>1, <2>2, <4>3 DEF Copied
          <5>2. QED
            BY <1>0, <2>1, <4>1, <4>3, <5>1 DEF Records
        <4>4. QED
          BY <1>0, <2>1, <3>1, <3>3, <4>2, <4>3
      <3>4. QED
        BY <3>1, <3>2, <3>3
    <2>3. QED
      BY <2>1, <2>2 DEF OneScan, Kept
  <1>3. UNCHANGED got \/ Read
    BY DEF Next, PackOn, Brain, vars, isrVars, brainVars, BeginPack, PackBlock, StoreLength,
           StorePointer, CountScan, Publish, Restart, Poll, Ask, Reject, Lose
  <1>4. QED
    BY <1>1, <1>2, <1>3

\* While the brain fetches a scanset, its number is not that of the last one.
Other == bpc # "poll" => seen > 0 /\ seen # lastIngest

\* The last scanset, when it is of this life of the arm, is the scan whose
\* number the brain remembers.
Remembered ==
    got.len > 0 /\ ~got.spoiled =>
        \/ got.blocks[0] \in 1 .. Earlier
        \/ got.blocks[0] \in 1 .. made /\ got.blocks[0] = Earlier + lastIngest

\* The first block that an unspoiled transfer leaves is the scan it asked for.
LEMMA ReadFirst ==
  ASSUME TypeOK, FrontWhole, SnapWhole, Copied, Read, got' # got, ~got'.spoiled
  PROVE  /\ bpc # "poll" /\ lastIngest' = seen /\ seen > 0
         /\ got'.blocks[0] = Earlier + seen /\ got'.blocks[0] \in 1 .. made
  <1>0. /\ lastIngest' = seen /\ (~(off < snap.total) \/ off' >= snap.total)
        /\ got' = [blocks |-> buf', len |-> off', spoiled |-> spoiled, times |-> got.times + 1]
    BY ReadSteps
  <1>1. /\ off \in Nat /\ seen \in Nat /\ snap.total \in Nat /\ buf \in Records
        /\ snap.ptr \in {0, 1} /\ made \in Scans
    BY DEF TypeOK, Records
  <1>2. /\ snap.seq = seen /\ bpc # "poll" /\ lastIngest' = seen /\ ~spoiled
        /\ (off < snap.total => off' = off + 1 /\ off' >= snap.total)
        /\ (~(off < snap.total) => off' = off)
        /\ got'.blocks = buf'
        /\ buf' = IF off < snap.total /\ off + 1 <= Cap
                    THEN [buf EXCEPT ![off] = bufs[snap.ptr][off]] ELSE buf
    BY <1>0, <1>1, ReadSteps DEF Read
  <1>3. seen > 0 /\ (off > 0 => off < snap.total)
    BY <1>1, <1>2 DEF Copied
  <1> DEFINE k == Earlier + seen
  <1>4. k \in 1 .. made /\ snap.total = Size[k] /\ Holds(snap.ptr, k)
    BY <1>2, <1>3 DEF SnapWhole
  <1>5. k \in 1 .. MaxScans /\ Size[k] \in 1 .. ArmBlocks
    BY <1>1, <1>4, ScanAssumption DEF Scans
  <1> HIDE DEF k
  <1>6. 0 \in Filled /\ 0 < Size[k] /\ bufs[snap.ptr][0] = k /\ 0 \in 0 .. Cap - 1
    BY <1>4, <1>5, CapAssumption DEF Filled, Holds
  <1>7. buf'[0] = k
    <2>1. CASE off = 0
      BY <1>1, <1>2, <1>4, <1>6, <2>1, CapAssumption DEF Records
    <2>2. CASE off > 0
      <3>1. buf[0] = bufs[snap.ptr][0]
        BY <1>1, <1>2, <1>6, <2>2 DEF Copied
      <3>2. QED
        BY <1>1, <1>2, <1>6, <2>2, <3>1 DEF Records
    <2>3. QED
      BY <1>1, <2>1, <2>2
  <1>8. QED
    BY <1>2, <1>3, <1>4, <1>7 DEF k

\* Only the last chunk changes what was ingested.
LEMMA GotChanges ==
  ASSUME TypeOK, [Next]_vars
  PROVE  UNCHANGED <<got, lastIngest>> \/ (Read /\ got' # got)
  <1>1. CASE Read
    <2>1. \/ got' = [blocks |-> buf', len |-> off', spoiled |-> spoiled, times |-> got.times + 1]
          \/ got' = got /\ lastIngest' = lastIngest
      BY <1>1, ReadSteps
    <2>2. got.times \in Nat
      BY DEF TypeOK
    <2>3. QED
      BY <1>1, <2>1, <2>2
  <1>2. Read \/ UNCHANGED <<got, lastIngest>>
    BY DEF Next, PackOn, Brain, vars, isrVars, brainVars, BeginPack, PackBlock, StoreLength,
           StorePointer, CountScan, Publish, Restart, Poll, Ask, Reject, Lose
  <1>3. QED
    BY <1>1, <1>2

LEMMA OtherStep ==
  ASSUME TypeOK, FrontWhole, Other, [Next]_vars
  PROVE  Other'
  <1>1. CASE bpc' = "poll"
    BY <1>1 DEF Other
  <1>2. CASE UNCHANGED <<bpc, seen, lastIngest>>
    BY <1>2 DEF Other
  <1>3. CASE Poll /\ bpc' # "poll"
    <2>1. NewScan(status) /\ seen' = status.seq /\ lastIngest' = lastIngest
      BY <1>3 DEF Poll
    <2>2. status.seq > 0
      BY <2>1 DEF NewScan, FrontWhole, TypeOK
    <2>3. QED
      BY <2>1, <2>2 DEF NewScan, Other
  <1>4. CASE Ask
    BY <1>4 DEF Ask, Other
  <1>5. CASE Read /\ bpc' # "poll"
    BY <1>5, ReadSteps DEF Read, Other
  <1>6. \/ bpc' = "poll" \/ Poll \/ Ask \/ Read
        \/ UNCHANGED <<bpc, seen, lastIngest>>
    BY DEF Next, PackOn, Brain, vars, brainVars, BeginPack, PackBlock, StoreLength,
           StorePointer, CountScan, Publish, Restart, Reject, Lose
  <1>7. QED
    BY <1>1, <1>2, <1>3, <1>4, <1>5, <1>6

LEMMA RememberedStep ==
  ASSUME TypeOK, FrontWhole, SnapWhole, Copied, Remembered, [Next]_vars
  PROVE  Remembered'
  <1>1. /\ Earlier \in Nat /\ Earlier <= made /\ made \in Nat /\ made' \in Nat /\ made' >= made
        /\ lastIngest \in Nat /\ (~Restart => Earlier' = Earlier) /\ (Restart => Earlier' = made)
    BY EarlierStep, ScanAssumption DEF TypeOK, Scans
  <1>2. CASE UNCHANGED <<got, lastIngest>>
    BY <1>1, <1>2 DEF Remembered
  <1>3. CASE Read /\ got' # got
    <2>1. UNCHANGED <<made, Earlier>>
      BY <1>3, ReadSteps DEF armVars, Earlier
    <2>2. QED
      BY <1>1, <1>3, <2>1, ReadFirst DEF Remembered
  <1>4. QED
    BY <1>2, <1>3, GotChanges

\* An ingested scanset is one scan, from its first block to its last.
THEOREM ScansetCorrect == Spec => []OneScan
  <1> DEFINE Whole == FrontWhole /\ SnapWhole /\ Copied /\ OneScan
  <1>1. Init => Whole
    BY ScanAssumption
       DEF Init, FrontWhole, SnapWhole, Copied, OneScan, Newest, NoSnap
  <1>2. TypeOK /\ Whole /\ [Next]_vars => Whole'
    BY FrontStep, SnapStep, CopiedStep, OneScanStep
  <1> HIDE DEF Whole
  <1>3. Spec => []Whole
    BY <1>1, <1>2, TransferTypeCorrect, PTL DEF Spec
  <1>4. Whole => OneScan
    BY DEF Whole
  <1>5. QED
    BY <1>3, <1>4, PTL

\* ingest_arm, poll_arm: no scan is ingested twice, also when its number comes
\* again in a later life of the arm.
THEOREM NewCorrect == Spec => NewEachTime
  <1> DEFINE Known == FrontWhole /\ SnapWhole /\ Copied /\ Other /\ Remembered
             New   == got' # got /\ got.len > 0 /\ ~got.spoiled /\ ~got'.spoiled =>
                        got'.blocks[0] # got.blocks[0]
  <1>1. Init => Known
    BY ScanAssumption
       DEF Init, FrontWhole, SnapWhole, Copied, Other, Remembered, Newest, NoSnap
  <1>2. TypeOK /\ Known /\ [Next]_vars => Known'
    BY FrontStep, SnapStep, CopiedStep, OtherStep, RememberedStep
  <1>3. TypeOK /\ Known /\ [Next]_vars => [New]_vars
    <2> SUFFICES ASSUME TypeOK, Known, [Next]_vars, got' # got, got.len > 0, ~got.spoiled, ~got'.spoiled
                 PROVE  got'.blocks[0] # got.blocks[0]
      OBVIOUS
    <2>1. /\ got'.blocks[0] = Earlier + seen /\ seen > 0 /\ seen # lastIngest
          /\ seen \in Nat /\ lastIngest \in Nat /\ Earlier \in Nat
      BY GotChanges, ReadFirst, EarlierStep DEF Other, TypeOK
    <2>2. got.blocks[0] \in 1 .. Earlier \/ got.blocks[0] = Earlier + lastIngest
      BY DEF Remembered
    <2>3. QED
      BY <2>1, <2>2
  <1> HIDE DEF Known
  <1>4. Spec => []Known
    BY <1>1, <1>2, TransferTypeCorrect, PTL DEF Spec
  <1>5. QED
    BY <1>3, <1>4, TransferTypeCorrect, PTL DEF Spec, NewEachTime
=============================================================================
