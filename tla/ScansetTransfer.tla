-------------------------- MODULE ScansetTransfer --------------------------
(***************************************************************************)
(* How a scanset crosses the bus: pack_scanset and the double buffer of an *)
(* arm (arm_scan.c), its receive ISR and transmit task (arm_main.c), and   *)
(* ingest_arm of the brain (brain_main.c), which fetches chunk by chunk    *)
(* while the arm goes on scanning.                                         *)
(*                                                                         *)
(* A scanset is a row of blocks, one per chunk; a block is the number of   *)
(* the scan that wrote it.  The stores that publish a scanset (length,     *)
(* pointer, scan number, status) are separate steps: the ISR and the       *)
(* transmit task, which has the higher priority, may run between them.     *)
(***************************************************************************)
EXTENDS Integers

CONSTANTS
    Size,        \* Size[k]: the blocks of the k-th scanset the arm packs
    ArmBlocks,   \* CL_SCANSET_MAX, in blocks
    Cap,         \* BRAIN_ARM_CAP, in blocks
    MaxScans,    \* bound: scans the arm makes, over all its restarts
    MaxRestarts, \* bound: restarts of the arm
    MaxFaults    \* bound: transfers that fail

ASSUME CapAssumption == Cap \in Nat \ {0} /\ ArmBlocks \in Nat \ {0}
ASSUME ScanAssumption == MaxScans \in Nat \ {0} /\ Size \in [1 .. MaxScans -> 1 .. ArmBlocks]
ASSUME BoundAssumption == MaxRestarts \in Nat /\ MaxFaults \in Nat

VARIABLES
    \* the arm
    bufs,     \* s_ss_a and s_ss_b: block -> scan, 0 where nothing was written
    front,    \* s_ss_front
    ssLen,    \* s_ss_len
    seq,      \* s_scan_seq
    status,   \* s_status: scan_seq and scanset_len
    apc,      \* how far arm_scan_run and what follows it have come
    fill,     \* blocks packed so far
    made,     \* scans begun to be packed since power on, all restarts counted
    snap,     \* s_snap_ptr, s_snap_total, s_snap_seq
    chunkOff, \* s_chunk_off
    serve,    \* s_serve_chunk
    \* the brain
    bpc,      \* where bus_task is with this arm: "poll", "ask" or "read"
    seen,     \* st.scan_seq, the seq of ingest_arm
    off,      \* off
    buf,      \* a->buf: block -> scan
    lastIngest,
    got,      \* what the last successful ingest left (its blocks and length),
              \* and, for the properties, how many there have been
    \* history: why the snapshot of the arm may not be one whole scanset
    spoiled,
    \* what is left of the bounds
    restarts, faults

armVars   == <<bufs, front, ssLen, seq, status, apc, fill, made>>
isrVars   == <<snap, chunkOff, serve>>
brainVars == <<bpc, seen, off, buf, lastIngest, got>>
bounds    == <<restarts, faults>>
vars      == <<armVars, isrVars, brainVars, spoiled, bounds>>

Scans  == 0 .. MaxScans
Blank  == [i \in 0 .. ArmBlocks - 1 |-> 0]
Back   == 1 - front
NoSnap == [ptr |-> 0, total |-> 0, seq |-> 0]

\* Between the store of the length and the increment of the scan number, a
\* snapshot mixes two scansets or names the wrong one.
Publishing == apc \in {"length", "pointer"}

Init ==
    /\ bufs = [b \in {0, 1} |-> Blank]
    /\ front = 0 /\ ssLen = 0 /\ seq = 0
    /\ status = [seq |-> 0, len |-> 0]
    /\ apc = "scan" /\ fill = 0 /\ made = 0
    /\ snap = NoSnap /\ chunkOff = 0 /\ serve = FALSE
    /\ bpc = "poll" /\ seen = 0 /\ off = 0 /\ lastIngest = 0
    /\ buf = [i \in 0 .. Cap - 1 |-> 0]
    /\ got = [blocks |-> buf, len |-> 0, spoiled |-> FALSE, times |-> 0]
    /\ spoiled = FALSE
    /\ restarts = MaxRestarts /\ faults = MaxFaults

----------------------------------------------------------------------------
(* The arm packs and publishes a scanset. *)

BeginPack ==
    /\ apc = "scan" /\ made < MaxScans
    /\ apc' = "pack" /\ fill' = 0 /\ made' = made + 1
    /\ UNCHANGED <<bufs, front, ssLen, seq, status, isrVars, brainVars, spoiled, bounds>>

\* A block goes to the back buffer, which an old snapshot may still point at.
PackBlock ==
    /\ apc = "pack" /\ fill < Size[made]
    /\ bufs' = [bufs EXCEPT ![Back][fill] = made]
    /\ fill' = fill + 1
    /\ spoiled' = (spoiled \/ snap.ptr = Back)
    /\ UNCHANGED <<front, ssLen, seq, status, apc, made, isrVars, brainVars, bounds>>

StoreLength ==
    /\ apc = "pack" /\ fill = Size[made]
    /\ ssLen' = fill /\ apc' = "length"
    /\ UNCHANGED <<bufs, front, seq, status, fill, made, isrVars, brainVars, spoiled, bounds>>

StorePointer ==
    /\ apc = "length"
    /\ front' = Back /\ apc' = "pointer"
    /\ UNCHANGED <<bufs, ssLen, seq, status, fill, made, isrVars, brainVars, spoiled, bounds>>

CountScan ==
    /\ apc = "pointer"
    /\ seq' = seq + 1 /\ apc' = "count"
    /\ UNCHANGED <<bufs, front, ssLen, status, fill, made, isrVars, brainVars, spoiled, bounds>>

Publish ==
    /\ apc = "count"
    /\ status' = [seq |-> seq, len |-> ssLen] /\ apc' = "scan"
    /\ UNCHANGED <<bufs, front, ssLen, seq, fill, made, isrVars, brainVars, spoiled, bounds>>

\* Power loss: everything of the arm is in RAM.
Restart ==
    /\ restarts > 0 /\ restarts' = restarts - 1
    /\ bufs' = [b \in {0, 1} |-> Blank]
    /\ front' = 0 /\ ssLen' = 0 /\ seq' = 0
    /\ status' = [seq |-> 0, len |-> 0]
    /\ apc' = "scan" /\ fill' = 0
    /\ snap' = NoSnap /\ chunkOff' = 0 /\ serve' = FALSE
    /\ spoiled' = FALSE
    /\ UNCHANGED <<made, brainVars, faults>>

----------------------------------------------------------------------------
(* The brain fetches it. *)

\* Mutant of NewScan: whatever the arm holds is fetched.
AnyScan(st) == st.len > 0

\* Mutant of NewScan: scan numbers are assumed to grow.
LaterScan(st) == st.len > 0 /\ st.seq > lastIngest

NewScan(st) == st.len > 0 /\ st.seq # lastIngest

\* poll_arm.  A chunk that was asked for and never read is served instead of
\* the status, which the brain takes for no answer.
Poll ==
    /\ bpc = "poll"
    /\ serve' = FALSE
    /\ IF ~serve /\ NewScan(status)
         THEN bpc' = "ask" /\ seen' = status.seq /\ off' = 0
         ELSE UNCHANGED <<bpc, seen, off>>
    /\ UNCHANGED <<armVars, snap, chunkOff, buf, lastIngest, got, spoiled, bounds>>

\* GET_SCANSET reaches the ISR: offset 0 takes the snapshot.
Ask ==
    /\ bpc = "ask"
    /\ bpc' = "read" /\ serve' = TRUE /\ chunkOff' = off
    /\ IF off = 0
         THEN /\ snap' = [ptr |-> front, total |-> ssLen, seq |-> seq]
              /\ spoiled' = Publishing
         ELSE UNCHANGED <<snap, spoiled>>
    /\ UNCHANGED <<armVars, seen, off, buf, lastIngest, got, bounds>>

\* The frame arm_tx_task sends.
Chunk == [seq |-> snap.seq, total |-> snap.total, off |-> chunkOff,
          len |-> IF chunkOff < snap.total THEN 1 ELSE 0,
          block |-> IF chunkOff < snap.total THEN bufs[snap.ptr][chunkOff] ELSE 0]

\* Mutant of Expected: any chunk at the right offset is accepted.
ExpectedOffset(f) == f.off = off

Expected(f) == f.seq = seen /\ f.off = off

\* Mutant of Fits: one block too many.
FitsOneMore(n) == n <= Cap + 1

Fits(n) == n <= Cap

\* memcpy to a block of a buffer, which knows no end of its own.
Written(b, i, v) == [j \in DOMAIN b \cup {i} |-> IF j = i THEN v ELSE b[j]]

\* The payload is copied while it fits; the offset advances regardless.
Read ==
    /\ bpc = "read" /\ serve /\ Expected(Chunk)
    /\ serve' = FALSE
    /\ LET n == off + Chunk.len
           b == IF Chunk.len > 0 /\ Fits(n) THEN Written(buf, off, Chunk.block) ELSE buf
       IN  /\ buf' = b
           /\ off' = n
           /\ IF Chunk.len = 0 \/ n >= Chunk.total
                THEN /\ bpc' = "poll" /\ lastIngest' = seen
                     /\ got' = [blocks |-> b, len |-> n, spoiled |-> spoiled,
                              times |-> got.times + 1]
                ELSE bpc' = "ask" /\ UNCHANGED <<lastIngest, got>>
    /\ UNCHANGED <<armVars, snap, chunkOff, seen, spoiled, bounds>>

\* A status comes instead of a chunk, or a chunk that is not the expected one.
Reject ==
    /\ bpc = "read" /\ ~(serve /\ Expected(Chunk))
    /\ bpc' = "poll" /\ serve' = FALSE
    /\ UNCHANGED <<armVars, snap, chunkOff, seen, off, buf, lastIngest, got, spoiled, bounds>>

\* A transfer fails: the request is lost, or the answer is lost before or
\* after the arm has served it.
Lose ==
    /\ bpc \in {"ask", "read"} /\ faults > 0
    /\ faults' = faults - 1
    /\ bpc' = "poll"
    /\ serve' \in {serve, FALSE}
    /\ UNCHANGED <<armVars, snap, chunkOff, seen, off, buf, lastIngest, got, spoiled, restarts>>

PackOn == PackBlock \/ StoreLength \/ StorePointer \/ CountScan \/ Publish
Brain  == Poll \/ Ask \/ Read \/ Reject

Next == BeginPack \/ PackOn \/ Restart \/ Brain \/ Lose

Spec == Init /\ [][Next]_vars

\* A scanset that is being packed is published, and bus_task polls for ever.
FairSpec == Spec /\ WF_vars(PackOn) /\ WF_vars(Brain)

----------------------------------------------------------------------------
(* Properties. *)

Filled == 0 .. ArmBlocks - 1
TypeOK ==
    /\ bufs \in [{0, 1} -> [Filled -> Scans]]
    /\ front \in {0, 1} /\ ssLen \in 0 .. ArmBlocks /\ seq \in Nat
    /\ status \in [seq : Nat, len : 0 .. ArmBlocks]
    /\ apc \in {"scan", "pack", "length", "pointer", "count"}
    /\ fill \in 0 .. ArmBlocks /\ made \in Scans /\ (apc # "scan" => made # 0)
    /\ snap \in [ptr : {0, 1}, total : 0 .. ArmBlocks, seq : Nat]
    /\ chunkOff \in Nat /\ serve \in BOOLEAN
    /\ bpc \in {"poll", "ask", "read"}
    /\ seen \in Nat /\ off \in Nat /\ lastIngest \in Nat
    /\ buf \in [0 .. Cap - 1 -> Scans]
    /\ got \in [blocks : [0 .. Cap - 1 -> Scans], len : Nat, spoiled : BOOLEAN, times : Nat]
    /\ spoiled \in BOOLEAN
    /\ restarts \in Nat /\ faults \in Nat

\* The blocks of the last ingested scanset that the brain's buffer has room for.
Kept == {i \in 0 .. Cap - 1 : i < got.len}

\* An ingested scanset is one scan, from its first block to its last: however
\* the chunks interleave with the next scan, with a restart of the arm and with
\* lost transfers.  Two windows of the code are excluded: a snapshot between
\* the stores that publish a scanset, and a second scan that packs into the
\* buffer before the transfer has ended.
OneScan ==
    got.len > 0 /\ ~got.spoiled =>
        \E k \in 1 .. MaxScans : got.len = Size[k] /\ \A i \in Kept : got.blocks[i] = k

\* No scan is ingested twice.
NewEachTime ==
    [][got' # got /\ got.len > 0 /\ ~got.spoiled /\ ~got'.spoiled =>
         got'.blocks[0] # got.blocks[0]]_vars

\* When the arm has made its last scan, the brain comes to ingest the scan
\* number the arm announces: a lost or rejected chunk is retried, and a smaller
\* number, after a restart, is not passed over.
CatchesUp == <>[](status.seq = 0 \/ lastIngest = status.seq)

\* DogParkClusterS3.md: "each window the arms report their scansets to the
\* brain; the brain merges and de-duplicates them": the records the brain
\* counts as received are in its buffer.
StoredWhole == got.len <= Cap
=============================================================================
