----------------------------- MODULE RecordLog -----------------------------
(***************************************************************************)
(* What the microSD store of the cluster's S3 node promises about the      *)
(* merged windows that the brain sends it.  It may miss bytes, but what it *)
(* keeps of them is in order and is kept once.  The store is a sequence of *)
(* writes, and a write is a run of consecutive bytes of one window with no *)
(* record end in it.  A write that fails is left open: it has lost its end,*)
(* the newline at least, and the next write goes on in its line of text.   *)
(* HeadFeed implements this module.                                        *)
(*                                                                         *)
(* A window is known to the store by its number, which the brain counts    *)
(* from one at every boot.  Two windows of two boots may therefore carry   *)
(* one number, and then a line may begin in the one and go on in the other.*)
(***************************************************************************)
EXTENDS Naturals, Sequences

CONSTANTS
  Layouts,    \* the windows the brain may send: [len |-> bytes, ends |-> offsets of the record ends]
  MaxPushes   \* bound: the windows it sends

VARIABLES
  pushes,   \* the windows sent so far: [num, layout], in order
  log       \* the writes kept so far, in order: [bytes, open]

logVars == <<pushes, log>>

\* a byte is named by the window it was sent in and by its offset there
IsByte(b) ==
  /\ b.push \in DOMAIN pushes
  /\ b.off \in Nat /\ b.off < pushes[b.push].layout.len

IsRecordEnd(b) == b.off \in pushes[b.push].layout.ends

Before(b, c) == b.push < c.push \/ (b.push = c.push /\ b.off < c.off)

\* a byte that may follow b in a line
Continues(b, c) ==
  /\ c.off = b.off + 1
  /\ b.push <= c.push
  /\ pushes[b.push].num = pushes[c.push].num

IsLine(l) ==
  /\ l # <<>>
  /\ \A i \in DOMAIN l : IsByte(l[i]) /\ ~ IsRecordEnd(l[i])
  /\ \A i \in DOMAIN l : i > 1 => Continues(l[i - 1], l[i])

LastByte(l) == l[Len(l)]

Follows(l) == log = <<>> \/ Before(LastByte(log[Len(log)].bytes), l[1])

Whole(l) == [bytes |-> l, open |-> FALSE]
Unended(l) == [bytes |-> l, open |-> TRUE]

\* what may be left of a write
Rests(w) == {w} \cup {Unended(SubSeq(w.bytes, 1, k)) : k \in 1..Len(w.bytes)}

\* what may be left of a sequence of writes when everything from some byte on is lost
Cuts(s) ==
  {<<>>} \cup UNION {{Append(SubSeq(s, 1, i - 1), w) : w \in Rests(s[i])} : i \in DOMAIN s}

\* the line of text that the last write left open has ended
Shut(s) == IF s = <<>> THEN s ELSE [s EXCEPT ![Len(s)].open = FALSE]

Init == pushes = <<>> /\ log = <<>>

Send ==
  /\ Len(pushes) < MaxPushes
  /\ \E n \in 1..MaxPushes, l \in Layouts :
       pushes' = Append(pushes, [num |-> n, layout |-> l])
  /\ UNCHANGED log

Keep ==
  /\ log' # <<>>
  /\ LET w == log'[Len(log')] IN
       /\ log' = Append(log, w)
       /\ w \in {Whole(w.bytes), Unended(w.bytes)}
       /\ IsLine(w.bytes) /\ Follows(w.bytes)
  /\ UNCHANGED pushes

\* a failed write and a power loss take the end of the log, what was not on the card yet
Lose ==
  /\ \E r \in Cuts(log) : log' \in {r, Shut(r)}
  /\ UNCHANGED pushes

Next == Send \/ Keep \/ Lose

Spec == Init /\ [][Next]_logVars
============================================================================
