----------------------------- MODULE MCArchive -----------------------------
(* Small instances of Archive. *)
EXTENDS Archive

MCBudgets == {
  [sessions |-> 2, records |-> 1, requests |-> 2, faults |-> 1],
  [sessions |-> 2, records |-> 0, requests |-> 1, faults |-> 2],
  [sessions |-> 2, records |-> 1, requests |-> 0, faults |-> 2],
  [sessions |-> 3, records |-> 1, requests |-> 0, faults |-> 1],
  [sessions |-> 1, records |-> 2, requests |-> 1, faults |-> 2],
  [sessions |-> 1, records |-> 1, requests |-> 2, faults |-> 2],
  [sessions |-> 1, records |-> 1, requests |-> 0, faults |-> 3]}
=============================================================================
