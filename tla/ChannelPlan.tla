---------------------------- MODULE ChannelPlan ----------------------------
(***************************************************************************)
(* The division of the scan spectrum among the arms: what the brain sends  *)
(* in SET_PLAN (brain_main.c, replan_all) and what an arm makes of it      *)
(* (arm_scan.c, arm_scan_set_plan and arm_channel_plan).  A channel is its *)
(* index in CHAN_UNION.  The DFS flag is always set by the brain, so no    *)
(* index is skipped; the dwell fields do not affect which channels are     *)
(* visited.                                                                *)
(***************************************************************************)
EXTENDS Integers, FiniteSets

CONSTANTS
    NArms,  \* N_ARMS, the number of pool slots the brain polls
    NChan   \* the length of CHAN_UNION

ASSUME NArmsAssumption == NArms \in Nat \ {0}
ASSUME NChanAssumption == NChan \in Nat \ {0}

\* Indices into ARM_POOL, s_link, s_arm and s_dev.
Arms == 0 .. NArms - 1

Channels == 0 .. NChan - 1

\* A cl_plan_t: this arm is number "slot" of "of" arms.
Plan == {p \in [slot : 0 .. NArms - 1, of : 1 .. NArms] : p.slot < p.of}

\* What arm_scan_init leaves in force: the arm works alone.
Whole == [slot |-> 0, of |-> 1]

\* The position of arm a in arm_roster(): the roster lists indices in order.
Rank(roster, a) == Cardinality({b \in roster : b < a})

\* Mutant of PlanFor: the arm itself is left out of the count.
PlanAmongOthers(roster, a) == [slot |-> Rank(roster, a), of |-> Cardinality(roster \ {a})]

\* What replan_all sends to a member of the roster.
PlanFor(roster, a) == [slot |-> Rank(roster, a), of |-> Cardinality(roster)]

\* arm_scan_set_plan: a slot outside the stride falls back to the first.
Adopted(p) == [p EXCEPT !.slot = IF p.slot < p.of THEN p.slot ELSE 0]

\* Mutant of Slice: the arm starts one stride late.
SliceLate(p) == {i \in Channels : i > p.slot /\ i % p.of = p.slot}

\* arm_channel_plan: for (i = slot; i < NChan; i += of), with slot < of.
Slice(p) == {i \in Channels : i % p.of = p.slot}

----------------------------------------------------------------------------
\* The plans of a roster share the spectrum: no channel is swept twice and
\* none is left out.  README.md: "One arm sweeps the entire channel union;
\* two split it; three take a third each."
Partition(roster) ==
    /\ \A a, b \in roster :
         a # b => Slice(PlanFor(roster, a)) \cap Slice(PlanFor(roster, b)) = {}
    /\ UNION {Slice(PlanFor(roster, a)) : a \in roster} = Channels
=============================================================================
