-------------------------- MODULE ScanWindow_proofs --------------------------
(***************************************************************************)
(* First the plans: replan_all sends well formed ones, no two arms of a    *)
(* roster get the same slot, every slot is given to some arm, and so the   *)
(* slices of a roster partition the channels, for any pool, any roster and *)
(* any number of channels.                                                 *)
(*                                                                         *)
(* Then, for any number of arms, any presence window and any number of     *)
(* restarts and lost transfers: type correctness, the brain's book of      *)
(* plans agrees with the arms, a waiting delivery has not been merged      *)
(* before, and only present arms hold one when the window is judged.       *)
(***************************************************************************)
EXTENDS ScanWindow, FiniteSetTheorems, TLAPS

(* The plans *)

LEMMA ArmsFinite == \A S \in SUBSET Arms : IsFiniteSet(S) /\ Cardinality(S) \in Nat
  <1>1. IsFiniteSet(Arms)
    BY NArmsAssumption, FS_Interval DEF Arms
  <1>2. QED
    BY <1>1, FS_Subset, FS_CardinalityType

\* A proper subset of a roster is smaller.
LEMMA ProperSubset ==
  ASSUME NEW S \in SUBSET Arms, NEW T \in SUBSET S, NEW x \in S, x \notin T
  PROVE  Cardinality(T) < Cardinality(S)
  <1>1. IsFiniteSet(S) /\ Cardinality(S) \in Nat /\ Cardinality(T) \in Nat
    BY ArmsFinite
  <1>2. Cardinality(T) <= Cardinality(S) /\ (Cardinality(S) = Cardinality(T) => S = T)
    BY <1>1, FS_Subset
  <1>3. QED
    BY <1>1, <1>2

LEMMA RankInRoster ==
  ASSUME NEW roster \in SUBSET Arms, NEW a \in roster
  PROVE  /\ Rank(roster, a) \in Nat
         /\ Cardinality(roster) \in Nat
         /\ Rank(roster, a) < Cardinality(roster)
  <1> DEFINE below == {b \in roster : b < a}
  <1>1. below \in SUBSET roster /\ a \notin below
    BY NArmsAssumption DEF Arms
  <1>2. Cardinality(below) < Cardinality(roster)
    BY <1>1, ProperSubset
  <1>3. Cardinality(below) \in Nat /\ Cardinality(roster) \in Nat
    BY <1>1, ArmsFinite
  <1>4. QED
    BY <1>2, <1>3 DEF Rank

LEMMA RankIncreases ==
  ASSUME NEW roster \in SUBSET Arms, NEW a \in roster, NEW b \in roster, a < b
  PROVE  Rank(roster, a) < Rank(roster, b)
  <1> DEFINE lo == {c \in roster : c < a}
  <1> DEFINE hi == {c \in roster : c < b}
  <1>0. \A c \in roster : c \in Int
    BY NArmsAssumption DEF Arms
  <1>1. lo \subseteq hi
    <2>1. \A c \in roster : c < a => c < b
      BY <1>0
    <2>2. QED
      BY <2>1
  <1>2. a \in hi /\ a \notin lo /\ hi \in SUBSET Arms
    <2>1. ~(a < a)
      BY <1>0
    <2>2. QED
      BY <2>1
  <1>3. Cardinality(lo) < Cardinality(hi)
    BY <1>1, <1>2, ProperSubset
  <1>4. QED
    BY <1>3 DEF Rank

LEMMA RankInjective ==
  ASSUME NEW roster \in SUBSET Arms, NEW a \in roster, NEW b \in roster,
         Rank(roster, a) = Rank(roster, b)
  PROVE  a = b
  <1>1. a \in Int /\ b \in Int
    BY NArmsAssumption DEF Arms
  <1>2. Rank(roster, a) \in Nat /\ Rank(roster, b) \in Nat
    BY RankInRoster
  <1>3. CASE a < b
    BY <1>2, <1>3, RankIncreases
  <1>4. CASE b < a
    BY <1>2, <1>4, RankIncreases
  <1>5. QED
    BY <1>1, <1>3, <1>4

\* Every slot is given to some arm: otherwise the arms of the roster would
\* have to share one slot fewer than there are arms.
LEMMA RankOnto ==
  ASSUME NEW roster \in SUBSET Arms, NEW k \in Nat, k < Cardinality(roster)
  PROVE  \E a \in roster : Rank(roster, a) = k
  <1> DEFINE n == Cardinality(roster)
  <1> DEFINE slots == (0 .. n - 1) \ {k}
  <1> DEFINE f == [a \in roster |-> Rank(roster, a)]
  <1>1. IsFiniteSet(roster) /\ n \in Nat
    BY ArmsFinite
  <1>2. SUFFICES ASSUME \A a \in roster : Rank(roster, a) # k
                 PROVE  FALSE
    OBVIOUS
  <1>3. f \in [roster -> slots]
    BY <1>1, <1>2, RankInRoster
  <1>4. IsFiniteSet(0 .. n - 1) /\ Cardinality(0 .. n - 1) = n
    <2>1. 0 \in Int /\ n - 1 \in Int /\ ~(0 > n - 1) /\ (n - 1) - 0 + 1 = n
      BY <1>1
    <2> HIDE DEF n
    <2>2. QED
      BY <2>1, FS_Interval
  <1>5. IsFiniteSet(slots) /\ Cardinality(slots) = n - 1
    <2>1. k \in 0 .. n - 1
      BY <1>1
    <2> DEFINE range == 0 .. n - 1
    <2>2. k \in range /\ IsFiniteSet(range) /\ Cardinality(range) = n
      BY <1>4, <2>1
    <2> HIDE DEF range
    <2>3. IsFiniteSet(range \ {k}) /\ Cardinality(range \ {k}) = n - 1
      BY <2>2, FS_RemoveElement
    <2>4. QED
      BY <2>3 DEF range
  <1> HIDE DEF slots, f, n
  <1>6. n - 1 < n
    BY <1>1
  <1>7. \E a, b \in roster : a # b /\ f[a] = f[b]
    BY <1>1, <1>3, <1>5, <1>6, FS_PigeonHole DEF n
  <1>8. QED
    BY <1>7, RankInjective DEF f

\* What replan_all sends is a plan an arm takes over unchanged.
LEMMA PlanForType ==
  ASSUME NEW roster \in SUBSET Arms, NEW a \in roster
  PROVE  PlanFor(roster, a) \in Plan
  <1>1. IsFiniteSet(Arms) /\ Cardinality(Arms) = NArms
    BY NArmsAssumption, FS_Interval DEF Arms
  <1>2. Cardinality(roster) <= NArms
    BY <1>1, FS_Subset
  <1>3. QED
    BY <1>2, RankInRoster, NArmsAssumption DEF PlanFor, Plan

LEMMA AdoptedPlan == \A p \in Plan : Adopted(p) = p
  BY NArmsAssumption DEF Plan, Adopted

LEMMA WholeType == Whole \in Plan /\ Slice(Whole) = Channels
  BY NArmsAssumption, NChanAssumption DEF Whole, Plan, Slice, Channels

\* replan_all divides the spectrum: for every non-empty roster, the slices are
\* disjoint and cover all channels.
THEOREM PlansPartition == \A roster \in SUBSET Arms : roster # {} => Partition(roster)
  <1> SUFFICES ASSUME NEW roster \in SUBSET Arms, roster # {}
               PROVE  Partition(roster)
    OBVIOUS
  <1> DEFINE n == Cardinality(roster)
  <1>1. n \in Nat \ {0}
    BY ArmsFinite, FS_EmptySet
  <1>2. ASSUME NEW a \in roster, NEW b \in roster, a # b
        PROVE  Slice(PlanFor(roster, a)) \cap Slice(PlanFor(roster, b)) = {}
    <2>1. Rank(roster, a) # Rank(roster, b)
      BY <1>2, RankInjective
    <2>2. QED
      BY <2>1 DEF Slice, PlanFor
  <1>3. ASSUME NEW c \in Channels
        PROVE  \E a \in roster : c \in Slice(PlanFor(roster, a))
    <2>1. c % n \in Nat /\ c % n < n
      BY <1>1, NChanAssumption DEF Channels
    <2>2. PICK a \in roster : Rank(roster, a) = c % n
      BY <2>1, RankOnto
    <2>3. QED
      BY <2>2 DEF Slice, PlanFor
  <1>4. \A a \in roster : Slice(PlanFor(roster, a)) \subseteq Channels
    BY DEF Slice
  <1>5. QED
    BY <1>2, <1>3, <1>4 DEF Partition

----------------------------------------------------------------------------
(* The bus and the scan window *)

LEMMA NoPlanNotPlan == NoPlan \notin Plan
  BY NArmsAssumption DEF NoPlan, Plan

LEMMA FirstArm == 0 \in Arms /\ Arms \subseteq Nat
  BY NArmsAssumption DEF Arms

\* What a frame sent to some arms leaves of the fault budget.
LEMMA DeliveredType ==
  ASSUME NEW S \in SUBSET Arms, NEW got, faults \in Nat, Delivered(S, got)
  PROVE  got \subseteq S /\ faults' \in Nat
  <1> DEFINE lost == {a \in S : Up(a)} \ got
  <1>1. lost \in SUBSET Arms
    OBVIOUS
  <1>2. Cardinality(lost) \in Nat
    BY <1>1, ArmsFinite
  <1>3. QED
    BY <1>2 DEF Delivered

LEMMA NextArmType ==
  ASSUME cur \in Arms, NextArm
  PROVE  /\ cur' \in Arms
         /\ \/ pc' = "poll" /\ cur' = cur + 1
            \/ pc' = "control" /\ cur' = 0
  BY NArmsAssumption DEF NextArm, Arms

THEOREM TypeCorrect == Spec => []TypeOK
  <1>1. Init => TypeOK
    <2> SUFFICES ASSUME Init
                 PROVE  TypeOK
      OBVIOUS
    <2> USE DEF Init
    <2>1. /\ mode \in [Arms -> Modes] /\ seq \in [Arms -> Nat]
          /\ ready \in [Arms -> BOOLEAN] /\ reqScan \in [Arms -> BOOLEAN]
      BY DEF Modes
    <2>2. plan \in [Arms -> Plan] /\ pend \in [Arms -> Plan \cup {NoPlan}]
      BY WholeType
    <2>3. quiet \in [Arms -> 0 .. QuietRounds] /\ lastIngest \in [Arms -> Nat]
      BY QuietAssumption
    <2>4. /\ present \in [Arms -> BOOLEAN] /\ book \in [Arms -> Plan \cup {NoPlan}]
          /\ have \in [Arms -> BOOLEAN] /\ buf \in [Arms -> Contents]
      BY DEF Contents
    <2>5. /\ pc \in Sections /\ cur \in Arms /\ seen \in Nat
          /\ taken \in Requests /\ req \in Requests
      BY FirstArm DEF Sections, Requests
    <2>6. /\ inflight \in BOOLEAN /\ late \in BOOLEAN
          /\ walking \in BOOLEAN /\ rescan \in BOOLEAN /\ bootScanned \in BOOLEAN
          /\ locating \in BOOLEAN
      OBVIOUS
    <2>7. boots \in [Arms -> Nat] /\ resets \in Nat /\ faults \in Nat /\ windows \in Nat
      BY BudgetAssumption
    <2>8. QED
      BY <2>1, <2>2, <2>3, <2>4, <2>5, <2>6, <2>7 DEF TypeOK
  <1>2. TypeOK /\ [Next]_vars => TypeOK'
    <2> SUFFICES ASSUME TypeOK, [Next]_vars
                 PROVE  TypeOK'
      OBVIOUS
    <2> USE DEF TypeOK, armVars, linkVars, roundVars, scanVars, budgets,
                Modes, Contents, Sections, Requests
    <2>1. ASSUME NEW a \in Arms, PowerOn(a)
          PROVE  TypeOK'
      BY <2>1 DEF PowerOn
    <2>2. ASSUME NEW a \in Arms, PowerOff(a)
          PROVE  TypeOK'
      BY <2>2, WholeType DEF PowerOff
    <2>3. ASSUME NEW a \in Arms, FinishScan(a)
          PROVE  TypeOK'
      BY <2>3 DEF FinishScan
    <2>4. ASSUME NEW a \in Arms, Turn(a)
          PROVE  TypeOK'
      BY <2>4, AdoptedPlan DEF Turn
    <2>5. CASE PollOk
      <3>1. cur' \in Arms /\ pc' \in Sections
        BY <2>5, NextArmType DEF PollOk
      <3>2. quiet' \in [Arms -> 0 .. QuietRounds]
        BY <2>5, QuietAssumption DEF PollOk
      <3>3. QED
        BY <2>5, <3>1, <3>2 DEF PollOk, Answers
    <2>6. CASE PollFail
      <3>1. cur' \in Arms /\ pc' \in Sections
        BY <2>6, NextArmType DEF PollFail
      <3>2. quiet' \in [Arms -> 0 .. QuietRounds]
        BY <2>6, QuietAssumption DEF PollFail
      <3>3. QED
        BY <2>6, <3>1, <3>2 DEF PollFail, Silent
    <2>7. CASE IngestOk
      <3>1. cur' \in Arms /\ pc' \in Sections
        BY <2>7, NextArmType DEF IngestOk
      <3>2. QED
        BY <2>7, <3>1 DEF IngestOk, Answers
    <2>8. CASE IngestFail
      <3>1. cur' \in Arms /\ pc' \in Sections
        BY <2>8, NextArmType DEF IngestFail
      <3>2. buf' \in [Arms -> Contents] /\ faults' \in Nat
        BY <2>8 DEF IngestFail, Silent
      <3>3. QED
        BY <2>8, <3>1, <3>2 DEF IngestFail
    <2>9. CASE Control
      BY <2>9, RequestAssumption DEF Control
    <2>10. CASE Clear
      BY <2>10 DEF Clear
    <2>11. CASE HardReset
      <3>1. quiet' \in [Arms -> 0 .. QuietRounds]
        BY <2>11, QuietAssumption DEF HardReset
      <3>2. cur' \in Arms /\ resets' \in Nat
        BY <2>11, FirstArm DEF HardReset
      <3>3. QED
        BY <2>11, <3>1, <3>2 DEF HardReset
    <2>12. CASE RefreshRoster
      <3>1. PICK got \in SUBSET Replanned :
                /\ Delivered(Replanned, got)
                /\ book' = [a \in Arms |-> Booked(got, a)]
                /\ pend' = [a \in Arms |-> IF a \in got THEN PlanFor(Roster, a) ELSE pend[a]]
        BY <2>12 DEF RefreshRoster
      <3>2. Roster \in SUBSET Arms /\ Replanned \in SUBSET Roster
        BY DEF Roster, Replanned
      <3>3. \A a \in got : PlanFor(Roster, a) \in Plan
        BY <3>2, PlanForType
      <3>4. book' \in [Arms -> Plan \cup {NoPlan}] /\ pend' \in [Arms -> Plan \cup {NoPlan}]
        BY <3>1, <3>3 DEF Booked
      <3>5. faults' \in Nat
        BY <3>1, <3>2, DeliveredType
      <3>6. present' \in [Arms -> BOOLEAN] /\ have' \in [Arms -> BOOLEAN]
        BY <2>12 DEF RefreshRoster, OnBus, Kept
      <3>7. QED
        BY <2>12, <3>4, <3>5, <3>6 DEF RefreshRoster
    <2>13. CASE CloseWindow
      BY <2>13 DEF CloseWindow, LeftAfterMerge
    <2>14. CASE KeepWindow
      BY <2>14 DEF KeepWindow
    <2>15. CASE Broadcast
      <3>1. PICK got \in SUBSET Online :
                /\ Delivered(Online, got)
                /\ reqScan' = [a \in Arms |-> reqScan[a] \/ a \in got]
        BY <2>15 DEF Broadcast
      <3>2. faults' \in Nat
        BY <3>1, DeliveredType DEF Online
      <3>3. windows' \in Nat
        BY <2>15 DEF Broadcast, MayScan, WantScan
      <3>4. QED
        BY <2>15, <3>1, <3>2, <3>3 DEF Broadcast
    <2>16. CASE NoScan
      BY <2>16 DEF NoScan
    <2>17. CASE TimeOut
      BY <2>17 DEF TimeOut
    <2>18. ASSUME NEW r \in UserRequests, Post(r)
           PROVE  TypeOK'
      BY <2>18, RequestAssumption DEF Post
    <2>19. CASE UNCHANGED vars
      BY <2>19 DEF vars
    <2>20. QED
      BY <2>1, <2>2, <2>3, <2>4, <2>5, <2>6, <2>7, <2>8, <2>9, <2>10, <2>11, <2>12,
         <2>13, <2>14, <2>15, <2>16, <2>17, <2>18, <2>19 DEF Next, Round
  <1>3. QED
    BY <1>1, <1>2, PTL DEF Spec
----------------------------------------------------------------------------
(* A waiting delivery has not been merged. *)

\* Every step that sets have fills the buffer, and the one that marks buffers
\* merged (do_merge, then the flags of every arm) clears it.
THEOREM UnspentCorrect == Spec => []DeliveryUnspent
  <1>1. Init => DeliveryUnspent
    BY DEF Init, DeliveryUnspent
  <1>2. TypeOK /\ DeliveryUnspent /\ [Next]_vars => DeliveryUnspent'
    <2> SUFFICES ASSUME TypeOK, DeliveryUnspent, [Next]_vars
                 PROVE  DeliveryUnspent'
      OBVIOUS
    <2> USE DEF DeliveryUnspent
    <2>1. CASE IngestOk
      BY <2>1 DEF IngestOk, TypeOK
    <2>2. CASE IngestFail
      BY <2>2 DEF IngestFail, Silent, TypeOK
    <2>3. CASE HardReset
      BY <2>3 DEF HardReset
    <2>4. CASE RefreshRoster
      BY <2>4 DEF RefreshRoster, Kept, TypeOK
    <2>5. CASE CloseWindow
      BY <2>5 DEF CloseWindow, LeftAfterMerge
    <2>6. ASSUME UNCHANGED <<have, buf>>
          PROVE  DeliveryUnspent'
      BY <2>6
    <2>7. QED
      BY <2>1, <2>2, <2>3, <2>4, <2>5, <2>6
         DEF Next, Round, vars, armVars, linkVars, PowerOn, PowerOff, FinishScan, Turn,
             PollOk, PollFail, Control, Clear, KeepWindow, Broadcast, NoScan, TimeOut, Post
  <1>3. QED
    BY <1>1, <1>2, TypeCorrect, PTL DEF Spec

----------------------------------------------------------------------------
(* Only present arms hold a delivery when the window is judged. *)

\* The strengthening: a delivery of an arm that is not in the roster yet was
\* fetched in this very round, after a status that refresh_roster will count.
FetchedThisRound(a) ==
    /\ quiet[a] = 0
    /\ pc \notin {"window", "scan"}
    /\ pc \in {"poll", "ingest"} => a < cur

DeliveriesSeen ==
    /\ pc = "ingest" => quiet[cur] = 0
    /\ \A a \in Arms : have[a] => present[a] \/ FetchedThisRound(a)

\* The sections of a round other than the polls leave statuses and deliveries.
LEMMA SeenInSections ==
  ASSUME TypeOK, DeliveriesSeen, UNCHANGED <<quiet, have, present>>,
         \/ UNCHANGED <<pc, cur>>
         \/ pc = "control" /\ pc' = "clear"
         \/ pc = "clear" /\ pc' = "roster"
         \/ pc = "window" /\ pc' = "scan"
         \/ pc = "scan" /\ pc' = "poll"
  PROVE  DeliveriesSeen'
  BY DEF DeliveriesSeen, FetchedThisRound

\* The end of a poll: arm cur is behind the cursor in what follows.
LEMMA BehindCursor ==
  ASSUME TypeOK, NextArm, pc \in {"poll", "ingest"},
         NEW a \in Arms, a <= cur, quiet'[a] = 0
  PROVE  FetchedThisRound(a)'
  <1>1. a \in Int /\ cur \in Int
    BY FirstArm DEF TypeOK
  <1>2. QED
    BY <1>1, NextArmType DEF FetchedThisRound, TypeOK

THEOREM PresentCorrect == Spec => []DeliveredArePresent
  <1>1. Init => DeliveriesSeen
    BY DEF Init, DeliveriesSeen
  <1>2. TypeOK /\ DeliveriesSeen /\ [Next]_vars => DeliveriesSeen'
    <2> SUFFICES ASSUME TypeOK, DeliveriesSeen, [Next]_vars
                 PROVE  DeliveriesSeen'
      OBVIOUS
    <2>0. \A a \in Arms : a \in Int
      BY FirstArm
    <2>1. CASE PollOk
      <3>1. CASE pc' = "ingest" /\ cur' = cur
        BY <2>1, <3>1 DEF PollOk, DeliveriesSeen, FetchedThisRound, TypeOK
      <3>2. CASE NextArm
        <4>1. pc' # "ingest"
          BY <3>2, NextArmType DEF TypeOK
        <4>2. ASSUME NEW a \in Arms, have'[a], ~present'[a]
              PROVE  FetchedThisRound(a)'
          <5>1. a < cur /\ quiet[a] = 0 /\ quiet'[a] = 0
            BY <2>1, <4>2, <2>0 DEF PollOk, DeliveriesSeen, FetchedThisRound, TypeOK
          <5>2. QED
            BY <2>1, <3>2, <5>1, <2>0, BehindCursor DEF PollOk, TypeOK
        <4>3. QED
          BY <4>1, <4>2 DEF DeliveriesSeen
      <3>3. QED
        BY <2>1, <3>1, <3>2 DEF PollOk
    <2>2. CASE PollFail
      <3>1. pc' # "ingest"
        BY <2>2, NextArmType DEF PollFail, TypeOK
      <3>2. ASSUME NEW a \in Arms, have'[a], ~present'[a]
            PROVE  FetchedThisRound(a)'
        <4>1. a < cur /\ quiet[a] = 0 /\ quiet'[a] = 0
          BY <2>2, <3>2, <2>0 DEF PollFail, DeliveriesSeen, FetchedThisRound, TypeOK
        <4>2. QED
          BY <2>2, <4>1, <2>0, BehindCursor DEF PollFail, TypeOK
      <3>3. QED
        BY <3>1, <3>2 DEF DeliveriesSeen
    <2>3. CASE IngestOk \/ IngestFail
      <3>1. NextArm /\ pc = "ingest" /\ UNCHANGED <<quiet, present>>
        BY <2>3 DEF IngestOk, IngestFail
      <3>2. pc' # "ingest"
        BY <3>1, NextArmType DEF TypeOK
      <3>3. ASSUME NEW a \in Arms, have'[a], ~present'[a]
            PROVE  FetchedThisRound(a)'
        <4>1. CASE a = cur
          BY <3>1, <4>1, <2>0, BehindCursor DEF DeliveriesSeen, TypeOK
        <4>2. CASE a # cur
          <5>1. have[a]
            BY <2>3, <3>3, <4>2 DEF IngestOk, IngestFail, TypeOK
          <5>2. a < cur /\ quiet[a] = 0
            BY <3>1, <3>3, <5>1 DEF DeliveriesSeen, FetchedThisRound
          <5>3. QED
            BY <3>1, <5>2, <2>0, BehindCursor DEF TypeOK
        <4>3. QED
          BY <4>1, <4>2
      <3>4. QED
        BY <3>2, <3>3 DEF DeliveriesSeen
    <2>4. CASE HardReset
      BY <2>4 DEF HardReset, DeliveriesSeen
    <2>5. CASE RefreshRoster
      <3>1. ASSUME NEW a \in Arms, have'[a]
            PROVE  present'[a]
        <4>1. have[a] /\ ~Dropped(a) /\ present'[a] = OnBus(a)
          BY <2>5, <3>1 DEF RefreshRoster, Kept
        <4>2. CASE present[a]
          BY <4>1, <4>2 DEF Dropped
        <4>3. CASE quiet[a] = 0
          <5>1. OnBus(a)
            BY <4>3, QuietAssumption DEF OnBus
          <5>2. QED
            BY <4>1, <5>1
        <4>4. QED
          BY <4>1, <4>2, <4>3 DEF DeliveriesSeen, FetchedThisRound
      <3>2. QED
        BY <2>5, <3>1 DEF RefreshRoster, DeliveriesSeen
    <2>6. CASE CloseWindow
      BY <2>6 DEF CloseWindow, LeftAfterMerge, DeliveriesSeen
    <2>7. CASE Control \/ Clear \/ KeepWindow \/ Broadcast \/ NoScan
      BY <2>7, SeenInSections DEF Control, Clear, KeepWindow, Broadcast, NoScan, linkVars
    <2>8. ASSUME UNCHANGED <<quiet, have, present, pc, cur>>
          PROVE  DeliveriesSeen'
      BY <2>8, SeenInSections
    <2>9. QED
      BY <2>1, <2>2, <2>3, <2>4, <2>5, <2>6, <2>7, <2>8
         DEF Next, Round, vars, linkVars, roundVars, PowerOn, PowerOff, FinishScan, Turn,
             TimeOut, Post
  <1>3. DeliveriesSeen => DeliveredArePresent
    BY DEF DeliveriesSeen, FetchedThisRound, DeliveredArePresent
  <1>4. QED
    BY <1>1, <1>2, <1>3, TypeCorrect, PTL DEF Spec
----------------------------------------------------------------------------
(* The book of plans. *)

\* The strengthening: a board that is off will start on the whole union.
BlankWhenOff == \A a \in Arms : ~Up(a) => plan[a] = Whole /\ pend[a] = NoPlan

LEMMA BlankInit == Init => BlankWhenOff
  BY DEF Init, BlankWhenOff

LEMMA BlankStep ==
  ASSUME TypeOK, BlankWhenOff, [Next]_vars
  PROVE  BlankWhenOff'
  <1> USE DEF BlankWhenOff, Up, TypeOK
  <1>1. ASSUME NEW a \in Arms, PowerOn(a)
        PROVE  BlankWhenOff'
    BY <1>1 DEF PowerOn
  <1>2. ASSUME NEW a \in Arms, PowerOff(a)
        PROVE  BlankWhenOff'
    BY <1>2 DEF PowerOff
  <1>3. ASSUME NEW a \in Arms, FinishScan(a)
        PROVE  BlankWhenOff'
    BY <1>3 DEF FinishScan
  <1>4. ASSUME NEW a \in Arms, Turn(a)
        PROVE  BlankWhenOff'
    BY <1>4 DEF Turn
  <1>5. CASE RefreshRoster
    BY <1>5 DEF RefreshRoster, Delivered
  <1>6. ASSUME UNCHANGED <<mode, plan, pend>>
        PROVE  BlankWhenOff'
    BY <1>6
  <1>7. QED
    BY <1>1, <1>2, <1>3, <1>4, <1>5, <1>6
       DEF Next, Round, vars, armVars, PollOk, PollFail, IngestOk, IngestFail, Control, Clear,
           HardReset, CloseWindow, KeepWindow, Broadcast, NoScan, TimeOut, Post

\* What a step of an arm makes of its last plan.
LEMMA TurnKeepsLastPlan ==
  ASSUME TypeOK, NEW a \in Arms, Turn(a), NEW b \in Arms
  PROVE  LastPlan(b)' = LastPlan(b)
  BY AdoptedPlan, NoPlanNotPlan DEF Turn, LastPlan, TypeOK

LEMMA PowerOffLastPlan ==
  ASSUME TypeOK, NEW a \in Arms, PowerOff(a), NEW b \in Arms, Up(b)'
  PROVE  Up(b) /\ LastPlan(b)' = LastPlan(b)
  BY DEF PowerOff, LastPlan, Up, TypeOK

LEMMA PowerOnLastPlan ==
  ASSUME TypeOK, BlankWhenOff, NEW a \in Arms, PowerOn(a), NEW b \in Arms
  PROVE  \/ LastPlan(b)' = Whole
         \/ LastPlan(b)' = LastPlan(b) /\ (Up(b)' => Up(b))
  BY DEF PowerOn, LastPlan, Up, TypeOK, BlankWhenOff

\* What replan_all makes of the last plans, and what it books.
LEMMA ReplanLastPlan ==
  ASSUME TypeOK, RefreshRoster, NEW a \in Arms
  PROVE  \/ LastPlan(a)' = LastPlan(a) /\ book'[a] \in {book[a], NoPlan}
         \/ LastPlan(a)' = PlanFor(Roster, a) /\ book'[a] = PlanFor(Roster, a)
  <1>1. PICK got \in SUBSET Replanned :
            /\ book' = [b \in Arms |-> Booked(got, b)]
            /\ pend' = [b \in Arms |-> IF b \in got THEN PlanFor(Roster, b) ELSE pend[b]]
    BY DEF RefreshRoster
  <1>2. UNCHANGED plan
    BY DEF RefreshRoster
  <1>3. CASE a \in got
    <2>1. Roster \in SUBSET Arms /\ a \in Roster
      BY <1>3 DEF Replanned, Roster
    <2>2. PlanFor(Roster, a) # NoPlan
      BY <2>1, PlanForType, NoPlanNotPlan
    <2>3. QED
      BY <1>1, <1>3, <2>2 DEF Booked, LastPlan
  <1>4. CASE a \notin got
    BY <1>1, <1>2, <1>4 DEF Booked, LastPlan
  <1>5. QED
    BY <1>3, <1>4

\* No arm that the brain counts as planned keeps an older plan of its own.
THEOREM BookCorrect == Spec => []BookedOrWhole
  <1>1. Init => BookedOrWhole
    BY DEF Init, BookedOrWhole
  <1>2. TypeOK /\ BlankWhenOff /\ BookedOrWhole /\ [Next]_vars => BookedOrWhole'
    <2> SUFFICES ASSUME TypeOK, BlankWhenOff, BookedOrWhole, [Next]_vars
                 PROVE  BookedOrWhole'
      OBVIOUS
    <2>1. ASSUME NEW a \in Arms, PowerOn(a)
          PROVE  BookedOrWhole'
      <3>1. UNCHANGED book
        BY <2>1 DEF PowerOn, linkVars
      <3>2. QED
        BY <2>1, <3>1, PowerOnLastPlan DEF BookedOrWhole
    <2>2. ASSUME NEW a \in Arms, PowerOff(a)
          PROVE  BookedOrWhole'
      <3>1. UNCHANGED book
        BY <2>2 DEF PowerOff, linkVars
      <3>2. QED
        BY <2>2, <3>1, PowerOffLastPlan DEF BookedOrWhole
    <2>3. ASSUME NEW a \in Arms, FinishScan(a)
          PROVE  BookedOrWhole'
      BY <2>3 DEF FinishScan, linkVars, BookedOrWhole, LastPlan, Up, TypeOK
    <2>4. ASSUME NEW a \in Arms, Turn(a)
          PROVE  BookedOrWhole'
      <3>1. UNCHANGED book /\ \A b \in Arms : Up(b)' => Up(b)
        BY <2>4 DEF Turn, linkVars, Up, TypeOK
      <3>2. QED
        BY <2>4, <3>1, TurnKeepsLastPlan DEF BookedOrWhole
    <2>5. CASE RefreshRoster
      <3>1. \A b \in Arms : Up(b)' => Up(b)
        BY <2>5 DEF RefreshRoster, Up
      <3>2. QED
        BY <2>5, <3>1, ReplanLastPlan DEF BookedOrWhole
    <2>6. CASE PollOk \/ PollFail \/ HardReset
      BY <2>6 DEF PollOk, PollFail, HardReset, armVars, BookedOrWhole, LastPlan, Up, TypeOK
    <2>7. ASSUME UNCHANGED <<mode, plan, pend, book>>
          PROVE  BookedOrWhole'
      BY <2>7 DEF BookedOrWhole, LastPlan, Up
    <2>8. QED
      BY <2>1, <2>2, <2>3, <2>4, <2>5, <2>6, <2>7
         DEF Next, Round, vars, armVars, linkVars, IngestOk, IngestFail, Control, Clear,
             CloseWindow, KeepWindow, Broadcast, NoScan, TimeOut, Post
  <1>3. QED
    BY <1>1, <1>2, BlankInit, BlankStep, TypeCorrect, PTL DEF Spec
----------------------------------------------------------------------------
(* The arms of the roster sweep every channel. *)

\* The strengthening: as long as no transfer has failed, a live member of the
\* roster follows the plan for this roster, or it restarted and sweeps it all.
PlansCurrent ==
    /\ faults <= MaxFaults
    /\ faults = MaxFaults =>
         \A a \in Online : Up(a) => LastPlan(a) \in {Whole, PlanFor(Online, a)}

LEMMA PlansCurrentFrame ==
  ASSUME TypeOK, TypeOK', PlansCurrent, UNCHANGED present, faults' <= faults,
         \A a \in Arms : Up(a)' => \/ LastPlan(a)' = Whole
                                   \/ LastPlan(a)' = LastPlan(a) /\ Up(a)
  PROVE  PlansCurrent'
  <1>1. UNCHANGED Online
    BY DEF Online
  <1>2. faults \in Nat /\ MaxFaults \in Nat /\ faults' <= MaxFaults
        /\ (faults' = MaxFaults => faults = MaxFaults)
    BY BudgetAssumption DEF TypeOK, PlansCurrent
  <1>3. \A a \in Arms : PlanFor(Online, a)' = PlanFor(Online, a)
    BY <1>1 DEF PlanFor, Rank
  <1>4. QED
    BY <1>1, <1>2, <1>3 DEF PlansCurrent, Online

\* While no transfer fails, a frame reaches every live arm it is sent to.
LEMMA NoneLost ==
  ASSUME NEW S \in SUBSET Arms, NEW got, TypeOK, faults <= MaxFaults, Delivered(S, got)
  PROVE  /\ faults' <= faults
         /\ faults' = MaxFaults => {a \in S : Up(a)} \subseteq got
  <1> DEFINE lost == {a \in S : Up(a)} \ got
  <1>1. lost \in SUBSET Arms
    OBVIOUS
  <1>2. IsFiniteSet(lost) /\ Cardinality(lost) \in Nat
    BY <1>1, ArmsFinite
  <1>3. faults' = faults - Cardinality(lost) /\ faults \in Nat
    BY DEF Delivered, TypeOK
  <1>4. faults' = MaxFaults => Cardinality(lost) = 0
    BY <1>2, <1>3, BudgetAssumption
  <1>5. Cardinality(lost) = 0 => lost = {}
    BY <1>2, FS_EmptySet
  <1> HIDE DEF lost
  <1>6. faults' <= faults
    BY <1>2, <1>3
  <1>7. lost = {} => {a \in S : Up(a)} \subseteq got
    BY DEF lost
  <1>8. QED
    BY <1>4, <1>5, <1>6, <1>7

LEMMA PlansCurrentStep ==
  ASSUME TypeOK, TypeOK', BlankWhenOff, PlansCurrent, [Next]_vars
  PROVE  PlansCurrent'
  <1>1. ASSUME NEW a \in Arms, PowerOn(a)
        PROVE  PlansCurrent'
    <2>1. UNCHANGED <<present, faults>>
      BY <1>1 DEF PowerOn, linkVars
    <2>2. faults' <= faults
      BY <2>1 DEF TypeOK
    <2>3. \A b \in Arms : Up(b)' => \/ LastPlan(b)' = Whole
                                    \/ LastPlan(b)' = LastPlan(b) /\ Up(b)
      BY <1>1, PowerOnLastPlan
    <2>4. QED
      BY <2>1, <2>2, <2>3, PlansCurrentFrame
  <1>2. ASSUME NEW a \in Arms, PowerOff(a)
        PROVE  PlansCurrent'
    <2>1. UNCHANGED <<present, faults>>
      BY <1>2 DEF PowerOff, linkVars, budgets
    <2>2. faults' <= faults
      BY <2>1 DEF TypeOK
    <2>3. QED
      BY <1>2, <2>1, <2>2, PowerOffLastPlan, PlansCurrentFrame
  <1>3. ASSUME NEW a \in Arms, Turn(a)
        PROVE  PlansCurrent'
    <2>1. UNCHANGED <<present, faults>> /\ \A b \in Arms : Up(b)' => Up(b)
      BY <1>3 DEF Turn, linkVars, budgets, Up, TypeOK
    <2>2. faults' <= faults
      BY <2>1 DEF TypeOK
    <2>3. QED
      BY <1>3, <2>1, <2>2, TurnKeepsLastPlan, PlansCurrentFrame
  <1>4. CASE RefreshRoster
    <2>1. PICK got \in SUBSET Replanned :
              /\ Delivered(Replanned, got)
              /\ pend' = [a \in Arms |-> IF a \in got THEN PlanFor(Roster, a) ELSE pend[a]]
      BY <1>4 DEF RefreshRoster
    <2>2. Online' = Roster /\ Roster \in SUBSET Arms /\ Replanned \in SUBSET Roster
      BY <1>4 DEF RefreshRoster, Online, Roster, Replanned
    <2>3. Replanned \in SUBSET Arms
      BY <2>2
    <2>4. /\ faults' <= faults
          /\ faults' = MaxFaults => {a \in Replanned : Up(a)} \subseteq got
      BY <2>1, <2>3, NoneLost DEF PlansCurrent
    <2>5. \A a \in Arms : Up(a)' = Up(a)
      BY <1>4 DEF RefreshRoster, Up
    <2>6. CASE RosterChanged
      <3>1. Replanned = Roster
        BY <2>6 DEF Replanned
      <3>2. ASSUME faults' = MaxFaults, NEW a \in Roster, Up(a)
            PROVE  LastPlan(a)' = PlanFor(Roster, a)
        <4>1. a \in got /\ a \in Arms
          BY <2>2, <2>4, <3>1, <3>2
        <4>2. pend'[a] = PlanFor(Roster, a) /\ PlanFor(Roster, a) # NoPlan
          BY <2>1, <2>2, <4>1, PlanForType, NoPlanNotPlan
        <4>3. QED
          BY <4>2 DEF LastPlan
      <3>3. faults' <= MaxFaults
        BY <2>4, BudgetAssumption DEF PlansCurrent, TypeOK
      <3>4. \A a \in Roster : PlanFor(Online, a)' = PlanFor(Roster, a)
        BY <2>2 DEF PlanFor, Rank
      <3>5. QED
        BY <2>2, <2>5, <3>2, <3>3, <3>4 DEF PlansCurrent
    <2>7. CASE ~RosterChanged
      <3>1. Replanned = {} /\ UNCHANGED present
        BY <1>4, <2>7 DEF Replanned, RosterChanged, RefreshRoster, TypeOK
      <3>2. \A a \in Arms : LastPlan(a)' = LastPlan(a)
        BY <1>4, <2>1, <3>1 DEF RefreshRoster, LastPlan
      <3>3. QED
        BY <2>4, <2>5, <3>1, <3>2, PlansCurrentFrame
    <2>8. QED
      BY <2>6, <2>7
  <1>5. CASE HardReset
    <2>1. Online' = {} /\ UNCHANGED faults
      BY <1>5 DEF HardReset, Online
    <2>2. QED
      BY <2>1 DEF PlansCurrent
  <1>6. CASE Broadcast
    <2>1. PICK got \in SUBSET Online : Delivered(Online, got)
      BY <1>6 DEF Broadcast
    <2>2. Online \in SUBSET Arms
      BY DEF Online
    <2>3. faults' <= faults
      BY <2>1, <2>2, NoneLost DEF PlansCurrent
    <2>4. UNCHANGED present /\ \A a \in Arms : LastPlan(a)' = LastPlan(a) /\ Up(a)' = Up(a)
      BY <1>6 DEF Broadcast, linkVars, LastPlan, Up
    <2>5. QED
      BY <2>3, <2>4, PlansCurrentFrame
  <1>7. CASE PollFail \/ IngestFail
    <2>1. faults' <= faults
      BY <1>7 DEF PollFail, IngestFail, Silent, TypeOK
    <2>2. UNCHANGED present /\ \A a \in Arms : LastPlan(a)' = LastPlan(a) /\ Up(a)' = Up(a)
      BY <1>7 DEF PollFail, IngestFail, armVars, LastPlan, Up
    <2>3. QED
      BY <2>1, <2>2, PlansCurrentFrame
  <1>8. ASSUME UNCHANGED <<present, faults, plan, pend>>, \A a \in Arms : Up(a)' = Up(a)
        PROVE  PlansCurrent'
    <2>1. faults' <= faults
      BY <1>8 DEF TypeOK
    <2>2. \A a \in Arms : LastPlan(a)' = LastPlan(a)
      BY <1>8 DEF LastPlan
    <2>3. QED
      BY <1>8, <2>1, <2>2, PlansCurrentFrame
  <1>9. ASSUME NEW a \in Arms, FinishScan(a)
        PROVE  PlansCurrent'
    BY <1>8, <1>9 DEF FinishScan, linkVars, budgets, Up, TypeOK
  <1>10. ASSUME UNCHANGED <<mode, plan, pend, present, faults>>
         PROVE  PlansCurrent'
    BY <1>8, <1>10 DEF Up
  <1>11. QED
    BY <1>1, <1>2, <1>3, <1>4, <1>5, <1>6, <1>7, <1>9, <1>10
       DEF Next, Round, vars, armVars, linkVars, budgets, PollOk, IngestOk, Answers, Control,
           Clear, CloseWindow, KeepWindow, NoScan, TimeOut, Post

\* Whatever joins, drops or restarts, the live arms of a roster leave no
\* channel out while every transfer arrives.
THEOREM SweptCorrect == Spec => []EveryChannelSwept
  <1>1. Init => PlansCurrent
    BY BudgetAssumption DEF Init, PlansCurrent, Online
  <1>2. TypeOK /\ PlansCurrent => EveryChannelSwept
    <2> SUFFICES ASSUME TypeOK, PlansCurrent, Online # {},
                        \A a \in Online : Up(a), faults = MaxFaults
                 PROVE  UNION {Slice(Adopted(LastPlan(a))) : a \in Online} = Channels
      BY DEF EveryChannelSwept
    <2>1. Online \in SUBSET Arms
      BY DEF Online
    <2>2. \A a \in Online : /\ LastPlan(a) \in {Whole, PlanFor(Online, a)}
                            /\ Adopted(LastPlan(a)) = LastPlan(a)
      BY <2>1, PlanForType, WholeType, AdoptedPlan DEF PlansCurrent
    <2>3. \A p : Slice(p) \subseteq Channels
      BY DEF Slice
    <2>4. CASE \E a \in Online : LastPlan(a) = Whole
      BY <2>2, <2>3, <2>4, WholeType
    <2>5. CASE \A a \in Online : LastPlan(a) = PlanFor(Online, a)
      <3>1. \A a \in Online : Adopted(LastPlan(a)) = PlanFor(Online, a)
        BY <2>2, <2>5
      <3>2. UNION {Slice(Adopted(LastPlan(a))) : a \in Online}
              = UNION {Slice(PlanFor(Online, a)) : a \in Online}
        BY <3>1
      <3>3. QED
        BY <2>1, <3>2, PlansPartition DEF Partition
    <2>6. QED
      BY <2>2, <2>4, <2>5
  <1>3. QED
    BY <1>1, <1>2, BlankInit, BlankStep, PlansCurrentStep, TypeCorrect, PTL DEF Spec
=============================================================================
