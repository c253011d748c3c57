------------------------- MODULE TrackerSound_proofs -------------------------
(***************************************************************************)
(* For any number of trackers, calling tasks, calls and scans: what the    *)
(* scheduler and the howl promise about every transmission.                *)
(***************************************************************************)
EXTENDS TrackerSound, SequenceTheorems, TLAPS

LEMMA ListType ==
  ASSUME NEW l \in Lists
  PROVE  /\ Len(l) \in Turns
         /\ \A i \in 1 .. Len(l) : l[i] \in Trackers
  <1>1. PICK n \in 0 .. MaxTargets : l \in [1 .. n -> Trackers]
    BY DEF Lists
  <1>2. l \in Seq(Trackers)
    BY <1>1, TargetAssumption, SeqDef
  <1>3. Len(l) = n
    BY <1>1, <1>2, TargetAssumption, LenProperties
  <1>4. QED
    BY <1>1, <1>3 DEF Turns

LEMMA NoList == <<>> \in Lists
  <1>1. <<>> \in [1 .. 0 -> Trackers]
    OBVIOUS
  <1>2. <<>> \in UNION {[1 .. n -> Trackers] : n \in 0 .. MaxTargets}
    BY <1>1, TargetAssumption
  <1>3. QED
    BY <1>2 DEF Lists

\* What a submission leaves of the scheduler.
LEMMA SubmitSteps ==
  ASSUME TypeOK, NEW t \in Trackers, Submit(t)
  PROVE  \/ /\ state = "idle" /\ t # cooldown /\ state' = "queued" /\ cancel' = FALSE
            /\ epoch' = epoch + 1 /\ pend' \in Actions
            /\ pend'.seq = epoch + 1 /\ pend'.who = t
         \/ state' = state /\ cancel' = cancel /\ pend' = pend /\ epoch' = epoch
  <1>1. epoch \in Nat
    BY DEF TypeOK
  <1>2. [who |-> t, seq |-> epoch + 1] \in Actions
    BY <1>1 DEF Actions, Maybe
  <1>3. QED
    BY <1>2 DEF Submit, Accepts

LEMMA SubmitType ==
  ASSUME TypeOK, NEW t \in Trackers, Submit(t)
  PROVE  /\ state' \in {"idle", "queued", "inflight"} /\ cancel' \in BOOLEAN
         /\ pend' \in Actions /\ epoch' \in Nat
  <1>1. /\ state \in {"idle", "queued", "inflight"} /\ cancel \in BOOLEAN
        /\ pend \in Actions /\ epoch \in Nat
    BY DEF TypeOK
  <1>2. \/ /\ state' = "queued" /\ cancel' = FALSE
           /\ epoch' = epoch + 1 /\ pend' \in Actions
        \/ state' = state /\ cancel' = cancel /\ pend' = pend /\ epoch' = epoch
    BY SubmitSteps
  <1>3. cancel' \in BOOLEAN
    BY <1>1, <1>2, Zenon
  <1>4. pend' \in Actions /\ epoch' \in Nat
    BY <1>1, <1>2
  <1>5. state' \in {"idle", "queued", "inflight"}
    BY <1>1, <1>2
  <1>6. QED
    BY <1>3, <1>4, <1>5

LEMMA NothingType == Nothing \in Actions
  BY DEF Nothing, Actions, Maybe

LEMMA InitType == Init => TypeOK
  <1>1. ASSUME Init PROVE TypeOK
    <2>1. targets \in Lists /\ turn \in Turns /\ total \in Turns
      BY <1>1, NoList, TargetAssumption DEF Init, Turns
    <2>2. pend \in Actions /\ cur \in Actions
      BY <1>1, NothingType DEF Init
    <2>3. QED
      BY <1>1, <2>1, <2>2, BoundAssumption DEF Init, TypeOK, Maybe, Serving
  <1>2. QED
    BY <1>1

\* The tasks that call.
LEMMA CallType ==
  ASSUME TypeOK, NEW c \in Callers, Call(c)
  PROVE  TypeOK'
  <1>1. CASE Arm(c)
    BY <1>1 DEF TypeOK, Arm, schedVars, taskVars, callVars, history
  <1>2. CASE Disarm(c)
    <2>1. armed' \in BOOLEAN
      BY <1>2 DEF Disarm
    <2>2. calls' \in Nat
      BY <1>2 DEF TypeOK, Disarm
    <2>3. /\ cpc' \in [Callers -> {"idle", "stop", "cancel", "bark", "howl"}]
          /\ wish' = wish
          /\ \A d \in Callers : /\ cpc'[d] = "bark" => wish[d] \in Trackers
                               /\ cpc'[d] = "howl" => wish[d] \in Turns
      <3>1. cpc' = [cpc EXCEPT ![c] = "stop"] /\ wish' = wish
        BY <1>2 DEF Disarm
      <3>2. QED
        BY <3>1 DEF TypeOK
    <2>4. QED
      BY <1>2, <2>1, <2>2, <2>3 DEF TypeOK, Disarm, schedVars, taskVars, history
  <1>3. CASE HowlStop(c)
    BY <1>3 DEF TypeOK, HowlStop, frontVars, schedVars, taskVars, history
  <1>4. CASE SetStop(c)
    BY <1>4 DEF TypeOK, SetStop, schedVars, taskVars, bounds
  <1>5. CASE Cancel(c)
    <2>1. pend.seq \in Nat
      BY DEF TypeOK, Actions
    <2>2. revoked' \subseteq Nat
      BY <1>5, <2>1 DEF TypeOK, Cancel
    <2>3. QED
      BY <1>5, <2>2 DEF TypeOK, Cancel, Withdrawn, frontVars, taskVars, bounds
  <1>6. ASSUME NEW t \in Trackers, Bark(c, t) PROVE TypeOK'
    BY <1>6 DEF TypeOK, Bark, Maybe, frontVars, schedVars, taskVars, history
  <1>7. CASE SubmitBark(c)
    <2>1. wish[c] \in Trackers
      <3>1. cpc[c] = "bark"
        BY <1>7 DEF SubmitBark
      <3>2. \A d \in Callers : cpc[d] = "bark" => wish[d] \in Trackers
        BY DEF TypeOK
      <3>3. QED
        BY <3>1, <3>2
    <2>2. /\ state' \in {"idle", "queued", "inflight"} /\ cancel' \in BOOLEAN
          /\ pend' \in Actions /\ epoch' \in Nat
      BY <1>7, <2>1, SubmitType DEF SubmitBark
    <2>3. QED
      BY <1>7, <2>2 DEF TypeOK, SubmitBark, Maybe, frontVars, taskVars, history, bounds
  <1>8. CASE HowlStart(c)
    <2>1. Len(targets) \in Turns
      BY ListType DEF TypeOK
    <2>2. QED
      BY <1>8, <2>1 DEF TypeOK, HowlStart, frontVars, schedVars, taskVars, history
  <1>9. CASE BeginHowl(c)
    <2>1. wish[c] \in Turns /\ 0 \in Turns
      BY <1>9, TargetAssumption DEF TypeOK, BeginHowl, Turns
    <2>2. QED
      BY <1>9, <2>1 DEF TypeOK, BeginHowl, Maybe, schedVars, taskVars, bounds
  <1>10. QED
    BY <1>1, <1>2, <1>3, <1>4, <1>5, <1>6, <1>7, <1>8, <1>9 DEF Call

\* tsnd_task.
LEMMA TaskType ==
  ASSUME TypeOK, next \in Trackers \/ pc # "submit", Task
  PROVE  TypeOK' /\ (next' \in Trackers \/ pc' # "submit")
  <1>1. CASE Wake
    BY <1>1 DEF TypeOK, Wake, Serving, frontVars, schedVars, callVars, history, bounds
  <1>2. CASE Take
    BY <1>2 DEF TypeOK, Take, Serving, frontVars, callVars, history, bounds
  <1>3. CASE Check
    <2>1. pc' \in {"run", "free"} /\ arg' \in BOOLEAN
      BY <1>3 DEF Check
    <2>2. rung' \in Nat
      BY <1>3 DEF TypeOK, Check
    <2>3. QED
      BY <1>3, <2>1, <2>2 DEF TypeOK, Check, Serving, frontVars, schedVars, callVars, bounds
  <1>4. ASSUME NEW r \in Results, EndRun(r) PROVE TypeOK' /\ pc' # "submit"
    <2>1. cur.who \in Maybe
      BY DEF TypeOK, Actions
    <2>2. QED
      BY <1>4, <2>1 DEF TypeOK, EndRun, Serving, frontVars, callVars, history, bounds
  <1>5. CASE Free
    BY <1>5, NothingType DEF TypeOK, Free, Serving, frontVars, callVars, history, bounds
  <1>6. CASE Howl
    BY <1>6 DEF TypeOK, Howl, schedVars, callVars, history, bounds
  <1>7. CASE Pick
    <2>1. turn' \in Turns
      <3>1. turn \in 0 .. MaxTargets /\ total \in 0 .. MaxTargets
        BY DEF TypeOK, Turns
      <3>2. \/ turn' = turn
            \/ turn < total /\ turn' = turn + 1
        BY <1>7 DEF Pick, TurnsLeft, NextTurn
      <3>3. QED
        BY <3>1, <3>2, TargetAssumption DEF Turns
    <2>2. \/ next' \in Trackers
          \/ pc' # "submit" /\ next' = next
      <3>1. turn < Len(targets) => targets[turn + 1] \in Trackers
        <4>1. Len(targets) \in Nat /\ \A i \in 1 .. Len(targets) : targets[i] \in Trackers
          BY ListType, TargetAssumption DEF TypeOK, Turns
        <4>2. turn \in Nat
          BY TargetAssumption DEF TypeOK, Turns
        <4>3. QED
          BY <4>1, <4>2
      <3>2. CASE pc' = "submit"
        BY <1>7, <3>1, <3>2 DEF Pick
      <3>3. CASE pc' # "submit"
        BY <1>7, <3>3 DEF Pick
      <3>4. QED
        BY <3>2, <3>3
    <2>3. QED
      BY <1>7, <2>1, <2>2 DEF TypeOK, Pick, Maybe, schedVars, callVars, history, bounds
  <1>8. CASE SubmitTurn
    <2>1. next \in Trackers
      BY <1>8 DEF SubmitTurn
    <2>2. /\ state' \in {"idle", "queued", "inflight"} /\ cancel' \in BOOLEAN
          /\ pend' \in Actions /\ epoch' \in Nat
      BY <1>8, <2>1, SubmitType DEF SubmitTurn
    <2>3. ours' \in Nat
      BY <1>8 DEF SubmitTurn, TypeOK
    <2>4. QED
      BY <1>8, <2>2, <2>3 DEF TypeOK, SubmitTurn, Maybe, callVars, bounds
  <1>9. QED
    BY <1>1, <1>2, <1>3, <1>4, <1>5, <1>6, <1>7, <1>8 DEF Task

\* The howl never picks anything but a tracker.
Picked == pc = "submit" => next \in Trackers

LEMMA StepType ==
  ASSUME TypeOK, Picked, [Next]_vars
  PROVE  TypeOK' /\ Picked'
  <1>1. CASE Task
    BY <1>1, TaskType DEF Picked
  <1>2. ASSUME NEW c \in Callers, Call(c) PROVE TypeOK' /\ Picked'
    <2>1. next' = next /\ pc' = pc
      BY <1>2 DEF Call, Arm, Disarm, HowlStop, SetStop, Cancel, Bark, SubmitBark, HowlStart,
                  BeginHowl, taskVars
    <2>2. QED
      BY <1>2, <2>1, CallType DEF Picked
  <1>3. ASSUME NEW l \in Lists, Ingest(l) PROVE TypeOK' /\ Picked'
    <2>1. ingests' \in Nat
      BY <1>3 DEF TypeOK, Ingest
    <2>2. QED
      BY <1>3, <2>1 DEF TypeOK, Picked, Ingest, schedVars, taskVars, callVars, history
  <1>4. CASE Cool
    BY <1>4 DEF TypeOK, Picked, Cool, Maybe, frontVars, taskVars, callVars, history, bounds
  <1>5. CASE UNCHANGED vars
    BY <1>5 DEF TypeOK, Picked, vars, frontVars, schedVars, taskVars, callVars, history, bounds
  <1>6. QED
    BY <1>1, <1>2, <1>3, <1>4, <1>5 DEF Next

\* Every reachable state of the scheduler and its front end is well-typed.
THEOREM TrackerTypeCorrect == Spec => [](TypeOK /\ Picked)
  <1>1. Init => TypeOK /\ Picked
    BY InitType DEF Init, Picked
  <1>2. TypeOK /\ Picked /\ [Next]_vars => (TypeOK /\ Picked)'
    BY StepType
  <1>3. QED
    BY <1>1, <1>2, PTL DEF Spec

----------------------------------------------------------------------------
(* The scheduler. *)

\* What is accepted was never cancelled and is no tracker that cools down; if
\* it is cancelled on the way to its transmission, the flag says so.
Slot ==
    /\ pend.seq <= epoch /\ (\A s \in revoked : s <= epoch)
    /\ state = "queued" => /\ pend.seq \notin revoked
                           /\ pend.who \in Trackers /\ pend.who # cooldown
    /\ pc = "take" => state = "queued" \/ cancel
    /\ pc = "check" => \/ cancel
                       \/ /\ cur.seq \notin revoked
                          /\ cur.who \in Trackers /\ cur.who # cooldown

\* A request to stop finds at most one tracker on its way.
Coming ==
    \/ pc \in {"pick", "submit"}
    \/ pc \in {"wait", "howl"} /\ state = "queued" /\ pend.seq = ours
    \/ pc = "take" /\ pend.seq = ours
    \/ pc = "check" /\ cur.seq = ours

Quiet == /\ ours <= epoch
         /\ stop => rung <= 1 /\ (Coming => rung = 0)

Sched == TypeOK /\ Picked /\ OneAtATime /\ Slot /\ Quiet

LEMMA Numbers ==
  ASSUME TypeOK
  PROVE  /\ pend.seq \in Nat /\ cur.seq \in Nat /\ epoch \in Nat
         /\ ours \in Nat /\ rung \in Nat /\ revoked \subseteq Nat
         /\ state \in {"idle", "queued", "inflight"}
         /\ None \notin Trackers
  BY TrackerAssumption DEF TypeOK, Actions

LEMMA SchedInit == Init => Sched
  <1>1. ASSUME Init PROVE OneAtATime /\ Slot /\ Quiet /\ Picked
    BY <1>1 DEF Init, OneAtATime, Serving, Slot, Quiet, Coming, Nothing, Picked
  <1>2. QED
    BY <1>1, InitType DEF Sched

\* A submission takes a free slot only, with a number of its own.
LEMMA SubmitSlot ==
  ASSUME Sched, NEW t \in Trackers, Submit(t), pc \notin Serving, pc' \notin Serving,
         UNCHANGED <<cooldown, cur, revoked>>,
         pc' = pc \/ pc' = "wait"
  PROVE  OneAtATime' /\ Slot' /\ ours <= epoch' /\ (pend' = pend \/ pend'.seq = epoch + 1)
  <1> USE Numbers DEF Sched
  <1>1. CASE /\ state = "idle" /\ t # cooldown /\ state' = "queued"
             /\ epoch' = epoch + 1 /\ pend'.seq = epoch + 1 /\ pend'.who = t
    BY <1>1 DEF OneAtATime, Slot, Quiet, Serving
  <1>2. CASE state' = state /\ cancel' = cancel /\ pend' = pend /\ epoch' = epoch
    BY <1>2 DEF OneAtATime, Slot, Quiet, Serving
  <1>3. QED
    BY <1>1, <1>2, SubmitSteps

LEMMA BarkSlot ==
  ASSUME Sched, NEW t \in Trackers, Submit(t), 
         UNCHANGED <<pc, cooldown, cur, revoked, ours, stop, rung>>
  PROVE  OneAtATime' /\ Slot' /\ Quiet'
  <1> USE Numbers DEF Sched
  <1>1. CASE /\ state = "idle" /\ t # cooldown /\ state' = "queued"
             /\ epoch' = epoch + 1 /\ pend'.seq = epoch + 1 /\ pend'.who = t
    <2>1. pc \notin Serving
      BY <1>1 DEF OneAtATime
    <2>2. OneAtATime' /\ Slot'
      BY <1>1, <2>1 DEF OneAtATime, Slot, Serving
    <2>3. Quiet'
      BY <1>1, <2>1 DEF Quiet, Coming, Serving
    <2>4. QED
      BY <2>2, <2>3
  <1>2. CASE state' = state /\ cancel' = cancel /\ pend' = pend /\ epoch' = epoch
    BY <1>2 DEF OneAtATime, Slot, Quiet, Coming
  <1>3. QED
    BY <1>1, <1>2, SubmitSteps

LEMMA CallSched ==
  ASSUME Sched, NEW c \in Callers, Call(c)
  PROVE  OneAtATime' /\ Slot' /\ Quiet'
  <1> USE Numbers DEF Sched
  <1>1. pc' = pc /\ cur' = cur /\ cooldown' = cooldown /\ ours' = ours
    BY DEF Call, Arm, Disarm, HowlStop, SetStop, Cancel, Bark, SubmitBark, HowlStart, BeginHowl,
           taskVars, schedVars, history
  <1>2. CASE Arm(c) \/ Disarm(c) \/ HowlStop(c) \/ (\E t \in Trackers : Bark(c, t)) \/ HowlStart(c)
    <2>1. UNCHANGED <<schedVars, history, stop>>
      BY <1>2 DEF Arm, Disarm, HowlStop, Bark, HowlStart, frontVars
    <2>2. QED
      BY <1>1, <2>1 DEF OneAtATime, Slot, Quiet, Coming, schedVars, history
  <1>3. CASE SetStop(c)
    <2>1. UNCHANGED schedVars /\ revoked' = revoked /\ ((rung' = rung /\ stop) \/ rung' = 0)
      BY <1>3 DEF SetStop
    <2>2. QED
      BY <1>1, <2>1 DEF OneAtATime, Slot, Quiet, Coming, schedVars
  <1>4. CASE BeginHowl(c)
    <2>1. UNCHANGED schedVars /\ revoked' = revoked /\ ~stop'
      BY <1>4 DEF BeginHowl
    <2>2. QED
      BY <1>1, <2>1 DEF OneAtATime, Slot, Quiet, Coming, schedVars
  <1>5. CASE Cancel(c)
    <2>1. /\ cancel' = TRUE /\ pend' = pend /\ epoch' = epoch /\ stop' = stop /\ rung' = rung
          /\ state' = IF state = "queued" THEN "idle" ELSE state
          /\ revoked' \subseteq revoked \cup {pend.seq}
      BY <1>5 DEF Cancel, Withdrawn, frontVars
    <2>2. OneAtATime' /\ Slot'
      BY <1>1, <2>1 DEF OneAtATime, Slot, Serving
    <2>3. Quiet'
      BY <1>1, <2>1 DEF Quiet, Coming
    <2>4. QED
      BY <2>2, <2>3
  <1>6. CASE SubmitBark(c)
    <2>1. wish[c] \in Trackers
      <3>1. cpc[c] = "bark"
        BY <1>6 DEF SubmitBark
      <3>2. \A d \in Callers : cpc[d] = "bark" => wish[d] \in Trackers
        BY DEF TypeOK
      <3>3. QED
        BY <3>1, <3>2
    <2>2. Submit(wish[c]) /\ UNCHANGED <<revoked, stop, rung>>
      BY <1>6 DEF SubmitBark, history, frontVars
    <2>3. QED
      BY <1>1, <2>1, <2>2, BarkSlot
  <1>7. QED
    BY <1>2, <1>3, <1>4, <1>5, <1>6 DEF Call

LEMMA TaskSched ==
  ASSUME Sched, Task
  PROVE  OneAtATime' /\ Slot' /\ Quiet'
  <1> USE Numbers DEF Sched
  <1>1. CASE Wake
    <2>1. /\ pc = "wait" /\ UNCHANGED <<schedVars, cur, stop, history>>
          /\ pc' = IF state = "queued" THEN "take" ELSE "howl"
      BY <1>1 DEF Wake, frontVars
    <2>2. QED
      BY <2>1 DEF OneAtATime, Slot, Quiet, Coming, Serving, schedVars, history
  <1>2. CASE Take
    <2>1. /\ pc = "take" /\ pc' = "check" /\ cur' = pend /\ state' = "inflight"
          /\ UNCHANGED <<cancel, pend, epoch, cooldown, stop, history>>
      BY <1>2 DEF Take, frontVars
    <2>2. QED
      BY <2>1 DEF OneAtATime, Slot, Quiet, Coming, Serving, history
  <1>3. CASE Check
    <2>1. /\ pc = "check" /\ pc' \in {"run", "free"}
          /\ UNCHANGED <<schedVars, cur, stop, revoked, ours>>
          /\ \/ rung' = rung
             \/ stop /\ cur.seq = ours /\ rung' = rung + 1
      <3>1. /\ pc = "check" /\ pc' \in {"run", "free"}
            /\ UNCHANGED <<schedVars, cur, stop, revoked, ours>>
        BY <1>3 DEF Check, frontVars
      <3>2. \/ rung' = rung
            \/ stop /\ cur.seq = ours /\ rung' = rung + 1
        BY <1>3 DEF Check
      <3>3. QED
        BY <3>1, <3>2
    <2>2. OneAtATime' /\ Slot'
      BY <2>1 DEF OneAtATime, Slot, Serving, schedVars
    <2>3. Quiet'
      BY <2>1 DEF Quiet, Coming, schedVars
    <2>4. QED
      BY <2>2, <2>3
  <1>4. ASSUME NEW r \in Results, EndRun(r) PROVE OneAtATime' /\ Slot' /\ Quiet'
    <2>1. /\ pc = "run" /\ pc' = "free"
          /\ UNCHANGED <<state, cancel, pend, epoch, cur, stop, history>>
      BY <1>4 DEF EndRun, frontVars
    <2>2. state = "inflight"
      BY <2>1 DEF OneAtATime, Serving
    <2>3. QED
      BY <2>1, <2>2 DEF OneAtATime, Slot, Quiet, Coming, Serving, history
  <1>5. CASE Free
    <2>1. /\ pc = "free" /\ pc' = "howl" /\ state' = "idle"
          /\ UNCHANGED <<cancel, pend, epoch, cooldown, stop, history>>
      BY <1>5 DEF Free, frontVars
    <2>2. QED
      BY <2>1 DEF OneAtATime, Slot, Quiet, Coming, Serving, history
  <1>6. CASE Howl
    <2>1. /\ pc = "howl" /\ pc' \in {"pick", "wait"} /\ (pc' = "pick" => ~stop)
          /\ UNCHANGED <<schedVars, cur, stop, history>>
      BY <1>6 DEF Howl, Ended
    <2>2. state # "inflight"
      BY <2>1 DEF OneAtATime, Serving
    <2>3. UNCHANGED <<state, cancel, pend, epoch, cooldown, revoked, ours, rung>>
      BY <2>1 DEF schedVars, history
    <2>4. OneAtATime' /\ Slot'
      BY <2>1, <2>2, <2>3 DEF OneAtATime, Slot, Serving
    <2>5. Quiet'
      <3>1. CASE pc' = "wait"
        BY <2>1, <2>3, <3>1 DEF Quiet, Coming
      <3>2. CASE ~stop
        BY <2>1, <2>3, <3>2 DEF Quiet
      <3>3. QED
        BY <2>1, <3>1, <3>2
    <2>6. QED
      BY <2>4, <2>5
  <1>7. CASE Pick
    <2>1. /\ pc = "pick" /\ pc' \in {"submit", "wait"}
          /\ UNCHANGED <<schedVars, cur, stop, history>>
      BY <1>7 DEF Pick
    <2>2. QED
      BY <2>1 DEF OneAtATime, Slot, Quiet, Coming, Serving, schedVars, history
  <1>8. CASE SubmitTurn
    <2>1. /\ pc = "submit" /\ pc' = "wait" /\ Submit(next) /\ next \in Trackers
          /\ \/ ours' = ours
             \/ epoch' = epoch + 1 /\ ours' = epoch + 1
          /\ UNCHANGED <<cooldown, cur, stop, revoked, rung>>
      <3>1. /\ pc = "submit" /\ pc' = "wait" /\ Submit(next) /\ next \in Trackers
            /\ UNCHANGED <<cooldown, cur, stop, revoked, rung>>
        BY <1>8 DEF SubmitTurn, Picked
      <3>2. \/ ours' = ours
            \/ epoch' = epoch + 1 /\ ours' = epoch + 1
        BY <1>8 DEF SubmitTurn, Submit
      <3>3. QED
        BY <3>1, <3>2
    <2>2. OneAtATime' /\ Slot' /\ ours <= epoch'
      BY <2>1, SubmitSlot DEF Serving
    <2>3. epoch' \in Nat
      BY <2>1, SubmitType
    <2>4. Quiet'
      BY <2>1, <2>2, <2>3 DEF Quiet, Coming
    <2>5. QED
      BY <2>2, <2>4
  <1>9. QED
    BY <1>1, <1>2, <1>3, <1>4, <1>5, <1>6, <1>7, <1>8 DEF Task

LEMMA SchedStep == Sched /\ [Next]_vars => Sched'
  <1> SUFFICES ASSUME Sched, [Next]_vars
               PROVE  Sched'
    OBVIOUS
  <1> USE DEF Sched
  <1>1. TypeOK' /\ Picked'
    BY StepType
  <1>2. OneAtATime' /\ Slot' /\ Quiet'
    <2>1. CASE Task
      BY <2>1, TaskSched
    <2>2. ASSUME NEW c \in Callers, Call(c) PROVE OneAtATime' /\ Slot' /\ Quiet'
      BY <2>2, CallSched
    <2>3. CASE UNCHANGED <<state, cancel, pend, epoch, cooldown, pc, cur, stop, history>>
      BY <2>3 DEF OneAtATime, Slot, Quiet, Coming, history
    <2>4. ASSUME NEW l \in Lists, Ingest(l) PROVE OneAtATime' /\ Slot' /\ Quiet'
      BY <2>3, <2>4 DEF Ingest, schedVars, taskVars
    <2>5. CASE Cool
      <3>1. /\ cooldown' = None
            /\ UNCHANGED <<state, cancel, pend, epoch, pc, cur, stop, history>>
        BY <2>5 DEF Cool, frontVars, taskVars
      <3>2. QED
        BY <3>1, Numbers DEF OneAtATime, Slot, Quiet, Coming, history
    <2>6. CASE UNCHANGED vars
      BY <2>3, <2>6 DEF vars, frontVars, schedVars, taskVars
    <2>7. QED
      BY <2>1, <2>2, <2>4, <2>5, <2>6 DEF Next
  <1>3. QED
    BY <1>1, <1>2

LEMMA SchedAlways == Spec => []Sched
  BY SchedInit, SchedStep, PTL DEF Spec

\* The slot is taken exactly while the task serves an action.
THEOREM OneCorrect == Spec => []OneAtATime
  BY SchedAlways, PTL DEF Sched

\* After a request to stop the howl rings at most one tracker more.
THEOREM StopCorrect == Spec => []StopBounded
  <1>1. Sched => StopBounded
    BY DEF Sched, Quiet, StopBounded
  <1>2. QED
    BY <1>1, SchedAlways, PTL

\* What begins was let through by the check, the cancel flag down.
LEMMA BeginSafe ==
  ASSUME Sched, [Next]_vars, Begins
  PROVE  cur.seq \notin revoked /\ cur.who # cooldown
  <1>1. pc = "check" /\ pc' = "run"
    BY DEF Begins
  <1>2. ~cancel
    <2>1. CASE Task
      BY <1>1, <2>1 DEF Task, Wake, Take, Check, MayRun, EndRun, Free, Howl, Pick, SubmitTurn
    <2>2. CASE ~Task
      BY <1>1, <2>2 DEF Next, Call, Arm, Disarm, HowlStop, SetStop, Cancel, Bark, SubmitBark,
                        HowlStart, BeginHowl, Ingest, Cool, taskVars, vars
    <2>3. QED
      BY <2>1, <2>2
  <1>3. QED
    BY <1>1, <1>2 DEF Sched, Slot

\* No transmission begins of an action that was cancelled since it was accepted.
THEOREM CancelCorrect == Spec => CancelHonoured
  <1>1. Sched /\ [Next]_vars => [Begins => cur.seq \notin revoked]_vars
    BY BeginSafe
  <1>2. QED
    BY <1>1, SchedAlways, PTL DEF Spec, CancelHonoured

\* No transmission begins to a tracker whose cooldown is not over.
THEOREM CooldownCorrect == Spec => CooldownKept
  <1>1. Sched /\ [Next]_vars => [Begins => cur.who # cooldown]_vars
    BY BeginSafe
  <1>2. QED
    BY <1>1, SchedAlways, PTL DEF Spec, CooldownKept
=============================================================================
