---------------------------- MODULE TrackerSound ----------------------------
(***************************************************************************)
(* The tracker safety sound of the standalone firmware: the bark and howl  *)
(* front end (tracker_sound.c), called by the web and console tasks, and   *)
(* the one-slot action scheduler (action_sched.c) that its task serves.    *)
(* The GATT driver is a run that ends with some result by its deadline.    *)
(*                                                                         *)
(* A step is what happens between two accesses that another task may come  *)
(* between; the critical sections of the scheduler are single steps.       *)
(***************************************************************************)
EXTENDS Integers, Sequences

CONSTANTS
    Trackers,   \* addresses
    None,       \* no tracker
    Callers,    \* tasks that call the front end: web server, console
    MaxTargets, \* TSND_MAX_TARGETS
    MaxCalls,   \* bound: calls made in all
    MaxIngests  \* bound: scans that end while the model runs

ASSUME TrackerAssumption == None \notin Trackers
ASSUME BoundAssumption == MaxCalls \in Nat /\ MaxIngests \in Nat
ASSUME TargetAssumption == MaxTargets \in Nat \ {0}

VARIABLES
    \* the front end
    armed, stop,       \* s_armed, s_stop
    howl,              \* s_howl
    turn, total,       \* s_howl_i, s_howl_total
    targets,           \* s_targets
    \* the scheduler
    state,             \* s_state
    cancel,            \* s_cancel
    pend,              \* s_pend: the tracker, and captured_seq
    epoch,             \* s_epoch
    cooldown,          \* s_cd_mac while s_cd_until is ahead
    \* tsnd_task
    pc, arg,           \* where it is; the armed it passed to the scheduler
    cur,               \* t of action_sched_service
    next,              \* t of the howl loop
    \* the callers
    cpc, wish,         \* where each is, and the tracker or count it holds
    \* history
    revoked,           \* actions that were pending when a cancel came
    ours,              \* the last action the howl submitted
    rung,              \* howl actions run since a stop was requested
    \* what is left of the bounds
    calls, ingests

frontVars == <<armed, stop, howl, turn, total, targets>>
schedVars == <<state, cancel, pend, epoch, cooldown>>
taskVars  == <<pc, arg, cur, next>>
callVars  == <<cpc, wish>>
history   == <<revoked, ours, rung>>
bounds    == <<calls, ingests>>
vars      == <<frontVars, schedVars, taskVars, callVars, history, bounds>>

\* The ringable trackers of a scan, each once.
Lists   == {l \in UNION {[1 .. n -> Trackers] : n \in 0 .. MaxTargets} :
               \A i, j \in DOMAIN l : l[i] = l[j] => i = j}
Nothing == [who |-> None, seq |-> 0]
Results == {"succeeded", "failed"}

Init ==
    /\ armed = FALSE /\ stop = FALSE /\ howl = FALSE
    /\ turn = 0 /\ total = 0 /\ targets = <<>>
    /\ state = "idle" /\ cancel = FALSE /\ pend = Nothing /\ epoch = 0
    /\ cooldown = None
    /\ pc = "wait" /\ arg = FALSE /\ cur = Nothing /\ next = None
    /\ cpc = [c \in Callers |-> "idle"] /\ wish = [c \in Callers |-> None]
    /\ revoked = {} /\ ours = 0 /\ rung = 0
    /\ calls = MaxCalls /\ ingests = MaxIngests

----------------------------------------------------------------------------
(* The scheduler's entry points: a critical section each. *)

\* Mutant of Accepts: the cooldown is forgotten.
AcceptsHot(t) == state = "idle"

Accepts(t) == state = "idle" /\ t # cooldown

\* action_sched_submit, by a caller or by the howl.
Submit(t) ==
    IF Accepts(t)
      THEN /\ epoch' = epoch + 1 /\ pend' = [who |-> t, seq |-> epoch + 1]
           /\ cancel' = FALSE /\ state' = "queued"
      ELSE UNCHANGED <<state, cancel, pend, epoch>>

\* Mutant of Withdrawn: a cancel frees the slot whatever is in it.
WithdrawnAll == "idle"

\* action_sched_cancel: what is queued goes, what is in flight only hears of it.
Withdrawn == IF state = "queued" THEN "idle" ELSE state

----------------------------------------------------------------------------
(* The front end, called by other tasks. *)

Arm(c) ==
    /\ cpc[c] = "idle" /\ calls > 0
    /\ armed' = TRUE
    /\ calls' = calls - 1
    /\ UNCHANGED <<stop, howl, turn, total, targets, schedVars, taskVars, callVars,
                   history, ingests>>

\* tracker_sound_set_armed(false) goes on as tracker_sound_howl_stop does.
Disarm(c) ==
    /\ cpc[c] = "idle" /\ calls > 0
    /\ armed' = FALSE
    /\ cpc' = [cpc EXCEPT ![c] = "stop"]
    /\ calls' = calls - 1
    /\ UNCHANGED <<stop, howl, turn, total, targets, schedVars, taskVars, wish,
                   history, ingests>>

HowlStop(c) ==
    /\ cpc[c] = "idle" /\ calls > 0 /\ howl
    /\ cpc' = [cpc EXCEPT ![c] = "stop"]
    /\ calls' = calls - 1
    /\ UNCHANGED <<frontVars, schedVars, taskVars, wish, history, ingests>>

SetStop(c) ==
    /\ cpc[c] = "stop"
    /\ stop' = TRUE
    /\ rung' = IF stop THEN rung ELSE 0
    /\ cpc' = [cpc EXCEPT ![c] = "cancel"]
    /\ UNCHANGED <<armed, howl, turn, total, targets, schedVars, taskVars, wish,
                   revoked, ours, bounds>>

Cancel(c) ==
    /\ cpc[c] = "cancel"
    /\ cancel' = TRUE /\ state' = Withdrawn
    /\ revoked' = IF state = "idle" THEN revoked ELSE revoked \cup {pend.seq}
    /\ cpc' = [cpc EXCEPT ![c] = "idle"]
    /\ UNCHANGED <<frontVars, pend, epoch, cooldown, taskVars, wish, ours, rung, bounds>>

Bark(c, t) ==
    /\ cpc[c] = "idle" /\ calls > 0
    /\ armed /\ \E i \in 1 .. Len(targets) : targets[i] = t
    /\ cpc' = [cpc EXCEPT ![c] = "bark"]
    /\ wish' = [wish EXCEPT ![c] = t]
    /\ calls' = calls - 1
    /\ UNCHANGED <<frontVars, schedVars, taskVars, history, ingests>>

SubmitBark(c) ==
    /\ cpc[c] = "bark"
    /\ Submit(wish[c])
    /\ cpc' = [cpc EXCEPT ![c] = "idle"] /\ wish' = [wish EXCEPT ![c] = None]
    /\ UNCHANGED <<frontVars, cooldown, taskVars, history, bounds>>

HowlStart(c) ==
    /\ cpc[c] = "idle" /\ calls > 0
    /\ armed /\ ~howl /\ Len(targets) > 0
    /\ cpc' = [cpc EXCEPT ![c] = "howl"]
    /\ wish' = [wish EXCEPT ![c] = Len(targets)]
    /\ calls' = calls - 1
    /\ UNCHANGED <<frontVars, schedVars, taskVars, history, ingests>>

BeginHowl(c) ==
    /\ cpc[c] = "howl"
    /\ stop' = FALSE /\ turn' = 0 /\ total' = wish[c] /\ howl' = TRUE
    /\ rung' = 0
    /\ cpc' = [cpc EXCEPT ![c] = "idle"] /\ wish' = [wish EXCEPT ![c] = None]
    /\ UNCHANGED <<armed, targets, schedVars, taskVars, revoked, ours, bounds>>

\* tracker_sound_ingest, at the end of a scan.
Ingest(l) ==
    /\ ingests > 0 /\ ingests' = ingests - 1
    /\ targets' = l
    /\ UNCHANGED <<armed, stop, howl, turn, total, schedVars, taskVars, callVars,
                   history, calls>>

----------------------------------------------------------------------------
(* tsnd_task: the scheduler's service, then one turn of the howl. *)

Wake ==
    /\ pc = "wait"
    /\ IF state = "queued"
         THEN pc' = "take" /\ arg' = armed
         ELSE pc' = "howl" /\ UNCHANGED arg
    /\ UNCHANGED <<frontVars, schedVars, cur, next, callVars, history, bounds>>

Take ==
    /\ pc = "take"
    /\ cur' = pend /\ state' = "inflight" /\ pc' = "check"
    /\ UNCHANGED <<frontVars, cancel, pend, epoch, cooldown, arg, next, callVars, history, bounds>>

\* Mutant of MayRun: only the arming is looked at.
MayRunArmed == arg

MayRun == arg /\ ~cancel

Check ==
    /\ pc = "check"
    /\ pc' = IF MayRun THEN "run" ELSE "free"
    /\ arg' = FALSE
    /\ rung' = IF MayRun /\ stop /\ cur.seq = ours THEN rung + 1 ELSE rung
    /\ UNCHANGED <<frontVars, schedVars, cur, next, callVars, revoked, ours, bounds>>

\* The driver returns, by its deadline.
EndRun(r) ==
    /\ pc = "run"
    /\ pc' = "free"
    /\ cooldown' = IF r = "succeeded" THEN cur.who ELSE cooldown
    /\ UNCHANGED <<frontVars, state, cancel, pend, epoch, arg, cur, next, callVars, history, bounds>>

Free ==
    /\ pc = "free"
    /\ state' = "idle" /\ pc' = "howl" /\ cur' = Nothing
    /\ UNCHANGED <<frontVars, cancel, pend, epoch, cooldown, arg, next, callVars, history, bounds>>

\* Mutant of Ended: the stop request is looked at after the last tracker only.
EndedLate == (stop /\ turn >= total) \/ ~armed

Ended == stop \/ ~armed

Howl ==
    /\ pc = "howl"
    /\ howl' = (howl /\ ~Ended)
    /\ pc' = IF howl' THEN "pick" ELSE "wait"
    /\ UNCHANGED <<armed, stop, turn, total, targets, schedVars, arg, cur, next, callVars,
                   history, bounds>>

\* Mutant of TurnsLeft: one turn too many.
TurnsLeftLoose == turn <= total

TurnsLeft == turn < total

\* Mutant of NextTurn: a place that a new scan has emptied keeps its turn.
NextTurnIfFound == IF turn < Len(targets) THEN turn + 1 ELSE turn

NextTurn == turn + 1

\* Busy: try again.  All had their turn: the howl is over.
Pick ==
    /\ pc = "pick"
    /\ \/ /\ state # "idle"
          /\ pc' = "wait" /\ UNCHANGED <<howl, turn, next>>
       \/ /\ state = "idle" /\ ~TurnsLeft
          /\ pc' = "wait" /\ howl' = FALSE /\ UNCHANGED <<turn, next>>
       \/ /\ state = "idle" /\ TurnsLeft
          /\ turn' = NextTurn /\ UNCHANGED howl
          /\ IF turn < Len(targets)
               THEN next' = targets[turn + 1] /\ pc' = "submit"
               ELSE pc' = "wait" /\ UNCHANGED next
    /\ UNCHANGED <<armed, stop, total, targets, schedVars, arg, cur, callVars, history, bounds>>

SubmitTurn ==
    /\ pc = "submit"
    /\ Submit(next)
    /\ ours' = IF Accepts(next) THEN epoch + 1 ELSE ours
    /\ pc' = "wait" /\ next' = None
    /\ UNCHANGED <<armed, stop, howl, turn, total, targets, cooldown, arg, cur, callVars,
                   revoked, rung, bounds>>

\* The cooldown runs out.
Cool ==
    /\ cooldown # None /\ cooldown' = None
    /\ UNCHANGED <<frontVars, state, cancel, pend, epoch, taskVars, callVars, history, bounds>>

Task == Wake \/ Take \/ Check \/ (\E r \in Results : EndRun(r)) \/ Free \/ Howl \/ Pick
        \/ SubmitTurn

Call(c) == Arm(c) \/ Disarm(c) \/ HowlStop(c) \/ SetStop(c) \/ Cancel(c)
           \/ (\E t \in Trackers : Bark(c, t)) \/ SubmitBark(c) \/ HowlStart(c) \/ BeginHowl(c)

Next ==
    \/ Task
    \/ \E c \in Callers : Call(c)
    \/ \E l \in Lists : Ingest(l)
    \/ Cool

Spec == Init /\ [][Next]_vars

\* The task wakes up every 250 ms at the latest, and the driver has a deadline.
FairSpec == Spec /\ WF_vars(Task)

----------------------------------------------------------------------------
(* Properties. *)

Maybe   == Trackers \cup {None}
Actions == [who : Maybe, seq : Nat]
Turns   == 0 .. MaxTargets
Serving == {"check", "run", "free"}
TypeOK ==
    /\ armed \in BOOLEAN /\ stop \in BOOLEAN /\ howl \in BOOLEAN
    /\ turn \in Turns /\ total \in Turns /\ targets \in Lists
    /\ state \in {"idle", "queued", "inflight"} /\ cancel \in BOOLEAN
    /\ pend \in Actions /\ epoch \in Nat /\ cooldown \in Maybe
    /\ pc \in Serving \cup {"wait", "take", "howl", "pick", "submit"}
    /\ arg \in BOOLEAN /\ cur \in Actions /\ next \in Maybe
    /\ cpc \in [Callers -> {"idle", "stop", "cancel", "bark", "howl"}]
    /\ wish \in [Callers -> Maybe \cup Turns]
    /\ \A c \in Callers : /\ cpc[c] = "bark" => wish[c] \in Trackers
                          /\ cpc[c] = "howl" => wish[c] \in Turns
    /\ revoked \subseteq Nat /\ ours \in Nat /\ rung \in Nat
    /\ calls \in Nat /\ ingests \in Nat

\* The slot is taken exactly while tsnd_task is between taking an action and
\* its audit, whoever cancels in the meantime: no other action is accepted.
OneAtATime == state = "inflight" <=> pc \in Serving

Begins == pc = "check" /\ pc' = "run"

\* A transmission that begins is of an action that was not cancelled since it
\* was accepted: a cancel between the service's look at the state and its
\* critical section, and a submission after that, change nothing about it.
CancelHonoured == [][Begins => cur.seq \notin revoked]_vars

\* A tracker that was rung is not rung again before its cooldown is over,
\* unless another one was rung in between: the cooldown is looked at when an
\* action is accepted, the transmission begins later.
CooldownKept == [][Begins => cur.who # cooldown]_vars

\* download_http.c: "Stopping after the current tracker."  A tracker that the
\* howl has picked when the request comes may still be rung, no further one.
StopBounded == stop => rung <= 1

\* download_http.c: "You can stop at any point"; and without a stop too a howl
\* comes to its end, whatever scans and barks fall between its turns.  The calls
\* are finitely many: barks without end could keep the slot from the howl.
HowlEnds == howl ~> ~howl
=============================================================================
