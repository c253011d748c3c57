---------------------------- MODULE AppModes_proofs ----------------------------
(***************************************************************************)
(* For a command queue of any depth and any number of requests, commands,  *)
(* failures, races and early presses: the types, and the safety properties *)
(* of the tasks that share radio and screen.                               *)
(***************************************************************************)
EXTENDS AppModes, SequenceTheorems, TLAPS

Counts == {"requests", "commands", "failures", "races", "early"}

DlOK ==
  /\ apState \in {"passive", "starting", "active", "stopping"} /\ apTimer \in BOOLEAN
  /\ apQueue \in Seq(Commands) /\ Len(apQueue) <= QueueDepth
ScreenOK ==
  ui \in Modes /\ activity \in ActivityModes \cup {None, "walk"} /\ menuDepth \in 0..3
TasksOK ==
  /\ scanPc \in {"boot", "wait", "wifi", "ble", "score", "awards", "learnDone", "walk", "walkEnd"}
  /\ capPc \in {"wait", "run"}
  /\ scanValid \in BOOLEAN /\ scanNotified \in BOOLEAN /\ capNotified \in BOOLEAN
FlagsOK ==
  /\ force \in BOOLEAN /\ walkReq \in BOOLEAN /\ walkEnd \in BOOLEAN /\ relaunch \in BOOLEAN
  /\ after \subseteq {"scan", "walk", "learn", "capture"}
LearnOK == learn \in [active : BOOLEAN, countdown : 0..LongPause, left : Nat]
BudgetOK ==
  budget \in [screens : SUBSET STRING, scans : Nat, requests : Nat, commands : Nat,
              failures : Nat, races : Nat, early : Nat, spent : SUBSET Counts]

Typed == DlOK /\ ScreenOK /\ TasksOK /\ FlagsOK /\ LearnOK /\ BudgetOK

----------------------------------------------------------------------------
(* What the steps do, variable by variable *)

LEMMA SpendView ==
  ASSUME BudgetOK, NEW what \in Counts, Spend(what)
  PROVE  BudgetOK' /\ budget'.scans = budget.scans /\ budget'.spent = budget.spent \cup {what}
  <1> DEFINE b == [budget EXCEPT ![what] = budget[what] - 1]
  <1>1. budget' = [b EXCEPT !.spent = budget.spent \cup {what}]
    BY DEF Spend, Counts, BudgetOK
  <1>2. \A c \in Counts : budget[c] \in Nat /\ c # "spent" /\ c # "scans" /\ c # "screens"
    BY DEF BudgetOK, Counts
  <1>3. budget[what] > 0
    BY DEF Spend
  <1>4. budget[what] - 1 \in Nat
    BY <1>2, <1>3
  <1>5. b \in [screens : SUBSET STRING, scans : Nat, requests : Nat, commands : Nat,
               failures : Nat, races : Nat, early : Nat, spent : SUBSET Counts]
    BY <1>4 DEF BudgetOK, Counts
  <1>6. b.scans = budget.scans /\ b.spent = budget.spent
    BY <1>2 DEF BudgetOK
  <1> HIDE DEF b
  <1>7. budget.spent \cup {what} \subseteq Counts
    BY DEF BudgetOK
  <1>8. QED
    BY <1>1, <1>5, <1>6, <1>7 DEF BudgetOK

LEMMA SendOK ==
  ASSUME DlOK, NEW cmd \in Commands, Send(cmd), apState' = apState, apTimer' \in BOOLEAN
  PROVE  DlOK'
  <1>1. CASE Len(apQueue) = QueueDepth
    BY <1>1 DEF Send, DlOK
  <1>2. CASE Len(apQueue) # QueueDepth
    <2>1. /\ apQueue' \in Seq(Commands) /\ Len(apQueue') = Len(apQueue) + 1 /\ Len(apQueue) \in Nat
      BY <1>2, AppendProperties DEF Send, DlOK
    <2>2. QED
      BY <1>2, <2>1, QueueDepthAssumption DEF DlOK
  <1>3. QED
    BY <1>1, <1>2

LEMMA DlTaskOK ==
  ASSUME DlOK, DlTask
  PROVE  DlOK'
  <1>1. CASE apQueue' = apQueue
    BY <1>1 DEF DlOK, DlTask, DlEnable, ApStart, DlDisable, ApStop, DlExtend
  <1>2. CASE apQueue' = Tail(apQueue) /\ apQueue # <<>>
    <2>1. apQueue' \in Seq(Commands) /\ Len(apQueue') = Len(apQueue) - 1 /\ Len(apQueue) \in Nat
      BY <1>2, HeadTailProperties DEF DlOK
    <2>2. Len(apQueue') <= QueueDepth
      BY <2>1, QueueDepthAssumption DEF DlOK
    <2>3. /\ apState' \in {"passive", "starting", "active", "stopping"} /\ apTimer' \in BOOLEAN
      BY DEF DlOK, DlTask, DlEnable, ApStart, DlDisable, ApStop, DlExtend
    <2>4. QED
      BY <2>1, <2>2, <2>3 DEF DlOK
  <1>3. QED
    BY <1>1, <1>2 DEF DlTask, DlEnable, ApStart, DlDisable, ApStop, DlExtend

----------------------------------------------------------------------------
(* The screens *)

\* the screens without a way out of their own, and that of a learning run between two scans
Special == {"SCANNING", "WALK", "DOWNLOAD_ACTIVE", "LEARN_WAIT"}

LEMMA PlainView ==
  ASSUME NEW e \in PlainEdges
  PROVE  /\ e[1] \in {"ENV_SUMMARY", "OPTIONS", "MAIN", "BLE_LIST"}
         /\ e[2] \in {"MAIN", "PUP", "PROBE_PANEL", "LEARN_CONFIRM", "BLE_CLASSES"}
  BY DEF PlainEdges

LEMMA ActivityView ==
  ASSUME NEW e \in ActivityEdges
  PROVE  /\ e[1] \in {"WIFI_LIST", "BLE_LIST", "BLE_CLASSES", "PROBE_PANEL", "MAIN", "OPTIONS", "PUP",
                      "DETAILS_WIFI", "DETAILS_BLE"}
         /\ e[2] \in ActivityModes
  BY DEF ActivityEdges, ActivityModes

ModeScreens == {"PUP", "PUP_INTERACT", "PUP_DIG", "PUP_TROPHIES", "PUP_TROPHY_DETAIL", "PROBE_PANEL",
                "PROBE_EXPLORE", "PROBE_DIG", "BLE_CLASSES", "BLE_EXPLORE", "BLE_DIG", "LEARN_CONFIRM", "MAIN"}

LEMMA ModeView ==
  ASSUME NEW e \in ModeEdges
  PROVE  e[1] \in ModeScreens /\ e[2] \in ModeScreens
  BY DEF ModeEdges, ModeScreens

LEMMA EdgeModes ==
  ASSUME NEW e \in PlainEdges \cup ModeEdges
  PROVE  e[1] \in Modes /\ e[2] \in Modes
  BY DEF Modes

LEMMA SomeModes ==
  /\ {"SCANNING", "WALK", "DOWNLOAD_ACTIVE", "DOWNLOAD_CONFIRM", "MENU", "LEARN_WAIT", "MAIN"} \subseteq Modes
  /\ ActivityModes \subseteq Modes
  <1>1. <<"LEARN_CONFIRM", "MAIN">> \in ModeEdges
    BY DEF ModeEdges
  <1>2. "MAIN" \in Modes
    BY <1>1, EdgeModes
  <1>3. QED
    BY <1>2 DEF Modes

Rest == <<dlVars, scanVars, capVars, flagVars, learn>>

\* what a press that only leads to another screen does
Strolled ==
  /\ ui \notin Special /\ ui' \notin Special /\ ui' \in Modes /\ menuDepth' \in 0..3
  /\ \/ activity' = None /\ ui' \notin ActivityModes
     \/ \E m \in ActivityModes : Enter(m)
     \/ activity' = activity /\ ui \notin ActivityModes /\ ui' \notin ActivityModes
     \/ activity' = "ENV_SUMMARY" /\ ui' = "ENV_SUMMARY"
  /\ UNCHANGED Rest

LEMMA NavigateView == ASSUME ScreenOK, Navigate PROVE Strolled
  <1> DEFINE Screens == ui \notin Special /\ ui' \notin Special /\ ui' \in Modes
             Moved == \/ activity' = None /\ ui' \notin ActivityModes
                      \/ \E m \in ActivityModes : Enter(m)
                      \/ activity' = activity /\ ui \notin ActivityModes /\ ui' \notin ActivityModes
                      \/ activity' = "ENV_SUMMARY" /\ ui' = "ENV_SUMMARY"
  <1>1. ASSUME NEW e \in PlainEdges, ui = e[1], Plain(e[2])
        PROVE  Screens /\ Moved
    BY <1>1, PlainView, EdgeModes DEF Plain, Special, ActivityModes
  <1>2. ASSUME NEW e \in ActivityEdges, ui = e[1], Enter(e[2])
        PROVE  Screens /\ Moved
    <2>1. ui \notin Special /\ e[2] \in ActivityModes
      BY <1>2, ActivityView DEF Special
    <2>2. ui' = ui \/ ui' \in ActivityModes
      BY <1>2, <2>1 DEF Enter
    <2>3. ui' \notin Special /\ ui' \in Modes
      BY <2>1, <2>2, SomeModes DEF Special, ActivityModes, ScreenOK
    <2>4. QED
      BY <1>2, <2>1, <2>3
  <1>3. ASSUME NEW e \in ModeEdges, ui = e[1], ui' = e[2], UNCHANGED activity
        PROVE  Screens /\ Moved
    BY <1>3, ModeView, EdgeModes DEF ModeScreens, Special, ActivityModes
  <1>4. ASSUME ui = "MAIN", Enter("ENV_SUMMARY")
        PROVE  Screens /\ Moved
    BY <1>4, SomeModes DEF Enter, Special, ActivityModes
  <1>5. ASSUME ui = "OPTIONS", (activity' = "ENV_SUMMARY" /\ ui' = "ENV_SUMMARY") \/ Plain("MAIN")
        PROVE  Screens /\ Moved
    BY <1>5, SomeModes DEF Plain, Special, ActivityModes
  <1>6. Screens /\ Moved
    BY <1>1, <1>2, <1>3, <1>4, <1>5 DEF Navigate
  <1>7. UNCHANGED Rest /\ menuDepth' \in 0..3
    BY DEF Navigate, Rest, ScreenOK
  <1>8. QED
    BY <1>6, <1>7 DEF Strolled

LEMMA MenuView == ASSUME ScreenOK, Menu PROVE Strolled
  <1>1. /\ ui \in {"MAIN", "MENU", "DOWNLOAD_CONFIRM", "CREDITS"}
        /\ UNCHANGED Rest
    BY DEF Menu, Rest
  <1>2. menuDepth' \in 0..3
    BY DEF Menu, ScreenOK
  <1>3. CASE Enter("CREDITS") /\ ui = "MENU"
    BY <1>1, <1>2, <1>3, SomeModes DEF Strolled, Enter, Special, ActivityModes
  <1>4. CASE Plain("MENU") \/ Plain("MAIN")
    BY <1>1, <1>2, <1>4, SomeModes DEF Strolled, Plain, Special, ActivityModes
  <1>5. CASE activity' = activity /\ ui = "MENU" /\ ui' \in {"MENU", "MAIN", "DOWNLOAD_CONFIRM"}
    BY <1>1, <1>2, <1>5, SomeModes DEF Strolled, Special, ActivityModes
  <1>6. QED
    BY <1>3, <1>4, <1>5 DEF Menu

----------------------------------------------------------------------------
(* Types *)

Body == DlOK /\ ScreenOK /\ TasksOK /\ FlagsOK /\ LearnOK

LEMMA RestStays ==
  ASSUME Body, UNCHANGED Rest
  PROVE  DlOK' /\ TasksOK' /\ FlagsOK' /\ LearnOK'
  BY DEF Body, Rest, dlVars, scanVars, capVars, flagVars, DlOK, TasksOK, FlagsOK, LearnOK

LEMMA StrolledTyped == ASSUME Body, Strolled PROVE Body'
  <1>1. activity' \in ActivityModes \cup {None, "walk"}
    BY DEF Strolled, Enter, Body, ScreenOK, ActivityModes
  <1>2. QED
    BY <1>1, RestStays DEF Strolled, Body, ScreenOK

\* what each step leaves to the learning run
LearnMoves ==
  \/ learn' = learn \/ learn' = NoLearn
  \/ \E n \in 1..budget.scans : LearnBegin(n)
  \/ \E c \in 0..LongPause : learn' = [learn EXCEPT !.countdown = c]
  \/ learn' = [learn EXCEPT !.left = IF @ > 0 THEN @ - 1 ELSE 0]

LEMMA LearnTyped == ASSUME LearnOK, BudgetOK, LearnMoves PROVE LearnOK'
  <1>1. budget.scans \in Nat
    BY DEF BudgetOK
  <1>2. \A n \in 1..budget.scans : n \in Nat
    BY <1>1
  <1>3. CASE learn' = learn \/ learn' = NoLearn
    <2>1. NoLearn \in [active : BOOLEAN, countdown : 0..LongPause, left : Nat]
      BY DEF NoLearn, LongPause
    <2>2. QED
      BY <1>3, <2>1 DEF LearnOK
  <1>4. CASE \E n \in 1..budget.scans : LearnBegin(n)
    <2>1. PICK n \in 1..budget.scans : learn' = [active |-> TRUE, countdown |-> 0, left |-> n]
      BY <1>4 DEF LearnBegin
    <2>2. n \in Nat /\ 0 \in 0..LongPause
      BY <1>2 DEF LongPause
    <2>3. QED
      BY <2>1, <2>2 DEF LearnOK
  <1>5. CASE \E c \in 0..LongPause : learn' = [learn EXCEPT !.countdown = c]
    BY <1>5 DEF LearnOK
  <1>6. CASE learn' = [learn EXCEPT !.left = IF @ > 0 THEN @ - 1 ELSE 0]
    BY <1>6 DEF LearnOK
  <1>7. QED
    BY <1>3, <1>4, <1>5, <1>6 DEF LearnMoves

LEMMA CountdownView ==
  ASSUME LearnOK, NEW f \in BOOLEAN, Countdown(f)
  PROVE  /\ LearnMoves /\ force' \in BOOLEAN
         /\ learn.countdown = 0 => learn' = learn /\ force' = f
         /\ learn'.countdown <= learn.countdown
         /\ learn'.active = learn.active
         /\ learn' # learn => learn.countdown > 0 /\ ~ IsActive
         /\ f => force'
         /\ force' => f \/ (learn.countdown > 0 /\ learn'.countdown = 0)
  <1>1. learn.countdown \in 0..LongPause /\ LongPause \in Nat
    BY DEF LearnOK, LongPause
  <1>2. CASE learn.active /\ learn.countdown > 0 /\ ~ IsActive
    <2>1. learn' = [learn EXCEPT !.countdown = learn.countdown - 1] /\ force' = (f \/ learn.countdown = 1)
      BY <1>2 DEF Countdown
    <2>2. learn.countdown - 1 \in 0..LongPause
      BY <1>1, <1>2
    <2>3. learn'.countdown = learn.countdown - 1 /\ learn'.active = learn.active
      BY <2>1 DEF LearnOK
    <2>4. LearnMoves
      BY <2>1, <2>2 DEF LearnMoves
    <2>5. force' \in BOOLEAN /\ (f => force') /\ (force' => f \/ learn.countdown = 1)
      BY <2>1
    <2>6. QED
      BY <1>1, <1>2, <2>3, <2>4, <2>5
  <1>3. CASE learn' = learn /\ force' = f
    BY <1>1, <1>3 DEF LearnMoves
  <1>4. QED
    BY <1>2, <1>3 DEF Countdown

\* what each step does to the access point
DlMoves ==
  \/ UNCHANGED dlVars
  \/ DlTask
  \/ (\E cmd \in Commands : Send(cmd)) /\ apState' = apState /\ (apTimer' = apTimer \/ apTimer' = FALSE)

LEMMA DlTyped == ASSUME DlOK, DlMoves PROVE DlOK'
  <1>1. CASE UNCHANGED dlVars
    BY <1>1 DEF dlVars, DlOK
  <1>2. CASE (\E cmd \in Commands : Send(cmd)) /\ apState' = apState /\ (apTimer' = apTimer \/ apTimer' = FALSE)
    <2>1. apTimer' \in BOOLEAN
      BY <1>2 DEF DlOK
    <2>2. QED
      BY <1>2, <2>1, SendOK
  <1>3. QED
    BY <1>1, <1>2, DlTaskOK DEF DlMoves

LEMMA DlView == ASSUME [Next]_vars PROVE DlMoves
  <1>1. PressAny => DlMoves
    BY DEF DlMoves, dlVars, Commands, PressAny, Navigate, Menu, PressLaunch, PressEndAp, PressScan, PressWalk,
      PressWalkEnd, PressLearn, PressLearnNow, PressLearnCancel
  <1>2. WebAfter \/ WebSession \/ WebLearnCancel \/ UsbLearn \/ UsbLearnCancel => DlMoves
    BY DEF DlMoves, dlVars, Commands, WebAfter, WebSession, WebLearnCancel, UsbLearn, UsbLearnCancel
  <1>3. Watchdog \/ TickApGone \/ TickLearn \/ Expiry \/ Access \/ CaptureTask \/ Failure => DlMoves
    BY DEF DlMoves, dlVars, Commands, Watchdog, TickApGone, TickLearn, Expiry, Timeout, Access, CaptureTask,
      CaptureBegin, CaptureEnd, Failure, WifiFails
  <1>4. ScanTask => DlMoves
    BY DEF DlMoves, dlVars, Commands, ScanTask, Notified, ScanStep, Boot, BleStage, ScoreStage, Awards, ScanDone,
      LearnPause, LearnDone, LearnDoneShown, WalkStops, WalkShown, RaiseAp
  <1>5. UNCHANGED vars => DlMoves
    BY DEF DlMoves, vars
  <1>6. QED
    BY <1>1, <1>2, <1>3, <1>4, <1>5 DEF Next, Clocks, Clock, People, Press, PressEarly

LEMMA BodyFrom ==
  ASSUME Body, BudgetOK, DlMoves, LearnMoves, ScreenOK', TasksOK', FlagsOK'
  PROVE  Body'
  BY DlTyped, LearnTyped DEF Body

LEMMA PressTyped == ASSUME Body, BudgetOK, PressAny PROVE Body'
  <1>1. CASE Navigate \/ Menu
    BY <1>1, NavigateView, MenuView, StrolledTyped DEF Body
  <1>2. CASE PressLaunch \/ PressEndAp \/ PressScan \/ PressWalk \/ PressWalkEnd \/ PressLearn
             \/ PressLearnNow \/ PressLearnCancel
    <2>1. DlMoves
      BY <1>2 DEF DlMoves, dlVars, Commands, PressLaunch, PressEndAp, PressScan, PressWalk, PressWalkEnd,
        PressLearn, PressLearnNow, PressLearnCancel
    <2>2. LearnMoves
      BY <1>2 DEF LearnMoves, LearnFinish, LongPause, PressLaunch, PressEndAp, PressScan, PressWalk,
        PressWalkEnd, PressLearn, PressLearnNow, PressLearnCancel
    <2>3. ScreenOK'
      BY <1>2, SomeModes DEF Body, ScreenOK, uiVars, Plain, PressLaunch, PressEndAp, PressScan, PressWalk,
        PressWalkEnd, PressLearn, PressLearnNow, PressLearnCancel
    <2>4. TasksOK'
      BY <1>2 DEF Body, TasksOK, scanVars, capVars, PressLaunch, PressEndAp, PressScan, PressWalk,
        PressWalkEnd, PressLearn, PressLearnNow, PressLearnCancel
    <2>5. FlagsOK'
      BY <1>2 DEF Body, FlagsOK, flagVars, PressLaunch, PressEndAp, PressScan, PressWalk,
        PressWalkEnd, PressLearn, PressLearnNow, PressLearnCancel
    <2>6. QED
      BY <2>1, <2>2, <2>3, <2>4, <2>5, BodyFrom
  <1>3. QED
    BY <1>1, <1>2 DEF PressAny

LEMMA ClientTyped ==
  ASSUME Body, BudgetOK, WebAfter \/ WebSession \/ WebLearnCancel \/ UsbLearn \/ UsbLearnCancel
  PROVE  Body'
  <1>1. DlMoves
    BY DEF DlMoves, dlVars, Commands, WebAfter, WebSession, WebLearnCancel, UsbLearn, UsbLearnCancel
  <1>2. LearnMoves
    BY DEF LearnMoves, LearnFinish, WebAfter, WebSession, WebLearnCancel, UsbLearn, UsbLearnCancel
  <1>3. ScreenOK' /\ TasksOK'
    BY DEF Body, ScreenOK, TasksOK, uiVars, scanVars, capVars, WebAfter, WebSession, WebLearnCancel, UsbLearn,
      UsbLearnCancel
  <1>4. FlagsOK'
    BY DEF Body, FlagsOK, flagVars, WebAfter, WebSession, WebLearnCancel, UsbLearn, UsbLearnCancel
  <1>5. QED
    BY <1>1, <1>2, <1>3, <1>4, BodyFrom

LEMMA TickTyped == ASSUME Body, BudgetOK, TickApGone \/ TickLearn PROVE Body'
  <1>1. DlMoves
    BY DEF DlMoves, TickApGone, TickLearn
  <1>2. \E f \in BOOLEAN : Countdown(f)
    BY DEF Body, FlagsOK, TickApGone, TickLearn
  <1>3. LearnMoves /\ force' \in BOOLEAN
    BY <1>2, CountdownView DEF Body
  <1>4. ScreenOK'
    BY SomeModes DEF Body, ScreenOK, uiVars, TickApGone, TickLearn
  <1>5. TasksOK'
    BY DEF Body, TasksOK, scanVars, capVars, TickApGone, TickLearn
  <1>6. FlagsOK'
    BY <1>3 DEF Body, FlagsOK, TickApGone, TickLearn
  <1>7. QED
    BY <1>1, <1>3, <1>4, <1>5, <1>6, BodyFrom

LEMMA OtherTyped ==
  ASSUME Body, BudgetOK, Watchdog \/ Expiry \/ Access \/ CaptureTask \/ Failure
  PROVE  Body'
  <1>1. DlMoves
    BY DEF DlMoves, dlVars, Commands, Watchdog, Expiry, Timeout, Access, CaptureTask, CaptureBegin, CaptureEnd,
      Failure, WifiFails
  <1>2. LearnMoves
    BY DEF LearnMoves, Watchdog, Expiry, Access, AppUnchanged, CaptureTask, CaptureBegin, CaptureEnd,
      Failure, WifiFails
  <1>3. ScreenOK'
    BY SomeModes DEF Body, ScreenOK, uiVars, Watchdog, Expiry, Access, AppUnchanged, CaptureTask, CaptureBegin,
      CaptureEnd, Failure, WifiFails
  <1>4. TasksOK'
    BY DEF Body, TasksOK, scanVars, capVars, Watchdog, Expiry, Access, AppUnchanged, CaptureTask, CaptureBegin,
      CaptureEnd, Failure, WifiFails
  <1>5. FlagsOK'
    BY DEF Body, FlagsOK, flagVars, Watchdog, Expiry, Access, AppUnchanged, CaptureTask, CaptureBegin,
      CaptureEnd, Failure, WifiFails
  <1>6. QED
    BY <1>1, <1>2, <1>3, <1>4, <1>5, BodyFrom

LEMMA ScanTyped == ASSUME Body, BudgetOK, ScanTask PROVE Body'
  <1>1. DlMoves
    BY DEF DlMoves, dlVars, Commands, ScanTask, Notified, ScanStep, Boot, BleStage, ScoreStage, Awards, ScanDone,
      LearnPause, LearnDone, LearnDoneShown, WalkStops, WalkShown, RaiseAp
  <1>2. LearnMoves
    BY DEF LearnMoves, LongPause, LearnFinish, ScanTask, Notified, ScanStep, Boot, BleStage, ScoreStage, Awards,
      ScanDone, LearnPause, LearnDone, LearnDoneShown, WalkStops, WalkShown
  <1>3. ScreenOK'
    BY SomeModes DEF Body, ScreenOK, uiVars, ActivityModes, ScanTask, Notified, ScanStep, Boot, BleStage,
      ScoreStage, Awards, ScanDone, LearnPause, LearnDone, LearnDoneShown, WalkStops, WalkShown, RaiseAp, Plain,
      Enter, EnterStage
  <1>4. TasksOK'
    BY DEF Body, TasksOK, scanVars, capVars, ScanTask, Notified, ScanStep, Boot, BleStage, ScoreStage, Awards,
      ScanDone, LearnPause, LearnDone, LearnDoneShown, WalkStops, WalkShown, EnterStage
  <1>5. FlagsOK'
    BY DEF Body, FlagsOK, flagVars, ScanTask, Notified, ScanStep, Boot, BleStage, ScoreStage, Awards,
      ScanDone, LearnPause, LearnDone, LearnDoneShown, WalkStops, WalkShown
  <1>6. QED
    BY <1>1, <1>2, <1>3, <1>4, <1>5, BodyFrom

LEMMA BudgetMoves ==
  ASSUME Next
  PROVE  UNCHANGED budget \/ \E what \in Counts : Spend(what)
  <1>1. Clocks \/ People => UNCHANGED budget \/ \E what \in Counts : Spend(what)
    BY DEF Counts, Clocks, Clock, People, Press, PressEarly, WebAfter, WebSession, WebLearnCancel, WebRequest,
      UsbLearn, UsbLearnCancel, UsbCommand
  <1>2. Access \/ ScanTask \/ Failure \/ CaptureTask => UNCHANGED budget \/ \E what \in Counts : Spend(what)
    BY DEF Counts, Access, ScanTask, Notified, ScanStep, Boot, BleStage, ScoreStage, Awards, ScanDone,
      LearnPause, LearnDone, LearnDoneShown, WalkStops, WalkShown, Failure, WifiFails, CaptureTask, CaptureBegin,
      CaptureEnd
  <1>3. QED
    BY <1>1, <1>2 DEF Next

\* Nothing that was spent comes back.
LEMMA BudgetTyped ==
  ASSUME BudgetOK, [Next]_vars
  PROVE  BudgetOK' /\ budget.spent \subseteq budget'.spent
  <1>1. CASE UNCHANGED budget
    BY <1>1 DEF BudgetOK
  <1>2. CASE \E what \in Counts : Spend(what)
    BY <1>2, SpendView
  <1>3. QED
    BY <1>1, <1>2, BudgetMoves DEF vars

LEMMA InitTyped == Init => Typed
  <1> SUFFICES ASSUME Init PROVE Typed
    OBVIOUS
  <1>1. DlOK
    <2>1. <<>> \in Seq(Commands) /\ Len(<<>>) = 0 /\ 0 <= QueueDepth
      BY QueueDepthAssumption
    <2>2. apQueue = <<>> /\ apState = "passive" /\ apTimer = FALSE
      BY DEF Init, DlInit
    <2>3. QED
      BY <2>1, <2>2 DEF DlOK
  <1>2. ScreenOK
    BY SomeModes DEF Init, ScreenOK
  <1>3. TasksOK /\ FlagsOK
    BY DEF Init, TasksOK, FlagsOK
  <1>4. LearnOK
    <2>1. NoLearn \in [active : BOOLEAN, countdown : 0..LongPause, left : Nat]
      BY DEF NoLearn, LongPause
    <2>2. QED
      BY <2>1 DEF Init, LearnOK
  <1>5. BudgetOK
    BY AppBoundsAssumption DEF Init, BudgetOK
  <1>6. QED
    BY <1>1, <1>2, <1>3, <1>4, <1>5 DEF Typed

LEMMA StepTyped == Typed /\ [Next]_vars => Typed'
  <1> SUFFICES ASSUME Typed, [Next]_vars PROVE Typed'
    OBVIOUS
  <1>1. Body /\ BudgetOK
    BY DEF Typed, Body
  <1>2. CASE UNCHANGED vars
    BY <1>1, <1>2, RestStays DEF vars, Rest, Body, ScreenOK, uiVars, BudgetOK, Typed
  <1>3. CASE Next
    <2>1. Clocks \/ People => Body'
      BY <1>1, PressTyped, ClientTyped, TickTyped, OtherTyped DEF Clocks, Clock, People, Press, PressEarly
    <2>2. Access \/ ScanTask \/ Failure \/ CaptureTask => Body'
      BY <1>1, OtherTyped, ScanTyped
    <2>3. QED
      BY <1>1, <1>3, <2>1, <2>2, BudgetTyped DEF Next, Typed, Body
  <1>4. QED
    BY <1>2, <1>3

LEMMA AlwaysTyped == Spec => []Typed
  BY InitTyped, StepTyped, PTL DEF Spec

\* app_main.c, download_mode.c: every variable holds a value the code gives it, and the queue of dl_task is
\* never longer than it was made.
THEOREM AppTypeCorrect == Spec => []TypeOK
  <1>1. Typed => TypeOK
    BY DEF Typed, TypeOK, DlOK, ScreenOK, TasksOK, FlagsOK, LearnOK
  <1>2. QED
    BY <1>1, AlwaysTyped, PTL

----------------------------------------------------------------------------
(* The modes *)

\* The timer of a session runs only while the access point is up.
TimerOff == apState \in {"passive", "starting"} => ~ apTimer

\* Whoever pressed what when, a screen that an activity draws is that of the activity, but for the summary
\* under "learned".
Drawn ==
  ui \in ActivityModes =>
    activity = ui \/ (scanPc = "learnDone" /\ ui = "ENV_SUMMARY" /\ activity = None)

\* nobody came in the windows the code leaves open, nor past the screen
Calm == budget.spent \cap {"early", "commands"} = {}

\* The screen tells which of the tasks may be at work, however the timers race.
Phases ==
  /\ scanPc \in {"wifi", "ble", "score"} => ui = "SCANNING"
  /\ scanPc \in {"walk", "walkEnd"} => ui = "WALK"
  /\ scanPc \in {"boot", "awards"} => ui = "MAIN"
  /\ scanPc = "learnDone" => ui = "ENV_SUMMARY"
  /\ scanPc # "wait" => ~ force /\ ~ scanNotified /\ ~ walkReq /\ ~ capNotified /\ capPc = "wait"
  /\ force \/ scanNotified =>
       /\ ui \in {"SCANNING", "WALK", "LEARN_WAIT"} /\ ~ (force /\ scanNotified)
       /\ capPc = "wait" /\ ~ capNotified /\ (ui = "WALK" => walkReq)
  /\ walkReq => ui = "WALK"
  /\ capNotified \/ capPc = "run" => ui = "SCANNING" /\ ~(capNotified /\ capPc = "run")
  /\ learn.active /\ learn.countdown > 0 => ui = "LEARN_WAIT" /\ ~ force /\ ~ scanNotified
  /\ activity # None => ui = IF activity = "walk" THEN "WALK" ELSE activity

\* As long as no timer raced either, the access point is down on all screens but one, and a learning run is
\* on while its pause is shown.
ApPhases ==
  /\ ui # "DOWNLOAD_ACTIVE" => apState = "passive" /\ apQueue = <<>>
  /\ ui = "LEARN_WAIT" => learn.active

Modal == TimerOff /\ Drawn /\ (Calm => Phases) /\ (Undisturbed => ApPhases)

LEMMA TimerStays == ASSUME TimerOff, [Next]_vars PROVE TimerOff'
  BY DlView DEF TimerOff, DlMoves, dlVars, DlTask, DlEnable, ApStart, DlDisable, ApStop, DlExtend

LEMMA DrawnStays == ASSUME Typed, Drawn, [Next]_vars PROVE Drawn'
  <1>1. ui' \in ActivityModes /\ activity' = ui' => Drawn'
    BY DEF Drawn
  <1>2. ui' \notin ActivityModes => Drawn'
    BY DEF Drawn, ActivityModes
  <1>3. ui' = ui /\ activity' = activity /\ (scanPc' = scanPc \/ scanPc # "learnDone") => Drawn'
    BY DEF Drawn, ActivityModes
  <1>4. CASE Navigate \/ Menu
    <2>1. Strolled
      BY <1>4, NavigateView, MenuView DEF Typed
    <2>2. ASSUME NEW m \in ActivityModes, Enter(m)
          PROVE  Drawn'
      <3>1. activity' = m /\ (activity # m => ui' = m) /\ (activity = m => ui' = ui)
        BY <2>2 DEF Enter
      <3>2. CASE activity = m
        <4>1. ui \in ActivityModes => ui = m \/ scanPc = "learnDone"
          BY <3>2 DEF Drawn
        <4>2. ui \in ActivityModes => ui = m
          BY <3>2 DEF Drawn, ActivityModes, None
        <4>3. QED
          BY <1>1, <1>2, <3>1, <3>2, <4>2 DEF ActivityModes
      <3>3. QED
        BY <1>1, <2>2, <3>1, <3>2
    <2>3. ui' \notin ActivityModes \/ (activity' = "ENV_SUMMARY" /\ ui' = "ENV_SUMMARY")
            \/ \E m \in ActivityModes : Enter(m)
      BY <2>1 DEF Strolled
    <2>4. QED
      BY <1>1, <1>2, <2>2, <2>3
  <1>5. CASE PressLaunch \/ PressScan \/ PressWalk \/ PressLearn \/ PressLearnCancel \/ TickApGone \/ CaptureEnd
    <2>1. ui' \notin ActivityModes
      BY <1>5 DEF ActivityModes, Plain, PressLaunch, PressScan, PressWalk, PressLearn, PressLearnCancel, TickApGone,
        CaptureEnd
    <2>2. QED
      BY <1>2, <2>1
  <1>6. CASE PressEndAp \/ PressWalkEnd \/ PressLearnNow \/ WebAfter \/ WebSession \/ WebLearnCancel \/ UsbLearn
             \/ UsbLearnCancel \/ Watchdog \/ TickLearn \/ Expiry \/ Access \/ CaptureBegin \/ Failure
             \/ WalkStops \/ UNCHANGED vars
    <2>1. ui' = ui /\ activity' = activity /\ (scanPc' = scanPc \/ scanPc # "learnDone")
      BY <1>6 DEF scanVars, uiVars, PressEndAp, PressWalkEnd, PressLearnNow, WebAfter, WebSession, WebLearnCancel,
        UsbLearn, UsbLearnCancel, Watchdog, TickLearn, Expiry, Access, AppUnchanged, CaptureBegin, Failure,
        WifiFails, WalkStops, vars
    <2>2. QED
      BY <1>3, <2>1
  <1>7. CASE Notified \/ Boot \/ BleStage \/ ScoreStage \/ Awards \/ LearnPause \/ WalkShown
    <2>1. ui' \notin ActivityModes
      BY <1>7 DEF ActivityModes, Plain, RaiseAp, EnterStage, Notified, Boot, BleStage, ScoreStage, Awards,
        LearnPause, WalkShown
    <2>2. QED
      BY <1>2, <2>1
  <1>8. CASE ScanDone
    <2>1. ui' \notin ActivityModes \/ (activity' = "ENV_SUMMARY" /\ ui' = "ENV_SUMMARY")
      BY <1>8 DEF ActivityModes, Plain, RaiseAp, ScanDone
    <2>2. QED
      BY <1>1, <1>2, <2>1
  <1>9. CASE LearnDone
    BY <1>9 DEF LearnDone, Plain, Drawn
  <1>10. CASE LearnDoneShown
    <2>1. CASE RaiseAp
      <3>1. ui' \notin ActivityModes
        BY <2>1 DEF ActivityModes, Plain, RaiseAp
      <3>2. QED
        BY <1>2, <3>1
    <2>2. CASE Enter("ENV_SUMMARY")
      <3>1. CASE activity = "ENV_SUMMARY"
        <4>1. ui' = ui /\ activity' = "ENV_SUMMARY"
          BY <2>2, <3>1 DEF Enter
        <4>2. ui \in ActivityModes => ui = "ENV_SUMMARY"
          BY <3>1 DEF Drawn, None
        <4>3. QED
          BY <1>1, <1>2, <4>1, <4>2
      <3>2. CASE activity # "ENV_SUMMARY"
        BY <1>1, <2>2, <3>2 DEF Enter, ActivityModes
      <3>3. QED
        BY <3>1, <3>2
    <2>3. QED
      BY <1>10, <2>1, <2>2 DEF LearnDoneShown
  <1>11. QED
    BY <1>4, <1>5, <1>6, <1>7, <1>8, <1>9, <1>10 DEF Next, Clocks, Clock, People, Press, PressEarly, PressAny,
      CaptureTask, ScanTask, ScanStep

\* A step that leaves the behaviour calm is none of those that are made too early or come from the console.
CalmStep ==
  \/ ~ Early /\ PressAny
  \/ ~ Early /\ (WebAfter \/ WebSession \/ WebLearnCancel)
  \/ Watchdog \/ TickApGone \/ TickLearn \/ Expiry
  \/ Access \/ ScanTask \/ Failure \/ CaptureTask
  \/ UNCHANGED vars

LEMMA CalmView ==
  ASSUME Typed, [Next]_vars, Calm'
  PROVE  Calm /\ CalmStep
  <1>1. Calm
    BY BudgetTyped DEF Calm, Typed
  <1>2. ~ PressEarly
    <2>1. PressEarly => "early" \in budget'.spent
      BY SpendView DEF PressEarly, Typed, Counts
    <2>2. QED
      BY <2>1 DEF Calm
  <1>3. ~(UsbLearn \/ UsbLearnCancel)
    <2>1. UsbLearn \/ UsbLearnCancel => "commands" \in budget'.spent
      BY SpendView DEF UsbLearn, UsbLearnCancel, UsbCommand, Typed, Counts
    <2>2. QED
      BY <2>1 DEF Calm
  <1>4. QED
    BY <1>1, <1>2, <1>3 DEF CalmStep, Next, Clocks, Clock, People, Press, WebAfter, WebSession, WebLearnCancel,
      WebRequest

LEMMA PressPhases == ASSUME Typed, Phases, ~ Early, PressAny PROVE Phases'
  <1>1. /\ scanPc \in {"wait", "wifi", "ble", "score", "walk", "walkEnd"} /\ ~ force /\ ~ scanNotified
        /\ capPc \in {"wait", "run"} /\ walkReq \in BOOLEAN /\ capNotified \in BOOLEAN
        /\ activity \in ActivityModes \cup {None, "walk"}
    BY DEF Early, Typed, TasksOK, ScreenOK, FlagsOK
  <1>2. CASE Navigate \/ Menu
    <2>1. Strolled
      BY <1>2, NavigateView, MenuView DEF Typed
    <2>2. ui \notin Special /\ ui' \notin Special /\ UNCHANGED <<scanVars, capVars, flagVars, learn>>
      BY <2>1 DEF Strolled, Rest
    <2>3. scanPc = "wait" /\ capPc = "wait" /\ ~ capNotified /\ ~ walkReq
      BY <1>1, <2>2 DEF Phases, Special, Typed, TasksOK
    <2>4. ~(learn.active /\ learn.countdown > 0)
      BY <2>2 DEF Phases, Special
    <2>5. activity' # None => ui' = IF activity' = "walk" THEN "WALK" ELSE activity'
      <3>1. activity # None => activity # "walk" /\ ui = activity
        BY <2>2 DEF Phases, Special
      <3>2. ASSUME NEW m \in ActivityModes, Enter(m)
            PROVE  activity' # "walk" /\ ui' = activity'
        <4>1. m # "walk" /\ m # None
          BY DEF ActivityModes, None
        <4>2. QED
          BY <3>1, <3>2, <4>1 DEF Enter
      <3>3. CASE activity' = activity /\ ui \notin ActivityModes
        BY <1>1, <3>1, <3>3
      <3>4. QED
        BY <2>1, <3>2, <3>3 DEF Strolled
    <2>6. QED
      BY <1>1, <2>2, <2>3, <2>4, <2>5 DEF Phases, Special, scanVars, capVars, flagVars
  <1>3. CASE PressLaunch \/ PressEndAp
    BY <1>1, <1>3 DEF Phases, PressLaunch, PressEndAp, uiVars, scanVars, capVars, flagVars, ActivityModes
  <1>4. CASE PressScan
    BY <1>1, <1>4 DEF Phases, PressScan, Plain, uiVars, scanVars, capVars, flagVars, ActivityModes
  <1>5. CASE PressWalk \/ PressLearn
    <2>1. /\ ui \in {"PUP", "LEARN_CONFIRM"} /\ activity' = activity /\ force' = TRUE
          /\ UNCHANGED <<scanPc, scanNotified, capPc, capNotified>>
          /\ (ui' = "WALK" /\ walkReq' /\ learn' = learn) \/ (ui' = "SCANNING" /\ walkReq' = walkReq /\ learn'.countdown = 0)
      BY <1>5 DEF PressWalk, PressLearn, LearnBegin, scanVars, capVars
    <2>2. scanPc = "wait" /\ capPc = "wait" /\ ~ capNotified /\ ~ walkReq /\ activity = None
      BY <1>1, <2>1 DEF Phases, ActivityModes
    <2>3. learn'.active /\ learn'.countdown > 0 => FALSE
      BY <2>1 DEF Phases
    <2>4. QED
      BY <1>1, <2>1, <2>2, <2>3 DEF Phases
  <1>6. CASE PressWalkEnd
    BY <1>6 DEF Phases, PressWalkEnd, uiVars, scanVars, capVars
  <1>7. CASE PressLearnNow \/ PressLearnCancel
    <2>1. /\ ui = "LEARN_WAIT" /\ activity' = activity
          /\ UNCHANGED <<scanPc, scanNotified, capPc, capNotified, force, walkReq>>
          /\ ui' = ui \/ (ui' = "MAIN" /\ LearnFinish)
      BY <1>7 DEF PressLearnNow, PressLearnCancel, uiVars, scanVars, capVars, flagVars
    <2>2. scanPc = "wait" /\ capPc = "wait" /\ ~ capNotified /\ ~ walkReq /\ activity = None
      BY <1>1, <2>1 DEF Phases, ActivityModes
    <2>3. LearnFinish => ~ learn'.active
      BY DEF LearnFinish, NoLearn, Typed, LearnOK
    <2>4. learn'.active /\ learn'.countdown > 0 => ui' = "LEARN_WAIT"
      BY <2>1, <2>3
    <2>5. QED
      BY <1>1, <2>1, <2>2, <2>4 DEF Phases
  <1>8. QED
    BY <1>2, <1>3, <1>4, <1>5, <1>6, <1>7 DEF PressAny

LEMMA ClientPhases ==
  ASSUME Typed, Phases, ~ Early, WebAfter \/ WebSession \/ WebLearnCancel
  PROVE  Phases'
  <1>1. UNCHANGED <<uiVars, scanVars, capVars, force, walkReq, walkEnd, relaunch>>
    BY DEF WebAfter, WebSession, WebLearnCancel, flagVars
  <1>2. learn' = learn \/ learn'.countdown = 0
    BY DEF WebAfter, WebSession, WebLearnCancel, LearnFinish, LearnBegin, NoLearn
  <1>3. QED
    BY <1>1, <1>2 DEF Phases, uiVars, scanVars, capVars

LEMMA TimerPhases ==
  ASSUME Typed, Phases, Watchdog \/ TickApGone \/ TickLearn \/ Expiry
  PROVE  Phases'
  <1>1. /\ activity \in ActivityModes \cup {None, "walk"} /\ force \in BOOLEAN /\ scanNotified \in BOOLEAN
        /\ capNotified \in BOOLEAN /\ LearnOK
    BY DEF Typed, ScreenOK, FlagsOK, TasksOK
  <1>2. CASE Watchdog
    BY <1>1, <1>2 DEF Phases, Watchdog, uiVars, capVars
  <1>3. CASE Expiry
    BY <1>3 DEF Phases, Expiry, AppUnchanged, uiVars, scanVars, capVars, flagVars
  <1>4. CASE TickLearn
    <2>1. Countdown(force) /\ UNCHANGED <<uiVars, scanVars, capVars, walkReq>> /\ learn.active /\ learn.countdown > 0
      BY <1>4 DEF TickLearn
    <2>2. force' => learn'.countdown = 0
      BY <1>1, <2>1, CountdownView DEF Phases
    <2>3. ui = "LEARN_WAIT" /\ ~ force /\ ~ scanNotified
      BY <2>1 DEF Phases
    <2>4. scanPc = "wait" /\ capPc = "wait" /\ ~ capNotified /\ ~ walkReq
      BY <2>3 DEF Phases, Typed, TasksOK
    <2>5. QED
      BY <1>1, <2>1, <2>2, <2>3, <2>4 DEF Phases, uiVars, scanVars, capVars
  <1>5. CASE TickApGone
    <2>1. ui = "DOWNLOAD_ACTIVE" /\ UNCHANGED <<activity, scanVars, capPc>>
      BY <1>5 DEF TickApGone, ApGone
    <2>2. /\ scanPc = "wait" /\ capPc = "wait" /\ ~ capNotified /\ ~ walkReq /\ ~ force /\ ~ scanNotified
          /\ activity = None /\ ~(learn.active /\ learn.countdown > 0)
      BY <1>1, <2>1 DEF Phases, Typed, TasksOK, ActivityModes
    <2>3. learn' = learn /\ \A f : Countdown(f) => force' = f
      BY <2>2, <1>5 DEF TickApGone, Countdown
    <2>4. \/ ui' = "SCANNING" /\ walkReq' = walkReq /\ capNotified' = capNotified /\ force'
          \/ ui' = "WALK" /\ walkReq' = TRUE /\ capNotified' = capNotified /\ force'
          \/ ui' = "SCANNING" /\ walkReq' = walkReq /\ force' = force
          \/ ui' = "MAIN" /\ walkReq' = walkReq /\ capNotified' = capNotified /\ force' = force
      BY <1>5, <2>3 DEF TickApGone
    <2>5. QED
      BY <2>1, <2>2, <2>3, <2>4 DEF Phases, scanVars
  <1>6. QED
    BY <1>2, <1>3, <1>4, <1>5

LEMMA ScanPhases == ASSUME Typed, Phases, ScanTask PROVE Phases'
  <1>1. /\ activity \in ActivityModes \cup {None, "walk"} /\ force \in BOOLEAN /\ scanNotified \in BOOLEAN
        /\ LearnOK /\ capNotified \in BOOLEAN
    BY DEF Typed, ScreenOK, FlagsOK, TasksOK
  <1>2. CASE Notified
    <2>1. scanPc = "wait" /\ scanNotified /\ ~ scanNotified' /\ UNCHANGED <<capPc, capNotified, force, learn>>
      BY <1>2 DEF Notified, capVars
    <2>2. /\ ui \in {"SCANNING", "WALK", "LEARN_WAIT"} /\ ~ force /\ capPc = "wait" /\ ~ capNotified
          /\ ~(learn.active /\ learn.countdown > 0) /\ (ui = "WALK" => walkReq)
      BY <2>1 DEF Phases
    <2>3. \/ walkReq /\ ~ walkReq' /\ scanPc' = "walk" /\ activity' = "walk" /\ ui' = "WALK"
          \/ ~ walkReq /\ ~ walkReq' /\ scanPc' = "wifi" /\ ui' = "SCANNING" /\ activity' = activity
      BY <1>2 DEF Notified
    <2>4. ~ walkReq => activity = None
      <3>1. ~ walkReq => ui \in {"SCANNING", "LEARN_WAIT"}
        BY <2>2
      <3>2. ui \in {"SCANNING", "LEARN_WAIT"} => activity = None
        BY <1>1 DEF Phases, ActivityModes
      <3>3. QED
        BY <3>1, <3>2
    <2>5. QED
      BY <2>1, <2>2, <2>3, <2>4 DEF Phases, None
  <1>3. CASE Boot \/ Awards
    BY <1>1, <1>3 DEF Phases, Boot, Awards, capVars, flagVars, ActivityModes
  <1>4. CASE BleStage
    BY <1>1, <1>4 DEF Phases, BleStage, EnterStage, capVars, flagVars, ActivityModes
  <1>5. CASE ScoreStage
    <2>1. learn'.countdown = learn.countdown /\ learn'.active = learn.active
      BY <1>1, <1>5 DEF ScoreStage, LearnOK
    <2>2. QED
      BY <1>1, <1>5, <2>1 DEF Phases, ScoreStage, EnterStage, capVars, flagVars, ActivityModes
  <1>6. CASE ScanDone
    BY <1>1, <1>6 DEF Phases, ScanDone, RaiseAp, Plain, capVars, flagVars, ActivityModes
  <1>7. CASE LearnPause
    BY <1>1, <1>7 DEF Phases, LearnPause, Plain, capVars, flagVars
  <1>8. CASE LearnDone
    BY <1>1, <1>8 DEF Phases, LearnDone, LearnFinish, NoLearn, Plain, capVars, flagVars
  <1>9. CASE LearnDoneShown
    BY <1>1, <1>9 DEF Phases, LearnDoneShown, RaiseAp, Enter, Plain, capVars, flagVars, ActivityModes
  <1>10. CASE WalkStops
    BY <1>1, <1>10 DEF Phases, WalkStops, uiVars, capVars, flagVars
  <1>11. CASE WalkShown
    BY <1>1, <1>11 DEF Phases, WalkShown, RaiseAp, Plain, capVars, flagVars
  <1>12. QED
    BY <1>2, <1>3, <1>4, <1>5, <1>6, <1>7, <1>8, <1>9, <1>10, <1>11 DEF ScanTask, ScanStep

LEMMA OtherPhases ==
  ASSUME Typed, Phases, Access \/ Failure \/ CaptureTask \/ UNCHANGED vars
  PROVE  Phases'
  <1>1. activity \in ActivityModes \cup {None, "walk"}
    BY DEF Typed, ScreenOK
  <1>2. CASE Access \/ UNCHANGED vars
    BY <1>2 DEF Phases, Access, AppUnchanged, vars, uiVars, scanVars, capVars, flagVars
  <1>3. CASE Failure
    BY <1>3 DEF Phases, Failure, WifiFails, uiVars, capVars, flagVars
  <1>4. CASE CaptureTask
    <2>1. ui = "SCANNING" /\ scanPc = "wait" /\ ~ force /\ ~ scanNotified /\ ~ walkReq /\ activity = None
          /\ ~(learn.active /\ learn.countdown > 0)
      BY <1>1, <1>4 DEF Phases, CaptureTask, CaptureBegin, CaptureEnd, ActivityModes
    <2>2. UNCHANGED <<scanPc, scanNotified, force, walkReq, learn, activity>>
      BY <1>4 DEF CaptureTask, CaptureBegin, CaptureEnd, uiVars, scanVars, flagVars
    <2>3. \/ ui' = ui /\ capNotified' = FALSE
          \/ ui' = "DOWNLOAD_ACTIVE" /\ capPc' = "wait" /\ capNotified' = capNotified /\ ~ capNotified
      BY <1>4 DEF CaptureTask, CaptureBegin, CaptureEnd, uiVars, Phases
    <2>4. QED
      BY <2>1, <2>2, <2>3 DEF Phases
  <1>5. QED
    BY <1>2, <1>3, <1>4

LEMMA PhasesStay == ASSUME Typed, Calm => Phases, [Next]_vars PROVE (Calm => Phases)'
  <1>1. SUFFICES ASSUME Calm' PROVE Phases'
    OBVIOUS
  <1>2. Calm /\ CalmStep
    BY <1>1, CalmView
  <1>3. QED
    BY <1>2, PressPhases, ClientPhases, TimerPhases, ScanPhases, OtherPhases DEF CalmStep

\* A step that nothing disturbs is calm, and no timer that finds a task woken.
QuietStep ==
  \/ ~ Early /\ PressAny
  \/ WebAfter \/ WebSession \/ WebLearnCancel
  \/ Watchdog \/ (TickApGone /\ ~ Woken) \/ TickLearn \/ Expiry
  \/ Access \/ ScanTask \/ Failure \/ CaptureTask
  \/ UNCHANGED vars

LEMMA QuietView ==
  ASSUME Typed, [Next]_vars, Undisturbed'
  PROVE  Undisturbed /\ Calm /\ QuietStep
  <1>1. Undisturbed /\ Calm'
    BY BudgetTyped DEF Undisturbed, Calm, Typed
  <1>2. Calm /\ CalmStep
    BY <1>1, CalmView
  <1>3. ~(Woken /\ Clock(TickApGone))
    <2>1. Woken /\ Clock(TickApGone) => "races" \in budget'.spent
      BY SpendView DEF Clock, Typed, Counts
    <2>2. QED
      BY <2>1 DEF Undisturbed
  <1>4. ~ PressEarly /\ ~ UsbLearn /\ ~ UsbLearnCancel
    <2>1. PressEarly => "early" \in budget'.spent
      BY SpendView DEF PressEarly, Typed, Counts
    <2>2. UsbLearn \/ UsbLearnCancel => "commands" \in budget'.spent
      BY SpendView DEF UsbLearn, UsbLearnCancel, UsbCommand, Typed, Counts
    <2>3. QED
      BY <2>1, <2>2 DEF Undisturbed
  <1>5. Clock(TickApGone) => TickApGone
    BY DEF Clock
  <1>6. QED
    BY <1>1, <1>2, <1>3, <1>4, <1>5 DEF QuietStep, Next, Clocks, Clock, People, Press

\* Of the screens, only that of the access point is left while it may be up.
LEMMA ApStays ==
  ASSUME Typed, Phases, ApPhases, TimerOff, QuietStep
  PROVE  ApPhases'
  <1> DEFINE Still == ui # "DOWNLOAD_ACTIVE" /\ UNCHANGED dlVars
             Up == ui' = "DOWNLOAD_ACTIVE"
  <1>1. ASSUME Still, ui' = "LEARN_WAIT" => learn'.active
        PROVE  ApPhases'
    BY <1>1 DEF ApPhases, dlVars
  <1>2. ASSUME Up PROVE ApPhases'
    BY <1>2 DEF ApPhases
  <1>3. CASE Navigate \/ Menu
    <2>1. Strolled
      BY <1>3, NavigateView, MenuView DEF Typed
    <2>2. Still /\ ui' # "LEARN_WAIT"
      BY <2>1 DEF Strolled, Special, Rest
    <2>3. QED
      BY <1>1, <2>2
  <1>4. CASE PressLaunch \/ PressEndAp \/ CaptureEnd \/ WalkShown
    <2>1. Up
      BY <1>4 DEF PressLaunch, PressEndAp, CaptureEnd, WalkShown, RaiseAp, Plain, uiVars
    <2>2. QED
      BY <1>2, <2>1
  <1>5. CASE PressScan \/ PressWalk \/ PressWalkEnd \/ PressLearn \/ PressLearnNow \/ PressLearnCancel
    <2>1. Still
      BY <1>5 DEF PressScan, PressWalk, PressWalkEnd, PressLearn, PressLearnNow, PressLearnCancel
    <2>2. ui' = "LEARN_WAIT" => PressLearnNow
      BY <1>5 DEF PressScan, PressWalk, PressWalkEnd, PressLearn, PressLearnCancel, Plain, uiVars
    <2>3. PressLearnNow => learn'.active
      BY DEF PressLearnNow, ApPhases, Typed, LearnOK
    <2>4. QED
      BY <1>1, <2>1, <2>2, <2>3
  <1>6. CASE WebAfter \/ WebSession \/ WebLearnCancel \/ Expiry \/ Access
    <2>1. ui' = ui
      BY <1>6 DEF WebAfter, WebSession, WebLearnCancel, Expiry, Access, AppUnchanged, uiVars
    <2>2. ui = "DOWNLOAD_ACTIVE"
      BY <1>6 DEF ApPhases, TimerOff, WebAfter, WebSession, WebLearnCancel, WebRequest, Expiry, Timeout, Access, DlTask,
        DlEnable, ApStart, DlDisable, ApStop, DlExtend
    <2>3. QED
      BY <1>2, <2>1, <2>2
  <1>7. CASE TickApGone /\ ~ Woken
    <2>1. apState' = "passive" /\ apQueue' = <<>>
      BY <1>7 DEF TickApGone, ApGone, Woken, dlVars
    <2>2. ui' # "LEARN_WAIT"
      BY <1>7 DEF TickApGone
    <2>3. QED
      BY <2>1, <2>2 DEF ApPhases
  <1>8. CASE TickLearn
    <2>1. learn'.active
      BY <1>8, CountdownView DEF TickLearn, Typed, FlagsOK
    <2>2. ui = "LEARN_WAIT"
      BY <1>8 DEF TickLearn, Phases
    <2>3. QED
      BY <1>1, <1>8, <2>1, <2>2 DEF TickLearn
  <1>9. CASE Watchdog \/ UNCHANGED vars
    BY <1>9 DEF Watchdog, vars, ApPhases, dlVars, uiVars
  <1>10. CASE Notified \/ Boot \/ BleStage \/ ScoreStage \/ Awards \/ LearnPause \/ LearnDone \/ Failure
    <2>1. Still
      BY <1>10 DEF Phases, Notified, Boot, BleStage, ScoreStage, EnterStage, Awards, LearnPause, LearnDone, Failure,
        WifiFails
    <2>2. ui' = "LEARN_WAIT" => LearnPause
      BY <1>10 DEF Phases, Notified, Boot, BleStage, ScoreStage, EnterStage, Awards, LearnDone, Plain, Failure,
        WifiFails, uiVars
    <2>3. LearnPause => learn'.active
      BY DEF LearnPause, Typed, LearnOK
    <2>4. QED
      BY <1>1, <2>1, <2>2, <2>3
  <1>11. CASE ScanDone \/ LearnDoneShown
    <2>1. Up \/ (Still /\ ui' # "LEARN_WAIT")
      BY <1>11 DEF ScanDone, LearnDoneShown, RaiseAp, Plain, Enter, Phases, dlVars
    <2>2. QED
      BY <1>1, <1>2, <2>1
  <1>12. CASE WalkStops \/ CaptureBegin
    <2>1. Still /\ ui' = ui /\ ui # "LEARN_WAIT"
      BY <1>12 DEF WalkStops, CaptureBegin, Phases, uiVars
    <2>2. QED
      BY <1>1, <2>1
  <1>13. QED
    BY <1>3, <1>4, <1>5, <1>6, <1>7, <1>8, <1>9, <1>10, <1>11, <1>12 DEF QuietStep, PressAny, ScanTask, ScanStep,
      CaptureTask

LEMMA StepModal == Typed /\ Modal /\ [Next]_vars => Modal'
  <1> SUFFICES ASSUME Typed, Modal, [Next]_vars PROVE Modal'
    OBVIOUS
  <1>1. TimerOff' /\ Drawn'
    BY TimerStays, DrawnStays DEF Modal
  <1>2. (Calm => Phases)'
    BY PhasesStay DEF Modal
  <1>3. (Undisturbed => ApPhases)'
    BY QuietView, ApStays DEF Modal
  <1>4. QED
    BY <1>1, <1>2, <1>3 DEF Modal

LEMMA InitModal == Init => Modal
  BY DEF Init, DlInit, Modal, TimerOff, Drawn, Calm, Phases, Undisturbed, ApPhases, ActivityModes, NoLearn

LEMMA AlwaysModal == Spec => []Modal
  BY InitModal, StepModal, AlwaysTyped, PTL DEF Spec

\* ui_activity.c: whatever is pressed when, a screen that an activity draws is that of the activity; and as long
\* as nothing disturbs, an activity that is current is shown, so that the next switch does what it should.
THEOREM ActivityCorrect == Spec => []ActivityShown
  <1>1. Typed /\ Modal => ActivityShown
    BY DEF Modal, Drawn, Calm, Phases, Undisturbed, ActivityShown
  <1>2. QED
    BY <1>1, AlwaysTyped, AlwaysModal, PTL

\* app_main.c, download_mode.c: as long as nothing disturbs, the access point is up only under the screen that
\* sees it go down.
THEOREM ApShownCorrect == Spec => []ApShown
  <1>1. Typed /\ Modal => ApShown
    BY DEF Modal, ApPhases, ApShown, IsActive
  <1>2. QED
    BY <1>1, AlwaysTyped, AlwaysModal, PTL

\* app_main.c: the pause between two scans is shown only while its run is on.
THEOREM PauseCorrect == Spec => []PauseCounts
  <1>1. Modal => PauseCounts
    BY DEF Modal, ApPhases, PauseCounts
  <1>2. QED
    BY <1>1, AlwaysModal, PTL

\* app_main.c: scans, captures and the access point exclude each other as long as nothing disturbs, and scans and
\* captures do however the timers race.
THEOREM RadioCorrect == Spec => []RadioExclusive
  <1>1. Typed /\ Modal => RadioExclusive
    <2> SUFFICES ASSUME Typed, Modal PROVE RadioExclusive
      OBVIOUS
    <2>1. Calm => ~(ScanRadio /\ CaptureRadio)
      BY DEF Modal, Phases, ScanRadio, CaptureRadio
    <2>2. Undisturbed => Calm
      BY DEF Undisturbed, Calm
    <2>3. Undisturbed /\ IsActive => ~ ScanRadio /\ ~ CaptureRadio
      BY <2>2 DEF Modal, Phases, ApPhases, IsActive, ScanRadio, CaptureRadio
    <2>4. QED
      BY <2>1, <2>3 DEF RadioExclusive, Calm
  <1>2. QED
    BY <1>1, AlwaysTyped, AlwaysModal, PTL
=============================================================================
