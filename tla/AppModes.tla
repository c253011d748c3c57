------------------------------ MODULE AppModes ------------------------------
(***************************************************************************)
(* The tasks of the standalone firmware that share one radio and one       *)
(* screen: scan_task, capture_task, button_task, rescan_watchdog_task, the *)
(* one-second tick and the web handlers of src/main/app_main.c, over the   *)
(* access point of DownloadMode.  They talk through the mode of the screen,*)
(* a dozen flags, two task notifications and the queue of dl_task.         *)
(*                                                                         *)
(* What happens under s_state_mutex is one step.  A click, a double click  *)
(* and a hold are told apart by what they do; the row under a cursor, the  *)
(* Lite/Adv and Auto AP settings and the length of a list are any; a press *)
(* that only moves a cursor or a page, and the screensaver, are left out.  *)
(* PROBE_PANEL stands for PROBE_LOG, SEQ_LINK, IE_SIG and ANQP_LEAK, which *)
(* differ in what they draw.                                               *)
(***************************************************************************)
EXTENDS DownloadMode

CONSTANT
  Budgets   \* bounds, of which a behaviour has one:
            \*   screens    the modes the user may navigate to
            \*   scans      the scans of a learn run, at most
            \*   requests   requests of web clients
            \*   commands   commands on the USB console
            \*   failures   Wi-Fi scans that fail
            \*   races      timer callbacks and rounds of the watchdog that come before a task has run that
            \*              somebody has just woken
            \*   early      presses while scan_task shows what a scan has earned, or before a request for a
            \*              scan has come from the watchdog to scan_task, which takes 200 ms
            \*   spent      which of these have happened

ASSUME AppBoundsAssumption ==
  Budgets \subseteq [screens : SUBSET STRING, scans : Nat \ {0}, requests : Nat, commands : Nat,
                     failures : Nat, races : Nat, early : Nat, spent : {{}}]

VARIABLES
  ui,           \* s_ui_mode
  activity,     \* s_current of ui_activity.c
  menuDepth,    \* s_menu_depth
  scanValid,    \* s_scan_valid
  scanPc,       \* where scan_task is
  scanNotified, \* a notification is pending for scan_task
  capPc,        \* where capture_task is
  capNotified,
  force,        \* s_force_rescan
  walkReq,      \* s_walk_requested
  walkEnd,      \* s_walk_end_requested
  after,        \* the s_*_after_dl flags that are set
  relaunch,     \* s_web_ap_relaunch
  learn,        \* s_learn and the run of env_learn.c: [active, countdown, left]
  budget        \* what is left of it

uiVars      == <<ui, activity, menuDepth>>
scanVars    == <<scanValid, scanPc, scanNotified>>
capVars     == <<capPc, capNotified>>
flagVars    == <<force, walkReq, walkEnd, after, relaunch>>
vars == <<dlVars, uiVars, scanVars, capVars, flagVars, learn, budget>>

None == "none"
LongPause == 2   \* the countdown between two scans of a learn run, in ticks
Spend(what) ==
  budget[what] > 0 /\ budget' = [budget EXCEPT ![what] = @ - 1, !.spent = @ \cup {what}]
NoLearn == [active |-> FALSE, countdown |-> 0, left |-> 0]

\* the modes an activity of MENU_ACTIVITY draws; the activity has the mode's name
ActivityModes == {"OPTIONS", "WIFI_LIST", "BLE_LIST", "DETAILS_WIFI", "DETAILS_BLE", "ENV_SUMMARY", "CREDITS"}

Init ==
  /\ DlInit
  /\ ui = "MAIN" /\ activity = None /\ menuDepth = 0
  /\ scanValid = FALSE /\ scanPc = "boot" /\ scanNotified = FALSE
  /\ capPc = "wait" /\ capNotified = FALSE
  /\ force = FALSE /\ walkReq = FALSE /\ walkEnd = FALSE /\ after = {} /\ relaunch = FALSE
  /\ learn = NoLearn
  /\ budget \in Budgets

----------------------------------------------------------------------------
(* ui_activity_switch.  The activities of MENU_ACTIVITY set their mode when *)
(* they are entered and do nothing when they are left.                      *)

Enter(mode) == activity' = mode /\ ui' = IF activity = mode THEN ui ELSE mode

PlainStale(mode) == activity' = activity /\ ui' = mode   \* mutant: ui_activity_switch(NULL) is forgotten

Plain(mode) == activity' = None /\ ui' = mode

RaiseApHidden == Plain("ENV_SUMMARY") /\ Send("enable")   \* mutant: the summary is shown instead

RaiseApLost == Plain("DOWNLOAD_ACTIVE") /\ UNCHANGED apQueue   \* mutant: the request is forgotten

RaiseAp == Plain("DOWNLOAD_ACTIVE") /\ Send("enable")

LearnBegin(scans) == learn' = [active |-> TRUE, countdown |-> 0, left |-> scans]

LearnFinish == learn' = IF learn.active THEN NoLearn ELSE learn

----------------------------------------------------------------------------
(* button_task *)

PlainEdges ==
  {"ENV_SUMMARY"} \X {"MAIN", "PUP"} \cup {"OPTIONS"} \X {"PROBE_PANEL", "PUP", "MAIN"}
    \cup {<<"MAIN", "LEARN_CONFIRM">>, <<"BLE_LIST", "BLE_CLASSES">>}

ActivityEdges ==
  {"WIFI_LIST", "BLE_LIST", "BLE_CLASSES", "PROBE_PANEL", "MAIN"} \X {"OPTIONS"}
    \cup {"OPTIONS"} \X {"WIFI_LIST", "BLE_LIST"}
    \cup {<<"PUP", "ENV_SUMMARY">>, <<"WIFI_LIST", "DETAILS_WIFI">>, <<"DETAILS_WIFI", "WIFI_LIST">>,
          <<"BLE_LIST", "DETAILS_BLE">>, <<"DETAILS_BLE", "BLE_LIST">>}

ModeEdges ==   \* s_ui_mode alone is set
  LET BackAndForth == {<<"PUP", "PUP_INTERACT">>, <<"PUP_INTERACT", "PUP_DIG">>,
                       <<"PUP_INTERACT", "PUP_TROPHIES">>, <<"PUP_TROPHIES", "PUP_TROPHY_DETAIL">>,
                       <<"PROBE_PANEL", "PROBE_EXPLORE">>, <<"PROBE_EXPLORE", "PROBE_DIG">>,
                       <<"BLE_CLASSES", "BLE_EXPLORE">>, <<"BLE_EXPLORE", "BLE_DIG">>}
  IN BackAndForth \cup {<<e[2], e[1]>> : e \in BackAndForth} \cup {<<"LEARN_CONFIRM", "MAIN">>}

Navigate ==
  /\ \/ \E e \in PlainEdges : ui = e[1] /\ Plain(e[2])
     \/ \E e \in ActivityEdges : ui = e[1] /\ Enter(e[2])
     \/ \E e \in ModeEdges : ui = e[1] /\ ui' = e[2] /\ UNCHANGED activity
     \/ ui = "MAIN" /\ scanValid /\ Enter("ENV_SUMMARY")
     \/ ui = "OPTIONS" /\ (IF scanValid THEN activity' = "ENV_SUMMARY" /\ ui' = "ENV_SUMMARY" ELSE Plain("MAIN"))
  /\ ui' \in budget.screens
  /\ UNCHANGED <<dlVars, menuDepth, scanVars, capVars, flagVars, learn>>

\* menu_open_root, menu_push, menu_pop, menu_activate and menu_return_from_leaf; the menu of depth 1 is
\* SETTINGS, 2 DEVICE, 3 LIGHTS
Menu ==
  /\ \/ ui = "MAIN" /\ menuDepth' = 1 /\ Plain("MENU")
     \/ ui = "MENU" /\ menuDepth \in {1, 2} /\ menuDepth' = menuDepth + 1 /\ UNCHANGED <<ui, activity>>
     \/ ui = "MENU" /\ menuDepth > 1 /\ menuDepth' = menuDepth - 1 /\ UNCHANGED <<ui, activity>>
     \/ ui = "MENU" /\ menuDepth <= 1 /\ menuDepth' = 0 /\ ui' = "MAIN" /\ UNCHANGED activity
     \/ ui = "MENU" /\ menuDepth = 1 /\ ui' = "DOWNLOAD_CONFIRM" /\ UNCHANGED <<activity, menuDepth>>
     \/ ui = "MENU" /\ menuDepth = 2 /\ Enter("CREDITS") /\ UNCHANGED menuDepth
     \/ /\ ui \in {"DOWNLOAD_CONFIRM", "CREDITS"}
        /\ Plain(IF menuDepth > 0 THEN "MENU" ELSE "MAIN")
        /\ UNCHANGED menuDepth
  /\ ui' \in budget.screens
  /\ UNCHANGED <<dlVars, scanVars, capVars, flagVars, learn>>

PressLaunch ==   \* the double click of DOWNLOAD_CONFIRM
  /\ ui = "DOWNLOAD_CONFIRM"
  /\ Send("enable") /\ ui' = "DOWNLOAD_ACTIVE"
  /\ UNCHANGED <<apState, apTimer, activity, menuDepth, scanVars, capVars, flagVars, learn>>

PressEndAp ==   \* the hold of DOWNLOAD_ACTIVE
  /\ ui = "DOWNLOAD_ACTIVE"
  /\ Send("disable")
  /\ UNCHANGED <<apState, apTimer, uiVars, scanVars, capVars, flagVars, learn>>

PressScan ==
  /\ \/ ui = "ENV_SUMMARY" /\ Plain("SCANNING")
     \/ ui = "MAIN" /\ ui' = "SCANNING" /\ UNCHANGED activity
  /\ force' = TRUE
  /\ UNCHANGED <<dlVars, menuDepth, scanVars, capVars, walkReq, walkEnd, after, relaunch, learn>>

PressWalk ==
  /\ ui = "PUP"
  /\ ui' = "WALK" /\ walkReq' = TRUE /\ force' = TRUE
  /\ UNCHANGED <<dlVars, activity, menuDepth, scanVars, capVars, walkEnd, after, relaunch, learn>>

PressWalkEnd ==
  /\ ui = "WALK"
  /\ walkEnd' = TRUE
  /\ UNCHANGED <<dlVars, uiVars, scanVars, capVars, force, walkReq, after, relaunch, learn>>

PressLearn ==
  /\ ui = "LEARN_CONFIRM"
  /\ \E n \in 1..budget.scans : LearnBegin(n)
  /\ ui' = "SCANNING" /\ force' = TRUE
  /\ UNCHANGED <<dlVars, activity, menuDepth, scanVars, capVars, walkReq, walkEnd, after, relaunch>>

PressLearnNow ==
  /\ ui = "LEARN_WAIT"
  /\ learn' = [learn EXCEPT !.countdown = 1]
  /\ UNCHANGED <<dlVars, uiVars, scanVars, capVars, flagVars>>

PressLearnCancel ==
  /\ ui = "LEARN_WAIT"
  /\ LearnFinish /\ ui' = "MAIN"
  /\ UNCHANGED <<dlVars, activity, menuDepth, scanVars, capVars, flagVars>>

PressAny ==
  \/ Navigate \/ Menu \/ PressLaunch \/ PressEndAp \/ PressScan \/ PressWalk \/ PressWalkEnd
  \/ PressLearn \/ PressLearnNow \/ PressLearnCancel

Early == scanPc \in {"boot", "awards", "learnDone"} \/ force \/ scanNotified

Press == ~ Early /\ PressAny /\ UNCHANGED budget
PressEarly == Early /\ PressAny /\ Spend("early")

----------------------------------------------------------------------------
(* Web handlers: the server answers as long as ap_stop has not taken it    *)
(* down, which waits for the handler that runs.                            *)

WebRequest == apState \in {"active", "stopping"} /\ ~ Early /\ Spend("requests")

WebAfter ==   \* app_request_*_after_download
  /\ WebRequest
  /\ \E what \in {"scan", "walk", "learn", "capture"} :
       /\ IF what = "learn"
          THEN ~ learn.active /\ \E n \in 1..budget.scans : LearnBegin(n)
          ELSE UNCHANGED learn
       /\ after' = after \cup {what}
  /\ Send("disable")
  /\ UNCHANGED <<apState, apTimer, uiVars, scanVars, capVars, force, walkReq, walkEnd, relaunch>>

WebSession ==   \* disable_post, extend_post
  /\ WebRequest
  /\ \/ Send("disable")
     \/ apState = "active" /\ apTimer /\ Send("extend")
  /\ UNCHANGED <<apState, apTimer, uiVars, scanVars, capVars, flagVars, learn>>

WebLearnCancel ==
  /\ WebRequest /\ LearnFinish
  /\ UNCHANGED <<dlVars, uiVars, scanVars, capVars, flagVars>>

----------------------------------------------------------------------------
(* The USB console *)

UsbCommand == Spend("commands")

UsbLearn ==
  /\ UsbCommand
  /\ \E n \in 1..budget.scans : LearnBegin(n)
  /\ force' = TRUE
  /\ UNCHANGED <<dlVars, uiVars, scanVars, capVars, walkReq, walkEnd, after, relaunch>>

UsbLearnCancel ==
  /\ UsbCommand /\ LearnFinish
  /\ UNCHANGED <<dlVars, uiVars, scanVars, capVars, flagVars>>

----------------------------------------------------------------------------
(* rescan_watchdog_task and dl_tick_cb *)

WatchdogDrops ==   \* mutant: nobody is notified
  /\ force
  /\ force' = FALSE
  /\ UNCHANGED <<dlVars, uiVars, scanVars, capVars, walkReq, walkEnd, after, relaunch, learn>>

Watchdog ==
  /\ force
  /\ force' = FALSE
  /\ scanNotified' = (scanNotified \/ ~ IsActive)
  /\ UNCHANGED <<dlVars, uiVars, scanValid, scanPc, capVars, walkReq, walkEnd, after, relaunch, learn>>

\* the first of these that was asked for is done when the access point is down
Order == <<"scan", "walk", "learn", "capture">>
Due(what) == \E i \in 1..4 : Order[i] = what /\ what \in after /\ \A j \in 1..(i - 1) : Order[j] \notin after

CountdownDeaf(forceBefore) ==   \* mutant: the scan that follows the pause is not asked for
  /\ learn' = IF learn.active /\ learn.countdown > 0 THEN [learn EXCEPT !.countdown = @ - 1] ELSE learn
  /\ force' = forceBefore

\* the countdown of a learn run, in the same callback
Countdown(forceBefore) ==
  IF learn.active /\ learn.countdown > 0 /\ ~ IsActive
  THEN /\ learn' = [learn EXCEPT !.countdown = @ - 1]
       /\ force' = (forceBefore \/ learn.countdown = 1)
  ELSE learn' = learn /\ force' = forceBefore

ApGoing == ui = "DOWNLOAD_ACTIVE" /\ apState \in {"passive", "stopping"}   \* mutant: too early

ApGone == ui = "DOWNLOAD_ACTIVE" /\ apState = "passive"

TickApGone ==
  /\ ApGone
  /\ \/ /\ Due("scan") \/ Due("learn")
        /\ relaunch' = TRUE /\ ui' = "SCANNING" /\ Countdown(TRUE)
        /\ UNCHANGED <<walkReq, capNotified>>
     \/ /\ Due("walk")
        /\ walkReq' = TRUE /\ ui' = "WALK" /\ Countdown(TRUE)
        /\ UNCHANGED <<relaunch, capNotified>>
     \/ /\ Due("capture")
        /\ capNotified' = TRUE /\ ui' = "SCANNING" /\ Countdown(force)
        /\ UNCHANGED <<relaunch, walkReq>>
     \/ /\ after = {}
        /\ ui' = "MAIN" /\ Countdown(force)
        /\ UNCHANGED <<relaunch, walkReq, capNotified>>
  /\ after' = {what \in after : ~ Due(what)}
  /\ UNCHANGED <<dlVars, activity, menuDepth, scanVars, capPc, walkEnd>>

TickLearn ==
  /\ ~ ApGone /\ learn.active /\ learn.countdown > 0 /\ ~ IsActive
  /\ Countdown(force)
  /\ UNCHANGED <<dlVars, uiVars, scanVars, capVars, walkReq, walkEnd, after, relaunch>>

----------------------------------------------------------------------------
(* scan_task *)

Boot ==
  /\ scanPc = "boot"
  /\ \E scans \in BOOLEAN :   \* s_boot_scan_enabled
       IF scans THEN scanPc' = "wifi" /\ ui' = "SCANNING" ELSE scanPc' = "wait" /\ ui' = "MAIN"
  /\ UNCHANGED <<dlVars, activity, menuDepth, scanValid, scanNotified, capVars, flagVars, learn, budget>>

Notified ==   \* up to the first stage of do_scan, or the end of walk_on_enter
  /\ scanPc = "wait" /\ scanNotified
  /\ scanNotified' = FALSE
  /\ IF walkReq
     THEN walkReq' = FALSE /\ walkEnd' = FALSE /\ scanPc' = "walk" /\ activity' = "walk" /\ ui' = "WALK"
     ELSE scanPc' = "wifi" /\ ui' = "SCANNING" /\ UNCHANGED <<walkReq, walkEnd, activity>>
  /\ UNCHANGED <<dlVars, menuDepth, scanValid, capVars, force, after, relaunch, learn, budget>>

WifiFails ==   \* do_scan returns
  /\ scanPc = "wifi" /\ Spend("failures")
  /\ scanPc' = "wait"
  /\ UNCHANGED <<dlVars, uiVars, scanValid, scanNotified, capVars, flagVars, learn>>

EnterStage(from, to) == scanPc = from /\ scanPc' = to /\ ui' = "SCANNING"

BleStage ==
  /\ EnterStage("wifi", "ble")
  /\ UNCHANGED <<dlVars, activity, menuDepth, scanValid, scanNotified, capVars, flagVars, learn, budget>>

ScoreStage ==   \* and env_learn_scan_end
  /\ EnterStage("ble", "score")
  /\ learn' = [learn EXCEPT !.left = IF @ > 0 THEN @ - 1 ELSE 0]
  /\ UNCHANGED <<dlVars, activity, menuDepth, scanValid, scanNotified, capVars, flagVars, budget>>

Awards ==   \* level-up and trophies are shown for some seconds, in mode MAIN
  /\ scanPc = "score"
  /\ scanPc' = "awards" /\ ui' = "MAIN"
  /\ UNCHANGED <<dlVars, activity, menuDepth, scanValid, scanNotified, capVars, flagVars, learn, budget>>

\* The results are published, and what follows is decided, before any other task of the screen may run:
\* scan_task has the highest priority of them.

ScanDone ==
  /\ scanPc = "awards" /\ ~ learn.active
  /\ \E auto \in BOOLEAN :   \* the Auto AP setting in Adv mode
       IF auto \/ relaunch
       THEN RaiseAp
       ELSE activity' = "ENV_SUMMARY" /\ ui' = "ENV_SUMMARY" /\ UNCHANGED apQueue
  /\ relaunch' = FALSE
  /\ scanPc' = "wait" /\ scanValid' = TRUE
  /\ UNCHANGED <<apState, apTimer, menuDepth, scanNotified, capVars, force, walkReq, walkEnd, after, learn, budget>>

LearnPause ==   \* learn_after_scan with scans left
  /\ scanPc = "awards" /\ learn.active /\ learn.left > 0
  /\ learn' = [learn EXCEPT !.countdown = LongPause]
  /\ Plain("LEARN_WAIT")
  /\ scanPc' = "wait" /\ scanValid' = TRUE
  /\ UNCHANGED <<dlVars, menuDepth, scanNotified, capVars, flagVars, budget>>

LearnDone ==   \* learn_after_scan without; "learned" is shown for some seconds
  /\ scanPc = "awards" /\ learn.active /\ learn.left = 0
  /\ LearnFinish
  /\ Plain("ENV_SUMMARY")
  /\ scanPc' = "learnDone" /\ scanValid' = TRUE
  /\ UNCHANGED <<dlVars, menuDepth, scanNotified, capVars, flagVars, budget>>

LearnDoneShown ==
  /\ scanPc = "learnDone"
  /\ IF relaunch THEN RaiseAp ELSE Enter("ENV_SUMMARY") /\ UNCHANGED apQueue
  /\ relaunch' = FALSE
  /\ scanPc' = "wait"
  /\ UNCHANGED <<apState, apTimer, menuDepth, scanValid, scanNotified, capVars, force, walkReq, walkEnd, after, learn, budget>>

WalkStops ==   \* the hold, or WALK_MAX_SEC
  /\ scanPc = "walk"
  /\ scanPc' = "walkEnd"
  /\ UNCHANGED <<dlVars, uiVars, scanValid, scanNotified, capVars, flagVars, learn, budget>>

WalkShown ==   \* the rest of walk_on_exit
  /\ scanPc = "walkEnd"
  /\ RaiseAp
  /\ scanPc' = "wait"
  /\ UNCHANGED <<apState, apTimer, menuDepth, scanValid, scanNotified, capVars, flagVars, learn, budget>>

ScanStep ==
  \/ Boot \/ BleStage \/ ScoreStage \/ Awards \/ ScanDone
  \/ LearnPause \/ LearnDone \/ LearnDoneShown \/ WalkStops \/ WalkShown

----------------------------------------------------------------------------
(* capture_task *)

CaptureBegin ==
  /\ capPc = "wait" /\ capNotified
  /\ capPc' = "run" /\ capNotified' = FALSE
  /\ UNCHANGED <<dlVars, uiVars, scanVars, flagVars, learn, budget>>

CaptureEnd ==   \* ui_activity_switch is not called
  /\ capPc = "run"
  /\ capPc' = "wait" /\ ui' = "DOWNLOAD_ACTIVE" /\ Send("enable")
  /\ UNCHANGED <<apState, apTimer, activity, menuDepth, scanVars, capNotified, flagVars, learn, budget>>

----------------------------------------------------------------------------

(* A task that waits for a notification or a command runs as soon as it is  *)
(* woken, long before anything that takes time is over: the exceptions are  *)
(* counted as races.                                                        *)

AppUnchanged == UNCHANGED <<uiVars, scanVars, capVars, flagVars, learn>>

Woken == \/ scanPc = "wait" /\ scanNotified
         \/ capPc = "wait" /\ capNotified
         \/ apState \in {"passive", "active"} /\ apQueue # <<>>

Access == DlTask /\ AppUnchanged /\ UNCHANGED budget

Clock(Callback) == Callback /\ IF Woken THEN Spend("races") ELSE UNCHANGED budget
Expiry == Timeout /\ AppUnchanged
Clocks == Clock(Watchdog) \/ Clock(TickApGone) \/ Clock(TickLearn) \/ Clock(Expiry)

People == ~ Woken /\ (Press \/ PressEarly \/ WebAfter \/ WebSession \/ WebLearnCancel \/ UsbLearn \/ UsbLearnCancel)

ScanTask == Notified \/ (~ Woken /\ ScanStep)
Failure == ~ Woken /\ WifiFails
CaptureTask == CaptureBegin \/ (~ Woken /\ CaptureEnd)

Next == Access \/ Clocks \/ People \/ ScanTask \/ Failure \/ CaptureTask

Spec == Init /\ [][Next]_vars

\* Every task is scheduled, every timer fires, and nobody presses the button so fast that a tick never finds
\* the tasks at rest; people need not do anything.
Fairness ==
  /\ WF_vars(Access) /\ WF_vars(ScanTask) /\ WF_vars(CaptureTask)
  /\ SF_vars(Clock(Watchdog)) /\ SF_vars(Clock(TickApGone)) /\ SF_vars(Clock(TickLearn)) /\ SF_vars(Clock(Expiry))
FairSpec == Spec /\ Fairness

----------------------------------------------------------------------------
(* Properties *)

Modes == {"SCANNING", "WALK", "DOWNLOAD_ACTIVE", "DOWNLOAD_CONFIRM", "MENU", "LEARN_WAIT"}
           \cup ActivityModes \cup {e[i] : e \in PlainEdges \cup ModeEdges, i \in {1, 2}}

\* Every variable holds a value the code gives it, and the queue of dl_task never has more than its depth.
TypeOK ==
  /\ apState \in {"passive", "starting", "active", "stopping"} /\ apTimer \in BOOLEAN
  /\ apQueue \in Seq(Commands) /\ Len(apQueue) <= QueueDepth
  /\ ui \in Modes /\ activity \in ActivityModes \cup {None, "walk"} /\ menuDepth \in 0..3
  /\ scanPc \in {"boot", "wait", "wifi", "ble", "score", "awards", "learnDone", "walk", "walkEnd"}
  /\ capPc \in {"wait", "run"}
  /\ {scanValid, scanNotified, capNotified, force, walkReq, walkEnd, relaunch} \subseteq BOOLEAN
  /\ after \subseteq {"scan", "walk", "learn", "capture"}
  /\ learn \in [active : BOOLEAN, countdown : 0..LongPause, left : Nat]

ScanRadio == scanPc \in {"wifi", "ble", "walk"}
CaptureRadio == capPc = "run"

\* nothing came in one of the short windows the code leaves open, or past the screen
Undisturbed == budget.spent \cap {"races", "early", "commands"} = {}
Sound == Undisturbed /\ "failures" \notin budget.spent

\* One radio: a scan or a walk, a capture and the access point exclude each other, although no lock says so
\* and do_scan, capture_task and dl_task never look at each other (a race of the timers alone is not enough
\* to bring a scan and a capture together).
RadioExclusive ==
  /\ ScanRadio /\ CaptureRadio => budget.spent \cap {"early", "commands"} # {}
  /\ IsActive /\ (ScanRadio \/ CaptureRadio) => ~ Undisturbed

\* While the access point is up, or about to be, the screen is in the one mode in which dl_tick_cb sees it go
\* down and the button can end it.
ApShown == Undisturbed /\ (IsActive \/ "enable" \in {apQueue[i] : i \in DOMAIN apQueue}) => ui = "DOWNLOAD_ACTIVE"

\* s_current and s_ui_mode agree, or else the next ui_activity_switch to a screen returns early and the
\* press is dead; the walk's on_exit, which takes s_state_mutex, is left to scan_task.
ActivityShown ==
  /\ ui \in ActivityModes /\ scanPc # "learnDone" => activity = ui
  /\ Undisturbed /\ activity # None => ui = IF activity = "walk" THEN "WALK" ELSE activity

\* The screen of the pause between two scans is up only while the run it counts down is on.
PauseCounts == Undisturbed /\ ui = "LEARN_WAIT" => learn.active

\* The screens without a way out of their own are left: a scan, a walk and a session of the access point end.
ScreensEnd ==
  \A mode \in {"SCANNING", "WALK", "DOWNLOAD_ACTIVE"} : (ui = mode /\ Sound) ~> (ui # mode \/ ~ Sound)

\* A scan asked for in the browser is made, and the access point comes back ("then relaunches").
WebScanComesBack ==
  ("scan" \in after /\ ~ learn.active /\ Sound) ~> (apState = "starting" \/ learn.active \/ ~ Sound)

\* A learn run, whoever started it, ends: by its last scan or a cancel.
LearnEnds == (learn.active /\ Sound) ~> (~ learn.active \/ ~ Sound)

\* A session of the access point ends even if nobody ends it and whatever was queued; the disable of its
\* timer is sent once.
ApEnds == apState = "active" ~> apState = "passive"
=============================================================================
