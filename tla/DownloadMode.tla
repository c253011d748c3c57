---------------------------- MODULE DownloadMode ----------------------------
(***************************************************************************)
(* The access point of the standalone firmware: src/main/download_mode.c.  *)
(* Anybody may ask for it to be raised, dropped or prolonged; a request is *)
(* a command in a short queue, and is lost without a word when the queue is*)
(* full.  dl_task carries the commands out one by one, as far as they make *)
(* sense in the state it finds.  A one-shot timer ends the session.        *)
(*                                                                         *)
(* The session's deadline is kept as "the timer is armed"; channel, name,  *)
(* passphrase and the number of clients are left out.                      *)
(***************************************************************************)
EXTENDS Naturals, Sequences

CONSTANT
  QueueDepth   \* of s_queue

ASSUME QueueDepthAssumption == QueueDepth \in Nat \ {0}

VARIABLES
  apState,   \* s_state
  apQueue,   \* s_queue
  apTimer    \* s_timeout_timer is armed

dlVars == <<apState, apQueue, apTimer>>

Commands == {"enable", "disable", "extend"}

DlInit == apState = "passive" /\ apQueue = <<>> /\ apTimer = FALSE

SendBlocking(cmd) == apQueue' = Append(apQueue, cmd)   \* mutant: the bound of the queue is forgotten

Send(cmd) == apQueue' = IF Len(apQueue) = QueueDepth THEN apQueue ELSE Append(apQueue, cmd)

IsActive == apState # "passive"   \* download_mode_is_active

----------------------------------------------------------------------------
(* dl_task.  ap_start and ap_stop take their time: the state they pass     *)
(* through is seen by the other tasks, and no command is read meanwhile.   *)

DlEnable ==
  /\ apState \in {"passive", "active"} /\ apQueue # <<>> /\ Head(apQueue) = "enable"
  /\ apQueue' = Tail(apQueue)
  /\ apState' = IF apState = "passive" THEN "starting" ELSE apState
  /\ UNCHANGED apTimer

ApStart ==   \* the rest of ap_start
  /\ apState = "starting"
  /\ apState' = "active" /\ apTimer' = TRUE
  /\ UNCHANGED apQueue

DlDisable ==
  /\ apState \in {"passive", "active"} /\ apQueue # <<>> /\ Head(apQueue) = "disable"
  /\ apQueue' = Tail(apQueue)
  /\ apState' = IF apState = "active" THEN "stopping" ELSE apState
  /\ UNCHANGED apTimer

ApStop ==   \* the rest of ap_stop
  /\ apState = "stopping"
  /\ apState' = "passive" /\ apTimer' = FALSE
  /\ UNCHANGED apQueue

DlExtendEnds ==   \* mutant: the timer is stopped and not started again
  /\ apState \in {"passive", "active"} /\ apQueue # <<>> /\ Head(apQueue) = "extend"
  /\ apQueue' = Tail(apQueue)
  /\ apTimer' = FALSE
  /\ UNCHANGED apState

DlExtend ==   \* ap_extend
  /\ apState \in {"passive", "active"} /\ apQueue # <<>> /\ Head(apQueue) = "extend"
  /\ apQueue' = Tail(apQueue)
  /\ apTimer' = (apTimer \/ apState = "active")
  /\ UNCHANGED apState

DlTask == DlEnable \/ ApStart \/ DlDisable \/ ApStop \/ DlExtend

Timeout ==   \* timeout_cb
  /\ apTimer
  /\ apTimer' = FALSE
  /\ Send("disable")
  /\ UNCHANGED apState
=============================================================================
