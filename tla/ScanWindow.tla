----------------------------- MODULE ScanWindow -----------------------------
(***************************************************************************)
(* The scan window of a cluster: the brain's bus_task (brain_main.c) and   *)
(* the scan_task of every arm (arm_main.c), joined by an I2C bus that may  *)
(* lose a transfer.                                                        *)
(*                                                                         *)
(* One round of bus_task is: poll every arm in pool order, ingesting a     *)
(* scanset that is new; take the requests of the web and menu tasks;       *)
(* refresh the roster, re-planning if it changed; close the merge window   *)
(* if everyone present has delivered or it is late; broadcast SCAN if one  *)
(* is wanted.  Arms, users and faults interleave with the sections of a    *)
(* round.                                                                  *)
(*                                                                         *)
(* Time is abstract.  quiet[a] counts the rounds since the last valid      *)
(* status of a, up to QuietRounds, which stands for ARM_PRESENT_US; late   *)
(* says that more than MERGE_WAIT_US have passed since SCAN was broadcast. *)
(***************************************************************************)
EXTENDS ChannelPlan, TLC

CONSTANTS
    QuietRounds,  \* rounds without a status after which an arm is not present
    MergedArms,   \* the arms do_merge reads: ai < 2
    MaxBoots,     \* bound: how often each arm is powered on
    MaxResets,    \* bound: how often the brain restarts
    MaxWindows,   \* bound: how many times SCAN is broadcast
    MaxFaults,    \* bound: how many transfers to a live arm fail
    UserRequests, \* bound: what the web and menu tasks ask for
    LocateModes   \* bound: whether locate mode is used (BOOLEAN) or not ({FALSE})

ASSUME QuietAssumption == QuietRounds \in Nat \ {0}
ASSUME MergedArmsAssumption == MergedArms \subseteq Arms
ASSUME BudgetAssumption == /\ MaxBoots \in [Arms -> Nat]
                           /\ MaxResets \in Nat /\ MaxFaults \in Nat
                           /\ MaxWindows \in Nat
ASSUME RequestAssumption == /\ UserRequests \subseteq {"scan", "walk", "stop"}
                            /\ LocateModes \subseteq BOOLEAN

VARIABLES
    \* an arm (arm_main.c)
    mode,       \* where scan_task is: "off", "boot", "idle" or "scan"
    seq,        \* s_status.scan_seq
    ready,      \* s_status.scanset_ready
    reqScan,    \* s_req_scan, set by the receive ISR
    plan,       \* the plan in force (s_plan_slot, s_plan_narms)
    pend,       \* s_pending_plan while s_have_plan, else NoPlan
    \* the brain, per arm (arm_link_t, arm_slot_t)
    quiet,      \* rounds since last_ok_us
    lastIngest, \* last_ingest_seq
    present,    \* present
    book,       \* slot and of while planned, else NoPlan
    have,       \* have
    buf,        \* what buf[0 .. len) holds: "empty", "fresh", "merged", "torn"
    \* the brain, once
    pc,         \* the section of bus_task it is in
    cur,        \* the arm being polled
    seen,       \* the scan_seq of the status just read
    taken,      \* the local req
    inflight,   \* scan_inflight
    late,       \* now - scan_started_us > MERGE_WAIT_US
    walking,    \* s_walking
    rescan,     \* s_rescan_once
    bootScanned,\* s_boot_scanned
    locating,   \* s_loc_active
    req,        \* s_req, written by the web and menu tasks
    \* what is left of the bounds
    boots, resets, faults, windows

armVars   == <<mode, seq, ready, reqScan, plan, pend>>
linkVars  == <<quiet, lastIngest, present, book, have, buf>>
roundVars == <<pc, cur, seen, taken>>
scanVars  == <<inflight, late, walking, rescan, bootScanned, locating>>
budgets   == <<boots, resets, faults, windows>>
vars      == <<armVars, linkVars, roundVars, scanVars, req, budgets>>

NoPlan == [slot |-> 0, of |-> 0]

Modes    == {"off", "boot", "idle", "scan"}
Contents == {"empty", "fresh", "merged", "torn"}
Sections == {"poll", "ingest", "control", "clear", "roster", "window", "scan"}
Requests == {"none", "scan", "walk", "stop"}

Up(a) == mode[a] # "off"

\* A transfer to or from an arm: it needs a live arm, and a fault may still
\* make it fail.  ESP_OK from i2c_master_transmit means the ISR has the frame.
Answers(a)  == Up(a) /\ UNCHANGED faults
Silent(a)   == \/ ~Up(a) /\ UNCHANGED faults
               \/ Up(a) /\ faults > 0 /\ faults' = faults - 1

\* A frame sent to each arm of S: got is the set of arms that received it.
Delivered(S, got) ==
    LET live == {a \in S : Up(a)} IN
    /\ got \subseteq live
    /\ Cardinality(live \ got) <= faults
    /\ faults' = faults - Cardinality(live \ got)

----------------------------------------------------------------------------
\* Every board is off but the brain; arms are powered on in any order.
Init ==
    /\ mode = [a \in Arms |-> "off"]
    /\ seq = [a \in Arms |-> 0]
    /\ ready = [a \in Arms |-> FALSE]
    /\ reqScan = [a \in Arms |-> FALSE]
    /\ plan = [a \in Arms |-> Whole]
    /\ pend = [a \in Arms |-> NoPlan]
    /\ quiet = [a \in Arms |-> QuietRounds]
    /\ lastIngest = [a \in Arms |-> 0]
    /\ present = [a \in Arms |-> FALSE]
    /\ book = [a \in Arms |-> NoPlan]
    /\ have = [a \in Arms |-> FALSE]
    /\ buf = [a \in Arms |-> "empty"]
    /\ pc = "poll" /\ cur = 0 /\ seen = 0 /\ taken = "none"
    /\ inflight = FALSE /\ late = FALSE
    /\ walking = FALSE /\ rescan = FALSE /\ bootScanned = FALSE
    /\ locating = FALSE
    /\ req = "none"
    /\ boots = MaxBoots /\ resets = MaxResets /\ faults = MaxFaults
    /\ windows = MaxWindows

----------------------------------------------------------------------------
(* An arm. *)

\* The boot scan starts at once: scan_seq is 0 and the plan the whole union.
PowerOn(a) ==
    /\ ~Up(a) /\ boots[a] > 0
    /\ boots' = [boots EXCEPT ![a] = @ - 1]
    /\ mode' = [mode EXCEPT ![a] = "boot"]
    /\ UNCHANGED <<seq, ready, reqScan, plan, pend>>
    /\ UNCHANGED <<linkVars, roundVars, scanVars, req, resets, faults, windows>>

\* Unplugged, or the first half of esp_restart: the RAM is lost.
PowerOff(a) ==
    /\ Up(a)
    /\ mode' = [mode EXCEPT ![a] = "off"]
    /\ seq' = [seq EXCEPT ![a] = 0]
    /\ ready' = [ready EXCEPT ![a] = FALSE]
    /\ reqScan' = [reqScan EXCEPT ![a] = FALSE]
    /\ plan' = [plan EXCEPT ![a] = Whole]
    /\ pend' = [pend EXCEPT ![a] = NoPlan]
    /\ UNCHANGED <<linkVars, roundVars, scanVars, req, budgets>>

\* arm_scan_run returns: pack_scanset always packs at least the header record.
FinishScan(a) ==
    /\ mode[a] \in {"boot", "scan"}
    /\ mode' = [mode EXCEPT ![a] = "idle"]
    /\ seq' = [seq EXCEPT ![a] = @ + 1]
    /\ ready' = [ready EXCEPT ![a] = TRUE]
    /\ UNCHANGED <<reqScan, plan, pend>>
    /\ UNCHANGED <<linkVars, roundVars, scanVars, req, budgets>>

\* One turn of the loop of scan_task: first the plan, then the scan.
Turn(a) ==
    /\ mode[a] = "idle"
    /\ pend[a] # NoPlan \/ reqScan[a]
    /\ plan' = [plan EXCEPT ![a] = IF pend[a] = NoPlan THEN @ ELSE Adopted(pend[a])]
    /\ pend' = [pend EXCEPT ![a] = NoPlan]
    /\ reqScan' = [reqScan EXCEPT ![a] = FALSE]
    /\ mode' = [mode EXCEPT ![a] = IF reqScan[a] THEN "scan" ELSE "idle"]
    /\ UNCHANGED <<seq, ready>>
    /\ UNCHANGED <<linkVars, roundVars, scanVars, req, budgets>>

----------------------------------------------------------------------------
(* The brain: bus_task. *)

NextArm == IF cur + 1 < NArms THEN pc' = "poll" /\ cur' = cur + 1
                              ELSE pc' = "control" /\ cur' = 0

\* poll_arm up to the status.  A new scanset is fetched before the next poll.
PollOk ==
    /\ pc = "poll" /\ Answers(cur)
    /\ book' = [book EXCEPT ![cur] = IF quiet[cur] < QuietRounds THEN @ ELSE NoPlan]
    /\ quiet' = [quiet EXCEPT ![cur] = 0]
    /\ IF ready[cur] /\ seq[cur] # lastIngest[cur]
         THEN pc' = "ingest" /\ seen' = seq[cur] /\ UNCHANGED cur
         ELSE NextArm /\ UNCHANGED seen
    /\ UNCHANGED <<armVars, lastIngest, present, have, buf>>
    /\ UNCHANGED <<taken, scanVars, req, boots, resets, windows>>

PollFail ==
    /\ pc = "poll" /\ Silent(cur)
    /\ book' = [book EXCEPT ![cur] = IF quiet[cur] < QuietRounds THEN @ ELSE NoPlan]
    /\ quiet' = [quiet EXCEPT ![cur] = IF @ < QuietRounds THEN @ + 1 ELSE @]
    /\ NextArm
    /\ UNCHANGED <<armVars, lastIngest, present, have, buf>>
    /\ UNCHANGED <<seen, taken, scanVars, req, boots, resets, windows>>

\* ingest_arm, all chunks answered under the sequence number of the status.
IngestOk ==
    /\ pc = "ingest" /\ Answers(cur)
    /\ seq[cur] = seen
    /\ have' = [have EXCEPT ![cur] = TRUE]
    /\ buf' = [buf EXCEPT ![cur] = "fresh"]
    /\ lastIngest' = [lastIngest EXCEPT ![cur] = seen]
    /\ seen' = 0
    /\ NextArm
    /\ UNCHANGED <<armVars, quiet, present, book>>
    /\ UNCHANGED <<taken, scanVars, req, boots, resets, windows>>

\* ingest_arm gives up: another scan has ended, or a transfer failed.  Chunks
\* already copied stay in the buffer, whose length and flag are the old ones.
IngestFail ==
    /\ pc = "ingest"
    /\ \/ Up(cur) /\ seq[cur] # seen /\ UNCHANGED <<buf, faults>>
       \/ /\ Silent(cur)
          /\ \/ UNCHANGED buf
             \/ buf' = [buf EXCEPT ![cur] = IF @ = "empty" THEN @ ELSE "torn"]
    /\ NextArm
    /\ seen' = 0
    /\ UNCHANGED <<armVars, quiet, lastIngest, present, book, have>>
    /\ UNCHANGED <<taken, scanVars, req, boots, resets, windows>>

\* s_loc_start_req and s_loc_stop_req, then the read of s_req ...
Control ==
    /\ pc = "control"
    /\ locating' \in LocateModes
    /\ taken' = req
    /\ pc' = "clear"
    /\ UNCHANGED <<armVars, linkVars, cur, seen>>
    /\ UNCHANGED <<inflight, late, walking, rescan, bootScanned, req, budgets>>

\* ... which is cleared by a second access, whatever it holds by then.
Clear ==
    /\ pc = "clear"
    /\ req' = "none"
    /\ walking' = CASE taken = "walk" -> TRUE [] taken = "stop" -> FALSE [] OTHER -> walking
    /\ rescan' = (rescan \/ taken = "scan")
    /\ taken' = "none"
    /\ pc' = "roster"
    /\ UNCHANGED <<armVars, linkVars, cur, seen>>
    /\ UNCHANGED <<inflight, late, bootScanned, locating, budgets>>

\* s_reset_req: the brain restarts alone, its arms keep running.
HardReset ==
    /\ pc = "control" /\ resets > 0
    /\ resets' = resets - 1
    /\ quiet' = [a \in Arms |-> QuietRounds]
    /\ lastIngest' = [a \in Arms |-> 0]
    /\ present' = [a \in Arms |-> FALSE]
    /\ book' = [a \in Arms |-> NoPlan]
    /\ have' = [a \in Arms |-> FALSE]
    /\ buf' = [a \in Arms |-> "empty"]
    /\ pc' = "poll" /\ cur' = 0 /\ seen' = 0 /\ taken' = "none"
    /\ inflight' = FALSE /\ late' = FALSE
    /\ walking' = FALSE /\ rescan' = FALSE /\ bootScanned' = FALSE
    /\ locating' = FALSE
    /\ req' = "none"
    /\ UNCHANGED <<armVars, boots, faults, windows>>

\* refresh_roster: an arm that dropped loses its plan and its delivery.
OnBus(a)   == quiet[a] < QuietRounds
Dropped(a) == present[a] /\ ~OnBus(a)
Roster     == {a \in Arms : OnBus(a)}

\* The members of the roster that replan_all sends a plan to: all, or none.
RosterChanged == \/ \E a \in Arms : OnBus(a) # present[a]
                 \/ \E a \in Roster : book[a] = NoPlan
Replanned     == IF RosterChanged THEN Roster ELSE {}

\* Mutants of Kept: a drop leaves the delivery; any roster change clears all.
KeptAlways(a) == have[a]
KeptUnlessChanged(a) == have[a] /\ \A b \in Arms : OnBus(b) = present[b]

Kept(a) == have[a] /\ ~Dropped(a)

\* Mutant of Booked: the plan is booked whether or not it was acknowledged.
BookedBlindly(got, a) ==
    IF a \in Replanned THEN PlanFor(Roster, a)
    ELSE IF Dropped(a) THEN NoPlan ELSE book[a]

\* send_plan books a plan only if the transfer was acknowledged.
Booked(got, a) ==
    IF a \in got THEN PlanFor(Roster, a)
    ELSE IF Dropped(a) THEN NoPlan ELSE book[a]

RefreshRoster ==
    /\ pc = "roster"
    /\ \E got \in SUBSET Replanned :
         /\ Delivered(Replanned, got)
         /\ book' = [a \in Arms |-> Booked(got, a)]
         /\ pend' = [a \in Arms |-> IF a \in got THEN PlanFor(Roster, a) ELSE pend[a]]
    /\ present' = [a \in Arms |-> OnBus(a)]
    /\ have' = [a \in Arms |-> Kept(a)]
    /\ pc' = "window"
    /\ UNCHANGED <<mode, seq, ready, reqScan, plan, quiet, lastIngest, buf>>
    /\ UNCHANGED <<cur, seen, taken, scanVars, req, boots, resets, windows>>

Online   == {a \in Arms : present[a]}
HaveIn   == {a \in Online : have[a]}

MergeReady   == inflight /\ HaveIn # {} /\ HaveIn = Online
MergeTimeout == inflight /\ HaveIn # {} /\ late

\* Mutant of LeftAfterMerge: the loop over the pool stops one short.
LeftInLastSlot(a) == have[a] /\ a = NArms - 1

LeftAfterMerge(a) == FALSE

\* merge_window: do_merge reads every non-empty buffer of MergedArms, and the
\* deliveries of all arms are then spent.
CloseWindow ==
    /\ pc = "window" /\ (MergeReady \/ MergeTimeout)
    /\ buf' = [a \in Arms |-> IF a \in MergedArms /\ buf[a] # "empty" THEN "merged" ELSE buf[a]]
    /\ have' = [a \in Arms |-> LeftAfterMerge(a)]
    /\ inflight' = FALSE /\ late' = FALSE
    /\ rescan' = (walking /\ rescan)
    /\ pc' = "scan"
    /\ UNCHANGED <<armVars, quiet, lastIngest, present, book>>
    /\ UNCHANGED <<cur, seen, taken, walking, bootScanned, locating, req, budgets>>

KeepWindow ==
    /\ pc = "window" /\ ~MergeReady /\ ~MergeTimeout
    /\ pc' = "scan"
    /\ UNCHANGED <<armVars, linkVars, cur, seen, taken, scanVars, req, budgets>>

WantScan == windows > 0 /\ (~bootScanned \/ walking \/ rescan)
MayScan  == /\ WantScan /\ Online # {} /\ ~inflight /\ ~locating
            /\ \A a \in Arms : ~have[a]

\* arm_broadcast(CL_CMD_SCAN): the result of each transfer is ignored.
Broadcast ==
    /\ pc = "scan" /\ MayScan
    /\ \E got \in SUBSET Online :
         /\ Delivered(Online, got)
         /\ reqScan' = [a \in Arms |-> reqScan[a] \/ a \in got]
    /\ inflight' = TRUE /\ late' = FALSE /\ bootScanned' = TRUE
    /\ windows' = windows - 1
    /\ pc' = "poll"
    /\ UNCHANGED <<mode, seq, ready, plan, pend, linkVars, cur, seen, taken>>
    /\ UNCHANGED <<walking, rescan, locating, req, boots, resets>>

NoScan ==
    /\ pc = "scan" /\ ~MayScan
    /\ pc' = "poll"
    /\ UNCHANGED <<armVars, linkVars, cur, seen, taken, scanVars, req, budgets>>

----------------------------------------------------------------------------
(* The clock and the user. *)

TimeOut ==
    /\ inflight /\ ~late
    /\ late' = TRUE
    /\ UNCHANGED <<armVars, linkVars, roundVars, req, budgets>>
    /\ UNCHANGED <<inflight, walking, rescan, bootScanned, locating>>

\* The web and menu tasks post into the single slot s_req.
Post(r) ==
    /\ req' = r
    /\ UNCHANGED <<armVars, linkVars, roundVars, scanVars, budgets>>

Round == \/ PollOk \/ PollFail \/ IngestOk \/ IngestFail
         \/ Control \/ Clear \/ RefreshRoster
         \/ CloseWindow \/ KeepWindow \/ Broadcast \/ NoScan

Next ==
    \/ Round \/ HardReset \/ TimeOut
    \/ \E a \in Arms : PowerOn(a) \/ PowerOff(a) \/ FinishScan(a) \/ Turn(a)
    \/ \E r \in UserRequests : Post(r)

Spec == Init /\ [][Next]_vars

\* bus_task and scan_task never block for ever, a scan takes bounded time and
\* the clock advances.  Nothing is assumed of users, power or faults.
Fairness ==
    /\ WF_vars(Round)
    /\ WF_vars(TimeOut)
    /\ \A a \in Arms : WF_vars(FinishScan(a)) /\ WF_vars(Turn(a))

FairSpec == Spec /\ Fairness

----------------------------------------------------------------------------
(* Properties. *)

TypeOK ==
    /\ mode \in [Arms -> Modes]
    /\ seq \in [Arms -> Nat]
    /\ ready \in [Arms -> BOOLEAN]
    /\ reqScan \in [Arms -> BOOLEAN]
    /\ plan \in [Arms -> Plan]
    /\ pend \in [Arms -> Plan \cup {NoPlan}]
    /\ quiet \in [Arms -> 0 .. QuietRounds]
    /\ lastIngest \in [Arms -> Nat]
    /\ present \in [Arms -> BOOLEAN]
    /\ book \in [Arms -> Plan \cup {NoPlan}]
    /\ have \in [Arms -> BOOLEAN]
    /\ buf \in [Arms -> Contents]
    /\ pc \in Sections /\ cur \in Arms
    /\ seen \in Nat
    /\ taken \in Requests /\ req \in Requests
    /\ inflight \in BOOLEAN /\ late \in BOOLEAN
    /\ walking \in BOOLEAN /\ rescan \in BOOLEAN /\ bootScanned \in BOOLEAN
    /\ locating \in BOOLEAN
    /\ boots \in [Arms -> Nat] /\ resets \in Nat /\ faults \in Nat /\ windows \in Nat

\* When the window is judged and SCAN is considered, only present arms hold a
\* delivery.  bus_task counts deliveries over the roster but blocks SCAN on a
\* delivery of any arm: one left behind by an absent arm would never be merged
\* and would stop scanning for good.
DeliveredArePresent ==
    pc \in {"window", "scan"} => \A a \in Arms : have[a] => present[a]

\* The last plan an arm was given.
LastPlan(a) == IF pend[a] = NoPlan THEN plan[a] ELSE pend[a]

\* An arm the brain counts as planned is on the plan in the brain's book or,
\* after a restart the brain did not notice, sweeps the whole union.
BookedOrWhole ==
    \A a \in Arms : Up(a) /\ book[a] # NoPlan => LastPlan(a) \in {book[a], Whole}

\* A delivery that waits for the window holds records no window has merged.
DeliveryUnspent ==
    \A a \in Arms : have[a] => buf[a] \in {"fresh", "torn"}

\* As long as no transfer has failed, the arms of a refreshed roster together
\* sweep every channel, if all are live: whatever joined, dropped or restarted.
EveryChannelSwept ==
    pc = "window" /\ Online # {} /\ (\A a \in Online : Up(a)) /\ faults = MaxFaults =>
        UNION {Slice(Adopted(LastPlan(a))) : a \in Online} = Channels

\* README.md: "The split is re-issued whenever an arm joins or drops": if the
\* roster settles on live arms, they come to sweep every channel.
RosterSettles == <>[](Online # {} /\ \A a \in Online : Up(a))
PlanHeals ==
    RosterSettles => []<>(UNION {Slice(Adopted(LastPlan(a))) : a \in Online} = Channels)

\* README.md: "A merge window closes once every arm still present has
\* delivered, or on a timeout, so unplugging an arm mid-scan cannot stall the
\* pack": an open window closes as long as some arm is live.
WindowCloses == (inflight /\ \E a \in Arms : Up(a)) ~> (~inflight \/ \A a \in Arms : ~Up(a))

\* DogParkUserGuide.md: "Adv rescan - runs a deeper Wi-Fi + BLE audit on every
\* arm once": a rescan taken by bus_task is carried out and merged, unless
\* locate mode is entered or an arm goes away (or the bound is reached).
RescanServed ==
    (rescan /\ bootScanned /\ \A a \in Arms : Up(a))
        ~> (~rescan \/ locating \/ windows = 0 \/ \E a \in Arms : ~Up(a))
=============================================================================
