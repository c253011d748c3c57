# TLA+ verification of SniffCheck

SniffCheck is firmware for ESP32 boards that listens to Wi-Fi and Bluetooth and
judges what it hears.  It runs as a standalone scanner (`main/`) and as a
cluster, the Dog Park (`cluster/`): a *brain* polls up to six scanning *arms*
over an I2C bus, merges what they heard and pushes it to an *S3 node* with a
microSD card.  This directory models the program in TLA+, checks the models with
TLC and proves theorems about them with TLAPS.

## Inventory of the system

| Component | State it keeps | Operations | Interacts through | Hard behaviour |
|---|---|---|---|---|
| Brain: bus and scan window (`cluster/brain/main/brain_main.c`, `bus_task`) | per arm: last answer, last ingested scan, presence, booked plan, delivery and buffer; window open/since when; walk, rescan, boot-scan flags | poll, ingest, refresh roster, re-plan, merge, broadcast SCAN, hard reset | I2C to arms and S3; single-slot mailboxes written by the web and menu tasks | lost transfers, arms that restart or drop at any point, requests between two accesses, timeouts |
| Arm: scan task (`cluster/arm/main/arm_main.c`, `arm_scan.c`) | current scan, scan number, double-buffered scanset, plan, request flags set by the ISR | boot scan, rescan, walk, locate, set plan, publish | I2C slave ISR and a transmit task | requests during a scan, ISR between two stores of `pack_scanset` |
| Arm: address claim (`arm_addr.c`) | claimed slot in NVS | probe the pool, claim, forget | the bus, shared with other arms that boot | two arms that claim at once |
| Brain: S3 push, mailboxes (`brain_main.c`) | pending config, clock, tracker burst | push chunks, fetch blobs, step a burst | I2C to the S3 node | half-sent records, shared buffers |
| Brain: device table and web handlers (`brain_main.c`, `master/main/cluster_web.c`), the page's accumulator (`tools/capture_viewer/index.html`) | table of devices, number of merges, session; cursor and rows in the browser | upsert, stream what is new since a merge; ask, store, begin again on a new session | HTTP; a mutex for one entry at a time | table that changes while it is sent, restarts, a page closed between two transactions |
| Brain: environment memory (`epup_brain.c`; the same algorithm in `main/env_learn.c`) | places, landmarks, learning run, checkpoint | observe, enroll, fold, prune, save | NVS | bounded tables, power loss |
| S3 node: receive path (`head-s3/main/head_main.c`) | receive queue, reassembly line, sentinel configuration and counters | ISR enqueue, ingest, apply config, answer blobs | I2C slave ISR, two tasks | full queue, gaps, failed writes |
| S3 node: registry and microSD (`sentinel_registry.c`, `head_sd.c`) | bloom filter, segment, checkpoint files | note, save, rotate, commit | files | power loss between two file operations, failed writes |
| S3 node: action scheduler (`action_sched.c`, `driver_dult.c`) | one pending action, cooldown, audit ring, GATT connection | submit, cancel, service, callbacks | BLE host task | cancel racing service, late callbacks |
| Standalone: scan, walk, capture tasks (`main/app_main.c`) | mode flags, one radio | scan, walk, learn, capture, watchdog, buttons | volatile flags between eight tasks | requests while another mode runs |
| Standalone: download mode (`download_mode.c`, `download_http.c`) | access point on/off, deadline, session | enable, disable, extend, time out | HTTP server, timers | timeout racing a request |
| Capture ring, retention rings (`capture_ring.c`, `probe_frame_ring.c`, `ble_adv_ring.c`) | byte ring with head, tail, sequence | write, drop oldest, read | writer and readers in different tasks | reader overtaken by the writer |
| Capture archive (`sd_store.c`, `capture_writer.c`) | open session, buffer, meta file | open, append, flush, close, rename, prune | files | power loss, partial writes |
| Scanners (`wifi_scanner.c`, `ble_scanner.c`, `wifi_sniffer.c`) | result tables, scan in progress | start, collect, cancel, finish | radio callbacks | late callbacks |
| Trackers and classifiers (`sta_tracker.c`, `probe_req_log.c`, `physical_device_cluster.c`, `analyzer.c`, `vetter.c`, ...) | bounded observation tables | observe, finalize, score | called by the scan task and by the promiscuous callback | full tables |
| Wire protocol (`cluster/common/cluster_proto.c`) | none | build, seal, validate | | CRC arithmetic |
| Pup game, LEDs, screens, console, self test | presentation | | | |
| Legacy master, Dog Park node (`dogpark-node`, `dogpark-x4`) | as arm/brain in one board | | ESP-NOW | |
| Vendored code, data, tools, web flasher | | | | not the program's own logic |

What makes each correct, in a sentence: the scan window always closes and loses
no delivery; the arms of a roster share out the whole spectrum; a delivered
scanset is one scan, whole; two arms end on two addresses; a merged record
reaches the card once or not at all; an action that was cancelled does not run;
a file that existed before a power loss exists, in its old or new form, after it;
a reader of a ring gets records that were written, in order.

## Modules

| Module | Models | State and actions |
|---|---|---|
| `ChannelPlan` | `replan_all` (brain), `arm_scan_set_plan`, `arm_channel_plan` (arm) | Operators only: the plan of an arm of a roster, the channels it stands for. |
| `ScanWindow` (extends `ChannelPlan`) | `bus_task` of the brain with `scan_task` of every arm | See below. |
| `ScansetTransfer` | `pack_scanset`, the receive ISR and transmit task of one arm, `poll_arm`/`ingest_arm` of the brain | The two buffers of the arm, the snapshot, the buffer of the brain. One action per store that another context can see. |
| `TrackerSound` | `tracker_sound.c` and `action_sched.c` | The flags of the front end, the one-slot scheduler, the position of `tsnd_task` and of each caller. One action per access between which another task may run. |
| `RecordLog` | What the microSD store of the S3 node promises | Abstract: windows that were sent, a log of writes. `Send`, `Keep`, `Lose`. |
| `HeadFeed` (implements `RecordLog`) | `push_merge_to_s3` (brain), the receive ISR, `ingest_task` and `status_task` of the S3 node, append and flush of `head_sd.c` | The queue, the chunk and the line being taken apart, the file buffer and the card, the counter both tasks flush by. |
| `DownloadMode` | `download_mode.c` | State and timer of the access point, the command queue; one action per command, `ap_start` and `ap_stop` in two. |
| `AppModes` (extends `DownloadMode`) | the tasks of `app_main.c` that share radio and screen, `ui_activity.c`, the requests of the web page and the console | Mode of the screen, activity, request flags, notifications, the learning run. |
| `Archive` | `sd_store.c`, `archive_rotate` and the record emitters of `app_main.c`, save, delete, rename and wipe of `download_http.c` | The two files of every session, the memory of the writer, the steps an operation has still to do. |
| `DeviceFeed` | the device table of the brain, `devices_get` of `cluster_web.c`, the accumulator of the page (`accStart`, `accPull`) | The table, the number of merges, the answer being sent, the page's cursor and rows, in memory and in the browser's store. |
| `MC...` | | Values for the constants. |
| `..._proofs` | | Theorems and their proofs. |

`ScanWindow` and `ScansetTransfer` are two views of one interface.  In
`ScanWindow` ingesting a scanset is one action (`IngestOk`, or `IngestFail` with
a torn buffer); `ScansetTransfer` takes that action apart into chunks, with one
arm, and shows that what it leaves is one whole scan.  `ScanWindow` in turn says
when the brain may use what was ingested.  `HeadFeed` begins where `ScanWindow`
merges: each `Merge` is one merged window on its way to the card; `DeviceFeed` begins there
too, with the same window on its way to the page.  In the standalone
firmware, `AppModes` decides when a walk or a learning run begins and ends, which is
when `Archive` changes sessions; the two share no variable, so the order of a mode
change and a file operation is any.

### ScanWindow

`pc` is the section of a round of `bus_task`: `poll`/`ingest` for each arm in pool
order, `control` (requests), `clear` (the second access to `s_req`), `roster`
(`refresh_roster` and `replan_all`), `window` (merge or not), `scan` (broadcast or
not).  Each section is one action, or one per outcome; arms (`PowerOn`, `PowerOff`,
`FinishScan`, `Turn`), users (`Post`), time (`TimeOut`) and the hard reset step
between any two of them.  A transfer to a live arm may fail as often as
`MaxFaults` allows; one to an arm that is off always fails.  The 3 s of
`ARM_PRESENT_US` are `QuietRounds` rounds without an answer; that the merge timeout
has passed is a flag that is set at any time while the window is open.  What a
buffer holds is its history: fresh, merged, or torn by a transfer that failed.
Locate mode is a flag that holds SCAN back; a walk is a scan that asks for the
next one.

### ScansetTransfer

A scanset is a row of blocks, one per chunk, each the number of the scan that
wrote it.  `BeginPack`, `PackBlock`, `StoreLength`, `StorePointer`, `CountScan` and
`Publish` are the stores of the arm in the order of the code; `Ask` is the ISR
that takes the snapshot, `Read`, `Reject` and `Lose` are what the brain sees of
`arm_tx_task`.  `Written` is `memcpy` and knows no end of the buffer: that no copy
reaches beyond it is part of `TypeOK`.  `spoiled` records that a snapshot was
taken between the stores that publish a scanset, or that a later scan was packed
into the buffer a snapshot points at.

### TrackerSound

`pc` is the position of `tsnd_task`: `wait` (notification or 250 ms), `take`,
`check`, `run`, `free` (the service of the scheduler), `howl`, `pick`, `submit` (one
turn of the howl).  `cpc` is the position of each calling task (web server,
console) in `set_armed(false)`, `howl_stop`, `bark` and `howl_start`, which look at
one variable and act on another.  Critical sections are single actions.  The
stores of `howl_start` are one action, `BeginHowl`: the task looks at the others
only once `s_howl` is set, which is the last of them.  A waiter that does not get
`s_lock` within 200 ms is not modelled: it is held for a copy of a short list.

### HeadFeed

A byte is named by its window and offset; a window is its length and the offsets of
its record ends.  `off` is the brain's position in a push (`PushChunk`, `PushFails`,
`BrainRestarts`), `rxq` the queue the ISR fills.  `pc` is the position of `ingest_task`:
`wait` for a chunk, `feed` its bytes, `last` for the chunk without bytes, `sync` and
`clear` for the two halves of a flush (the write, the zeroing of `s_unflushed`), `end`
for the flush after a window, `count`.  `status_task` flushes with the same two halves and
no lock: `Counted` lets its zero fall between the read and the write of `++s_unflushed`.

What stands in the file is a sequence of writes, `card` and then `buf`, each its `bytes` and whether it
is `open`: a write that fell short, or lost its newline, leaves the line of text open, and the next
record goes on in it (`head_sd.c:105`).  What stdio does when the card refuses a write is external,
taken from newlib and FatFs: the buffer is given up, so that what is left of the writes in it is those
up to some byte (`Cuts` of `RecordLog`), or the buffer stays as it was.  `AppendDone`,
`AppendFails` and `AppendSkipped` are the ways out of `head_sd_append`; `Written` and `WriteFails` those of
`fflush` and `fsync`, whose results the code does not look at: `s_unflushed` is zeroed after either
(`head_sd.c:120-122`).  `hurt` collects the windows of which something was lost anywhere on the way, and
is what `IntactWindowsWhole` excuses; `glued` those of which a record went behind what a failed
write had left, which keeps its record and loses only a line of text of its own.  `failed` counts the
writes that failed since one worked, for `LossBounded`.

### DownloadMode and AppModes

Each request to `dl_task` is a command in `apQueue`, lost when the queue is full.
`ap_start` and `ap_stop` are two steps, so that the other tasks see `starting` and
`stopping`.  `AppModes` adds `scan_task` (`scanPc`), `capture_task` (`capPc`), the button
(`Press...`), the web handlers, the console, the watchdog and the one-second tick.  What
the code does under `s_state_mutex` is one step.  `activity` is `s_current` of
`ui_activity.c`, which the code sets in other places than `s_ui_mode`.  `Due` is the order
in which the tick carries out what was asked for while the access point was up.

### Archive

`files` and `metas` map a session id to what is on the card, `safe` of the records being
within the size that is on the card.  An operation takes the lock, looks at what it finds
and leaves the file operations it will do in `todo`; each is one step, power may go
before any, and who reads memory without the lock sees it in between.

A file is a sequence of writes, marked with their session.  One that ends its line is a `preamble` or a
`record` in a line of its own, or `glued` to what an earlier write left of a line; one that falls short
is a `piece` (`sd_store.c:406-421`).  With each goes the `type` that `file_has_content` finds in the line up
to there, the first one that stands in it: a record that is glued to a piece of a codebook reads as a
codebook, and `Prune` takes the file for empty.  `WriteLine`, `WriteFails`, `Sync`, `Close` and the two
writes of a meta may fail as in `HeadFeed`: `Cuts` is what stdio may leave in the file, and neither
`fputc`, `fflush` nor `fsync` is looked at.  `torn` are the sessions of which a write failed.

`rot` is the task
that runs `archive_rotate` (also the one that boots), `web` that of the web server.
`saved` is the records that were written out of each session, each in a line of its own, `removed` what a client asked to remove.
What a property excuses is in two variables.  `crossed` are the sessions that met another by
a new name, noted when the name is given (`Crossing`): `unique_id_locked` looks for the name among
the files, so it misses the name of a session that has no file yet, and one that a delete is under
way for.  `SavedKept`, `OneSessionPerFile` and `LiveKept` excuse these sessions and no
others.  `flags` names what happened to the archive: power lost between the two files of one
session (`halved`), a session that could not be opened, or was finished for good (`off`), and a
delete that hits another session than the one that was looked at (`stale`): the one being
recorded, which got the name after the check that it has not, or one whose file was moved to the
name meanwhile.

### DeviceFeed

`DoMerge` raises `s_merge_count` before `TakeMutex`, `Upsert` and `GiveMutex` take the records
into the table, as the code does.  `devices_get` reads the number of merges (`ReadCount`), the
number of entries (`ReadNumber`) and then one entry at a time (`SendRow`), which waits for
the mutex.  The page asks, takes the answer, stores the rows and stores the cursor in
four steps (`Ask`, `TakeAnswer`, `PutRows`, `MoveCursor`).  `Restart` is a new life of the
brain, with a new session; `LoseConnection` and `Reload` are what happens to the page.
`skipped` collects the merges whose rows the code gives up: those whose number went out
in a header before their rows were in the table, and those before the cursor with which the
first answer of a new life was asked for.  `orphans` says that rows were stored and the page
was closed before any session was.

## Runs

| Run | Instance | Shows |
|---|---|---|
| `scan_window` | 2 arms, 6 channels, arm 0 restarts once, brain restarts once, 1 failed transfer, 2 windows | `TypeOK`, `DeliveredArePresent`, `BookedOrWhole`, `DeliveryUnspent`, `EveryChannelSwept` |
| `scan_window_live` | 2 arms that may be unplugged, requests to scan, no fault | `WindowCloses`: an open window closes |
| `scan_window_stall` | 1 arm, 1 fault | finding: `WindowCloses` fails |
| `scan_window_rescan` | 1 arm, no fault | finding: `RescanServed` fails |
| `scan_window_gap` | 2 arms, 1 fault | finding: `PlanHeals` fails |
| `scanset_transfer` | 4 scans of 3, 1, 2, 3 blocks, brain buffer of 2 blocks, 1 restart, 2 failed transfers | `TypeOK`, `OneScan`, `NewEachTime`, `CatchesUp` |
| `scanset_transfer_long` | 1 scan of 3 blocks, buffer of 2 | finding: `StoredWhole` fails |
| `tracker_sound` | 2 trackers, 2 callers, 4 calls, 2 scans | `TypeOK`, `OneAtATime`, `StopBounded`, `CancelHonoured`, `CooldownKept`, `HowlEnds` |
| `head_feed` | 2 windows of 5 or 4 bytes, chunks of 3, queue of 2, lines of 2, flush every 2 lines, 2 faults | `TypeOK`, `NoSplice`, `IntactWindowsWhole`, `LossBounded`; `KeepsLog`: it implements `RecordLog`; `WindowsCounted` |
| `app_modes` | every screen with 1 request; few screens with up to 3 requests, 1 command, 1 failed scan, 1 race or 1 early press; learning runs of 2 scans | `TypeOK`, `RadioExclusive`, `ApShown`, `ActivityShown`; `ScreensEnd`, `WebScanComesBack`, `LearnEnds`, `ApEnds` |
| `archive` | up to 3 sessions, 2 records, 2 requests, 3 faults in seven combinations (3.1 million states) | `TypeOK`, `SavedKept`, `OneSessionPerFile`, `MetaTrue`, `LiveKept`, `ArchiveOn` |
| `device_feed` | 3 devices, table of 2, windows of 1 or 3 records, 2 lives of 2 merges, 1 lost connection or reload | `TypeOK`, `CursorHonest`, `OneLife`; `EntryShown` |

Why the bounds are enough.  Two arms are the fewest that share the spectrum and of
which one can drop while the other delivers; six channels divide by one, two and
three.  One restart, one lost transfer and two windows let a stale delivery, plan
or number of an earlier life meet a later window; a second of each multiplies the
states and repeats the same meeting.  Four scans of unequal length make the double buffer come round
twice, so that a snapshot can be overtaken by two scans, and a restart makes a
number repeat.  In `tracker_sound` four calls are enough for arm, howl, stop or
bark, and a second howl or a cancel by the other task; two scans let the list
shrink and grow again under the turn counter.

In `head_feed` the first layout has records of one byte, the last without its newline and in the
second chunk, the other one record that does not fit in a line; two windows let the rest of one
be taken for the beginning of another after a restart of the brain, which begins to count
again; two faults are two of losses, restarts, power losses and failed writes, in one window or in
each, so that a record meets what a failed write left, and power goes after a flush that failed.  The
sizes are small so that a queue overflows and a flush falls into the middle of a chunk.
`app_modes` has several budgets because one that allows everything is too large: each
kind of disturbance meets the others' normal work, but not two kinds in one behaviour.
The pause between two scans of a learning run is two ticks, the fewest that can be cut
short.  In `archive`, 99 copies of a name are two and four failed writes that give the
card up are two, so that the limit is met; the budgets trade sessions for faults, and
three faults let a power loss come after two failed operations: a codebook that falls short, a
flush that fails, and the boot that prunes what they left.

In `device_feed` a window of three devices replaces entries of a table of two while they are
sent, the second merge renews or replaces what the first brought, and the second life finds a
page with the cursor of the first.

The safety properties of all modules (every `INVARIANT`, and the properties that speak of
single steps), and that `HeadFeed` implements `RecordLog`, are proved without the bounds.

Every property of a passing run comes with a mutant of the model, a plausible bug
(commented "Mutant of" or "mutant:" in the modules), under which TLC finds it violated.

### Fairness

`ScanWindow`: `bus_task` loops without end (weak fairness of a round), an arm that
is on finishes its scan and takes its turn, and an open window becomes late.  No
fairness for users, faults, power or locate mode.  `ScansetTransfer`: a scanset
whose packing has begun is published (straight-line code, `PackOn`), and the brain
polls for ever (`Brain`); scans need not begin.  `TrackerSound`: `tsnd_task` wakes
up every 250 ms at the latest and the driver has a deadline (`Task`); nothing makes
callers, scans or the end of a cooldown happen.  `HowlEnds` counts on finitely many
calls: barks without end could take the free slot before each turn of the howl.
`HeadFeed`: both tasks of the S3 node are scheduled, and a push that has begun goes on;
no window need be merged.  `AppModes`: each task goes on, weakly fair.  The timers are
strongly fair, because a tick that finds a woken task that has not run is a race the
budget counts: fairness says that nobody presses so fast that no tick finds the tasks at
rest.  Nothing makes people do anything, which is why `ScreensEnd` is about the screens
without a way out of their own.  `DeviceFeed`: bus_task takes a merged window in, the web task
answers and the page asks again every four seconds; no window need be merged.  `Archive` is safety only: whether a file operation ends
is up to the card.

## What is proved

TLAPS checks these for every value of the constants (numbers of arms, channels,
restarts, scans, block sizes, callers), under the named assumptions of the modules,
which only say that the constants are of the right type and not empty.

* `ScanWindow_proofs`: first `PlansPartition`, that the plans of any non-empty roster divide
  the channels.  `Rank` is a bijection from the roster to `0 .. n - 1` (injective because
  it increases, onto because the sets of smaller members are distinct), and every
  channel has one remainder modulo `n`.  Then `TypeCorrect`; `UnspentCorrect` is inductive
  with it; `PresentCorrect` needs `DeliveriesSeen`: while the arms are polled, an arm behind
  the cursor that has a delivery answered in this round or was present before, so
  `refresh_roster`, which drops deliveries of arms that dropped, leaves none behind.
  `BookCorrect` needs `BlankWhenOff`: an arm that is off comes back with the whole
  spectrum.  `SweptCorrect` needs `PlansCurrent`: as long as no transfer was lost,
  every present live arm was given the plan of the present roster, or sweeps all;
  with `PlansPartition` the roster covers the spectrum.
* `ScansetTransfer_proofs`: `TransferTypeCorrect`, and `ScansetCorrect` from three
  invariants: `FrontWhole` (the published buffer is one whole scan), `SnapWhole` (so
  is the snapshot, unless spoiled, and it is the scan its number stands for) and `Copied`
  (what the brain has copied so far are the first blocks of the snapshot it reads).
  `NewCorrect` needs two more.  Scan numbers begin again with each life of the arm, so they
  do not tell scans apart; `Earlier`, the number of scans of the lives before, does together
  with them.  By `Remembered` the last scanset is of an earlier life or is the scan with the
  number the brain remembers, and by `Other` the brain asks for no scan with that number.
* `TrackerSound_proofs`: `TrackerTypeCorrect`, and from the inductive invariant
  `Sched` the theorems `OneCorrect`, `CancelCorrect`, `CooldownCorrect`, `StopCorrect`.
  `Slot` carries what acceptance established over to the transmission: an action on
  its way was not cancelled, or the flag is up.  `Quiet` counts: after a stop at most
  one tracker is on its way (`Coming`), and once it was rung none is.
* `HeadFeed_proofs`: `FeedTypeCorrect` from `Typed` (`TypeOK` with the pending flush:
  the counter reaches its limit only on the way into a flush).  `LossCorrect` from
  `Counting`, which compares the buffer with the counter for each position of the two
  tasks that flush: a zero of the one may undo one round of counting of the other, and a flush that
  fails (`Slack`) leaves a round in the buffer that is not counted any more.
  `SpliceCorrect` and `StoreImplemented` from `InOrder`: everything that moves towards the
  card (what the brain sends next, the queue, the rest of the chunk, the line, the log)
  lies in one order of bytes, a line is a run of bytes without a record end, and it goes on
  only with the byte that continues it.  A write adds to the log at its end (`Adds`) or, when it
  fails, takes from its end (`Crops`), and either keeps the order.  With it every step of
  `HeadFeed` is a `Send`, `Keep`, `Lose` or a stutter of `RecordLog` under `log <- card \o buf`.
* `HeadFeedWhole_proofs!WholeCorrect`: `IntactWindowsWhole` from `Intact`.  As long as
  nothing of a window was lost, its chunks follow each other without a gap (`Chained`), the
  chunk last read was taken (`Heard`), the line holds what came since the last record end
  (`Collected`), and the records that end before the next byte are in the log (`Whole`).  A step that
  takes bytes of a window from the log, or its newline, puts the window into `hurt` (`SpoiltHurts`), and any other
  leaves its writes where they are (`WriteStays`), with the write before them.
* `AppModes_proofs`: `AppTypeCorrect` from `Typed`, and `ActivityCorrect`,
  `ApShownCorrect`, `PauseCorrect` and `RadioCorrect` from `Modal`, for any number of
  requests, commands, failed scans, races and early presses.  `Modal` has four parts:
  `TimerOff` (no timeout runs before the access point is up), `Drawn` (what the screen and
  the activity have to do with each other, whatever happens), `Phases` (how the positions
  of the tasks, the flags and the screen go together, while nobody presses early or types a
  command: `Calm`) and `ApPhases` (which screens the access point can be under, while
  nothing races either: `Undisturbed`).
* `DeviceFeed_proofs`: `DeviceTypeCorrect`, `OneEntryCorrect`, `CursorCorrect` and `LifeCorrect`
  from one inductive invariant.  `Answered` follows an answer through every change of the
  table: an entry the header promises is ahead of the loop, or its row is under way, or stored
  (`Promise`); an entry that is renewed or replaced meanwhile is of a later merge, or of
  one that is skipped (`CursorBehind`).  `Conversation` and `CursorTaken` tie the page's cursor
  to the stored one, and `Lives` says that rows of an older life go before newer ones come.
* `Archive_proofs`: `ArchiveTypeCorrect`, `ArchiveOnCorrect`, `LiveKeptCorrect`,
  `SavedKeptCorrect`, `OneSessionCorrect` and `MetaTrueCorrect`, from an inductive invariant in
  four layers, each of which counts on those before it.  What an operation has still to do is a
  sequence, but the invariants see only which steps it has (`Steps`) and which may come before
  which (`May`, `Plan`): a file is closed before it is renamed, opened after, and nothing comes
  after the step that ends the operation.
  * `TypeInv`: the values of the variables, and that `todo` is a `Plan`.
  * `SessionInv`: how `sid`, `fp`, `pending` and `content` go with the plan and with the position
    of `archive_rotate`.  The file that is open is that of the session (`FpAt`), a session with an
    id is pending, open, or has a step ahead that will open or forget it (`FiledIn`, `OnOk`),
    and the id a plan gives is the one its files move to (`SidOk`, `RenameOk`).  `ArchiveOn` is
    what `OnOk` says when nobody holds the archive.
  * `FilesInv`: the `.jsonl` files.  The name a file moves to is free until it has moved (`MoveOk`,
    `Fresh`), so that no rename overwrites a file; a file that is going to be unlinked is not
    written to and holds no record that somebody may miss (`UnlinkOk`); the file of the session
    holds nothing else (`Here`), and no file two sessions (`Single`); and of each session some
    file has on the card what was saved (`SafeKept`), which power loss preserves because it
    counts only what is on the card; each but for the sessions in `crossed`.  What comes to be written
    is what there was, one write more, or a beginning of that (`Comes`), so that the writes which are
    safe stay where they are; and a file with a saved record in a line of its own is not `Empty`.  `Deleting` is the
    promise a delete rests on between its check and its turn: whatever has the name it looked at,
    or will have it, was to be removed or has crossed.
  * `MetasInv`: the `.meta` files.  A file that is not open is as it will be after a power loss (`ClosedSafe`); the
    counter of the writer is the number of lines of the session in its file, or more if a write of it
    failed (`Count`, `Tells`); metas match their files (`Matches`), none is without one but between the two steps of a rename or a
    removal (`NoOrphan`), and there the meta matches the file that has moved ahead of it
    (`MetaMove`); a session whose meta says complete is over (`Ended`).

Only model-checked: the liveness properties (`WindowCloses`, `CatchesUp`, `HowlEnds`,
`WindowsCounted`, `EntryShown`, and `ScreensEnd`, `WebScanComesBack`, `LearnEnds`, `ApEnds` of
`app_modes`), which the prover cannot treat: they rest on fairness, and on `ENABLED`.

## Findings

Each is a run in which TLC finds the violation; the entry in `PROJECT.json` quotes the
text.

1. `scan_window_stall`: the merge timeout requires at least one delivery, so a SCAN
   that no arm received keeps the window open for ever.
2. `scan_window_rescan`: an arm that receives SCAN during its boot scan delivers
   twice; the second delivery finds no open window, is never cleared, and holds back
   every later SCAN.
3. `scan_window_gap`: a SET_PLAN that fails is not repeated while the roster stays
   the same and an earlier plan was booked; part of the spectrum is swept by nobody.
4. `scanset_transfer_long`: a scanset longer than the 64 KB buffer is recorded with
   its whole length.

Seen while modelling, without a run of its own.  `do_merge` reads the buffers of the first two
arms of the pool and `merge_window` clears the flags of all, so a third arm scans in vain.  A full
device table gives the slot of the device seen least recently to a new one, whether or not a page
was sent it, while `DogParkClusterS3.md` says that nothing is lost when the memory fills.  A Wi-Fi scan that fails returns with
the screen in SCANNING (`src/main/app_main.c:3286`), where no button works, and with the
request to raise the access point again unserved; the liveness properties of `app_modes` are
stated for behaviours without one.  `sd_store_delete_session` compares with the id being
recorded before it takes the lock, so a session can get that id in between (`stale`).  A
session that is renamed before it has a file may get the name of another one, and their
records meet in one file (`crossed`).  If that session then ends without content, the file goes,
with what was synced of the other one: an attempt to prove `SavedKept` without an excuse met
this case, and TLC a behaviour with three sessions.  `s_sess_pre_records`, by which a session that has
only its header is told from one with content, is never other than 0: the header is the first
record and itself sets `s_sess_content` (`src/main/sd_store.c:430`) before
`sd_store_session_mark_preamble_end` looks at it (`src/main/sd_store.c:338`).  A session that is closed
with nothing but its header therefore stays until the next boot prunes it; `PreOk` in
`Archive_proofs` is the invariant.  The header of an answer may carry the number of a merge
whose rows come into the table later, and the page then never asks for them (`skipped`).  When a lock is not had within a second between the
two halves of `archive_rotate`, no session is open until the next boot (`off`).

What a write that falls short leaves is nowhere taken back or ended with a newline.  On the S3 node
(`head_sd.c:105`) the next record, of whatever window, goes on in the line of text of the piece, and both are
lost to a reader that takes lines for records (`glued`).  In the archive (`sd_store.c:406`) the same
happens; a record that goes on behind a piece of a header or codebook reads as one to `file_has_content`
(`sd_store.c:824`), and if power is lost before another record comes, the next boot prunes the file
with the record in it.  `SavedKept` is therefore about records in lines of their own, and `MetaTrue`
about lines.  Neither store looks at what `fputc`, `fflush` and `fsync` return (`head_sd.c:107-121`,
`sd_store.c:231-232`, `423`), so that what was counted may never come to the card.

## What the models leave out

* Integers are unbounded: the scan number would wrap after 2^32 scans.
* Frames are whole or absent.  CRC arithmetic, and answers left over in the FIFO of
  the I2C slave, are not modelled.
* `OneScan` and `ScansetCorrect` exclude the two windows `spoiled` records; nothing in the code rules
  them out, they are listed under the hazards.
* Locate sweeps, the LCD menu of the brain, and of the S3 traffic of `bus_task` all but
  the push.
* `HeadFeed`: configuration chunks, the answers of the S3 node, a card that does not
  mount.  A window is lines only; what stands in them is not looked at.
* `AppModes`: the console's `csi` command (`app_main.c:5515`), which uses the radio on the console
  task without a look at the mode, so that `RadioExclusive` says nothing of it.  People act only when no woken task waits to run; presses that come earlier
  are counted as `early`, and timers that do as `races`.  What `scan_task` does after a scan
  is published in one step, for it has the highest priority of the tasks of the screen.
  Cursors, pages, settings and the screensaver are left out, and one panel stands for the
  four that differ in what they draw.
* `Archive`: the console's rename, which is a second client with the lock; listings and
  downloads, which read; the index file, rebuilt from the metas; the wrap of the segment
  number.  Operations in the same task keep their order, and a lock that is not had is a
  fault.
* `DeviceFeed`: the page and the brain form the key of a device in their own ways, here it is one.
  What a session the page has loaded puts into the store at its start is left out, as are a
  brain without a table and a row too long to send.
* The GATT driver is a run with a result; its callbacks are planned.  The audit ring
  of the scheduler and the SOUND_STOP command, which only the S3 node submits, are
  left out; so is `s_howl_done`, which is only displayed.
* The parts of the inventory that no module names.

## Not modelled

The wire protocol and frame parsing are arithmetic on bytes without state; the models
take a frame as whole or damaged.
Screens, LEDs, console output, the virtual pup and the page, but for its accumulator, are
presentation.  The
legacy master repeats brain and arm on one board.  The trackers and classifiers are
scores over bounded tables: what they compute is a judgement without a reference to check it
against, only their bounds are worth a model.  `managed_components`, `opendroneid`, the
vendor database, tools and data are not the program's own logic.

## Plan

What is next, in this order:

1. `DultDriver`: the GATT callbacks of a run that is over against the state of the
   next one, the completion semaphore, the request mailbox of the S3 node; composed
   with the scheduler of `TrackerSound`.
2. `SentinelStore`: bloom filter, segment and checkpoint of the S3 node with power loss
   between any two file operations.
3. `CaptureRing`: drop-oldest ring with readers; theorem on head, tail and sequence.
4. `ArmAddress`: two arms that claim an address at once, the NVS slot, READDR after a
   duplicate.  `EnvPlaces`: tables of places and landmarks, eviction and checkpoint.
5. `BleScan`, `ObservationTables`, `Locate` as time allows.
