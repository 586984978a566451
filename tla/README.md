# A TLA+ verification of sunnypilot's runtime

sunnypilot drives a car's steering and speed from a comma device. Some thirty
processes exchange messages (cereal) and share a directory of parameters. This
project models the parts whose correctness is a matter of order and state rather
than of arithmetic: who is engaged when, who takes over from whom, and what
survives a crash. Eight parts are modelled, model-checked and proved about:

1. **engagement**: openpilot's state machine and MADS inside `selfdrived`;
2. the **parameter store** that all processes share;
3. **going onroad**: hardwared, manager, card and pandad agree through parameters;
4. **updates**: updated, the AGNOS flasher and the launch script;
5. the **upload queue** of athenad;
6. **log rotation**: loggerd and encoderd;
7. **lane changes**;
8. **speed limit assist**: plannerd and card.

## 1. Inventory of the system

| Part | State it keeps | Operations | Interacts through | Modelled in |
|---|---|---|---|---|
| selfdrived (`selfdrive/selfdrived`) | engagement state, soft-disable timer, mismatch counter, previous CarState, copies of settings | `step` at 100 Hz; `params_thread` | CarState, pandaStates, managerState and many others in; selfdriveState, onroadEvents out | `Selfdrived` |
| MADS (`sunnypilot/mads`) | its own state, copies of settings; shares selfdrived's timer and alert list | `update` in every tick, `read_params` in the other thread | called by selfdrived; rewrites its events | `Mads` |
| Parameter store (`common/params.cc`, `queue.h`) | a file per key, a lock file; per object a queue and a writer thread | put, get, remove, clearAll, readAll, putNonBlocking | file system, flock; every process | `Params` |
| manager (`system/manager`) | process table, previous `started` and ignition | start, stop, restart, clear parameters per transition, watchdogs | deviceState in; parameters; signals | `Onroad` (one process, no watchdog) |
| hardwared, power monitoring | onroad and startup conditions, offroad time, battery capacity | the `started` decision, shutdown | pandaStates in; deviceState out; parameters | `Onroad` (ignition only) |
| pandad | safety configuration flags, connection, heartbeats | configure safety mode, send heartbeats, forward CAN | parameters, USB/SPI, selfdriveState | `Onroad` (safety mode) |
| card | car interface, cruise helper, fingerprint handshake | fingerprint, CAN in, controls out, set speed | parameters, sendcan, carState | `Onroad`, `SpeedLimitAssist` |
| lane change, lane turn (`desire_helper.py`) | change state, direction, timers | one update per model frame | carState; model | `LaneChange` |
| speed limit assist, ICBM, smart cruise, DEC | state machines with timers over speeds | one update per plan | carState, maps | `SpeedLimitAssist` (the first, without PCM cruise) |
| updated, launch script, AGNOS flasher | overlay, finalized tree, consistent flag, boot slots | check, fetch, finalize; flash, swap | git, file system | `Updater` |
| athenad, sunnylinkd | upload queue, items in flight, cancelled ids | remote calls, upload threads | websocket, parameters | `UploadQueue` |
| loggerd, encoderd | segment, queues per encoder, frame counters | encode, write, rotate | messages, file system | `Loggerd` |
| uploader, deleter | segments and lock files | upload, delete | file system | – |
| controls, planning, radar, models, localisation, driver monitoring | real-valued filters | numeric updates | messages | – |
| messaging, UI, sound, sensors, cameras, maps, tools | – | I/O | – | – |

What makes the parts hard, and what makes them correct:

* **selfdrived and MADS** run two state machines in one tick on one list of
  events. The second sees the events after it has rewritten them and the first
  after it has moved; they share a timer and an alert list; a second thread
  changes the settings under them. Correct means: the driver's brake
  and the panda's veto always win; steering starts only when asked for; losing
  cruise does not lose steering where that is the setting; a soft disable is
  announced and lasts its time.
* **The parameter store** has concurrent processes, threads started on demand,
  failing system calls, kills and power loss. Correct means: to everybody
  else it is an atomic map; a value that was put is durable; a scan is a snapshot;
  queued values keep their order; nobody keeps the lock.
* **Going onroad** runs over parameters that one process writes and another
  clears, sampled at different rates, while processes that were told to stop are
  still running. Correct means: no drive uses what the one before left behind, the panda's
  safety mode is this car's, nobody waits for an answer that was cleared.
* **Updates** must leave a bootable tree and a bootable slot whatever is
  interrupted, and in the end the published version.
* The **upload queue** loses and duplicates nothing although threads, callers, a
  cache file and restarts work on it at once.
* **Log rotation** brings several encoders, each of which cuts its stream for itself,
  into the same segments, and must survive lost frames and restarts of either side.
* **Lane changes and speed limit assist** are state machines with timers whose
  inputs change in any order; the second is spread over two processes that see only
  each other's last message.

## 2. Modules

| Module | Models |
|---|---|
| `OnroadEvents` | the events and the event types they carry (`events.py` of both trees) |
| `SelfdriveState` | `StateMachine.update` of openpilot: one action per transition |
| `Mads` | `update_events` (events removed, events added) and the state machine of MADS |
| `Selfdrived` | the tick that composes them, event computation, initialization, `params_thread` |
| `KeyStore` | abstract specification of the parameter store |
| `Params` | `params.cc` and `queue.h`, one action per system call or critical section |
| `Onroad` | ignition, hardwared, manager's loop and card's process, card's start, pandad's safety configuration |
| `Installation` | abstract specification of updates |
| `Updater` | `updated.py`, `agnos.py`, `launch_chffrplus.sh` |
| `Uploads` | abstract specification of the upload queue |
| `UploadQueue` | the threads and the queue of `athenad.py` |
| `Loggerd` | rotation in `loggerd.cc`, `logger.cc`; segments in `encoderd.cc` |
| `LaneChange` | `desire_helper.py`, `auto_lane_change.py` |
| `SpeedLimitAssist` | `speed_limit_assist.py`, `cruise.py`, `cruise_ext.py` |
| `…Props` | what the part promises; the properties of its run |
| `…Proofs` | theorems about it |
| `MC…` | TLC instance |

`Selfdrived` extends `Mads`, which extends `SelfdriveState`, which extends
`OnroadEvents`: the variables of both state machines live side by side and one
action, `Step`, changes them together as `SelfdriveD.step` does. `Onroad` and
`SpeedLimitAssist` compose the processes that take part in one module, because what is
to be shown is about their interleaving. A definition
whose name ends in `Slip` is a wrong variant of the definition after it, the kind
of mistake the properties must notice; no specification uses one.

### Engagement

State and code: `state`, `soft_disable_timer` are the fields of `StateMachine`;
`alerts` and `mads_alerts` are the parts of `current_alert_types` that each
machine contributes; `mads_state` is MADS's state; `setup` is what MADS reads when
it is constructed, `toggles` what `params_thread` keeps reading; `CS_prev` and
`mismatch_counter` are those of `SelfdriveD`. `enabled` and `active` are functions
of the state in the code (only assigned from `update`), so they are operators.

A CarState, with everything else a tick samples, is the set of the conditions
that hold in it. `CarEvents`, `EarlyEvents`, `MalfunctionEvents`, `CurrentEvents`
compute the events in the order of `update_events`, because `commIssue` depends on
what was found before and `canBusMissing` is removed last. `UpdateState` then
moves openpilot: exactly one of its disjuncts is enabled. MADS computes its events
from the primed `state` (`Enabled'` is `selfdrive.enabled`, `Enabled` is
`selfdrive.enabled_prev`).

The settings are read at most once in each tick, so letting `ReadParams` change
one between ticks covers every interleaving of the two threads.

Left out: passive, notCar, REPLAY and SIMULATION modes; publication and display of
alerts; brands whose cancel button or PCM is special (hyundai, honda); `regenBraking`
is the brake; at least one panda is connected. Events that carry the same types are
represented by one (`processNotRunning` for the soft-disabling system faults,
`tooDistracted` for those that only refuse entry). A CarState holds at most one
cancel event (with two, `remove` would leave the second in the list).

### Parameter store

`file` is the directory as processes see it, `disk` as a power loss leaves it at
worst; each content remembers whether its data was synced before the rename.
Every step of `put` between two system calls is a state in which another thread
may run, a call may fail (`PutFails`), the process may be killed (`Kill`) or power
may be lost (`PowerLoss`, which keeps for each key either the synced or the current
entry and tears what was not synced). The flock is one variable: the kernel releases it with
the process. `putNonBlocking` is two steps, `Push` and `StartWriter`, with the writer
thread's `Pop`, `PopEmpty` and `WriterReturns` in between: the gap between the last two is
where a thread that has stopped looking is still "running".

Left out: `get` (a single read; the blocking variant only polls), temporary files
that a kill leaves behind, a lock file that cannot be opened, and the Python
binding's types and defaults. One thread uses each `Params` object, as the code does.

### Going onroad

One drive after another, over the parameters `IsOnroad`, `FirmwareQueryDone`,
`ControlsReady`, `CarParams`, `ObdMultiplexingEnabled` and `ObdMultiplexingChanged`.
The manager's loop is `Update` (reads deviceState), `ClearAll` and `WriteOnroadParams`
(on a transition), then `Start` or `Stop` of card, and `Join`, `Kill` for a process that
was told to stop. `proc` is what the process table holds, `cards` every card
that was ever started: the table may forget one that still runs, which is the mistake
`OneCard` looks for. A card is its place in its start, the queries it has left, what SIGINT
did (nothing, sent, raised, swallowed) and whether `ControlsReady` is still in the write queue
of its `Params` object. A card that got SIGINT finishes the call it is in, which may be a `put`
that lands after the manager has cleared the parameters. The blocking read of
`ObdMultiplexingChanged` takes the signal for itself: the read returns, nothing is raised, and
card goes on until the manager kills it (`ObdSet`). pandad's loop is split at each
read of a parameter: `Sample`, `UpdateMultiplexingMode`, `Answer`, `FetchCarParams` (three
reads), `SetSafetyMode`.

`clean` is no code. It is lost when the code is known not to cope: a drive that starts before
pandad noticed the end of the last one or while an old card is in a call, an ignition that
drops while IsOnroad is set, pandad restarted during a fingerprint. The three properties that
need it say so; `OneCard` and `CardEndsOffroad` do not.

Left out: processes other than card, watchdogs, thermal and other conditions of hardwared,
heartbeats and CAN.

### Updates

`u` is the list of steps that updated has left in its round; each action takes the
first, so every boundary between two of them is a point where power can be lost.
`fin` is FINALIZED as processes see it and `finOnDisk` as of the last `os.sync`:
`PowerLoss` picks tree, flag and base from either, or a torn tree. `slots` and `disk` are the
same for the AGNOS slots, cell by cell: the data of a partition and the hash behind it reach the
disk separately. `overlay.edits` and
`fin.edits` count the changes of BASEDIR the copy is based on; `initFile` is the age of
OVERLAY_INIT relative to BASEDIR's `.git`, which is how the code detects such changes. A
partition is its data and the hash written behind it, a slot a function of partitions.
`clear_partition_hash` writes its zeros into a Python buffer, syncs, and flushes the buffer only
when it closes the file (agnos.py:151-158); so `FlashBegins` and `ClearHashes` sync what was
there before, and the cleared hash waits in the page cache for the sync that follows the image.
That one may come too early as well: if a sparse image ends in a filler block (agnos.py:83-84),
the block is still in the buffer then (`Buffered`). Nothing syncs the new hash. `FullCheck` are the
partitions that are verified by reading them; the manifest has all but `system` there.
`boot` walks through the launch script, which may have to swap, to flash and to activate.

The abstract specification `Installation` knows the installed tree, the update that the next
boot would install, the running AGNOS and the other one, and whether the manager runs. A copy
in FINALIZED is that update (`Prepared`) while a boot may find its flag, in memory or on
the disk, and OVERLAY_INIT is newer than the last change of BASEDIR.

`stale` is no code: a loss of power has left a hash behind data that are not its own. A slot with torn
data is taken not to boot.

Left out: the network, release notes, the parameters that show progress, the content of
git operations (a checkout is begun, then complete), the migration of old forks.

### Upload queue

A handler goes through `top`, `get`, `check`, `upload` and the rest of a retry: put back
(`Retry`), cached (`CacheRetried`) and cleared (`ClearRetried`) are separate steps, and after a
refusal the queue is cached once more (`Recache`). `item` is its `cur_upload_items` entry, which
outlives the work: it is cleared by the retry or at the next turn of the loop, if there is one
(`NextTurn`). In between the item may be in the queue again, or with another handler. A worker's call is two steps: `listUploadQueue` copies the queue
(`copied`) before it looks at the items in progress, and `cancelUpload` finds an item before
it marks it. `persisted` is `AthenadUploadQueue`; `Crash` restores the queue from it, any number of times. The
abstract specification `Uploads` knows only whether an item is new, waiting, being uploaded
or gone, whether a cancellation has reached it and what a restart would bring back.

Left out: the websocket protocol, other remote calls, the transfer itself, and two caches
written at the same time in the other order.

### Log rotation

`Receive` is `handle_encoder_msg` for the next packet of an encoder, followed by
`rotate_if_needed`; the packet is made by `Encode` in the same action because one
socket delivers in order. It is written, queued until the other encoders roll over or
until sound arrives, or dropped because its segment is older. `SkipFrame`,
`RestartEncoderd`, `RotateTimedOut` are the faults. `Recorded` are the encoders that write a
file; the others only rotate, and what they have queued is dropped. `files` holds what was written and the
segment at that time. `clean` is lost by a timed-out rotation, a restart or skipped
frame before loggerd knows the encoder, a restart within a rollover, and sound later than the
queue lasts.

Left out: the content of segments, locks, the qlog, bookmarks, cameras that are not used.

### Lane changes

One action, `Frame`, per model frame: exactly one of `Cancel`, `Enter`, `StayOff`,
`Pre`, `Starting`, `Finishing` applies, each with the update of the automatic lane
change that the code calls first. `ReadParams` changes the settings between frames.
Timers and probability fades are counted in frames. `automatic` and `clearFor` are no
code: how many changes began by themselves since the blinker came on, in how many frames
of its wait a change has found the blind spot clear.

Left out: lane turn desires and what the model makes of a desire.

### Speed limit assist

`CardRuns` and `Press` are card's step on a car whose set speed openpilot keeps, with
the plan last published: a short press, whose release changes the set speed; a step of a long one,
which changes it while the button is held; and a release that changes nothing, because it ends a
long press or because the press began at standstill or before openpilot was engaged. `ReadCarState` and `UpdateSla` are plannerd's. Each sees only
the last message of the other, so plannerd may miss the release of a button and card
may act on an old state. When card sees that openpilot was engaged it initializes the set
speed (`Initialize`) instead of updating it. It runs five times as often as plannerd, so it
has noticed the driver before plannerd looks a second time: the guard of `UpdateSla`.
The driver engages, disengages and switches the assist on and off (`SwitchAssist`).
`asked` and `recent` are no code; they record whether the driver held or released a button since
the limit came up, or close enough before.

Left out: cars with PCM cruise, the source of the limit (a value that changes), the
conversion of units, accelerations, the clip to the speed of the car when set is pressed with the
gas (cruise.py:120-122). The set speed that `Initialize` chooses reaches plannerd at once: it reads
carState ten times before its guard period is over.

## 3. Runs

| Run | Asks | Result |
|---|---|---|
| `selfdrived` | all promises of engagement over every sequence of ticks | holds |
| `gas_press_ignored` | mads.py:64, "ignore pedalPressed events caused by gas presses" | violated once the setting is changed onroad: MADS keeps the old value |
| `mads_soft_disable_timed` | mads/state.py:47-48, the timer is reset on entrance in softDisabling | violated while openpilot is preEnabled |
| `params` | promises of the store, its refinement of `KeyStore`, termination of calls | holds |
| `params_queue` | params.cc:103, `assert(queue.empty())` | violated: lost wake-up in putNonBlocking |
| `upload_queue` | one copy of each item, refinement of `Uploads`, progress, end of the threads | holds |
| `updater` | what boots, whatever is interrupted; refinement of `Installation`; progress to the published version | holds |
| `agnos_cut` | updated.py:207, "prevent an openpilot getting swapped in with a mismatched or partially downloaded agnos", agnos.py:241, "Clear hash before flashing in case we get interrupted" | violated: the hash is cleared after the sync, so a cut flash may leave torn data behind the old one |
| `onroad` | one card, handshake and safety mode of this drive, progress of both | holds |
| `lane_change` | what a lane change may do by itself, and that it ends | holds |
| `speed_limit` | low limits wait for a press, a press that was heard works, no oscillation | holds |
| `loggerd` | packets in order, in one segment, none lost, none left queued | holds |

The properties:

* `MismatchDisengages`: never engaged with the panda's refusals at the limit.
* `BrakeStopsSteering`, `SteeringSurvivesCruise`, `NoUnrequestedSteering`,
  `PauseConditionWins`, `UnifiedEngagement`, `CanLossDisengages`: who wins when
  several things happen in one tick. Each relates the conditions of a tick, both
  machines before and both after. `SteeringSurvivesCruise` and `UnifiedEngagement` except
  `EngagesTooSlow`: speedTooLow and cruiseDisabled disable at once but do not refuse
  entry, and car_specific.py raises them only for a car that openpilot drives already.
* `SoftDisableAnnounced`, `SoftDisableWindow`: the shared timer and the shared
  alert list. Both except a tick that starts in preEnabled; there the code does
  something else than its comment, which is the run `mads_soft_disable_timed`. The second
  also excepts openpilot starting a soft disable after MADS did, which arms the timer anew.
* `ReadAllIsSnapshot`, `PutIsDurable`, `QueueOrder`, `CallsReturn`,
  `ImplementsKeyStore`: the store as its users see it.
* `OneCopyPerItem`, `ImplementsUploads`, `EveryItemFinishes`, `EndEventEndsThreads`: no two
  threads work on an item, nor is it queued while one does; the threads act as one abstract
  queue, also over a crash; whoever retries comes to an end, and so do the threads. The first is
  about working handlers: one that has put its item back still shows it in `cur_upload_items`
  while another takes it.
* `TreeNeverTorn`, `ActiveSlotComplete`, `SwappedInWithAgnos`, `LocalWorkKept`,
  `ImplementsInstallation`, `EventuallyUpdated`: what a device finds when it boots after any
  interruption. The gap between the two renames of the launch script is an explicit exception of
  the first and the last. Of the AGNOS the second and third promise without exception what is
  verified: the partitions that are read in full, and a slot that verifies; that the others are complete
  they promise unless `stale`. That the exception happens is what `agnos_cut` shows
  (`PartialAgnosNotSwappedIn`), and `EventuallyUpdated` excepts the device that activated such a slot.
* `OneCard`, `QueryInRequestedMode`, `SafetyFromThisDrive`, `EventuallyConfigured`,
  `CardEndsOffroad`: nothing of the last drive is taken for this one.
* `OneAutomaticChange`, `BlindspotDelays`, `EveryChangeEnds`: counted over whole
  histories of frames, not over one transition.
* `LowLimitNeedsPress`, `HeardConfirmationWorks`, `Settles`: two processes that each judge
  the same press and the same set speed, at different times.
* `FramesInOrder`, `OneSegment`, `NothingLost`, `QueueIsWritten`: whatever the encoders,
  sound and restarts do to the order in which segments become ready.

**Bounds.**

| Run | Instance | Why it is enough |
|---|---|---|
| `selfdrived` | `SoftDisableTicks` 3 for 300, `MismatchLimit` 2 for 200; each pedal, motion and cruise situation, without gas also with one rarer condition per tick, and the pairs that must meet in one tick | entry, countdown, re-arming and expiry are different ticks (with 2, re-arming does not show); sequences of ticks are unbounded; the theorems hold for every value |
| the two violations of it | the same, `SoftDisableTicks` 2 | – |
| `params`, `params_queue` | two processes, one that queues and one that does the rest; two keys of which `clearAll` takes both; two writes | an overtaking writer, a second writer thread, a scan and a clear meeting a put, at any crash point |
| `upload_queue` | two handlers, one worker, two items, one retry, any number of crashes (519,700 states) | two threads on one item, on two items, a call between each two of their steps, a second try, a restored cache |
| `updater` | two versions, two partitions, one read back in full and one verified by its hash, which is written with a filler block; three faults (227,658 states) | interruption, recovery and interruption of the recovery |
| `agnos_cut` | three versions, one partition that is verified by its hash, three faults | a slot that held one version, a flash of another that is cut, and the target back to the first |
| `onroad` | two drives, cars that need one or two queries, one crash or restart (980,441 states) | the end of one drive meets the start of the next; the mode changes during a query |
| `lane_change` | four frames a second, changes of up to three seconds, all kinds of setting (108,570 states) | every timer crosses each of its thresholds; sequences of frames are unbounded |
| `speed_limit` | set speeds 1 and 2, limits below and at the threshold and beyond the range, two presses of either kind, three changes (247,659 states) | a confirmation, a press that crosses it, an adoption and a change after it |
| `loggerd` | segments of four frames, groups of two, queues of two, one encoder that is recorded with its sound and one that is not recorded, nine frames, start after 0 to 4 frames, one fault (173,054 states) | two rotations, each with a fault before, between and after the encoders' roll-overs |

`VIEW` drops in the selfdrived runs the alerts and those parts of `CS_prev` that no action
reads; TLC evaluates action properties on every step before it discards the successor, and
the invariant reads nothing that is dropped. In `upload_queue` it keeps of an item that a handler
has finished with, of a copied list and of `cancelled_uploads` what a later step can read: two states
with one view have the same steps and the same values of every property. Deadlock is checked except
in `updater` and `agnos_cut` (without a BASEDIR nothing boots) and `loggerd` (all frames sent).

**Fairness.** Engagement has only safety properties and no fairness. Elsewhere what the
scheduler runs again and again is weakly fair, and nothing is assumed of the driver, the
road, calls, faults, crashes or power:

* `Params`: every thread that can go on does (WF of its next step), and the kernel
  serves those who wait for the flock in turn (SF of taking it), since other threads may
  take it over and over. `CallsReturn` counts a kill as an end of the call.
* `UploadQueue`: WF of each thread's steps, and of joining the threads. A request ends because it has
  a timeout, a get and a delay after theirs. The subscript is the thread's `pc`, which each of its
  steps changes.
* `Updater`: WF of the launch script's and updated's steps; SF of `RebootToUpdate` and
  `FetchNow`, because the device is rebooted and updated woken again and again, though
  perhaps not while each round lasts.
* `Onroad`: WF of the loops of hardwared, manager and pandad and of card's steps. None for a card
  that should exit: it may ignore SIGINT, and the manager must kill it.
* `LaneChange`: WF of `Frame`. `SpeedLimitAssist`: WF of `CardRuns`, `ReadCarState`, `UpdateSla`.
* `Loggerd`: WF of `Receive` of each encoder and of `Sound`.

**Variables that are no code.** `clean` (Onroad, Loggerd), `asked` and `recent`
(SpeedLimitAssist), `automatic` and `clearFor` (LaneChange), `stale` (Updater) record history
that a property speaks of. No guard reads them. What makes `clean` false is the list of
situations the code does not cope with, in each case next to the action.

## 4. Proofs

Every theorem holds for all values of the constants, under the `ASSUME` of its module,
which says what their types are and which of them are positive.

`EngagementProofs`: all promises of engagement. `TypeCorrect` and
`MismatchAlwaysDisengages` from
`IInv == TypeOK /\ MismatchDisengages`. `TypeOK`, which no run repeats, alone is not inductive: the
counter is bounded only because the sample that reaches the limit disengages in
the same tick and the next one resets it. The argument follows controlsMismatch
from the counter through the events (it is immediateDisable) to `DisableNow`.
`SteeringIsRequested` traces every event that
carries *enable* back to a request; `BrakeAlwaysStopsSteering`
shows that the brake disengages openpilot first, so MADS is engaged alone, pauses
or disables, and cannot resume in the same tick. `CanLossAlwaysDisengages` and
`PauseConditionAlwaysWins` follow one event through the rewriting, `UnifiedModeEngagesBoth`
and `SteeringAlwaysSurvives` show of every other event of the tick that it cannot
interfere. They need the invariant
`OffWhenSwitchedOff`: with its setting off MADS stays disabled. `SoftDisableAlwaysAnnounced`
and `SoftDisableKeepsTime` need another, `SoftTogether`: while openpilot soft disables MADS
is not enabled or overriding, so only one of the two can enter at a time.

`ParamsProofs`: `IInv` adds to `TypeOK` that everything visible is synced
(`AllSynced`), that who is inside a locked section holds the lock (`LockHeld`) and
that threads have the data their step needs (`CallState`); without `LockHeld` a
scan is no snapshot, without `AllSynced` power loss tears a file. From it:
`TypeCorrect`, `ScansAreSnapshots` and, step by step, `ParamsImplementKeyStore`.
`PutsAreDurable` adds `InPlace`: between rename and fsync_dir the renamed value
is in the directory. `QueuesKeepOrder` adds `QueuesInOrder`: a queue is sorted, behind what
its thread is writing. All hold for any processes, keys, uses and number of writes.

`UploadQueueProofs`: `UploadQueueOneCopyPerItem` from an invariant that a handler which works on
an item owns it exclusively: ids are unique in the queue and in the cache, and a restart,
which restores the second, finds nobody working. What a handler shows that has put its item back or
is done with it does not matter, and the invariant says nothing of it. `UploadQueueImplementsUploads`
maps every step to a step of `Uploads` or a stutter; each moves at most one item. It needs
that the workers are finitely many, because accepted calls in flight are counted.

`UpdaterProofs`: all four safety properties and the refinement. The invariant says which of
the three copies (memory, disk, BASEDIR) is complete at each position of updated's round
and of the boot; the flag is found, in memory or on disk, only with a complete tree, because
`set_consistent_flag` syncs before and after it. Of the slots it says, for the page cache and the disk
and every mixture that a loss of power may leave of the two: data behind a hash that is not theirs are torn
and nothing else (`HashInv`, `Near`), and then only if `stale`; the partition that is being written has lost
its hash, on the disk too once its image is synced (`WriteInv`); the slot that boots never changes
(`ActiveInv`), and what the launch script activates is on the disk, because `ClearHashes` syncs
(`TargetInv`, `Sound`). The AGNOS of a flagged update is verified, and nothing of the slots is unsynced
(`AgnosInv`): the sync that precedes the flag covers the last hash written.
`UpdaterImplementsInstallation` maps every step to a step of `Installation` or a stutter. It adds
`SwapInv`, that between the two renames the flag is still there, so what is moved in is
the update that was offered. A round that flashes, or clears the staging area, has cleared the
flag and synced before: no slot changes and no copy is torn while it is an update.

`OnroadProofs`: three safety properties. The process table knows the last
card as long as it lives; what `clear_all` cleared stays cleared until the card of this
drive writes, if the last drive had settled; and an answer that is found is to the
request that stands.

`LaneChangeProofs`: `OneAutomaticChange` (after a change that began by itself the blinker is
on and prev_lane_change set until the state machine is off) and `BlindspotDelays` (the wait is
behind the delay by what is missing of a second).

`SpeedLimitProofs`: `LowLimitIsAskedFor`. While nobody held or released a button, plannerd holds no release
that has not expired and knows the set speed card keeps; so it becomes active only if the set
speed is the limit already.

`LoggerdProofs`: all three safety properties. `LoggerdFramesInOrder`: what is written of an
encoder, what is queued and what is yet to be encoded stay in this order, because what is written
is always the end of queue and new packet (`WrittenIsTail`), never a selection from them. It needs
no `clean`: faults may lose packets but not reorder them.

`LoggerdOneSegment` and `LoggerdNothingLost` follow from `LoggerdInv`, whose heart is one function:
`off` says for each run of encoderd where in the log it began, so that segment s of the run belongs
into segment s - `off` of the log. It exists because a restart is seen by all encoders in the same segment. With
it each encoder is in one of four phases (`Phase`): not seen yet; restarted, which loggerd learns
from its next packet; in the segment of the log or marked as ahead of it; or about to enter, with its
first packets queued since the rotation. The invariant also needs that a queue which opens a file
begins with a key frame, that ready_to_rotate counts the marked encoders and never all of them, and that
an encoder which has rolled over does not do so again before the log has rotated. The last
is an argument about time: encoders are at most `Skew` frames apart, a rollover is late only by the
frames that were skipped, so the lead of a marked encoder is at most `Skew + MaxFaults + 1` frames,
less than a segment, and what it has queued is as long as its lead, so the queue is not full.
The code guarantees neither: they are the bounds of `LoggerdAssumption`, which
the rates allow by far (1200 frames in a segment, 200 in a queue).
`LoggerdNothingLost` counts the numbers missing since any that is kept
(`AtMostMissing`); only the packet that shows a restart adds to them.

Only model-checked: liveness (`CallsReturn`, `EveryItemFinishes`, `EndEventEndsThreads`,
`EventuallyUpdated`, `EventuallyConfigured`, `CardEndsOffroad`, `EveryChangeEnds`,
`HeardConfirmationWorks`, `Settles`, `QueueIsWritten`), which is beyond the prover.

## 5. Observations without a run

Behaviour that no property forbids because no code, comment or test excludes it.

Engagement:

* selfdrived.py:496 speaks of two samples of mismatch; the limit is 200 (line 326).
* LKAS pressed to turn MADS off in a tick that pauses it leaves it paused (mads/state.py:54).
* A driver who holds the brake at standstill in the PAUSE mode resumes silently:
  `pedalPressed` is raised on the edge only when the car stands (selfdrived.py:236).
* Gas and brake pressed in one tick: `pedalPressed` carries no cause, so the gas edge hides the
  brake's (mads.py:65).
* In Park with MADS engaged a lost CAN bus raises no event at all: `canBusMissing` suppresses
  `commIssue` before it is muted itself (selfdrived.py:367).
* `remove` drops one occurrence of an event that may be in the list twice (events_base.py:167).
* LKAS pressed together with the brake engages MADS even where the brake is to disengage it: what
  should "block lkasEnable if being sent" (mads.py:180) asks `contains`, which takes a type
  (events_base.py:119), for a name, and the branch is dead (mads.py:181).
* The edge of the main switch is lost if it falls into initialization (mads.py:154).
* MADS that soft disables while openpilot is preEnabled gets the full time anew when openpilot
  leaves preEnabled into a soft disable of its own.

Parameters: a put or a clear after `putNonBlocking` can be overtaken by the queued write; a
blocking get sets a process-wide flag and signal handlers (params.cc:185).

Going onroad: an offroad period shorter than pandad's sample, or an ignition that
flickers, leaves the flags of the last drive in force (pandad.cc:486); a restart of pandad
during a fingerprint leaves the request unanswered; a passive car stays in ELM327 (card.py:278);
hardwared resets OnroadCycleRequested in two steps (hardwared.py:221); the manager takes a
pid from a parameter file for its daemon (process.py:227).

Updates: power lost between the two `mv`s leaves no BASEDIR (launch_chffrplus.sh:53), though
both trees are on disk; a request that arrives between the end of a round and the reset of
`user_request` is lost (updated.py:497). A partition that is verified by its hash may be torn behind
it after a loss of power during its flash, in both directions: the old hash survives its clearing
(agnos.py:158), or the new one reaches the disk before the last block of its image. The first is the run
`agnos_cut`.

Uploads: a cancelled item stays in the persisted queue until the next write of the cache
(athenad.py:492), so a crash brings it back, and it is uploaded. An item that was put back is listed twice by
`listUploadQueue` until `cur_upload_items` is cleared (athenad.py:235-238).

Speed limit assist: carState is conflated, so plannerd can miss a release that card has
swallowed as a confirmation: the press then does nothing; card swallows one more in
the step after the prompt timed out. A press in the step of an adoption leaves the assist
active with another set speed. A card that is not scheduled while plannerd leaves preActive and returns
to it does not know that the prompt is a new one.

Lane changes: a lane turn desire replaces a lane change's.

Logs: after a rotation by timeout the packets of the old segment look like a restart of encoderd,
and set an offset that is wrong when it goes on (loggerd.cc:190); an encoder that
starts in another segment than the rest keeps its own count of segments; a queue that is full drops
packets silently.

## 6. Not modelled, and plan

Numeric control, planning, radar, models, localisation and driver monitoring are filters
over reals with thresholds, which TLC cannot enumerate and whose discrete shadows would say little.
Messaging, UI, sound, sensors, cameras, maps and tools are I/O or presentation without
shared state that outlives a message. Of athenad the websocket and the remaining
calls, of the manager the watchdogs and the other processes, of hardwared the thermal
and power conditions are left out.

What could come next: the deleter and uploader, which share segments with loggerd through
lock files; speed limit assist on cars with PCM cruise and ICBM, which press the car's own
buttons; the manager's watchdogs and daemons.
