# ArtLight: a verification development

ArtLight is a game-streaming host: `server/` is the C++ streaming server (a
Sunshine fork called *vibeshine* inside its sources), `control/` a C# desktop
application and its service, `service/` the input service, `scripts/` porting
tools. Server and control application are used together but share no process.

This directory holds TLA+ modules that model the parts of it where control,
not data, is what can go wrong, TLC configurations that check them on small
instances, and theorems about them checked by TLAPS. Paths below are relative
to the repository; `SM` stands for
`server/src/platform/windows/display_helper_v2/state_machine.cpp`.

**Contents.** 1 Inventory · 2 What is modelled, and how it corresponds to the
code · 3 Runs and bounds · 4 Fairness · 5 Proofs · 6 Findings · 7 Abstractions ·
8 Limits of the properties · 9 Plan

## 1. Inventory

### 1.1 The display helper (Windows)

A separate process (`server/tools/display_settings_helper_v2.cpp`,
`server/src/platform/windows/display_helper_v2/`) changes the desktop's display
topology for a streaming session and must put the user's desktop back,
whatever happens: a client that vanishes, a newer request, a crash of the
server, its own failure. Its requirements are the feature files
`server/behaviors/display_engine_2/scenarios/01..08*.feature`. It is the part of the
program with the most control: five concurrent actors, cancellation, deferred
commands, retries, durable state.

| Component | State it keeps | Operations | What is hard |
|---|---|---|---|
| State machine (`SM`, `state_machine.h`, `types.h`) | `state_` (7 states), the current request, which mutation worker is active, deferred commands, a held completion, the recovery lease, the settlement of a recent disconnect, repair budgets, the staged-state reset | APPLY, REVERT, DISARM, RESET, SNAPSHOT / EXPORT_GOLDEN, refresh rate; completions of apply, verification, recovery, validation, reset, refresh; display event; tick | Every completion may be stale, yet only it may retire the mutation fence; handlers drain the queue and so call other handlers; commands die with their connection |
| Operations (`operations.cpp`) | the durable restore task in the Windows scheduler; what the desktop looks like | apply, verify, recover, validate, reset, refresh | Cancellation is looked at in a few places only; a partial result must say what it did |
| Dispatcher (`async_dispatcher.cpp`, `runtime_support.h`) | a FIFO worker queue, a FIFO timer queue, the generation counter | dispatch, cancel all, delay | A newer generation cancels what is queued or running, but never un-does it |
| Host loop and pipe (`display_settings_helper_v2.cpp`) | mailbox, connection epochs, heartbeat, debounced display event, restore origin | receive (with control commands overtaking completions), tick, disconnect, reconnect, heartbeat time-out, exit | The pipe thread retires the epoch at any moment, also while the main thread drains |
| Restore schedule (`RestoreScheduler` in `runtime_support.h`) | window, next slot, back-off index, expiry latch | arm, attempt failed, display event, poll | A restore's own display notifications come back as events |
| Snapshots and golden baseline (`snapshot.cpp`, `snapshot_codec.cpp`, `golden_health.cpp`) | three snapshot tiers on disk, health counters | capture, promote, blacklist, verdict | mostly data |
| Topology policy and Windows ports (`topology_policy.cpp`, `win_*.cpp`) | none | calls into Windows | – |

What makes it correct: one display mutation at a time; a desktop that was
changed is under a recovery lease until it is restored or released; a state the
helper leaves only through a completion has the worker that will complete; the
client's newest word wins and is answered once, by its own work; a recent
disconnect is decided; the helper does not exit over work it still owes.

### 1.2 The rest of the server

| Component | State, operations and interaction | What is hard | What would make it correct |
|---|---|---|---|
| Display helper, client side (`display_helper_integration.cpp`, `display_helper_watchdog.cpp`, `display_helper_session_deferral.cpp`, `ipc/display_settings_client.cpp`) | connection to the helper, request ids, results of APPLY and verification; starts the helper, pings it, retries deferred applies | late replies of an older request, restart after a ping failure | a reply is matched to its request; a retry never replaces a newer request |
| IPC (`ipc/pipes.cpp`, `ipc/ipc_session.cpp`, `ipc/process_handler.cpp`) | overlapped pipe, handshake, child process | cancellation of overlapped I/O | no reply after close; no handle used twice |
| Streaming lifecycle (`rtsp.cpp`, `rtsp_pending_policy.cpp`, the session part of `stream.cpp`, the launch, cancel and pairing routes of `nvhttp.cpp`) | pending launches with an expiry and a startup claim; startups in a pool; live sessions in a set, in the control thread's list and in counters; the shared runtime (displays, platform hooks, overrides) that the last one restores; `stream_lifecycle_mutex` | expiry against claim against cancellation; joins by several threads; a raw pointer held by the control thread; decisions taken under one lock and applied under another | a launch streams at most once and never after its cancellation; what it configured is restored once, and not under a live stream; nobody waits in a circle |
| Queues, task pool (`thread_safe.h`, `task_pool.h`, `thread_pool.h`, `single_flight.h`, `deferred_action.h`, `sync.h`) | bounded queues, events with a stop flag, delayed tasks named by address | stop and reset, cancellation of a task that just ran, overflow | a waiter wakes; a cancelled task does not run; nothing else is cancelled |
| Audio and screen saver (`audio.cpp`, `audio_lifecycle_state.h`, `screen_saver_state.h`, driven by `process.cpp`) | the audio context the captures share, one retained successor of it, terminal, hand-over and restore marks; the screen saver's baseline and the tokens of pause workers | an app's end and its successor's start against captures that come and go; workers that outlive the pause that started them | the user's output always has exactly one who will put it back; the screen saver a stream, an app or a pause's commands changed is put back to what the host found, and what it finds is the user's |
| Session history (`session_history*.cpp`) | four bounded queues in front of one SQLite writer thread, a sampler thread, the list of active sessions; started and stopped by the configuration while streams run | queues drained out of order of arrival; batches that fail in the middle; deletes waiting on a promise; a stop against an enqueue | what was accepted is written, in the right place; a delete is answered truly; an active session's row stays |
| State, pairing, HTTP (`state_storage.cpp`, `http_auth.cpp`, `nvhttp.cpp`, `confighttp.cpp`) | JSON files and token tables behind locks | mostly data and I/O | – |
| Remote displays, USB/IP input (`remote_display_topology.cpp`, `usbip_input_session.cpp`) | virtual displays and devices per client | attach and detach against disconnect | one owner per display and device |
| Quit, update, processes (`quit_request*.cpp`, `update.cpp`, `process.cpp`, `steam_process_tracker.cpp`) | child processes | exits seen late | – |
| Capture, encoding, streaming (`video.cpp`, `stream.cpp`, `audio.cpp`, `webrtc_stream.cpp`, `nvenc/`, `amf/`) | GPU and network pipelines | timing and data | – |
| Configuration, library sync, web UI (`config.cpp`, `*_auto_sync.cpp`, `src_assets/`) | settings, catalogues, a browser front end | data | – |

The C# control application and its service (`control/`), the input service
(`service/`), packaging, plugins and vendored code hold no protocol of their own
worth a model; they are listed in `PROJECT.json` as not modelled.

The server asks the helper for a desktop before a stream starts and for its
restoration when the last session ends; it reaches it only through the pipe. A
lost pipe is a lost client for the helper.

## 2. What is modelled

Four systems: the display helper (with its restore schedule over time as a module
of its own), the streaming lifecycle, the session history, and the app's life with
the two settings of the user's desktop it must give back.

### 2.1 `RestoreSchedule`

The `RestoreScheduler` object and the handlers that drive it. Time is counted in
seconds; a deadline is what is left of it. `Advance` needs a `Tick` since the
last one: the host polls every 100 ms and so ticks in each second. A restore
itself takes no time, except the grace period it begins with.
`MCRestoreSchedule` gives the back-off sequence, `RestoreScheduleProofs` the proofs.

### 2.2 The display helper

```
HelperState        variables, records, tasks and messages
 |- HelperCommands     commands: fence, deferred queue, stale test   (SM, handle_*_command)
 |   |- HelperCompletions  completions of APPLY and verification    (SM, handle_apply_completed ..)
 |       |- HelperRecovery     restores, resets, events, tick       (SM, handle_recovery_* ..)
 |- HelperWorker       worker and timer threads                      (async_dispatcher.cpp, operations.cpp)
DisplayHelper      = HelperRecovery + HelperWorker + host loop, pipe, client, Windows, time
HelperProperties   types, safety, action properties, liveness
 |- MCDisplayHelper    sets of requests for TLC
 |- DisplayHelperProofs  TypeCorrect, RestoreLeasedHolds, FinishUnfencedHolds, ResetBarrierHolds
     |- MutationFenceProofs  MutationFenceHolds
         |- HelperSessionProofs  ChangedDesktopLeasedHolds, TaskRememberedHolds, AnsweredByOwnWorkHolds,
                                 NothingStrandedHolds, RetiresReleasedHolds, ExitKeepsIntentHolds,
                                 IntentOrderHolds, AnsweredOnceHolds
```

One action is one handler path of the code, from its entry to its return or to
the point where it calls another handler; its early returns are actions of
their own (`HandleRevertJoins`, `HandleRevertDeferred`, `HandleRevertPolicyOff`,
`HandleRevertNothing`, `HandleRevert` are the five ways out of
`handle_revert_command`). `PROJECT.json`, "map", gives the lines.

The correspondences a reader needs:

* **The call stack.** In C++ a handler runs to completion on the main thread,
  but the pipe thread can retire the connection epoch in the middle of it, and
  a handler that drains the deferred queue re-enters other handlers whose test
  for a stale connection reads that epoch. So `todo` is the call stack: frames
  `handle` (a message to handle), `drain`, `resume` / `outcome` (the rest of
  `finish_apply_completed`), `afterReset`, `afterRestore`, `exitAfterReset` (what
  follows a drain in the three handlers that have something to do after it).
  `Idle` is an empty stack.
* **The mutation fence.** `worker` is `active_mutation_worker_` with its
  generation, `staging.resetting` the barrier of a staged-state reset; `deferred`
  and `held` are the deferred commands and the completion held behind the reset.
* **Generations.** `gen` is the dispatcher's counter, a task is cancelled when
  its generation is not current, and every message carries the generation of
  the work behind it.
* **The recovery lease.** `lease.armed` stands for `recovery_armed_` and for the
  pending-recovery flag that goes with it; `lease.task` for the belief that the
  durable restore task exists (the task itself is `taskExists`);
  `lease.unconfirmed` for a mutation that was cancelled and not confirmed.
* **Epochs.** `epoch` is what the pipe thread advances, `bound` the epoch the
  main loop believes it is serving; `link` is the host loop's view of the pipe.
* **The worker** reads its token at the points the code does: `phase.at` is where
  the running task stands (`start`, `boundary` after the durable task was
  registered or the restore's last look at the token, `touched` after the first
  mutation). Each point is a step, so cancellation falls in every gap.
* **History variables** `debt` (the desktop differs from the user's and nobody
  restored it), `newest` (the newest command accepted), `replies` (results sent
  per APPLY) and the bounds' counters are the model's own.

`Boots` says how the helper may have been started: `TRUE` is `--restore`, without a
client, with the durable task registered and a REVERT in the mailbox.

### 2.3 The streaming lifecycle

```
StreamLifecycle     variables, actions, fairness   (rtsp.cpp, stream.cpp, nvhttp.cpp, process.cpp)
 |- StreamProperties   types, safety, action properties, liveness; refines
 |   |- StreamService      what is promised about launches and the runtime they share
 |   |- MCStreamLifecycle  clients and symmetry for TLC
 |   |- StreamLifecycleProofs   TypeCorrect, StartsOnceHolds, RunningCountedHolds, RuntimeKeptHolds
 |   |- StreamServiceProofs     RevokedNotPendingHolds, ImplementsServiceHolds, CleanupOwedHolds,
 |   |                          ShutdownCleanHolds, ListedAliveHolds, NoCircularWaitHolds
```

The actors are HTTP and API callers, the RTSP thread, the one worker of the
startup pool, the control thread of the broadcast context, the capture threads
of each session, and the thread that shuts the RTSP server down. They share the
launch registry, the set of sessions, the control thread's list of raw pointers,
three counters and the runtime.

* **Locks.** `gate` is `stream_lifecycle_mutex`; an action that takes and releases it
  within the code is one step with `Free` in its guard, one that keeps it across
  blocking calls sets `gate`. The registry's, the set's and the list's own locks
  are leaf locks: each critical section is a step. `launch_request_mutex` is
  held by whoever runs a launch, cancel or terminate and is the derived guard
  `RequestsIdle`.
* **A launch** is `new`, `pending` or `gone` in `entry`; `due` and `claimed` are its
  expiry and its `startup_claimed`. One model value is one launch, so its
  session bears its name: `sess` is `none`, `running`, `stopping` or `freed`.
* **A startup** goes from `Announce` (claim, `startup_tasks`, pool) through
  `TakeStartup` (second look under the gate), `StartSession` or `StartFails`, and
  `Insert` to the posted completion, `FinishStartup`.
* **A call that stops sessions** is a program in `job`: it takes sessions out of the set,
  stops and joins them one by one (`StopNext`, `JoinEnd`), drops their last
  references (`FreeSessions`), which may end the broadcast context
  (`EndBroadcast`), and goes on with what the route does afterwards. The sweep of
  stopping sessions, which every session query makes, is such a call.
* **The control thread** samples what keeps it alive, walks its list, iterates the
  host, where a connecting peer makes it take the gate (`LaunchSessionClear`), and
  raises `controlEnd` for whoever is left when it exits. A join is over when
  capture has ended and `controlEnd` is raised.
* **The runtime.** `armed` is `shared_runtime_cleanup_armed`;
  `FinalizeSharedRuntimeIfIdle` is evaluated over the state the step leaves.

`StreamService` is what a user of the host may rely on: a launch is offered at
most once, streams at most once, only from an offer, and is over for good; the
runtime is configured before an offer and restored only when nothing is
offered and nothing streams. `ImplementsService` is the refinement; its mapping
(`Phase`) says that a launch streams as long as it has a live capture thread.

### 2.4 The session history

```
HistoryWriter      variables, actions    (session_history*.cpp, config.cpp, confighttp.cpp, main.cpp)
 |- HistoryProperties
     |- MCHistory      limits of the queues for TLC
     |- HistoryProofs  DrainedAtExitHolds
```

The actors are the streams (`begin_session` and `end_session` in the start and the
join of a session), the sampler thread, callers of `delete_session`, the writer
thread, and whoever holds `g_lifecycle_mutex`: the start, a reload of the settings
or the shutdown.

* Each critical section of `g_queue_mutex` is a step: an enqueue, a drain. So is each
  batch under `g_db_mutex`: it commits (`Commit`, the commands applied in
  order) or not (`Rollback`, with the point where it stopped).
* `stream[u]` is where the thread of a stream stands in its begin or its end;
  between two of its enqueues anything may happen. A change of settings waits
  for the write side of the configuration gate, so not between the enqueues of
  a begin.
* The `sequence` of a command and the barrier rule (`FlushesBefore`) are the code's.
  A row is `none`, `live`, `ended` or `removed`; samples and events are not
  stored, but one that was enqueued between the begin and the end of its
  session (`timely`) and finds no live row is remembered in `missed`.
* A configuration save decides outside every lock whether streams are active; both
  outcomes of that race are alternatives of `SaveConfig`, and `ApplyConfig` looks
  again under the gate.
* `begun`, `finished`, `spoiled` and `missed` are history variables.

### 2.5 The app, the audio output and the screen saver

```
AudioLifecycle     captures, the context they share, what is retained  (audio.cpp, audio_lifecycle_state.h, thread_safe.h)
ScreenSaver        baseline, activity, pause workers                   (screen_saver_state.h, misc.cpp)
 \- AppLifecycle   launch, deferral, pause, resume, end; both settings (process.cpp)
     |- MCAppLifecycle      symmetry and a bound for TLC
     |- AppLifecycleProofs  TypeCorrect, SinkOwedHolds, TerminalLapsesHolds, BaselineTrueHolds, SaverOwedHolds
```

* **Captures.** `cap[c]` is where the audio thread `c` of a session stands in `capture`, from
  `get_audio_ctx_ref` to the release of its reference. `shared_t` constructs and
  destructs the context under its own lock; `lock` is who holds it across the
  several critical sections of `start_audio_control` and `stop_audio_control`, each
  of which is a step (`WaitForRestore`, `LookForRetained`, `Reclaim`, `CreateControl`;
  `ReleaseAction`, `Retain`, `RestoreControl`).
* **Outputs.** The system's default output is the user's or the stream's. A context, a
  retained owner and a terminal restore each remember one, and `Owners` are those
  that remember the user's and are bound to restore it. `PutBack` is what
  `restore_sink` does: an output that was changed meanwhile is left alone.
* **The app.** Launches, ends, pauses and resumptions hold `stream_lifecycle_mutex`, so `step` is
  one program counter: `terminate` begins the terminal restore, performs it outside
  the lock and completes it, ends the processes, restores the screen saver, clears
  `_app_id`; `execute` then assigns the next app, waits for the restore
  (`AppStarted`) and runs its commands. `running` takes up a launch that waited for
  a sign-in without that gate: it looks, warms up for seconds and only then clears
  the mark (`SeeDeferredLaunch`, `DeferredLaunch`), so several pollers may have looked.
* **The screen saver.** Each operation of `screen_saver_state_t` runs under one mutex and is a
  step. Reading the setting may fail, and a pause with commands may find that nobody has
  read it, an earlier pause having given the baseline up (`blind` for both); writing it
  may fail (`failed`).
* **Who changes it.** The programs that the host starts, at any moment they may be running
  (`AppWrites`): those of the app from its launch until `terminate` stops them, thus also
  while it is paused, since `pause` leaves it running (`launched`); and those nothing stops or
  waits for, from then until they exit by themselves (`loose`): detached commands,
  undo commands that timed out, the commands of a resumption. The commands of a pause until
  their worker finishes (`WorkerWrites`). The user, while the host remembers no other setting,
  beside a paused app or not (`UserWrites`).
* **Three settings.** `user` is what the user chose. `found` is the setting as it was when it was last
  nobody's to undo: no stream with the app, no pause worker, no failed attempt to
  make up for (`Covered`). It is what the next `begin` finds. A program that writes under
  `Covered` leaves `found` alone; one that writes at another time moves it away from `user`.

## 3. Runs and bounds

| Run | States | What it asks |
|---|---|---|
| `restore_schedule` | 691 | attempts per window, retries happen |
| `session` | 342 k | a connected client sends any three of APPLY, REVERT, forced DISARM, RESET |
| `disconnect` | 799 k | a session kept across the disconnect or a virtual HDR one, two commands, a connection that breaks at any step, a second one: delayed checks, repairs, SDR fallback, refresh rates, STOP, restores |
| `monitoring` | 2 345 k | a virtual session in the extended layout, a DISARM, a display event and a lost connection at any point, or a helper started with `--restore`: grace, attempts, windows, events, exit |
| `liveness` | 250 k | fair scheduling, two commands, a device arrival |
| `cancelled_apply_disconnect` | – | the first finding of section 6 |
| `stream_service` | 782 k | two launches, an app, three calls by two callers: launch, terminate, cancel, sweep; the refinement |
| `stream_ends` | 57 k | fair scheduling, one launch, three calls that stop it in every way |
| `stream_calls` | 936 k | two clients, two calls by two callers among launch, replace, disconnect and revocation, and the server's shutdown |
| `stream_deadlock` | – | the second finding of section 6 |
| `history` | 4 270 k | one stream, one caller, one save, two passes of the sampler, one refusal by the database; queues of two, one and two |
| `app_lifecycle` | 2 770 k | apps launched, deferred, paused, resumed and ended without bound, two captures, two pause workers, two pollers, programs that outlive their app |

Every property of a passing run has a mutant, a plausible slip in one mapped
definition under which the run finds that property violated (`PROJECT.json`,
"mutants"; the slips are defined next to the definitions they change).

Five invariants are not in a run because they are theorems for every value of the
constants (section 5) or follow from a property that is: the schedule's `TypeOK` and
`ExpiryReportedOnce`, the helper's `FinishUnfenced`, and of the streams `StartsOnce`
(which `ImplementsService` implies) and `RunningCounted`.

**Properties of `restore_schedule`.** `AttemptsFitWindow` (no storm: a window hosts no
more attempts than its back-offs leave room for); `RetryHappens` (a poll cannot
step over a slot).

**Properties of the helper.**

* Fence: `MutationFence` counts the mutations in flight, from dispatch to the
  handling of the completion, wherever they are (queue, mailbox, stack), and
  equates the count with what `active_mutation_worker_` says; `ResetBarrier` does
  so for resets.
* Progress as safety: `ProgressOwned`, `RecoveryOwned`, `VerificationOwned`,
  `DisconnectDecided` say that a state left only by a completion has the live
  work that will complete; `NothingStranded` that no live command stays in a
  queue nobody will drain.
* Commands: `IntentOrder` (nothing runs after a newer command was accepted),
  `AnsweredOnce`, `AnsweredByOwnWork`.
* Desktop: `ChangedDesktopLeased`, `TaskRemembered`, `RestoreLeased`,
  `SessionWatched`.
* Exit: `ExitKeepsIntent`, `RetiresReleased`.
* Liveness: `ComesToRest`, `ApplyAnswered`.

**Properties of the streaming lifecycle.**

* Launches: `RevokedNotPending` (after a revocation crossed the
  admission barrier and scanned, no launch of that client is pending, whatever
  was under way); `ImplementsService`.
* The runtime: `CleanupOwed` (a restoration that is owed has an owner of the runtime or
  somebody on the way to it: nobody forgets it), `RuntimeKept` (none under a
  live capture thread).
* Threads: `ListedAlive` (the control thread's raw pointers), `NoCircularWait` (the
  threads that wait for the gate, for a join or for the broadcast context are
  never in a circle), `ShutdownClean`, `SessionsEnd` (liveness).

**Properties of the history.** `TimelyKept` (what was enqueued between a session's
begin and its end is written into its row), `EndRecorded` (a change of the
setting does not lose the end of a session), `ActiveKept` (no delete and no
prune removes the row of an active session), `DrainedAtExit` (a writer that
stopped left nothing behind), `DeletesAnswered` (a delete is answered, as the
committed tables say, unless the command before it in its batch failed).

**Properties of the app's life.** `SinkOwed` (a redirected output has exactly one owner that will
put it back, and it is retained only for an app that can be resumed), `TerminalLapses`
(the mark of an app's end does not stick to its successor, which would lose its
retention), `BaselineTrue` (what is remembered of the screen saver is what the host found
before there was anything to undo, never what was done to it since), `SaverOwed` (a setting
that was changed since is remembered, and somebody will undo it). `SinkOwed` exempts a context
created during a terminal restore, and the last two a setting nobody had read before commands
ran (`blind`). They hold with programs that write at any time and outlive their app, but they
speak of `found`; that it is the user's is what `EndCanRestore` asks, which the code does not
keep. Sections 6.2 and 8 speak of all these.

**Bounds of the helper.** `MaxSends` commands in all, `MaxRetired` connections that end,
`MaxEvents` display events, `MaxRetries` restore attempts begun by the tick.
Commands and events cost most. Two commands are enough for every pair
"running, cancelling"; three for "running, cancelled and deferred, replacing
the deferred one", which is where coalescing matters (`session`). One retired
connection and the next one are enough for staleness, which only compares an
epoch with the current one; `MaxRetired = 1` lets a second client connect. One
event falls into every phase of the verification, its repairs and the restore. `MaxRetries = 1` lets an
attempt fail and another one follow (none in `monitoring`, where a helper started to
restore makes its first). The counters, queue
lengths and epochs of the model are bounded by these four alone.
`restore_schedule` scales the profile: a window of 12 s with the first three entries
of the code's back-offs (0, 1, 3, 5, ... s), the last one repeating, still holds
several attempts and ends between two of them, and an event window of 5 s is
shorter than the primary one, as in the code.

**Bounds of the streaming lifecycle.** Two launches give every pair of one that starts or
ends and one that is pending, and the case that a join is not the last. Two
callers give every pair of calls at once, besides the RTSP thread, the worker,
the control thread and the captures, which are always there. `MaxCalls` bounds
the calls: three are one to launch, one to stop and one more of either. The
queues, counters and lists are bounded by the launches. `stream_service` asks
about the calls the host makes for its own app, `stream_calls` about those of
clients and of the server's end; section 6 says which properties of the former
do not hold for the latter. `SYMMETRY` permutes launches of one client, or pairs of
launch and client, and callers; it is not used under fairness.

**Bounds of the history.** Streams interact only through the queues' limits and through
the batch they share: with limits of two, one and two, a single stream with its
prunes, a delete and the sampler already fills each queue, and the batch of one
sample leaves samples behind a drain. One save turns the history off or on in
any phase of the stream; one fault fails any one batch at any of its commands, or
the opening of the database. What one stream cannot show is how a failed batch
hurts another stream's commands; section 6 describes it.

**Bounds of the app's life.** None but the sets: the state is finite. Two captures are the one
that leaves last and the one that comes next; two workers are an older one and a
newer one; two pollers find the same deferred launch. Captures and the screen saver meet only in
the steps of the app; to keep the run short, `Apart` leaves unexplored the states in which a
poller or a program that outlives its app is there beside a capture (a CONSTRAINT of the
run; the theorems have no such bound). Deadlock is checked here: somebody can always go on.

`CHECK_DEADLOCK FALSE` in the other runs: the helper may exit, a server that shut down stops, and
callers that have made all their calls leave a quiet system.

## 4. Fairness

`RestoreSchedule`: weak fairness of `Tick` and `Advance`: time passes, and the
host's loop polls every 100 ms.

The helper: weak fairness of `Receive`, `Handle`, `Tick`, `FireTicket`,
`Disconnect` (the host loop, whose waits are all bounded by its poll interval),
`WorkerThread` and `TimerThread` (threads of the process that sleep only while
they have nothing to do). Nothing is assumed of the client, of Windows' events,
of the passing of grace periods, or of the heartbeat. Weak fairness of
`WorkerThread` says that the operating-system calls inside an operation return;
the code has no time-out around them either.

`ComesToRest`: once the bounded inputs are used up, every queue empties and the
state machine ends in a state it can stay in. `ApplyAnswered`: an APPLY gets the
result of its verification unless its connection ends, a newer command takes
its place or the helper stops; in particular the loop verification - repair -
verification ends, also when a device arrival repairs the display in between.

The streaming lifecycle: weak fairness of each thread, as a disjunction of what it can
do next: a caller goes on with its call (it does not have to begin one), the
RTSP thread runs its posted completions and its sweep, the worker takes and
starts what is queued, the control thread goes round its loop (every 150 ms at
most), a capture thread whose session's shutdown event is raised returns, and
the main thread carries the shutdown through. Nothing is assumed of ANNOUNCE,
of timers, of peers or of capture failures. A mutex is granted to a waiting
thread in the end because `Free` is true again and again and each disjunction
is continuously enabled while its thread waits for nothing; where it waits, the
run checks that it does not wait for ever. `SessionsEnd` exempts a session whose
control thread has left (section 6); the watchdog of `join` ends the process then.

The history has no liveness property: its waits have time-outs. Nor has the app's life:
what its properties say is owed depends on an app that ends, which nothing promises.

## 5. Proofs

All proofs are for every value of the constants, from the assumptions named in
the modules that declare them: `WindowAssumption` and `BackoffAssumption`
(windows are positive, the event window is no longer than the primary one, the
back-offs fit the primary window), `ConstantsAssumption` (requests, commands and events
are of the code's kinds, bounds are natural numbers) and `NoneAssumption` (an empty
optional is not a worker), `CapturesAssumption` (nor a context or a capture). TLC evaluates them
in the runs.

* **`RestoreScheduleProofs`**. The invariant is `TypeOK /\ ReportLatched`.
  `ExpiryReportedOnce` alone is not inductive: a second report is excluded only
  because the first one set the latch, so the strengthening says that without
  the latch there is no report yet while the scheduler is armed.
  `TypeCorrect` and `ExpiryReportedOnceHolds` follow.
* **`DisplayHelperProofs`**, `TypeCorrect`: every variable keeps its type. This is more than
  bookkeeping in two places. The repair budgets are `size_t` in the code and a
  decrement at zero would wrap (`BudgetUpdates`: each decrement is behind its
  test). The index of the disconnect checks must stay within the two delays,
  but the disconnect branch dispatches the first check without looking at the
  index; it is safe because a settlement that was not requested has dispatched
  none. That is `SettlementIdle`, the second conjunct of the invariant `IInv`.
  There is one lemma per group of handlers, split by groups of variables where
  a group has many actions.
* **`DisplayHelperProofs`**, `RestoreLeasedHolds`: a restore is pending only under the
  lease and with a snapshot to restore from. The statement is about `state`
  and is not inductive: the completion of a restore moves the state machine to
  `RecoveryValidation` or `EventLoop` from whatever state it is in then. What is
  invariant is that a *recovery worker* exists only under the lease (`LeaseInv`).
* **`DisplayHelperProofs`**, `FinishUnfencedHolds`: `finish_apply_completed` may start
  workers of its own and overwrites `active_mutation_worker_`, so it must not run
  while one is active, although the drain before it may start one and the
  epoch may change under the drain. `OutcomeInv`: a frame of that function is
  only ever on top of the stack, and only with no worker.
* **`DisplayHelperProofs`**, `ResetBarrierHolds`: `staged_state_reset_pending_` is up exactly
  while one reset is on its way, unconditionally. A reset passes through three queues
  (the dispatcher's, the mailbox, the call stack) and the property counts it in all of
  them; counting is what the provers are worst at. `ResetInv` says the same
  without numbers: either no queue holds a reset (`NoneOf`), or one of the three
  holds it at one place and the others are free of it (`OneOf`, from `Free` and
  `Sole`). What moves work along is stated once, for any kind of work (`Work`):
  the worker takes a task and posts its completion (`WorkerFlow`), the host loop hands
  messages over, commands overtaking completions (`ReceiveFlow`), a retired
  connection drops commands only (`RetireFlow`), a handler pops its own frame
  (`CallsFlow`). What is left per handler is whether it dispatches a reset, and
  that is behind `begin_staged_state_reset`'s test.
* **`MutationFenceProofs`**, `MutationFenceHolds`, under `NoReset`: no client asks for a RESET. At
  most one display mutation is in flight and `active_mutation_worker_` names it. With a
  RESET a completion can be held behind the barrier while the connection's end
  dispatches a check, and a verification dispatched beside that check starts a worker
  over another one; section 6.2 has the behaviour, so the hypothesis is not a convenience
  of the proof. The invariant `MutationInv` has a part for each way in which a worker could
  be started over another or be forgotten:
  `FenceInv` (the property, with `NoneOf` and `OneOf` for its numbers);
  `ShapeInv` (the call stack is a batch of messages, or what is left of one completion, or a
  drain before that, or a drained command before that, and nothing else: this bounds
  what may run between a drain and the rest of `finish_apply_completed`); `StackInv`
  (which of those frames find the fence down, and that a held completion and the
  helper's own deferred repairs have somebody who will take them up);
  `PendingInv` and `EpochInv` (a queued command is of a connection that has
  existed, so that a command that is live is of the current one);
  `GenInv` and `CheckInv` (a check of the current generation is the only one, and while
  it is under way nothing else can start a worker: its verdict may repair without
  looking at the fence);
  `EventLoopInv` (the tick restores from a state in which no worker runs);
  `ResetInv` and `OrderInv` (a reset dispatched by a restore reports before a
  mutation dispatched after it, so the completion of the mutation finds no barrier).
  Each handler is one of a few kinds of step (`HandlersEffects`), and the parts are
  proved per kind, not per handler. TLC finds no violation of `MutationInv` on instances without a RESET.
* **`HelperSessionProofs`**. `ChangedDesktopLeasedHolds` and `TaskRememberedHolds`, also under
  `NoReset`, on which their argument rests through `MutationInv`. Both relate what a worker
  did on its thread to what the main thread has learnt, and hold only while no APPLY is
  under way; `DesktopInv` says what is true in between. `DebtInv`: a changed desktop is
  leased, or the one mutation in flight is an APPLY whose task has passed its first
  mutation or whose completion says so. `TaskInv`: a registered task is remembered, or the
  APPLY that registered it is on its way and its completion will tell; and without a task
  none is remembered or reported. `PhaseInv`: only the task of an APPLY registers one. Without
  the fence two APPLYs could be in flight and the completion of one could stand for the
  other's. Of the handlers only those that retire an APPLY, restore, release or drop a staged
  state touch the books (`BooksKept`), and of these none but the first forgets the task while
  an APPLY is under way.
  `AnsweredByOwnWorkHolds`, an action property, needs no assumption: it holds with RESET too.
  `AnswerInv` gives every task, completion and delayed check the APPLY it was made for, and
  says that what is not stale by its generation was made for the APPLY in force: a step
  either keeps the APPLY or raises the generation (`Onward`), and the handlers tag what they
  dispatch with the APPLY they work for (`OwnWork`). The tag is not enough for a completion
  that has been accepted and is still being finished: `FinishInv` follows it as it is held
  behind a reset, and below the commands that are drained before the rest of
  `finish_apply_completed` runs. A replacement drained there changes the APPLY in force under
  it and takes the fence with it; the rest is then dropped (`resume` in `ResumeFinish`), and
  nothing lowers the fence in between (`FenceLowered`), because a batch holds one completion
  and holds it last (`LastInv`).
* **`HelperSessionProofs`**, `NothingStrandedHolds`, under `NoReset`: whoever is idle with the fence down has
  left no live command in the deferred queue and no completion held. With a RESET it does not
  hold (section 6.2). `QueueInv` says who will come for what is queued:
  `QueueKept` (nothing live is queued, or the fence is up, or a drain is still on the
  stack); `SoleInv` (the queue holds one command at most: each supersedes the other, and a drain takes
  it out before anything else can be queued); `WorkerInv` (an APPLY that is not cancelled has
  nothing but a newer APPLY or a repair behind it, because a REVERT and a DISARM cancel it) and
  `OutcomeAlone` (so when its completion goes on past the drain, nothing is queued and the
  branches that return without another drain strand nobody); `VerdictInv` (a verification that is not cancelled reports
  behind the reset under way, so its verdict, whose handler never drains, finds the fence as it
  left it); `EarlyInv` (no command is of a connection the main loop does not serve yet, so a
  command that died with its connection does not come to life again).
* **`HelperSessionProofs`**, `RetiresReleasedHolds` and `ExitKeepsIntentHolds`, under `NoReset`: the two action
  properties of the exit. A confirmed restore decides to exit before it drains the queue, and
  may have to wait for a reset of the staged state, so the decision is carried out several
  steps after its reasons were read. `ExitInv` follows the exit that waits for the reset: the lease is down, no
  transaction runs (a refresh rate at most), and once the reset is done the queue is
  empty and only the drain and the exit itself are on the stack. `RestoredInv` follows the
  frame below the drain: if it says that nobody waited, nothing starts before it is read,
  and if it says that the staged state outlived the restore, the exit waits already. Both
  rest on the fence (`MutationInv`: nothing drains past a reset) and on the queue
  (`QueueInv`: a REVERT with nothing to restore finds no live command behind it).
* **`HelperSessionProofs`**, `IntentOrderHolds`, under `NoReset`: an APPLY, REVERT or DISARM of
  a live connection that runs is no older than any accepted before it. A completion lets
  commands overtake it, a handler may put its command into the deferred queue, and a drain brings it
  back later: none of this may let a newer command pass an older one. `OrderedIntents(n)` says, for every number
  `n`, that in the mailbox and on the call stack what was sent as the `n`-th or later is behind
  what was sent before, and that nothing older is left in the mailbox once one of the
  newer ones is on the stack. `IntentInv` adds what acceptance does: nothing older than
  `newest` is in the mailbox, and neither on the stack nor in the queue is it live (a command
  of a dead connection may be there, and its handler drops it; `EarlyInv` is why it does not come to
  life with the next connection). That a handler which accepts a command leaves no older one in
  the queue needs `SoleInv`: the queue holds one command, and the newer one supersedes it.
* **`HelperSessionProofs`**, `AnsweredOnceHolds`, under `NoReset`: an APPLY gets at most one
  result and at most one verification. The invariant `OnceInv` has three parts. The command
  itself: `Once(n)`, the command numbered `n` is in the mailbox, on the call stack or in
  the deferred queue, once and in one of them only; `Passed(n)`, once it is handled it is in none of them
  and does not come back. The APPLY in force, and every APPLY that has an answer, is `Passed`.
  The latches: results are published only through them, so the APPLY in force is unanswered, or both latches
  are set (`Latched`), or the session is `Closed`. The release: a new APPLY releases the latches, and so does
  a DISARM, which starts no APPLY. `Closed` is what the DISARM leaves: no APPLY
  worker or verification out, nothing on the stack that finishes one, no delayed check requested,
  no live repair, and no state from which a display event or a verdict starts one; every
  handler but that of an APPLY keeps it. That a DISARM, taken from the deferred queue in the middle
  of a completion, leaves no rest of that completion behind it needs `ResumeInv`: while
  a completed APPLY waits to go on behind its drain, nothing live that ends its session is queued or
  on the stack.

* **`StreamLifecycleProofs`**, for any number of launches, clients, callers and calls.
  `TypeCorrect` is mostly about the counters: that `startup_tasks`,
  `running_sessions` and `teardown_sessions` never fall below zero needs to know
  what they count. The invariant has a part for each reason:
  `JobInv` (what the record of a call looks like at each of its steps) and
  `MainInv`; `AdmitInv` (who admits a launch holds the gate and the launch is
  new); `RegistryInv`; `HeldInv` (a session is held by exactly one of the set,
  the startup that made it and one call that took it out: nobody joins it
  twice); `StartInv` (a queued or running startup is of a launch without a
  session, and none is queued twice: the claim lasts as long as the launch is
  pending); `CountInv` (the three counters are cardinalities of sets of
  sessions and of calls); `SessionInv`. `StartsOnceHolds` follows from `StartInv`,
  `RunningCountedHolds` from `CountInv`, and the action property
  `RuntimeKeptHolds` from `CountInv` and the fact that every action that lowers
  `armed` looks at the counters first: a live capture belongs to a session that is
  counted.
* **`StreamServiceProofs`**, `RevokedNotPendingHolds`: the property says nothing of the
  moments in which it is decided, and is not inductive. `RevInv` is: for each
  unpaired client either a revocation still waits at the admission barrier, or
  nobody is about to raise a launch of that client *and* none is pending or the
  sweep that will take it is still on its way. Who passed the test of the
  registration before the barrier holds the gate the barrier waits for.
* **`StreamServiceProofs`**, `ImplementsServiceHolds`: initial states map to initial states,
  and each step to a step of `StreamService` or a stutter, under `NoGatelessCalls`: no
  client is disconnected alone and none is revoked. Both take launches out of
  the registry without the gate, and with either the refinement does not hold
  (section 6.2). `ServiceInv` is what the mapping needs beyond the types: nobody
  scans; a startup that is queued and not started is of a pending launch; and
  the runtime is armed as long as a launch is pending or raised or a session
  captures. There is one lemma per kind of step of the abstract specification.
* **`StreamServiceProofs`**, `CleanupOwedHolds`, under `NoClientDisconnect` (section 6.2 again).
  `OwedInv` follows the obligation: while the cleanup is armed there is an owner of the
  runtime, somebody who will raise a launch, or a call that has still to
  finalize, and every step that takes one of them away hands over to another
  or finalizes. The part `Guarded` is for the one step where that is not plain: a
  launch refused because its client was revoked after it was admitted arms the
  cleanup and goes away, and it is the revocation at the barrier that finalizes.
* **`StreamServiceProofs`**, `ShutdownCleanHolds`: a server that has shut down leaves no startup
  behind and no session that is not in the hands of a caller joining it. `DownInv` names what each step of the
  shutdown has already emptied and what can no longer refill it; `AliveHeld`
  that a session not yet freed is held by somebody the shutdown waits for.
* **`StreamServiceProofs`**, `ListedAliveHolds`, under `NoGracefulStop`: the control thread's list of
  raw pointers names no freed session. `ListInv`: a session leaves the list, by the
  walk of a thread that will then raise `controlEnd` or at its exit, before its join
  can be over. A graceful stop raises `controlEnd` itself and breaks exactly this
  (section 6.2).
* **`StreamServiceProofs`**, `NoCircularWaitHolds`, under `NoGracefulStop` and `NoReplace`: no join is
  waited for with the lifecycle gate held while the control thread waits for
  the gate. `GateWait` and `EndWait` say where each of the two may wait. Without the
  hypotheses TLC shows the circle: `stream_deadlock` has the one of `NoReplace`,
  section 6.2 the other.
* **`HistoryProofs`**, `DrainedAtExitHolds`: for queues of any length and any streams,
  callers, restarts and failures, a writer that has stopped leaves no command.
  The strengthening is `StoppedFirst`: the writer is past its main loop only when
  `g_running` is off, so that what comes behind its last look is refused.

* **`AppLifecycleProofs`**, for any captures, pause workers and pollers: the type invariant and the four
  properties of section 3, all from one inductive invariant. Its parts: `LockInv`
  and `CtxInv` (where the captures are says who holds the lock of `shared_t`, whether
  the context exists, and that nothing is retained while it does: the code's test
  for a second retained owner never finds one); `StepInv` (the mark of an end stands
  from `begin_terminal` until the successor has started, and nothing is retained
  under it, which is why a stale reading of `_app_id` in `retain` and `reclaim` does no
  harm); `SinkInv` (nobody remembers the stream's output as the user's, and a context
  that lives through a terminal restore has no output to remember); `SaverInv` (whoever
  is to undo what programs do to the setting has a baseline to do it with, unless nobody
  could read it, and a baseline is kept for nobody else: so a program that writes while nobody
  is to undo it contradicts no baseline). There is one lemma per action. The two theorems about
  the screen saver are about `found`, whoever put it there; that it is the user's is not a
  theorem, since the code does not keep it (section 6.2).

TLC finds no violation of the inductive invariants of the helper (those that rest on `NoReset`
without a RESET among the commands) under the configurations of `session`, `disconnect` and
`monitoring`, nor of those of the other three systems under theirs.

Left to TLC:

* Liveness, which the installed back ends do not prove.
* What a batch does to the tables of the history (`TimelyKept`, `EndRecorded`, `ActiveKept`,
  `DeletesAnswered`) and `AttemptsFitWindow`: both speak of a recursive function and need
  induction over data.
* `ProgressOwned`, `RecoveryOwned`, `VerificationOwned`, `DisconnectDecided` and
  `SessionWatched`. The code does not keep them for every set of commands and events:
  section 6.2 has a run for most, and a theorem would have to assume those combinations
  away. The runs name the sets they hold for.

## 6. Findings

Each is a short behaviour of the model that TLC prints. The passing runs leave
out the combination of commands or calls that leads there; they check the same
property with the others.

### 6.1 With a run of their own

| Run | Behaviour | What the repository says |
|---|---|---|
| `cancelled_apply_disconnect` | APPLY runs; DISARM cancels it and is deferred; the client disconnects within 5 s. The settlement is requested but no check starts: the worker's completion is stale, the deferred DISARM too. Nobody ever decides about the desktop. | `SM` 797-798: the worker in flight "owns the next decision. Once it completes, its terminal path starts the bounded disconnect checks." |
| `stream_deadlock` | A launch that replaces the running app joins the game's sessions with the lifecycle gate held (`nvhttp.cpp` 4828). A join waits for the session's `controlEnd`, which the control thread raises; the control thread has just seen the peer of that session connect and waits for the gate to clear its launch. | `nvhttp.cpp` 6647-6648, of the same gate: "Never hold this gate across the potentially blocking stream joins below." |

### 6.2 Described only

To see one, give the run named the constants named; the property is then violated.

**Display helper.**

* *Cancelled restore* (`disconnect` with `Commands = {"Revert", "ForceDisarm"}`,
  `RecoveryOwned`): a forced DISARM cancels a restore and is deferred; the client disconnects and the
  disconnect joins the "live" restore. State `Recovery` for ever, no worker, no
  timer. `SM` 1005-1007: "Preserve the live recovery worker".
* *DISARM against the restore's flag* (`session` with `Commands = {"Revert", "Disarm"}`,
  `RecoveryOwned`): DISARM reads `restore_attempted_unconfirmed` between the worker's
  last look at its token and its store of that flag. DISARM cancels, is
  deferred, and is ignored when drained; `SM` 1084-1088 wants to avoid a state machine
  "stranded in Recovery with no worker."
* *Nothing to restore* (`disconnect` with `MaxSends = 3`, `ProgressOwned`): a REVERT deferred
  behind an APPLY runs with the state still `InProgress`; with no snapshot it calls
  the exit callback without a transition, and the host keeps the helper for a
  newer connection. The state stays `InProgress`; compare `SM` 1735-1736.
* *A check behind a held completion* (`disconnect` with `Commands = {"Apply", "Reset", "Refresh"}`,
  `Requests` the extended layout, `Events = {"arrival"}`, `MaxSends = 4`, `MaxEvents = 1`, `MutationFence`;
  48 states, so give TLC time or guide it): an APPLY completion is held behind
  a RESET. The client disconnects: nothing active, so a check is dispatched at once
  (`SM` 779-802). The reset completes, the held completion goes on and dispatches the
  first verification beside the check. The check passes and the session is steady
  with a verification still to come; an arrival starts the baseline's verification, the
  first verdict makes the session steady again, REFRESH_RATE starts a worker,
  and the baseline's verdict starts an APPLY over it: `handle_verification_completed`
  (`SM` 1525-1533) never asks `mutation_worker_active()`.
* *A RESET left behind* (`disconnect` with `Commands = {"Apply", "Reset"}`, `MaxSends = 2`,
  `MaxRetired = 1`, `NothingStranded`; 14 states): the client disconnects during an APPLY and
  reconnects; its RESET is deferred behind the APPLY, which fails. The two branches that
  dispatch a disconnect check (`SM` 1339-1341, 1380-1382) return without a drain, so
  the RESET waits for some later completion and may run after a newer APPLY. The branch between
  them drains: RESET "can run now that SettingsManager has finished mutating, while
  verification remains read-only" (`SM` 1361-1363).
* *A refresh rate at the exit* (`disconnect` with `Commands = {"Apply", "Revert", "Refresh"}`,
  `MaxSends = 3`, `MaxRetired = 0`, and `ExitKeepsIntent` without its exception; 34 states): a
  restore is confirmed and clears the staged state once more, so the exit waits for that
  reset. A REFRESH_RATE that arrives meanwhile asks about an APPLY and a restore (`SM` 1192),
  not about the reset, as every other command does (869, 1015, 1099, 1212), and starts its worker. The reset
  completes and the helper exits with the refresh rate in flight: its client gets no result.
  `SM` 1199-1201 wants to give it "the same ownership fence as APPLY/REVERT".
* *Check cancelled by an event* (`disconnect` with `Events = {"arrival"}`, `MaxEvents = 1`,
  `DisconnectDecided`): a device arrival cancels a pending disconnect check but
  leaves it recorded as pending; the next check is never dispatched.
* *A settlement outlives the restore* (`monitoring` with `Requests` the plain layout,
  `Commands = {"Apply", "Refresh"}`, `Events = {}`, `Boots = {FALSE}`, `MaxRetired = 2`,
  `MaxEvents = 0`, `SessionWatched`; 40 states): a disconnect within the grace asks for checks and
  waits for the APPLY; the next one, past the grace, restores. Only an explicit REVERT
  resets the settlement (`SM` 1000-1003), and neither the disconnect's nor the confirmed restore
  does. The third client's REFRESH_RATE then finds it requested, and its completion
  dispatches a disconnect check (`SM` 1646) of a request whose desktop has been restored. If
  the check passes, the session counts as verified under a new lease that no heartbeat
  watches. `SM` 1639-1641 speaks of "a disconnected session" only.

**Streaming lifecycle.**

* *A disconnect overtakes a startup* (`stream_service` with `Calls = {"launch", "revoke"}`,
  `ImplementsService`): `disconnect_client` takes the client's launches out of the
  registry without the gate (`rtsp.cpp` 1293). The startup worker, past its second
  look, starts the session of a launch that is already withdrawn.
* *A restoration forgotten* (the same with `{"launch", "client"}`, `CleanupOwed`): the
  disconnect of a client removes the last pending launch and never comes to
  finalize; the shared runtime stays configured until something else ends.
* *A freed session on the list* (the same, `ListedAlive`): `graceful_stop` raises `controlEnd`
  itself (`stream.cpp` 3520), so the join is over and the session freed while
  the control thread's list still holds its pointer, until its next walk.
* *A second circle* (the same, `NoCircularWait`): the graceful stop lets the session of a peer
  that has just connected be freed while the control thread waits for the gate to
  clear its launch. The call that freed it holds the gate and was the last user of the
  broadcast context, so it goes on to join the control thread.
* *Completions abandoned* (`stream_calls` with `Calls = {"launch"}`, `MaxCalls = 1`, `CompletionsRun`
  of `StreamProperties`): `rtsp.cpp` 2713-2714 drains the startup pool "so any posted
  ANNOUNCE completion can run on the RTSP loop instead of being abandoned";
  the pool is drained, but the loop may be stopped before it runs what was posted.
* *A session without a control thread*: the control thread decides to leave (no launch
  pending, an empty list) while an admitted startup starts a session; nobody
  raises its `controlEnd`, and its join ends with the watchdog, that is, with the
  process. `SessionsEnd` names it as its exception (`Unattended`).
* *A lock across a wait*: `shared_t::release` (`thread_safe.h` 561) runs the destructor of the
  broadcast context, which joins the control thread, under its own lock; a
  startup that wants a reference waits for all of it. It is part of the model
  (`bcast = "ending"`) and by itself no circle.

**Session history.**

* *A delete behind a failure*: when a command of a batch fails, the deletes behind it are
  neither answered nor failed (`session_history_writer.cpp` 421); their callers,
  who hold the promise themselves, wait five seconds and report a time-out.
* *A failure hurts its neighbours*: the batch of a failed command is lost whole, with begins
  and ends of other sessions. A session without its end is never listed and
  never pruned (both ask for `end_time_unix`); one without its begin loses every
  sample. `spoiled` exempts them.
* *Rows of a crash*: a row whose end was not written when the process died is not
  repaired by the next start.

**App, audio output and screen saver.**

* *A context created during a terminal restore* (`app_lifecycle`, `CreationWaits`): `start_audio_control`
  waits for a restore in progress, and looks only then whether an end is pending
  (`audio.cpp` 80-87, 450). An end that begins in between makes it create a context
  while the restore still runs, and `sink_info` takes the stream's output for the
  user's: what its end puts back is then the stream's own output, that is, nothing. The comment of
  `wait_for_restore` (`audio_lifecycle_state.h` 96): "Block creation or reclaim until
  terminal restore is complete."
* *A pause gives the baseline up* (`app_lifecycle`, `EndCanRestore`; 10 states): an app is launched and its
  stream paused. With no pause commands the pause restores the screen saver and forgets
  the baseline (`screen_saver_state.h` 55-57), but the app runs on. It disables the screen
  saver while paused, or its undo command does at the end: the restoration in `terminate`
  has nothing to write. `process.cpp` 3258-3259 says of it "so a detached/placebo launcher
  cannot leave this global setting disabled."
* *The app's setting as the baseline* (`app_lifecycle`, with `BaselineTrue` about `user` in place of
  `found`; 10 states): launch, pause without commands, the paused app disables the screen saver,
  resume. `resume` (2885-2892) takes what the app left for the user's, and the next
  restoration puts that back.
* *Programs that outlive the restoration* (`app_lifecycle`, asking `saver = user` of an idle host without
  app, pause worker, unread setting or failed write; 11 states):
  detached commands are started outside the app's process group (`process.cpp` 2438-2452),
  an undo command that times out is detached (3234-3241), and the commands of a resumption run in a
  detached thread that is not registered as a pause worker is (2895). Each may change the
  setting after `terminate` restored it (3260), with nobody left to undo it.
  `resume` does not ask whether the app still runs (2885); a baseline it takes for an
  app that has ended stays until the next end.
* *A deferred launch taken twice*: two threads in `running` may both find `_deferred_launch`
  (`process.cpp` 2725) before one clears it (2786), seconds later, and both run the commands; a
  `terminate` in between clears the mark for neither. The baseline survives it
  (`app_lifecycle`); that the commands run once is no property here.
* *A baseline kept by a failed write* is written at the next opportunity, also over what the
  user chose meanwhile: `begin` keeps an older baseline.

## 7. Abstractions

* Topologies, modes, HDR values, device names and snapshot contents are data.
  A request keeps what the control depends on: the virtual layout, whether it
  wants HDR, and its restore-on-disconnect policy. A result keeps its status.
  The three snapshot tiers are one flag: there is something to restore from.
* EXPORT_GOLDEN and SNAPSHOT_CURRENT differ in the tier they write and are one
  command.
* Dead in production and left out: `NeedsVirtualDisplayReset` (no port reports it),
  `handle_helper_event` (nobody posts one), `InvalidRequest`, the fallbacks of
  `create_restore_task` behind a completion that did not try, STOP through the
  state machine (the host handles it).
* The display-event debounce is one pending ticket; several events before it
  fires merge by the code's rule.
* Time in the helper is nondeterministic: grace, quiet period and restore window
  may end at any point after they begin. `RestoreSchedule` has the arithmetic.
  The heartbeat's windows are longer than the grace of an APPLY, so the
  heartbeat does not fire within it.
* Left out at the edges: a command pushed in the instant after its epoch is
  retired, threads that still run after the helper decided to exit, the result
  of the staged-state reset inside a restore that failed, and frame parsing and
  replies on the pipe.
* The worker may report every status at every completion: the model has more
  outcomes than any one desktop would produce.

Streaming lifecycle:

* All sessions are of one role, the game stream. Left out: connections, OPTIONS,
  DESCRIBE and SETUP, which do not touch this state; WebRTC and USB/IP as
  owners of the runtime; the pending flag of the HDR layer; cleanup
  reservations; `preserve_deferred_launch`; the watchdog of `join`.
* An ANNOUNCE that arrives while the server is stopping is a stutter: its claim is
  taken and released under one lock. A task pushed to the pool after it was
  joined, and a start that throws after it had listed its session, are left out.
* A pass of `disconnect_client` looks at the launches and at the sessions under two locks, one after the
  other (`rtsp.cpp` 1293-1322); `Scan` is one step.
* An accept that fails ends the acceptance of connections and clears the sessions from the RTSP thread
  (`rtsp.cpp` 806-813); it is left out.
* Left out: the sessions that the HTTP server's own shutdown terminates, after the
  RTSP server's or beside it (`nvhttp.cpp` 6633).
* Time: launches come due, captures fail, pings time out and the grace of an
  unconnected session ends at any moment.

Session history:

* Nothing fills the regular queue; it and the commands of tests are left out.
* A prune removes any set of ended rows; that it removes no others is the code's
  (`storage::process_prune`), and one choice serves all prunes of a batch.
* A time-out of a caller may come at any moment before its answer.
* A pass of the sampler enqueues its sample; the events it may enqueue before it
  (`session_history_sampler.cpp` 211-218) travel in the queue of the streams' events and are left out.
* Verdicts, trims per session, counters of the status, reads, schema and migration
  are data. WebRTC sessions begin and end through the same functions, but not
  under the configuration gate, and are left out.
* The configuration file is one flag, `wanted`; saves of other keys are those with an unchanged value.

App, audio output and screen saver:

* The three roles of the default output are one, and a restore succeeds at once; the retries
  for an unplugged device (`reset_default_device`) are left out.
* Which sink a stream wants, capture without routing, failures to open a microphone: the
  choice of `RouteOutput`. `owner_count` is read by tests only.
* The user does not change the output during a stream; `restore_sink` would leave it alone.
* The user changes the screen saver only while the host remembers no other. What he changes at
  other times the host cannot tell from a program's change, and undoes.
* Processes are two flags, `launched` and `loose`: the commands of the launch, those that the end stops,
  and those nothing stops. A command that ran to its end is not told from one that still runs.
* A pause that terminates the app is `Terminate`; launches by other routes take the same steps.

## 8. Limits of the properties

Behaviours that the model has and no property of a passing run speaks about, or
only under a condition. Each was met while writing the properties.

* **A repair as the first mutation.** An APPLY refused by its read-only preflight
  changes nothing and registers no durable task. If the client then disconnects
  within the grace, the disconnect check fails and its repair, which is
  settings-only, is the first thing that changes the desktop; it does not try
  the durable task (`operations.cpp`, 295).
* **Commands of a second client.** `NothingStranded` is checked for one client that
  stays: a RESET of a client that reconnected can be left behind (section 6.2).
* **An unconfirmed mutation across a disconnect.** A disconnect with the policy off, or
  with nothing to restore, lowers the lease and leaves `unconfirmed` up. The
  next APPLY sets it anew.
* **Forced DISARM with an unconfirmed mutation** keeps the lease and turns the
  heartbeat off; `SessionWatched` is about sessions that were verified.
* **Debounced identity events** keep their ticket, with its older generation, when
  a generic event follows; both are then dropped as stale. The code treats
  display events as hints, and no property asks more of them.
* **A reset that fails after a confirmed restore** retires the helper with code 1
  over commands that were queued meanwhile. `ExitKeepsIntent` leaves this path
  out, and the refresh rate of section 6.2.
* **Combinations that end in a finding** are not part of the passing runs: a forced
  DISARM with a disconnect, a plain DISARM while a restore is about to begin,
  a restore without snapshot under a second client, display events with the
  checks after a disconnect.
* **A launch that is refused late.** A plaintext launch that meets another pending one is
  refused after the cleanup was armed; `CleanupOwed` holds because the pending one owns
  the runtime.
* **The streams' shared runtime under WebRTC** and the reservations of its cleanup are not
  in the model, so `RuntimeKept` speaks of RTSP sessions only.
* **Neighbours in a batch**: with one stream in `history`, `TimelyKept` and `EndRecorded` are
  checked against that stream's own commands, prunes and deletes.
* **A setting nobody has read** before commands ran (`blind`: the reading failed, or a pause with
  commands follows one that gave the baseline up) is remembered by nobody; `BaselineTrue` and
  `SaverOwed` begin anew when the user next chooses.
* **What the host finds** need not be the user's: a paused app, or a program that outlived its app, may
  have changed it when it was nobody's to undo. `BaselineTrue` and `SaverOwed` count it as
  found; section 6.2 shows what becomes of the user's.
* **Hazards of components without a model** are listed in `PROJECT.json` with the
  module planned for them.

## 9. Plan

Done: `RestoreSchedule` with its proofs; the display helper with its runs, its types, its
lease, its reset barrier and, without a RESET, its mutation fence,
what it owes the desktop and what it owes the client (order, answers, exits) proved; `StreamService`, `StreamLifecycle`
and its proofs, the refinement and the waits of its threads among them; `HistoryWriter` and its proof; `AppLifecycle`
with `AudioLifecycle` and `ScreenSaver`, proved.

Left, in this order:

1. The tables of the session history: what a batch does is a recursive function of
   its commands; a step per command would make `EndRecorded` and `DeletesAnswered` provable.
2. `TaskPool` and `SafeQueue` (cancellation by address, `delay`, stop and reset,
   overflow), with an abstract queue they implement.
3. An abstract specification of the helper, `DesktopLease`: a desktop is clean,
   leased or being restored, one actor changes it at a time, and a release
   happens only when it is clean or the user took it over.
4. The client side: request ids and late replies against `DisplayHelper`'s answers,
   composed with the host loop's pipe; snapshot tiers and golden health.

**Not modelled.** By far the most of the sources is capture, encoding, GPU and network code
(`video.cpp`, `webrtc_stream.cpp`, the virtual display drivers), Windows calls,
configuration and catalogue parsing, HTTP routes and a web front end. Their
correctness lies in data, formats and the behaviour of devices; what control they
have is sequential within one request or one frame. A model of them would
restate the code. What the modules here map is the code that decides between
concurrent actors.
