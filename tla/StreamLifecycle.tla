-------------------------- MODULE StreamLifecycle --------------------------
(***************************************************************************)
(* How the streaming host admits, starts, stops and forgets RTSP sessions. *)
(*                                                                         *)
(* The actors: HTTP and API callers (launch, cancel, disconnects), the     *)
(* RTSP thread (requests, posted completions, timer, sweep), the single    *)
(* worker of the startup pool, the control thread of the broadcast         *)
(* context, each session's capture threads, and the thread that shuts the  *)
(* RTSP server down.  They meet at stream_lifecycle_mutex, here gate, and  *)
(* a step that takes and releases it at once is one action.                *)
(***************************************************************************)
EXTENDS Integers, Sequences, FiniteSets

CONSTANTS
  None,            \* no launch, no holder
  Launches,        \* launch requests, each asked for once
  Clients,         \* paired clients
  ClientOf,        \* whose launch it is
  Callers,         \* HTTP and API threads that call in concurrently
  Calls,           \* what they call
  MaxCalls,        \* bound: calls made in all
  Shutdown         \* TRUE if the server may be shut down

CallKinds == {"launch", "replace", "cancel", "role", "client", "revoke",
              "stop", "sweep"}

ASSUME StreamAssumption ==
  /\ ClientOf \in [Launches -> Clients]
  /\ IsFiniteSet(Launches) /\ IsFiniteSet(Callers)
  /\ Calls \subseteq CallKinds
  /\ MaxCalls \in Nat
  /\ Shutdown \in BOOLEAN
  /\ None \notin Launches \cup Callers \cup {"rtsp", "main", "worker", "control"}
  /\ Callers \cap {"rtsp", "main", "worker", "control"} = {}

VARIABLES
  gate,        \* who holds stream_lifecycle_mutex
  entry,       \* _launch_sessions: "new", "pending" or "gone"
  due,         \* pending launches whose expires_at has passed
  claimed,     \* pending launches with startup_claimed
  unpaired,    \* clients whose pairing was withdrawn
  startups,    \* startup_tasks
  pool,        \* launches queued in startup_pool
  task,        \* the launch the worker is starting, and whether it has
  posted,      \* completions posted to the RTSP io_context
  sess,        \* session_t: "none", "running", "stopping" or "freed"
  inSet,       \* _session_state->sessions
  listed,      \* control_server._sessions
  peers,       \* sessions whose control peer has connected
  ended,       \* sessions whose controlEnd is raised
  capture,     \* sessions with a live video or audio thread
  running,     \* running_sessions
  teardown,    \* teardown_sessions
  armed,       \* shared_runtime_cleanup_armed
  app,         \* current_app_id() > 0
  bcast,       \* the broadcast context: "down", "up" or "ending"
  control,     \* the control thread
  job,         \* what each caller, the RTSP thread and main are doing
  calls,       \* calls made so far
  server       \* "up", "draining" (shutdown, stopping) or "stopped" (io)

registryVars == <<entry, due, claimed, unpaired>>
startupVars == <<startups, pool, task, posted>>
sessionVars == <<sess, inSet, listed, peers, ended, capture>>
countVars == <<running, teardown>>
runtimeVars == <<armed, app>>
transportVars == <<bcast, control>>

vars == <<gate, registryVars, startupVars, sessionVars, countVars,
          runtimeVars, transportVars, job, calls, server>>

Workers == Callers \cup {"rtsp", "main"}

Idle == [op |-> "none", pc |-> "idle", arg |-> None, todo |-> {},
         mine |-> {}, cur |-> None]

\* A step of stop-and-join over the sessions ls, taken out of the set before.
Cleaning(op, arg, ls) ==
  [Idle EXCEPT !.op = op, !.pc = "sessions", !.arg = arg,
               !.todo = ls, !.mine = ls]

AtPoll == [pc |-> "poll", l |-> None, game |-> FALSE, keep |-> FALSE]

At(op, arg, pc) == [Idle EXCEPT !.op = op, !.arg = arg, !.pc = pc]

Free == gate = None
Gated(a) == gate \in {None, a}

Pending == {l \in Launches : entry[l] = "pending"}
Alive == {l \in Launches : sess[l] \in {"running", "stopping"}}
OfClient(k) == {l \in Launches : ClientOf[l] = k}

Init ==
  /\ gate = None
  /\ entry = [l \in Launches |-> "new"]
  /\ due = {} /\ claimed = {} /\ unpaired = {}
  /\ startups = 0 /\ pool = <<>> /\ posted = <<>>
  /\ task = [l |-> None, started |-> FALSE]
  /\ sess = [l \in Launches |-> "none"]
  /\ inSet = {} /\ listed = {} /\ peers = {} /\ ended = {} /\ capture = {}
  /\ running = 0 /\ teardown = 0
  /\ armed = FALSE /\ app = FALSE
  /\ bcast = "down"
  /\ control = [AtPoll EXCEPT !.pc = "off"]
  /\ job = [a \in Workers |-> Idle]
  /\ calls = 0
  /\ server = "up"

-----------------------------------------------------------------------------
(* Operators the handlers share.                                            *)

HasPendingLaunchOrStartup == Pending # {} \/ startups > 0

\* Faulty variant: counts the sessions in the set only.
CountsListedOnly == HasPendingLaunchOrStartup \/ inSet # {} \/ teardown # 0

HasSharedRuntimeOwner ==
  HasPendingLaunchOrStartup \/ inSet # {} \/ running # 0 \/ teardown # 0

\* finalize_shared_runtime_if_idle, over the state the step leaves: a join
\* ignores its own teardown, which the same step takes back.
FinalizeSharedRuntimeIfIdle == armed' = (armed /\ HasSharedRuntimeOwner')

Erase(ls) ==
  /\ entry' = [l \in Launches |-> IF l \in ls THEN "gone" ELSE entry[l]]
  /\ due' = due \ ls
  /\ claimed' = claimed \ ls

Stopped(ls) ==
  [l \in Launches |-> IF l \in ls /\ sess[l] = "running" THEN "stopping"
                                                         ELSE sess[l]]

\* Faulty variant: the worker trusts the claim made when it was queued.
TrustsClaim(l) == l \notin due

\* has_launch_session: the worker's second look at the launch.
HasLaunchSession(l) == l \in Pending \ due

\* claim_launch_startup: only the first ANNOUNCE starts a launch.
ClaimLaunchStartup(l) == l \in Pending \ due /\ l \notin claimed

Goto(a, j) == job' = [job EXCEPT ![a] = j]

Begin(c, kind) == kind \in Calls /\ job[c] = Idle /\ calls < MaxCalls
                  /\ calls' = calls + 1
-----------------------------------------------------------------------------
(* Launch and resume requests.                                              *)

\* acquire_stream_start_lifecycle_lock: not while a session is torn down.
StartAdmitted == Free /\ teardown = 0

\* launch_request_mutex: these requests run one after another.
RequestsIdle ==
  \A c \in Callers : job[c].op \notin {"launch", "replace", "cancel", "role"}

BeginLaunch(c, l) ==
  /\ Begin(c, "launch") /\ RequestsIdle
  /\ StartAdmitted /\ entry[l] = "new" /\ ClientOf[l] \notin unpaired
  /\ gate' = c
  /\ Goto(c, At("launch", l, "admit"))
  /\ UNCHANGED <<registryVars, startupVars, sessionVars, countVars,
                 runtimeVars, transportVars, server>>

\* A launch that replaces the running app disconnects its game sessions
\* first, and joins them with the gate held.
BeginReplace(c, l) ==
  /\ Begin(c, "replace") /\ RequestsIdle
  /\ StartAdmitted /\ entry[l] = "new" /\ ClientOf[l] \notin unpaired /\ app
  /\ gate' = c
  /\ Erase(Pending)
  /\ inSet' = {}
  /\ Goto(c, IF Pending \cup inSet = {} THEN At("replace", l, "terminate")
             ELSE Cleaning("replace", l, inSet))
  /\ UNCHANGED <<unpaired, startupVars, sess, listed, peers, ended, capture,
                 countVars, runtimeVars, transportVars, server>>

Admitting(c) == job[c].pc = "admit" /\ gate = c

\* The request is refused, or its app cannot be started: nothing is armed.
LaunchFails(c) ==
  /\ Admitting(c)
  /\ entry' = [entry EXCEPT ![job[c].arg] = "gone"]
  /\ app' \in {app, FALSE}
  /\ gate' = None
  /\ Goto(c, Idle)
  /\ UNCHANGED <<due, claimed, unpaired, startupVars, sessionVars, countVars,
                 armed, transportVars, calls, server>>

\* The app runs and the cleanup is armed before the pairing is looked at for
\* the last time; the launch is raised only after that.
Recheck(c) ==
  /\ Admitting(c) /\ ClientOf[job[c].arg] \notin unpaired
  /\ armed' = TRUE /\ app' = TRUE
  /\ Goto(c, [job[c] EXCEPT !.pc = "raise"])
  /\ UNCHANGED <<gate, registryVars, startupVars, sessionVars, countVars,
                 transportVars, calls, server>>

Raising(c) == job[c].pc = "raise" /\ gate = c

\* The pairing was withdrawn, or another plaintext launch from the same
\* address is pending: the cleanup stays armed and the app ends again.
RefuseLaunch(c) ==
  /\ \/ /\ Admitting(c) /\ ClientOf[job[c].arg] \in unpaired
        /\ entry' = [entry EXCEPT ![job[c].arg] = "gone"]
        /\ UNCHANGED <<due, claimed>>
     \/ /\ Raising(c) /\ Pending \ due # {}
        /\ Erase(due \cup {job[c].arg})
  /\ armed' = TRUE /\ app' \in {app, FALSE}
  /\ gate' = None
  /\ Goto(c, Idle)
  /\ UNCHANGED <<unpaired, startupVars, sessionVars, countVars, transportVars,
                 calls, server>>

\* session_raise, which drops the launches that are due first.
RaiseLaunch(c) ==
  LET l == job[c].arg IN
  /\ Raising(c)
  /\ entry' = [k \in Launches |-> IF k = l THEN "pending"
                                  ELSE IF k \in due THEN "gone" ELSE entry[k]]
  /\ due' = {} /\ claimed' = claimed \ due
  /\ gate' = None
  /\ Goto(c, Idle)
  /\ UNCHANGED <<unpaired, startupVars, sessionVars, countVars, runtimeVars,
                 transportVars, calls, server>>

LaunchComesDue(l) ==
  /\ l \in Pending \ due
  /\ due' = due \cup {l}
  /\ UNCHANGED <<gate, entry, claimed, unpaired, startupVars, sessionVars,
                 countVars, runtimeVars, transportVars, job, calls, server>>

AppExits ==
  /\ app /\ Free /\ app' = FALSE
  /\ UNCHANGED <<gate, registryVars, startupVars, sessionVars, countVars,
                 armed, transportVars, job, calls, server>>
-----------------------------------------------------------------------------
(* Disconnects.                                                             *)

\* Faulty variant: the gate is kept across the joins.
KeepsGateRoleDisconnect(c) ==
  /\ Begin(c, "role") /\ RequestsIdle /\ Free
  /\ Erase(Pending)
  /\ inSet' = {}
  /\ gate' = c
  /\ Goto(c, Cleaning("role", None, inSet))
  /\ UNCHANGED <<unpaired, startupVars, sess, listed, peers, ended, capture,
                 countVars, runtimeVars, transportVars, server>>

\* Terminate: disconnect_remote_role for every client, without the gate held,
\* and then the app ends.
BeginRoleDisconnect(c) ==
  /\ Begin(c, "role") /\ RequestsIdle /\ Free
  /\ Erase(Pending)
  /\ inSet' = {}
  /\ Goto(c, IF Pending \cup inSet = {} THEN At("role", None, "terminate")
             ELSE Cleaning("role", None, inSet))
  /\ UNCHANGED <<gate, unpaired, startupVars, sess, listed, peers, ended,
                 capture, countVars, runtimeVars, transportVars, server>>

Stopping == {l \in inSet : sess[l] = "stopping"}

\* disconnect_client_sessions sweeps first, as every session query does ...
SweepFor(c, op, k) ==
  /\ inSet' = inSet \ Stopping
  /\ Goto(c, IF Stopping = {} THEN At(op, k, "scan")
             ELSE Cleaning(op, k, Stopping))
  /\ UNCHANGED <<gate, registryVars, startupVars, sess, listed, peers, ended,
                 capture, countVars, runtimeVars, transportVars, server>>

BeginClientDisconnect(c, k) ==
  Begin(c, "client") /\ SweepFor(c, "sweepClient", k)

\* ... and then takes what is the client's, without the gate.
Scan(c) ==
  LET k == job[c].arg
      ls == inSet \cap OfClient(k)
  IN
  /\ job[c].pc = "scan"
  /\ Erase(Pending \cap OfClient(k))
  /\ inSet' = inSet \ ls
  /\ Goto(c, Cleaning(IF job[c].op = "sweepClient" THEN "client" ELSE "revoke",
                      k, ls))
  /\ UNCHANGED <<gate, unpaired, startupVars, sess, listed, peers, ended,
                 capture, countVars, runtimeVars, transportVars, calls, server>>

\* The pairing is withdrawn first, then the launches admitted before it pass.
BeginRevoke(c, k) ==
  /\ Begin(c, "revoke") /\ k \notin unpaired
  /\ unpaired' = unpaired \cup {k}
  /\ Goto(c, At("revoke", k, "barrier"))
  /\ UNCHANGED <<gate, entry, due, claimed, startupVars, sessionVars,
                 countVars, runtimeVars, transportVars, server>>

\* Faulty variant: the scan does not wait for the launches under way.
PassesAtOnce(c) ==
  /\ job[c].pc = "barrier"
  /\ SweepFor(c, "sweepRevoke", job[c].arg)
  /\ UNCHANGED calls

PassBarrier(c) ==
  /\ job[c].pc = "barrier" /\ StartAdmitted
  /\ SweepFor(c, "sweepRevoke", job[c].arg)
  /\ UNCHANGED calls

BeginCancel(c) ==
  /\ Begin(c, "cancel") /\ RequestsIdle /\ app
  /\ Goto(c, At("cancel", None, "cancelPending"))
  /\ UNCHANGED <<gate, registryVars, startupVars, sessionVars, countVars,
                 runtimeVars, transportVars, server>>

\* find_and_stop_session, or gracefully when a permission is withdrawn: the
\* session stays in the set for the sweep.
StopOne(c, l) ==
  /\ Begin(c, "stop") /\ l \in inSet /\ sess[l] = "running"
  /\ sess' = Stopped({l})
  /\ ended' \in {ended, ended \cup {l}}
  /\ UNCHANGED <<gate, registryVars, startupVars, inSet, listed, peers,
                 capture, countVars, runtimeVars, transportVars, job, server>>

CollectStopping(a, op) ==
  /\ inSet' = inSet \ Stopping
  /\ Goto(a, IF Stopping = {} THEN Idle ELSE Cleaning(op, None, Stopping))
  /\ UNCHANGED <<gate, registryVars, startupVars, sess, listed, peers, ended,
                 capture, countVars, runtimeVars, transportVars, server>>

\* The API's session queries sweep as the RTSP thread does.
BeginSweep(c) == Begin(c, "sweep") /\ CollectStopping(c, "sweep")
-----------------------------------------------------------------------------
(* Stop, join and forget: whoever took the sessions out of the set.         *)

CancelPending(a) ==
  /\ job[a].pc = "cancelPending" /\ Free
  /\ Erase(Pending)
  /\ Goto(a, [job[a] EXCEPT !.pc = "collect"])
  /\ UNCHANGED <<gate, unpaired, startupVars, sessionVars, countVars, app,
                 transportVars, calls, server>>
  /\ IF Pending # {} THEN FinalizeSharedRuntimeIfIdle ELSE UNCHANGED armed

Collect(a) ==
  /\ job[a].pc = "collect"
  /\ inSet' = {}
  /\ Goto(a, Cleaning(job[a].op, job[a].arg, inSet))
  /\ UNCHANGED <<gate, registryVars, startupVars, sess, listed, peers, ended,
                 capture, countVars, runtimeVars, transportVars, calls, server>>

\* Faulty variant: a role disconnect raises controlEnd itself as well.
GracefulForRole(a) == job[a].op \in {"client", "revoke", "role"}

Graceful(a) == job[a].op \in {"client", "revoke"}

\* stop or graceful_stop, and the entry of join.
StopNext(a, l) ==
  /\ job[a].pc = "sessions" /\ l \in job[a].todo
  /\ sess' = Stopped({l})
  /\ ended' = IF Graceful(a) /\ sess[l] = "running" THEN ended \cup {l}
                                                    ELSE ended
  /\ teardown' = teardown + 1
  /\ Goto(a, [job[a] EXCEPT !.pc = "join", !.cur = l,
                            !.todo = job[a].todo \ {l}])
  /\ UNCHANGED <<gate, registryVars, startupVars, inSet, listed, peers,
                 capture, running, runtimeVars, transportVars, calls, server>>

ThreadsJoined(l) == l \notin capture /\ l \in ended

\* The rest of join: the last session pauses the app, which may terminate it.
JoinEnd(a) ==
  /\ job[a].pc = "join" /\ ThreadsJoined(job[a].cur) /\ Gated(a)
  /\ running' = running - 1
  /\ teardown' = teardown - 1
  /\ Goto(a, [job[a] EXCEPT !.pc = "sessions", !.cur = None])
  /\ UNCHANGED <<gate, registryVars, startupVars, sessionVars, transportVars,
                 calls, server>>
  /\ IF running = 1
     THEN /\ FinalizeSharedRuntimeIfIdle
          /\ app' \in IF HasPendingLaunchOrStartup THEN {app} ELSE {app, FALSE}
     ELSE UNCHANGED runtimeVars

AllJoined(a) == job[a].pc = "sessions" /\ job[a].todo = {}

FinalizeRole(a) ==
  /\ AllJoined(a) /\ job[a].op \in {"role", "replace"} /\ Gated(a)
  /\ Goto(a, [job[a] EXCEPT !.pc = "free"])
  /\ UNCHANGED <<gate, registryVars, startupVars, sessionVars, countVars, app,
                 transportVars, calls, server>>
  /\ FinalizeSharedRuntimeIfIdle

\* Where the call goes on once its sessions are gone.
Afterwards(a) ==
  CASE job[a].op \in {"role", "replace", "cancel"} ->
         At(job[a].op, job[a].arg, "terminate")
    [] job[a].op = "revoke" -> At("revoke", job[a].arg, "cleanup")
    [] job[a].op \in {"sweepClient", "sweepRevoke"} ->
         At(job[a].op, job[a].arg, "scan")
    [] job[a].op = "final" /\ a = "rtsp" -> At("final", None, "done")
    [] job[a].op = "final" /\ a = "main" -> At("final", None, "joinRtsp")
    [] OTHER -> Idle

\* The last reference to each session, and with the last session the
\* broadcast context: end_broadcast waits for the control thread.
FreeSessions(a) ==
  /\ \/ job[a].pc = "free"
     \/ AllJoined(a) /\ job[a].op \notin {"role", "replace"}
  /\ sess' = [l \in Launches |-> IF l \in job[a].mine THEN "freed" ELSE sess[l]]
  /\ IF job[a].mine # {} /\ Alive \subseteq job[a].mine /\ bcast = "up"
     THEN bcast' = "ending" /\ Goto(a, [job[a] EXCEPT !.pc = "ending"])
     ELSE UNCHANGED bcast /\ Goto(a, Afterwards(a))
  /\ peers' = peers \ job[a].mine /\ ended' = ended \ job[a].mine
  /\ UNCHANGED <<gate, registryVars, startupVars, inSet, listed, capture,
                 countVars, runtimeVars, control, calls, server>>

EndBroadcast(a) ==
  /\ job[a].pc = "ending" /\ control.pc = "done"
  /\ bcast' = "down" /\ listed' = {}
  /\ control' = [control EXCEPT !.pc = "off"]
  /\ Goto(a, Afterwards(a))
  /\ UNCHANGED <<gate, registryVars, startupVars, sess, inSet, peers, ended,
                 capture, countVars, runtimeVars, calls, server>>

TerminateApp(c) ==
  /\ job[c].pc = "terminate" /\ Gated(c)
  /\ app' = FALSE
  /\ Goto(c, CASE job[c].op = "replace" -> At("replace", job[c].arg, "admit")
               [] job[c].op = "cancel" -> At("cancel", None, "cleanup")
               [] OTHER -> Idle)
  /\ UNCHANGED <<gate, registryVars, startupVars, sessionVars, countVars,
                 armed, transportVars, calls, server>>

\* cleanup_virtual_display_if_idle
CleanupIfIdle(c) ==
  /\ job[c].pc = "cleanup" /\ Free
  /\ Goto(c, Idle)
  /\ UNCHANGED <<gate, registryVars, startupVars, sessionVars, countVars, app,
                 transportVars, calls, server>>
  /\ FinalizeSharedRuntimeIfIdle
-----------------------------------------------------------------------------
(* The RTSP thread.                                                         *)

AtLoop == job["rtsp"] = Idle
IoRuns == AtLoop /\ server # "stopped"
Handled == Goto("rtsp", At("sweep", None, "sweep"))

\* Faulty variant: the startup task is not counted.
AnnounceUncounted(l) ==
  /\ IoRuns /\ ClaimLaunchStartup(l) /\ server = "up"
  /\ claimed' = claimed \cup {l}
  /\ pool' = Append(pool, l)
  /\ Handled
  /\ UNCHANGED <<gate, entry, due, unpaired, startups, task, posted,
                 sessionVars, countVars, runtimeVars, transportVars, calls,
                 server>>

\* An authenticated ANNOUNCE; a duplicate is answered 409 and once the
\* server is stopping the claim is released again.
Announce(l) ==
  /\ IoRuns /\ ClaimLaunchStartup(l) /\ server = "up"
  /\ claimed' = claimed \cup {l}
  /\ startups' = startups + 1
  /\ pool' = Append(pool, l)
  /\ Handled
  /\ UNCHANGED <<gate, entry, due, unpaired, task, posted, sessionVars,
                 countVars, runtimeVars, transportVars, calls, server>>

\* The posted completion answers, and its guard runs finish_startup.
FinishStartup ==
  /\ IoRuns /\ posted # <<>> /\ Free
  /\ posted' = Tail(posted)
  /\ startups' = startups - 1
  /\ Handled
  /\ UNCHANGED <<gate, registryVars, pool, task, sessionVars, countVars, app,
                 transportVars, calls, server>>
  /\ FinalizeSharedRuntimeIfIdle

\* Faulty variant: the last launch expires and nothing is restored.
ExpiresQuietly ==
  /\ IoRuns /\ due # {} /\ Free
  /\ Erase(due)
  /\ Handled
  /\ UNCHANGED <<gate, unpaired, startupVars, sessionVars, countVars,
                 runtimeVars, transportVars, calls, server>>

\* The expiry timer, or a connection that looks up its route.
ExpireLaunches ==
  /\ IoRuns /\ due # {} /\ Free
  /\ Erase(due)
  /\ Handled
  /\ UNCHANGED <<gate, unpaired, startupVars, sessionVars, countVars, app,
                 transportVars, calls, server>>
  /\ FinalizeSharedRuntimeIfIdle

\* After each handler, every 500 ms while there are sessions, and at once
\* when the io_context is stopped.
RtspSweep ==
  /\ \/ job["rtsp"].pc = "sweep"
     \/ AtLoop /\ (inSet # {} \/ server # "up")
  /\ UNCHANGED calls
  /\ \/ bcast # "ending" /\ CollectStopping("rtsp", "sweep")
     \/ /\ bcast = "ending"
        /\ Goto("rtsp", At("clear", None, "cancelPending"))
        /\ UNCHANGED <<gate, registryVars, startupVars, sessionVars, countVars,
                       runtimeVars, transportVars, server>>

\* Faulty variant: the loop ends with startups under way.
EndsAtOnce == server # "up"

LoopEnds == server # "up" /\ startups = 0

RtspExits ==
  /\ AtLoop /\ LoopEnds
  /\ Goto("rtsp", At("final", None, "cancelPending"))
  /\ UNCHANGED <<gate, registryVars, startupVars, sessionVars, countVars,
                 runtimeVars, transportVars, calls, server>>
-----------------------------------------------------------------------------
(* The startup worker.                                                      *)

NoTask == [l |-> None, started |-> FALSE]

Finish(l) == posted' = Append(posted, l)

\* The launch may have timed out or been cancelled while the task waited.
TakeStartup ==
  LET l == Head(pool) IN
  /\ pool # <<>> /\ task = NoTask /\ Free
  /\ pool' = Tail(pool)
  /\ IF HasLaunchSession(l)
     THEN /\ gate' = "worker" /\ task' = [l |-> l, started |-> FALSE]
          /\ UNCHANGED posted
     ELSE Finish(l) /\ UNCHANGED <<gate, task>>
  /\ UNCHANGED <<registryVars, startups, sessionVars, countVars, runtimeVars,
                 transportVars, job, calls, server>>

\* session::start: broadcast.ref() waits while the last one is being ended.
StartSession ==
  LET l == task.l IN
  /\ task # NoTask /\ ~task.started /\ bcast # "ending"
  /\ bcast' = "up"
  /\ control' = IF bcast = "down"
                THEN AtPoll ELSE control
  /\ listed' = listed \cup {l}
  /\ capture' = capture \cup {l}
  /\ sess' = [sess EXCEPT ![l] = "running"]
  /\ running' = running + 1
  /\ armed' = TRUE
  /\ task' = [task EXCEPT !.started = TRUE]
  /\ UNCHANGED <<gate, registryVars, startups, pool, posted, inSet, peers,
                 ended, teardown, app, job, calls, server>>

\* The session is published before the gate is released.
Insert ==
  /\ task.started
  /\ inSet' = inSet \cup {task.l}
  /\ gate' = None /\ task' = NoTask
  /\ Finish(task.l)
  /\ UNCHANGED <<registryVars, startups, pool, sess, listed, peers, ended,
                 capture, countVars, runtimeVars, transportVars, job, calls,
                 server>>

\* The launch stays pending, and claimed, until it is due.
StartFails ==
  /\ task # NoTask /\ ~task.started /\ bcast # "ending"
  /\ gate' = None /\ task' = NoTask
  /\ Finish(task.l)
  /\ UNCHANGED <<registryVars, startups, pool, sessionVars, countVars,
                 runtimeVars, transportVars, job, calls, server>>
-----------------------------------------------------------------------------
(* The sessions' own threads.                                               *)

\* One capture thread returns and stops the session.
CaptureFails(l) ==
  /\ l \in capture /\ sess[l] = "running"
  /\ sess' = Stopped({l})
  /\ UNCHANGED <<gate, registryVars, startupVars, inSet, listed, peers, ended,
                 capture, countVars, runtimeVars, transportVars, job, calls,
                 server>>

\* The shutdown event of the session ends the threads.
CaptureEnds(l) ==
  /\ l \in capture /\ (sess[l] = "stopping" \/ l \in ended)
  /\ capture' = capture \ {l}
  /\ sess' = Stopped({l})
  /\ UNCHANGED <<gate, registryVars, startupVars, inSet, listed, peers, ended,
                 countVars, runtimeVars, transportVars, job, calls, server>>

(* The control thread.                                                      *)

BroadcastEnds == server # "up" \/ bcast = "ending"

ControlAt(pc) == control' = [control EXCEPT !.pc = pc]

ControlSample ==
  /\ control.pc = "poll"
  /\ control' = IF BroadcastEnds THEN [control EXCEPT !.pc = "exit"]
                ELSE [control EXCEPT !.pc = "walk", !.game = app,
                        !.keep = app \/ HasPendingLaunchOrStartup]
  /\ UNCHANGED <<gate, registryVars, startupVars, sessionVars, countVars,
                 runtimeVars, bcast, job, calls, server>>

\* Faulty variant: a session leaves the list without its controlEnd raised.
LeavesQuietly(ls) == ended
RaisesControlEnd(ls) == ended \cup ls

\* Sessions that stop, or whose ping timed out, leave the list; without an
\* app the others are stopped, one not connected yet after a grace.
ControlWalk(timedOut, graceOver) ==
  LET leaving == timedOut \cup {l \in listed : sess[l] = "stopping"}
      left == listed \ leaving
      stops == IF control.game THEN {} ELSE left \cap (peers \cup graceOver)
  IN
  /\ control.pc = "walk"
  /\ timedOut \subseteq listed \cap Alive
  /\ listed' = left
  /\ ended' = RaisesControlEnd(leaving)
  /\ sess' = Stopped(timedOut \cup stops)
  /\ control' = [AtPoll EXCEPT !.pc = IF ~control.keep /\ left = {}
                                    THEN "exit" ELSE "iterate"]
  /\ UNCHANGED <<gate, registryVars, startupVars, inSet, peers, capture,
                 countVars, runtimeVars, bcast, job, calls, server>>

\* server->iterate: nothing, or a peer connects to a listed session.
ControlIterate ==
  /\ control.pc = "iterate"
  /\ \/ ControlAt("poll") /\ UNCHANGED peers
     \/ \E l \in listed \ peers :
          /\ peers' = peers \cup {l}
          /\ control' = [control EXCEPT !.pc = "clear", !.l = l]
  /\ UNCHANGED <<gate, registryVars, startupVars, sess, inSet, listed, ended,
                 capture, countVars, runtimeVars, bcast, job, calls, server>>

\* get_session clears the launch the peer belongs to, under the gate.
LaunchSessionClear ==
  /\ control.pc = "clear" /\ Free
  /\ Erase(Pending \cap {control.l})
  /\ control' = AtPoll
  /\ UNCHANGED <<gate, unpaired, startupVars, sessionVars, countVars, app,
                 bcast, job, calls, server>>
  /\ IF control.l \in Pending THEN FinalizeSharedRuntimeIfIdle
                              ELSE UNCHANGED armed

ControlExits ==
  /\ control.pc = "exit"
  /\ ended' = RaisesControlEnd(listed)
  /\ ControlAt("done")
  /\ UNCHANGED <<gate, registryVars, startupVars, sess, inSet, listed, peers,
                 capture, countVars, runtimeVars, bcast, job, calls, server>>
-----------------------------------------------------------------------------
(* Shutdown.                                                                *)

BeginShutdown ==
  /\ Shutdown /\ server = "up"
  /\ server' = "draining"
  /\ UNCHANGED <<gate, registryVars, startupVars, sessionVars, countVars,
                 runtimeVars, transportVars, job, calls>>

\* startup_pool is joined, the io_context stopped, and clear() begins.
StopIo ==
  /\ server = "draining" /\ pool = <<>> /\ task = NoTask
  /\ server' = "stopped"
  /\ Goto("main", At("final", None, "cancelPending"))
  /\ UNCHANGED <<gate, registryVars, startupVars, sessionVars, countVars,
                 runtimeVars, transportVars, calls>>

JoinRtsp ==
  /\ job["main"].pc = "joinRtsp" /\ job["rtsp"].pc = "done"
  /\ Goto("main", At("final", None, "done"))
  /\ UNCHANGED <<gate, registryVars, startupVars, sessionVars, countVars,
                 runtimeVars, transportVars, calls, server>>
-----------------------------------------------------------------------------
CallBegins(c) ==
  \/ \E l \in Launches : BeginLaunch(c, l) \/ BeginReplace(c, l) \/ StopOne(c, l)
  \/ \E k \in Clients : BeginClientDisconnect(c, k) \/ BeginRevoke(c, k)
  \/ BeginRoleDisconnect(c) \/ BeginCancel(c) \/ BeginSweep(c)

CallGoesOn(c) ==
  \/ LaunchFails(c) \/ Recheck(c) \/ RefuseLaunch(c) \/ RaiseLaunch(c)
  \/ PassBarrier(c) \/ Scan(c) \/ TerminateApp(c) \/ CleanupIfIdle(c)

Teardown(a) ==
  \/ CancelPending(a) \/ Collect(a) \/ JoinEnd(a) \/ FinalizeRole(a)
  \/ FreeSessions(a) \/ EndBroadcast(a)
  \/ \E l \in Launches : StopNext(a, l)

RtspHandles ==
  \/ \E l \in Launches : Announce(l)
  \/ FinishStartup \/ ExpireLaunches

Worker == TakeStartup \/ StartSession \/ Insert \/ StartFails

Control ==
  \/ ControlSample \/ ControlIterate \/ LaunchSessionClear \/ ControlExits
  \/ \E t, g \in SUBSET listed : ControlWalk(t, g)

Environment ==
  \/ \E l \in Launches : LaunchComesDue(l) \/ CaptureFails(l)
  \/ AppExits \/ BeginShutdown

Next ==
  \/ \E c \in Callers : CallBegins(c) \/ CallGoesOn(c)
  \/ \E a \in Workers : Teardown(a)
  \/ RtspHandles \/ RtspSweep \/ RtspExits
  \/ Worker \/ Control
  \/ \E l \in Launches : CaptureEnds(l)
  \/ StopIo \/ JoinRtsp
  \/ Environment

Spec == Init /\ [][Next]_vars

\* Every thread goes on while it can: callers, the RTSP thread's handlers and
\* its sweep, the worker, the control and capture threads, and main.
Fairness ==
  /\ \A c \in Callers : WF_vars(CallGoesOn(c) \/ Teardown(c))
  /\ WF_vars(Teardown("rtsp") \/ RtspSweep) /\ WF_vars(RtspExits)
  /\ WF_vars(FinishStartup)
  /\ WF_vars(Worker) /\ WF_vars(Control)
  /\ \A l \in Launches : WF_vars(CaptureEnds(l))
  /\ WF_vars(StopIo \/ JoinRtsp \/ Teardown("main"))

FairSpec == Spec /\ Fairness
=============================================================================
