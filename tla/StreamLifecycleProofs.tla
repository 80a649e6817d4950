------------------------ MODULE StreamLifecycleProofs ------------------------
(***************************************************************************)
(* Theorems about the launches and sessions, for any launches, clients,    *)
(* callers, calls and bounds.  The argument: a launch that was handed to   *)
(* the startup pool stays claimed as long as it is pending, so it is       *)
(* queued once; a session is held by the set, by the startup or by exactly *)
(* one of the threads that tear sessions down; and the three counters are  *)
(* the cardinalities of what they stand for, so none wraps.                *)
(***************************************************************************)
EXTENDS StreamProperties, FiniteSetTheorems, TLAPS

\* What the handlers of one worker's job may rely on.
JobShape(j) ==
  /\ j.todo \subseteq j.mine
  /\ j.pc \notin {"sessions", "join", "free", "ending"} => j.mine = {}
  /\ IF j.pc = "join" THEN j.cur \in j.mine \ j.todo ELSE j.cur = None
  /\ j.pc \in {"free", "ending"} => j.todo = {}

JobType == [op : Ops, pc : Pcs, arg : Launches \cup Clients \cup {None},
            todo : SUBSET Launches, mine : SUBSET Launches,
            cur : Launches \cup {None}]

\* The thread that shuts down has no job before the io_context is stopped.
MainInv == server # "stopped" => job["main"] = Idle

JobInv ==
  /\ job \in [Workers -> JobType]
  /\ \A a \in Workers : JobShape(job[a])

\* A launch being admitted is new, and its caller holds the gate.
Admits(j) == j.pc \in {"admit", "raise"} \/ j.op \in {"launch", "replace"}

AdmitInv ==
  \A a \in Workers :
    Admits(job[a]) => /\ gate = a
                      /\ job[a].arg \in Launches
                      /\ entry[job[a].arg] = "new"

RegistryInv ==
  /\ gate \in {None, "worker"} \cup Callers
  /\ entry \in [Launches -> {"new", "pending", "gone"}]
  /\ due \subseteq Pending /\ claimed \subseteq Pending
  /\ unpaired \subseteq Clients

\* Who holds a session: the set, the startup that made it, or one worker.
Live == {"running", "stopping"}

HeldInv ==
  /\ \A l \in inSet : sess[l] \in Live
  /\ task.started => sess[task.l] \in Live /\ task.l \notin inSet
  /\ \A a \in Workers : \A l \in job[a].mine :
       /\ l \notin inSet
       /\ task.started => l # task.l
       /\ IF job[a].pc = "ending" THEN sess[l] = "freed" ELSE sess[l] \in Live
  /\ \A a, b \in Workers : a # b => job[a].mine \cap job[b].mine = {}

\* Queued for startup, being started, or started.
Taken(l) == sess[l] # "none" \/ task.l = l \/ \E i \in DOMAIN pool : pool[i] = l

StartInv ==
  /\ \A i \in DOMAIN pool : sess[pool[i]] = "none" /\ task.l # pool[i]
  /\ \A i, j \in DOMAIN pool : pool[i] = pool[j] => i = j
  /\ task = NoTask \/ (task.l \in Launches /\ gate = "worker")
  /\ task # NoTask /\ ~task.started => sess[task.l] = "none"
  /\ \A l \in Launches : Taken(l) => entry[l] # "new"
                                     /\ (entry[l] = "pending" => l \in claimed)

\* Sessions started and not yet joined, and the joins under way.
Counted == {l \in Alive : \A a \in Workers : l \notin Joined(a)}
Joining == {a \in Workers : job[a].pc = "join"}

CountInv ==
  /\ startups = Len(pool) + Len(posted) + (IF task = NoTask THEN 0 ELSE 1)
  /\ running = Cardinality(Counted)
  /\ teardown = Cardinality(Joining)
  /\ capture \subseteq Counted

\* What the startup and the sessions' own variables range over.
SessionTypes ==
  /\ pool \in Seq(Launches) /\ posted \in Seq(Launches)
  /\ task \in [l : Launches \cup {None}, started : BOOLEAN]
  /\ sess \in [Launches -> {"none", "running", "stopping", "freed"}]
  /\ inSet \subseteq Launches /\ listed \subseteq Launches
  /\ peers \subseteq Launches /\ ended \subseteq Launches

RuntimeTypes ==
  /\ armed \in BOOLEAN /\ app \in BOOLEAN
  /\ bcast \in {"down", "up", "ending"}
  /\ control \in [pc : {"off", "poll", "walk", "iterate", "clear", "exit", "done"},
                  l : Launches \cup {None}, game : BOOLEAN, keep : BOOLEAN]
  /\ control.pc = "clear" => control.l \in Launches
  /\ calls \in Nat
  /\ server \in {"up", "draining", "stopped"}

SessionInv == SessionTypes /\ RuntimeTypes

IInv ==
  JobInv /\ MainInv /\ AdmitInv /\ RegistryInv /\ HeldInv /\ StartInv /\ CountInv
    /\ SessionInv
-----------------------------------------------------------------------------
(* Jobs.                                                                    *)

LEMMA WorkersFacts ==
  /\ Callers \subseteq Workers /\ "rtsp" \in Workers /\ "main" \in Workers
  /\ None \notin Launches /\ None \notin Workers /\ None # "worker"
  /\ "worker" \notin Workers
BY StreamAssumption DEF StreamAssumption, Workers

(* The jobs the handlers make have their type and shape.                    *)
LEMMA NewJobs ==
  ASSUME NEW op \in Ops, NEW arg \in Launches \cup Clients \cup {None}
  PROVE  /\ Idle \in JobType /\ JobShape(Idle)
         /\ \A pc \in Pcs \ {"sessions", "join", "free", "ending"} :
              At(op, arg, pc) \in JobType /\ JobShape(At(op, arg, pc))
         /\ \A ls \in SUBSET Launches :
              Cleaning(op, arg, ls) \in JobType /\ JobShape(Cleaning(op, arg, ls))
<1>1. Idle \in JobType /\ JobShape(Idle)
  BY DEF Idle, JobType, JobShape, Ops, Pcs
<1>2. ASSUME NEW pc \in Pcs \ {"sessions", "join", "free", "ending"}
      PROVE  At(op, arg, pc) \in JobType /\ JobShape(At(op, arg, pc))
  BY DEF At, Idle, JobType, JobShape
<1>3. ASSUME NEW ls \in SUBSET Launches
      PROVE  Cleaning(op, arg, ls) \in JobType /\ JobShape(Cleaning(op, arg, ls))
  BY DEF Cleaning, Idle, JobType, JobShape, Pcs
<1> QED
  BY <1>1, <1>2, <1>3

(* One worker goes on to such a job.                                        *)
LEMMA JobStep ==
  ASSUME JobInv, NEW a \in Workers, NEW j \in JobType, JobShape(j), Goto(a, j)
  PROVE  JobInv'
BY DEF JobInv, Goto

(* Every call begins with a job in shape.                                   *)
LEMMA CallBeginsJob ==
  ASSUME JobInv, RegistryInv, SessionInv, NEW c \in Callers, CallBegins(c)
  PROVE  JobInv'
<1>0. c \in Workers
  BY WorkersFacts
<1> USE <1>0 DEF RegistryInv, SessionInv, SessionTypes
<1>1. ASSUME NEW l \in Launches, BeginLaunch(c, l) PROVE JobInv'
  BY <1>1, NewJobs, JobStep DEF BeginLaunch, Ops, CallKinds, Pcs
<1>2. ASSUME NEW l \in Launches, BeginReplace(c, l) PROVE JobInv'
  BY <1>2, NewJobs, JobStep DEF BeginReplace, Ops, CallKinds, Pcs
<1>3. ASSUME NEW l \in Launches, StopOne(c, l) PROVE JobInv'
  BY <1>3 DEF StopOne, JobInv
<1>4. ASSUME NEW k \in Clients, BeginClientDisconnect(c, k) PROVE JobInv'
  BY <1>4, NewJobs, JobStep
     DEF BeginClientDisconnect, SweepFor, Stopping, Ops, CallKinds, Pcs
<1>5. ASSUME NEW k \in Clients, BeginRevoke(c, k) PROVE JobInv'
  BY <1>5, NewJobs, JobStep DEF BeginRevoke, Ops, CallKinds, Pcs
<1>6. CASE BeginRoleDisconnect(c)
  BY <1>6, NewJobs, JobStep DEF BeginRoleDisconnect, Ops, CallKinds, Pcs
<1>7. CASE BeginCancel(c)
  BY <1>7, NewJobs, JobStep DEF BeginCancel, Ops, CallKinds, Pcs
<1>8. CASE BeginSweep(c)
  BY <1>8, NewJobs, JobStep
     DEF BeginSweep, CollectStopping, Stopping, Ops, CallKinds, Pcs
<1> QED
  BY <1>1, <1>2, <1>3, <1>4, <1>5, <1>6, <1>7, <1>8 DEF CallBegins

(* Where a call goes on after its teardown.                                 *)
LEMMA AfterwardsJob ==
  ASSUME JobInv, NEW a \in Workers
  PROVE  Afterwards(a) \in JobType /\ JobShape(Afterwards(a))
<1>1. job[a].op \in Ops /\ job[a].arg \in Launches \cup Clients \cup {None}
  BY DEF JobInv, JobType
<1>2. /\ Idle \in JobType /\ JobShape(Idle)
      /\ \A op \in Ops, pc \in {"terminate", "cleanup", "scan", "done", "joinRtsp"},
            arg \in {None, job[a].arg} :
           At(op, arg, pc) \in JobType /\ JobShape(At(op, arg, pc))
  BY <1>1, NewJobs DEF Pcs, Ops
<1>3. {"role", "replace", "cancel", "revoke", "final"} \subseteq Ops
  BY DEF Ops, CallKinds
<1>4. \/ Afterwards(a) = At(job[a].op, job[a].arg, "terminate")
      \/ Afterwards(a) = At("revoke", job[a].arg, "cleanup")
      \/ Afterwards(a) = At(job[a].op, job[a].arg, "scan")
      \/ Afterwards(a) = At("final", None, "done")
      \/ Afterwards(a) = At("final", None, "joinRtsp")
      \/ Afterwards(a) = Idle
  BY Zenon DEF Afterwards
<1> QED
  BY <1>1, <1>2, <1>3, <1>4

(* The steps that end a session or a call.                                  *)
LEMMA TeardownJob ==
  ASSUME JobInv, SessionInv, NEW a \in Workers, Teardown(a)
  PROVE  JobInv'
<1>1. job[a] \in JobType /\ JobShape(job[a])
  BY DEF JobInv
<1>2. ASSUME NEW j, j \in JobType, JobShape(j), Goto(a, j) PROVE JobInv'
  BY <1>2, JobStep
<1>3. CASE CancelPending(a)
  <2> DEFINE j == [job[a] EXCEPT !.pc = "collect"]
  <2>1. Goto(a, j) /\ j \in JobType /\ JobShape(j)
    BY <1>1, <1>3 DEF CancelPending, JobType, JobShape, Pcs
  <2> QED
    BY <2>1, <1>2
<1>4. CASE Collect(a)
  BY <1>1, <1>4, NewJobs, JobStep DEF Collect, JobType, SessionInv, SessionTypes
<1>5. CASE JoinEnd(a)
  <2> DEFINE j == [job[a] EXCEPT !.pc = "sessions", !.cur = None]
  <2>1. Goto(a, j) /\ j \in JobType /\ JobShape(j)
    BY <1>1, <1>5 DEF JoinEnd, JobType, JobShape, Pcs
  <2> QED
    BY <2>1, <1>2
<1>6. CASE FinalizeRole(a)
  <2> DEFINE j == [job[a] EXCEPT !.pc = "free"]
  <2>1. Goto(a, j) /\ j \in JobType /\ JobShape(j)
    BY <1>1, <1>6 DEF FinalizeRole, AllJoined, JobType, JobShape, Pcs
  <2> QED
    BY <2>1, <1>2
<1>7. CASE FreeSessions(a)
  <2> DEFINE j == [job[a] EXCEPT !.pc = "ending"]
  <2>1. j \in JobType /\ JobShape(j)
    BY <1>1, <1>7 DEF FreeSessions, AllJoined, JobType, JobShape, Pcs
  <2>2. Goto(a, j) \/ Goto(a, Afterwards(a))
    BY <1>7 DEF FreeSessions
  <2> QED
    BY <2>1, <2>2, <1>2, AfterwardsJob
<1>8. CASE EndBroadcast(a)
  BY <1>8, AfterwardsJob, JobStep DEF EndBroadcast
<1>9. ASSUME NEW l \in Launches, StopNext(a, l) PROVE JobInv'
  <2> DEFINE j == [job[a] EXCEPT !.pc = "join", !.cur = l,
                                 !.todo = job[a].todo \ {l}]
  <2>1. Goto(a, j) /\ j \in JobType /\ JobShape(j)
    BY <1>1, <1>9 DEF StopNext, JobType, JobShape, Pcs
  <2> QED
    BY <2>1, <1>2
<1> QED
  BY <1>3, <1>4, <1>5, <1>6, <1>7, <1>8, <1>9 DEF Teardown

(* Every step keeps the jobs in shape.                                      *)
LEMMA JobKept ==
  ASSUME JobInv, RegistryInv, SessionInv, [Next]_vars
  PROVE  JobInv'
<1> USE DEF RegistryInv, SessionInv, SessionTypes
<1>1. ASSUME NEW c \in Callers, CallBegins(c) PROVE JobInv'
  BY <1>1, CallBeginsJob
<1>2. ASSUME NEW c \in Callers, CallGoesOn(c) PROVE JobInv'
  <2>0. /\ c \in Workers /\ job[c] \in JobType /\ JobShape(job[c])
        /\ job[c].arg \in Launches \cup Clients \cup {None}
    BY WorkersFacts DEF JobInv, JobType
  <2>1. CASE LaunchFails(c) \/ RefuseLaunch(c) \/ RaiseLaunch(c) \/ CleanupIfIdle(c)
    BY <2>0, <2>1, NewJobs, JobStep
       DEF LaunchFails, RefuseLaunch, RaiseLaunch, CleanupIfIdle, Ops
  <2>2. CASE Recheck(c)
    <3> DEFINE j == [job[c] EXCEPT !.pc = "raise"]
    <3>1. Goto(c, j) /\ j \in JobType /\ JobShape(j)
      BY <2>0, <2>2 DEF Recheck, Admitting, JobType, JobShape, Pcs
    <3> QED
      BY <3>1, <2>0, JobStep
  <2>3. CASE PassBarrier(c) \/ Scan(c)
    BY <2>0, <2>3, NewJobs, JobStep
       DEF PassBarrier, SweepFor, Stopping, Scan, Ops, CallKinds, Pcs
  <2>4. CASE TerminateApp(c)
    BY <2>0, <2>4, NewJobs, JobStep DEF TerminateApp, Ops, CallKinds, Pcs
  <2> QED
    BY <1>2, <2>1, <2>2, <2>3, <2>4 DEF CallGoesOn
<1>3. ASSUME NEW a \in Workers, Teardown(a) PROVE JobInv'
  BY <1>3, TeardownJob
<1>4. CASE RtspHandles \/ RtspSweep \/ RtspExits \/ StopIo \/ JoinRtsp
  BY <1>4, WorkersFacts, NewJobs, JobStep
     DEF RtspHandles, Announce, FinishStartup, ExpireLaunches, Handled, RtspSweep,
         CollectStopping, Stopping, RtspExits, StopIo, JoinRtsp, Ops, CallKinds, Pcs
<1>5. CASE UNCHANGED job
  BY <1>5 DEF JobInv
<1>6. Worker \/ Control \/ Environment \/ (\E l \in Launches : CaptureEnds(l))
        \/ UNCHANGED vars => UNCHANGED job
  BY DEF Worker, TakeStartup, StartSession, Insert, StartFails, Control, ControlSample,
         ControlIterate, LaunchSessionClear, ControlExits, ControlWalk, Environment,
         LaunchComesDue, CaptureFails, AppExits, BeginShutdown, CaptureEnds, vars
<1> QED
  BY <1>1, <1>2, <1>3, <1>4, <1>5, <1>6 DEF Next
-----------------------------------------------------------------------------
(* The launch registry.                                                     *)

RegistryUnchanged == UNCHANGED <<entry, due, claimed>>

Admission(c) == LaunchFails(c) \/ RefuseLaunch(c) \/ RaiseLaunch(c)

(* What a step may do to the registry.                                      *)
LEMMA RegistrySteps ==
  ASSUME RegistryInv, [Next]_vars
  PROVE  \/ RegistryUnchanged
         \/ \E ls \in SUBSET Pending : Erase(ls)
         \/ \E c \in Callers : Admission(c)
         \/ \E l \in Launches : LaunchComesDue(l) \/ Announce(l)
<1> USE DEF RegistryUnchanged, registryVars
<1>1. ASSUME NEW c \in Callers, CallBegins(c)
      PROVE  RegistryUnchanged \/ \E ls \in SUBSET Pending : Erase(ls)
  BY <1>1 DEF CallBegins, BeginLaunch, BeginReplace, StopOne, BeginClientDisconnect,
     SweepFor, BeginRevoke, BeginRoleDisconnect, BeginCancel, BeginSweep,
     CollectStopping
<1>2. ASSUME NEW c \in Callers, CallGoesOn(c)
      PROVE  \/ RegistryUnchanged
             \/ \E ls \in SUBSET Pending : Erase(ls)
             \/ Admission(c)
  <2>1. CASE Scan(c)
    <3> DEFINE ls == Pending \cap OfClient(job[c].arg)
    <3>1. Erase(ls) /\ ls \in SUBSET Pending
      BY <2>1 DEF Scan
    <3> QED
      BY <3>1
  <2> QED
    BY <1>2, <2>1 DEF CallGoesOn, Admission, Recheck, PassBarrier, SweepFor,
       TerminateApp, CleanupIfIdle
<1>3. ASSUME NEW a \in Workers, Teardown(a)
      PROVE  RegistryUnchanged \/ \E ls \in SUBSET Pending : Erase(ls)
  BY <1>3 DEF Teardown, CancelPending, Collect, JoinEnd, FinalizeRole,
     FreeSessions, EndBroadcast, StopNext
<1>4. CASE RtspHandles
  BY <1>4 DEF RegistryInv, RtspHandles, FinishStartup, ExpireLaunches
<1>5. CASE Control
  <2>1. CASE LaunchSessionClear
    <3>1. Erase(Pending \cap {control.l}) /\ Pending \cap {control.l} \in SUBSET Pending
      BY <2>1 DEF LaunchSessionClear
    <3> QED
      BY <3>1
  <2> QED
    BY <1>5, <2>1 DEF Control, ControlSample, ControlIterate, ControlExits, ControlWalk
<1>6. CASE RtspSweep \/ RtspExits \/ Worker \/ StopIo \/ JoinRtsp
           \/ \E l \in Launches : CaptureEnds(l)
  BY <1>6 DEF RtspSweep, CollectStopping, RtspExits, Worker, TakeStartup,
     StartSession, Insert, StartFails, StopIo, JoinRtsp, CaptureEnds
<1>7. CASE Environment
  BY <1>7 DEF Environment, CaptureFails, AppExits, BeginShutdown
<1>8. CASE UNCHANGED vars
  BY <1>8 DEF vars
<1> QED
  BY <1>1, <1>2, <1>3, <1>4, <1>5, <1>6, <1>7, <1>8 DEF Next

(* Who takes and who gives back the gate, and which pairings are withdrawn. *)
LEMMA GateSteps ==
  ASSUME RegistryInv, [Next]_vars
  PROVE  /\ gate' \in {None, "worker"} \cup Callers
         /\ unpaired' \subseteq Clients
<1> USE WorkersFacts DEF RegistryInv, registryVars
<1>1. ASSUME NEW c \in Callers, CallBegins(c)
      PROVE  gate' \in {gate, c} /\ unpaired' \subseteq Clients
  BY <1>1 DEF CallBegins, BeginLaunch, BeginReplace, StopOne, BeginClientDisconnect,
     SweepFor, BeginRevoke, BeginRoleDisconnect, BeginCancel, BeginSweep,
     CollectStopping
<1>2. ASSUME NEW c \in Callers, CallGoesOn(c)
      PROVE  gate' \in {gate, None} /\ UNCHANGED unpaired
  BY <1>2 DEF CallGoesOn, Admission, LaunchFails, RefuseLaunch, RaiseLaunch, Recheck,
     PassBarrier, SweepFor, Scan, TerminateApp, CleanupIfIdle
<1>3. ASSUME NEW a \in Workers, Teardown(a) PROVE UNCHANGED <<gate, unpaired>>
  BY <1>3 DEF Teardown, CancelPending, Collect, JoinEnd, FinalizeRole,
     FreeSessions, EndBroadcast, StopNext
<1>4. CASE RtspHandles \/ Control \/ Environment \/ UNCHANGED vars
  BY <1>4 DEF RtspHandles, Announce, FinishStartup, ExpireLaunches, Control,
     ControlSample, ControlIterate, LaunchSessionClear, ControlExits, ControlWalk,
     Environment, LaunchComesDue, CaptureFails, AppExits, BeginShutdown, vars
<1>5. CASE RtspSweep \/ RtspExits \/ Worker \/ StopIo \/ JoinRtsp
           \/ \E l \in Launches : CaptureEnds(l)
  BY <1>5 DEF RtspSweep, CollectStopping, RtspExits, Worker, TakeStartup,
     StartSession, Insert, StartFails, StopIo, JoinRtsp, CaptureEnds
<1> QED
  BY <1>1, <1>2, <1>3, <1>4, <1>5 DEF Next

(* The registry keeps its type; what is due or claimed is pending.          *)
LEMMA RegistryKept ==
  ASSUME RegistryInv, AdmitInv, [Next]_vars
  PROVE  RegistryInv'
<1>1. gate' \in {None, "worker"} \cup Callers /\ unpaired' \subseteq Clients
  BY GateSteps
<1> SUFFICES /\ entry' \in [Launches -> {"new", "pending", "gone"}]
             /\ due' \subseteq Pending' /\ claimed' \subseteq Pending'
  BY <1>1 DEF RegistryInv
<1> USE DEF RegistryInv, Pending
<1>2. CASE RegistryUnchanged
  BY <1>2 DEF RegistryUnchanged
<1>3. ASSUME NEW ls, Erase(ls)
      PROVE  /\ entry' \in [Launches -> {"new", "pending", "gone"}]
             /\ due' \subseteq Pending' /\ claimed' \subseteq Pending'
  BY <1>3 DEF Erase
<1>4. ASSUME NEW c \in Callers, Admission(c)
      PROVE  /\ entry' \in [Launches -> {"new", "pending", "gone"}]
             /\ due' \subseteq Pending' /\ claimed' \subseteq Pending'
  <2>1. Admits(job[c]) /\ c \in Workers
    BY <1>4, WorkersFacts
       DEF Admission, LaunchFails, RefuseLaunch, RaiseLaunch, Admitting, Raising, Admits
  <2>2. job[c].arg \in Launches /\ entry[job[c].arg] = "new"
    BY <2>1 DEF AdmitInv
  <2>3. CASE LaunchFails(c)
    BY <2>2, <2>3 DEF LaunchFails
  <2>4. CASE RefuseLaunch(c)
    BY <2>2, <2>4, <1>3 DEF RefuseLaunch
  <2>5. CASE RaiseLaunch(c)
    BY <2>2, <2>5 DEF RaiseLaunch
  <2> QED
    BY <1>4, <2>3, <2>4, <2>5 DEF Admission
<1>5. ASSUME NEW l \in Launches, LaunchComesDue(l) \/ Announce(l)
      PROVE  /\ entry' \in [Launches -> {"new", "pending", "gone"}]
             /\ due' \subseteq Pending' /\ claimed' \subseteq Pending'
  BY <1>5 DEF LaunchComesDue, Announce, ClaimLaunchStartup
<1> QED
  BY <1>2, <1>3, <1>4, <1>5, RegistrySteps

-----------------------------------------------------------------------------
(* Admission.                                                               *)

(* One worker moves, the others stay.                                       *)
LEMMA Moves ==
  ASSUME JobInv, NEW a \in Workers, NEW j, Goto(a, j)
  PROVE  job'[a] = j /\ \A b \in Workers \ {a} : job'[b] = job[b]
BY DEF JobInv, Goto

(* The fields of the jobs handlers make.                                    *)
LEMMA Fields ==
  /\ Idle.op = "none" /\ Idle.pc = "idle" /\ Idle.mine = {} /\ Idle.cur = None
  /\ \A op, arg, pc :
       /\ At(op, arg, pc).op = op /\ At(op, arg, pc).arg = arg
       /\ At(op, arg, pc).pc = pc /\ At(op, arg, pc).cur = None
       /\ At(op, arg, pc).mine = {} /\ At(op, arg, pc).todo = {}
  /\ \A op, arg, ls :
       /\ Cleaning(op, arg, ls).op = op /\ Cleaning(op, arg, ls).arg = arg
       /\ Cleaning(op, arg, ls).pc = "sessions" /\ Cleaning(op, arg, ls).cur = None
       /\ Cleaning(op, arg, ls).mine = ls /\ Cleaning(op, arg, ls).todo = ls
BY DEF Idle, At, Cleaning

\* A launch on its way to the registry, and whose job it is, stay the same.
Continues(a) == Admits(job'[a]) => Admits(job[a]) /\ job'[a].arg = job[a].arg

LEMMA Continuing ==
  ASSUME JobInv, NEW a \in Workers, NEW j, Goto(a, j),
         Admits(j) => Admits(job[a]) /\ j.arg = job[a].arg
  PROVE  \A b \in Workers : Continues(b)
BY Moves DEF Continues

(* Erased launches were pending: no launch being admitted is among them.    *)
LEMMA NewStays ==
  ASSUME RegistryInv, NEW l \in Launches, entry[l] = "new",
         \/ RegistryUnchanged
         \/ \E ls \in SUBSET Pending : Erase(ls)
         \/ \E k \in Launches : LaunchComesDue(k) \/ Announce(k)
  PROVE  entry'[l] = "new"
BY DEF RegistryInv, Pending, Erase, RegistryUnchanged, LaunchComesDue, Announce

(* A step that neither takes the gate nor ends an admission.                *)
LEMMA AdmitStep ==
  ASSUME RegistryInv, AdmitInv, [Next]_vars,
         gate' = gate \/ gate = "worker",
         ~\E c \in Callers : Admission(c),
         \A a \in Workers : Continues(a)
  PROVE  AdmitInv'
<1> SUFFICES ASSUME NEW a \in Workers, Admits(job'[a])
             PROVE  gate' = a /\ job'[a].arg \in Launches
                    /\ entry'[job'[a].arg] = "new"
  BY DEF AdmitInv, Admits
<1>1. /\ Admits(job[a]) /\ job'[a].arg = job[a].arg
      /\ gate = a /\ job[a].arg \in Launches /\ entry[job[a].arg] = "new"
  BY DEF AdmitInv, Continues
<1>2. entry'[job[a].arg] = "new"
  BY <1>1, NewStays, RegistrySteps
<1> QED
  BY <1>1, <1>2, WorkersFacts

(* Admissions stay apart from each other and from whatever else happens.    *)
LEMMA AdmitKept ==
  ASSUME JobInv, RegistryInv, AdmitInv, StartInv, [Next]_vars
  PROVE  AdmitInv'
<1> USE WorkersFacts, Fields
<1>0. job \in [Workers -> JobType]
  BY DEF JobInv
<1>1. ASSUME NEW c \in Callers,
             \E l \in Launches : BeginLaunch(c, l) \/ BeginReplace(c, l)
      PROVE  AdmitInv'
  <2>1. PICK l \in Launches : BeginLaunch(c, l) \/ BeginReplace(c, l)
    BY <1>1
  <2>2. gate = None /\ gate' = c /\ entry[l] = "new"
    BY <2>1 DEF BeginLaunch, BeginReplace, StartAdmitted, Free
  <2>5. job'[c].arg = l /\ \A a \in Workers \ {c} : job'[a] = job[a]
    BY <2>1, Moves DEF BeginLaunch, BeginReplace
  <2>3. entry'[l] = "new"
    BY <2>1, <2>2 DEF BeginLaunch, BeginReplace, registryVars, Erase, Pending
  <2>4. \A a \in Workers : ~Admits(job[a])
    BY <2>2 DEF AdmitInv
  <2> QED
    BY <2>2, <2>3, <2>4, <2>5 DEF AdmitInv, Admits
<1>2. ASSUME NEW c \in Callers, Admission(c) PROVE AdmitInv'
  <2>1. gate = c /\ Goto(c, Idle)
    BY <1>2
       DEF Admission, LaunchFails, RefuseLaunch, RaiseLaunch, Admitting, Raising, Admits
  <2>2. \A a \in Workers \ {c} : ~Admits(job[a])
    BY <2>1 DEF AdmitInv
  <2>3. ~Admits(job'[c]) /\ \A a \in Workers \ {c} : job'[a] = job[a]
    BY <2>1, Moves DEF Admits
  <2> QED
    BY <2>2, <2>3 DEF AdmitInv, Admits
<1>3. ASSUME NEW c \in Callers, CallBegins(c),
             ~\E l \in Launches : BeginLaunch(c, l) \/ BeginReplace(c, l)
      PROVE  gate' = gate /\ \A a \in Workers : Continues(a)
  <2>1. CASE BeginRoleDisconnect(c) \/ BeginCancel(c) \/ BeginSweep(c)
    BY <1>3, <2>1, Continuing DEF BeginRoleDisconnect, BeginCancel, BeginSweep,
       CollectStopping, Admits
  <2>3. CASE \E l \in Launches : StopOne(c, l)
    BY <2>3 DEF StopOne, Continues
  <2>2. ASSUME NEW k \in Clients, BeginClientDisconnect(c, k) \/ BeginRevoke(c, k)
        PROVE  gate' = gate /\ \A a \in Workers : Continues(a)
    BY <2>2, Continuing DEF BeginClientDisconnect, SweepFor, BeginRevoke, Admits
  <2> QED
    BY <1>3, <2>1, <2>2, <2>3 DEF CallBegins
<1>4. ASSUME NEW c \in Callers, CallGoesOn(c), ~Admission(c)
      PROVE  gate' = gate /\ \A a \in Workers : Continues(a)
  <2>1. CASE Recheck(c)
    <3> DEFINE j == [job[c] EXCEPT !.pc = "raise"]
    <3>1. Goto(c, j) /\ j.arg = job[c].arg /\ Admits(job[c]) /\ gate' = gate
      BY <1>0, <2>1 DEF Recheck, Admitting, Admits, JobType
    <3> QED
      BY <3>1, Continuing
  <2>2. CASE TerminateApp(c)
    <3>1. CASE job[c].op = "replace"
      BY <2>2, <3>1, Continuing DEF TerminateApp, Admits
    <3>2. CASE job[c].op # "replace"
      BY <2>2, <3>2, Continuing DEF TerminateApp, Admits
    <3> QED
      BY <3>1, <3>2
  <2>3. CASE PassBarrier(c) \/ Scan(c) \/ CleanupIfIdle(c)
    BY <2>3, Continuing DEF PassBarrier, SweepFor, Scan, CleanupIfIdle, Admits
  <2> QED
    BY <1>4, <2>1, <2>2, <2>3 DEF CallGoesOn, Admission
<1>5. ASSUME NEW a \in Workers, Teardown(a)
      PROVE  gate' = gate /\ \A b \in Workers : Continues(b)
  <2>1. Admits(Afterwards(a)) =>
          Admits(job[a]) /\ Afterwards(a).arg = job[a].arg
    <3>1. CASE job[a].op = "replace"
      BY <3>1 DEF Afterwards, Admits
    <3>2. CASE job[a].op # "replace"
      <4>1. \/ Afterwards(a) = At(job[a].op, job[a].arg, "terminate")
            \/ Afterwards(a) = At("revoke", job[a].arg, "cleanup")
            \/ /\ Afterwards(a) = At(job[a].op, job[a].arg, "scan")
               /\ job[a].op \in {"sweepClient", "sweepRevoke"}
            \/ Afterwards(a) = At("final", None, "done")
            \/ Afterwards(a) = At("final", None, "joinRtsp")
            \/ Afterwards(a) = Idle
        BY Zenon DEF Afterwards
      <4> QED
        BY <3>2, <4>1 DEF Admits
    <3> QED
      BY <3>1, <3>2
  <2>2. gate' = gate
    BY <1>5 DEF Teardown, CancelPending, Collect, JoinEnd, FinalizeRole,
       FreeSessions, EndBroadcast, StopNext
  <2>3. CASE FreeSessions(a) \/ EndBroadcast(a)
    <3> DEFINE j == [job[a] EXCEPT !.pc = "ending"]
    <3>1. Admits(j) => Admits(job[a]) /\ j.arg = job[a].arg
      BY <1>0 DEF Admits, JobType
    <3>2. Goto(a, j) \/ Goto(a, Afterwards(a))
      BY <2>3 DEF FreeSessions, EndBroadcast
    <3> QED
      BY <2>1, <2>2, <3>1, <3>2, Continuing
  <2>4. CASE ~FreeSessions(a) /\ ~EndBroadcast(a)
    <3>1. PICK j : /\ Goto(a, j) /\ j.op = job[a].op /\ j.arg = job[a].arg
                   /\ j.pc \notin {"admit", "raise"}
      <4>1. CASE CancelPending(a)
        <5> DEFINE i == [job[a] EXCEPT !.pc = "collect"]
        <5>1. Goto(a, i) /\ i.op = job[a].op /\ i.arg = job[a].arg /\ i.pc = "collect"
          BY <1>0, <4>1 DEF CancelPending, JobType
        <5> QED
          BY <5>1
      <4>2. CASE Collect(a)
        BY <4>2 DEF Collect
      <4>3. CASE JoinEnd(a)
        <5> DEFINE i == [job[a] EXCEPT !.pc = "sessions", !.cur = None]
        <5>1. Goto(a, i) /\ i.op = job[a].op /\ i.arg = job[a].arg /\ i.pc = "sessions"
          BY <1>0, <4>3 DEF JoinEnd, JobType
        <5> QED
          BY <5>1
      <4>4. CASE FinalizeRole(a)
        <5> DEFINE i == [job[a] EXCEPT !.pc = "free"]
        <5>1. Goto(a, i) /\ i.op = job[a].op /\ i.arg = job[a].arg /\ i.pc = "free"
          BY <1>0, <4>4 DEF FinalizeRole, JobType
        <5> QED
          BY <5>1
      <4>5. ASSUME NEW l \in Launches, StopNext(a, l)
            PROVE  \E j : /\ Goto(a, j) /\ j.op = job[a].op /\ j.arg = job[a].arg
                          /\ j.pc \notin {"admit", "raise"}
        <5> DEFINE i == [job[a] EXCEPT !.pc = "join", !.cur = l,
                                       !.todo = job[a].todo \ {l}]
        <5>1. Goto(a, i) /\ i.op = job[a].op /\ i.arg = job[a].arg /\ i.pc = "join"
          BY <1>0, <4>5 DEF StopNext, JobType
        <5> QED
          BY <5>1
      <4> QED
        BY <1>5, <2>4, <4>1, <4>2, <4>3, <4>4, <4>5 DEF Teardown
    <3> QED
      BY <2>2, <3>1, Continuing DEF Admits
  <2> QED
    BY <2>3, <2>4
<1>6. CASE RtspHandles \/ RtspSweep \/ RtspExits \/ StopIo \/ JoinRtsp
  <2>1. gate' = gate /\ \A b \in Workers : Continues(b)
    BY <1>6, Continuing DEF RtspHandles, Announce, FinishStartup, ExpireLaunches, Handled,
       RtspSweep, CollectStopping, RtspExits, StopIo, JoinRtsp, Continues, Admits
  <2> QED
    BY <2>1, <1>2, AdmitStep
<1>7. CASE Control \/ Environment \/ UNCHANGED vars
           \/ \E l \in Launches : CaptureEnds(l)
  <2>1. UNCHANGED <<gate, job>>
    BY <1>7 DEF Control, ControlSample, ControlIterate, LaunchSessionClear,
       ControlExits, ControlWalk, Environment, LaunchComesDue, CaptureFails, AppExits,
       BeginShutdown, CaptureEnds, vars
  <2> QED
    BY <2>1, <1>2, AdmitStep DEF Continues
<1>8. CASE Worker
  <2>1. CASE TakeStartup
    BY <2>1 DEF TakeStartup, Free, AdmitInv, Admits, registryVars
  <2>2. CASE ~TakeStartup
    <3>1. job' = job /\ (gate' = gate \/ gate = "worker")
      BY <1>8, <2>2 DEF Worker, StartSession, Insert, StartFails, StartInv, NoTask
    <3> QED
      BY <3>1, <1>2, AdmitStep DEF Continues
  <2> QED
    BY <2>1, <2>2
<1> QED
  BY <1>1, <1>2, <1>3, <1>4, <1>5, <1>6, <1>7, <1>8, AdmitStep DEF Next

-----------------------------------------------------------------------------
(* Sessions.                                                                *)

\* What a job says about sessions: those it took out of the set, those it has
\* not come to, the one it joins.
SameHands(j, k) ==
  /\ k.mine = j.mine /\ k.todo = j.todo /\ k.cur = j.cur
  /\ k.pc = "join" <=> j.pc = "join"
  /\ k.pc = "ending" <=> j.pc = "ending"

HandsSame == \A a \in Workers : SameHands(job[a], job'[a])

\* The kinds of step, by what they do to the sessions.
Aside == /\ UNCHANGED <<sess, inSet, capture, startupVars, countVars>>
         /\ HandsSame

Takes(a, ls) ==
  /\ ls \subseteq inSet /\ inSet' = inSet \ ls
  /\ UNCHANGED <<sess, capture, startupVars, countVars>>
  /\ job[a].mine = {} /\ job[a].pc # "join"
  /\ job'[a].mine = ls /\ job'[a].todo = ls /\ job'[a].cur = None
  /\ job'[a].pc \notin {"join", "ending"}
  /\ \A b \in Workers \ {a} : job'[b] = job[b]

Stops(ls) ==
  /\ sess' = Stopped(ls) /\ capture' \subseteq capture
  /\ UNCHANGED <<inSet, startupVars, countVars>>
  /\ HandsSame

Startup ==
  \/ (\E l \in Launches : Announce(l)) \/ FinishStartup
  \/ TakeStartup \/ StartSession \/ Insert \/ StartFails

(* A worker whose job is set aside before and after.                        *)
LEMMA HandsKept ==
  ASSUME JobInv, NEW a \in Workers, NEW j, Goto(a, j), SameHands(job[a], j)
  PROVE  HandsSame
BY Moves DEF HandsSame, SameHands

LEMMA HandsEmpty ==
  ASSUME JobInv, NEW a \in Workers,
         job[a].pc \notin {"sessions", "join", "free", "ending"}
  PROVE  /\ job[a].mine = {} /\ job[a].todo = {} /\ job[a].cur = None
         /\ \A op, arg, pc : pc \notin {"join", "ending"} =>
              SameHands(job[a], At(op, arg, pc))
         /\ SameHands(job[a], Idle)
<1>1. JobShape(job[a]) /\ Idle.todo = {}
  BY DEF JobInv, Idle
<1> QED
  BY <1>1, Fields DEF JobShape, SameHands

(* Sessions are taken from the set by a worker that had none.               *)
LEMMA Taking ==
  ASSUME JobInv, NEW a \in Workers, NEW ls, ls \subseteq inSet, inSet' = inSet \ ls,
         UNCHANGED <<sess, capture, startupVars, countVars>>,
         job[a].pc \notin {"sessions", "join", "free", "ending"},
         NEW j, Goto(a, j), j.mine = ls, j.todo = ls, j.cur = None,
         j.pc \notin {"join", "ending"}
  PROVE  Takes(a, ls)
BY HandsEmpty, Moves DEF Takes

\* Worker a alone moves on, to the sessions ls.
TurnsTo(a, ls) ==
  /\ job'[a].mine = ls /\ job'[a].todo = ls /\ job'[a].cur = None
  /\ job'[a].pc \notin {"join", "ending"}
  /\ \A b \in Workers \ {a} : job'[b] = job[b]

LEMMA Turning ==
  ASSUME JobInv, NEW a \in Workers, NEW op, NEW arg, NEW ls
  PROVE  /\ Goto(a, Cleaning(op, arg, ls)) => TurnsTo(a, ls)
         /\ \A pc : Goto(a, At(op, arg, pc)) /\ pc \notin {"join", "ending"} /\ ls = {}
              => TurnsTo(a, ls)
         /\ Goto(a, Idle) /\ ls = {} => TurnsTo(a, ls)
<1>1. ASSUME Goto(a, Cleaning(op, arg, ls)) PROVE TurnsTo(a, ls)
  BY <1>1, Moves, Fields DEF TurnsTo
<1>2. ASSUME NEW pc, pc \notin {"join", "ending"}, Goto(a, At(op, arg, pc)), ls = {}
      PROVE  TurnsTo(a, ls)
  BY <1>2, Moves, Fields DEF TurnsTo
<1>3. ASSUME Goto(a, Idle), ls = {} PROVE TurnsTo(a, ls)
  <2>1. Idle.todo = {}
    BY DEF Idle
  <2> QED
    BY <2>1, <1>3, Moves, Fields DEF TurnsTo
<1> QED
  BY <1>1, <1>2, <1>3

\* What a step does to sessions.
SessionEffect ==
  \/ Aside \/ Startup
  \/ \E ls \in SUBSET Launches : Stops(ls)
  \/ \E a \in Workers :
       \/ \E ls \in SUBSET Launches : Takes(a, ls)
       \/ JoinEnd(a) \/ FreeSessions(a) \/ EndBroadcast(a)
       \/ \E l \in Launches : StopNext(a, l)

LEMMA CallEffects ==
  ASSUME JobInv, SessionInv, NEW c \in Callers, CallBegins(c) \/ CallGoesOn(c)
  PROVE  SessionEffect
<1>0. c \in Workers /\ inSet \subseteq Launches
  BY WorkersFacts DEF SessionInv, SessionTypes
<1> USE <1>0, Fields DEF sessionVars
<1>1. ASSUME CallBegins(c) PROVE SessionEffect
  <2>1. ASSUME Begin(c, "launch") \/ Begin(c, "replace") \/ Begin(c, "role")
                 \/ Begin(c, "client") \/ Begin(c, "revoke") \/ Begin(c, "cancel")
                 \/ Begin(c, "sweep")
        PROVE  job[c].pc = "idle"
    BY <2>1 DEF Begin
  <2>2. ASSUME NEW l \in Launches, BeginLaunch(c, l) PROVE Aside
    BY <2>1, <2>2, HandsEmpty, HandsKept DEF BeginLaunch, Aside
  <2>3. ASSUME NEW l \in Launches, BeginReplace(c, l) PROVE Takes(c, inSet)
    <3>1. \/ inSet = {} /\ Goto(c, At("replace", l, "terminate"))
          \/ Goto(c, Cleaning("replace", l, inSet))
      BY <2>3 DEF BeginReplace
    <3> QED
      BY <2>1, <2>3, <3>1, Turning, HandsEmpty
         DEF Takes, TurnsTo, BeginReplace
  <2>4. ASSUME NEW l \in Launches, StopOne(c, l) PROVE Stops({l})
    BY <2>4 DEF StopOne, Stops, HandsSame, SameHands
  <2>5. ASSUME NEW k \in Clients, BeginClientDisconnect(c, k)
        PROVE  Takes(c, Stopping)
    <3>1. \/ Stopping = {} /\ Goto(c, At("sweepClient", k, "scan"))
          \/ Goto(c, Cleaning("sweepClient", k, Stopping))
      BY <2>5 DEF BeginClientDisconnect, SweepFor
    <3> QED
      BY <2>1, <2>5, <3>1, Turning, HandsEmpty
         DEF Takes, TurnsTo, BeginClientDisconnect, SweepFor, Stopping
  <2>6. ASSUME NEW k \in Clients, BeginRevoke(c, k) PROVE Aside
    BY <2>1, <2>6, HandsEmpty, HandsKept DEF BeginRevoke, Aside
  <2>7. CASE BeginRoleDisconnect(c)
    <3>1. Takes(c, inSet)
      <4>1. \/ inSet = {} /\ Goto(c, At("role", None, "terminate"))
            \/ Goto(c, Cleaning("role", None, inSet))
        BY <2>7 DEF BeginRoleDisconnect
      <4>2. TurnsTo(c, inSet)
        BY <4>1, Turning
      <4> QED
        BY <2>1, <2>7, <4>2, HandsEmpty DEF Takes, TurnsTo, BeginRoleDisconnect
    <3> QED
      BY <3>1 DEF SessionEffect
  <2>8. CASE BeginCancel(c)
    <3>1. Aside
      BY <2>1, <2>8, HandsEmpty, HandsKept DEF BeginCancel, Aside
    <3> QED
      BY <3>1 DEF SessionEffect
  <2>9. CASE BeginSweep(c)
    <3>1. Takes(c, Stopping)
      <4>1. \/ Stopping = {} /\ Goto(c, Idle)
            \/ Goto(c, Cleaning("sweep", None, Stopping))
        BY <2>9 DEF BeginSweep, CollectStopping
      <4>2. TurnsTo(c, Stopping)
        BY <4>1, Turning
      <4> QED
        BY <2>1, <2>9, <4>2, HandsEmpty DEF Takes, TurnsTo, BeginSweep, CollectStopping, Stopping, Idle
    <3> QED
      BY <3>1 DEF SessionEffect, Stopping
  <2> QED
    BY <1>1, <2>2, <2>3, <2>4, <2>5, <2>6, <2>7, <2>8, <2>9
       DEF CallBegins, SessionEffect, Stopping
<1>2. ASSUME CallGoesOn(c) PROVE SessionEffect
  <2>1. CASE LaunchFails(c) \/ RefuseLaunch(c) \/ RaiseLaunch(c) \/ CleanupIfIdle(c)
             \/ TerminateApp(c)
    <3>1. job[c].pc \in {"admit", "raise", "cleanup", "terminate"}
      BY <2>1 DEF LaunchFails, RefuseLaunch, RaiseLaunch, CleanupIfIdle, TerminateApp,
         Admitting, Raising
    <3>2. Aside
      BY <2>1, <3>1, HandsEmpty, HandsKept DEF LaunchFails, RefuseLaunch, RaiseLaunch,
         CleanupIfIdle, TerminateApp, Aside
    <3> QED
      BY <3>2 DEF SessionEffect
  <2>2. CASE Recheck(c)
    <3> DEFINE j == [job[c] EXCEPT !.pc = "raise"]
    <3>1. Goto(c, j) /\ SameHands(job[c], j)
      BY <2>2 DEF Recheck, Admitting, JobInv, JobType, SameHands
    <3> QED
      BY <2>2, <3>1, HandsKept DEF Recheck, Aside, SessionEffect
  <2>3. CASE PassBarrier(c)
    <3>1. Takes(c, Stopping)
      <4>1. PICK k : \/ Stopping = {} /\ Goto(c, At("sweepRevoke", k, "scan"))
                     \/ Goto(c, Cleaning("sweepRevoke", k, Stopping))
        BY <2>3 DEF PassBarrier, SweepFor
      <4>2. TurnsTo(c, Stopping)
        BY <4>1, Turning
      <4> QED
        BY <2>3, <4>2, HandsEmpty DEF Takes, TurnsTo, PassBarrier, SweepFor, Stopping
    <3> QED
      BY <3>1 DEF SessionEffect, Stopping
  <2>4. CASE Scan(c)
    <3>1. Takes(c, inSet \cap OfClient(job[c].arg))
      BY <2>4, Taking DEF Scan
    <3> QED
      BY <3>1 DEF SessionEffect
  <2> QED
    BY <1>2, <2>1, <2>2, <2>3, <2>4 DEF CallGoesOn
<1> QED
  BY <1>1, <1>2

LEMMA SessionEffects ==
  ASSUME JobInv, MainInv, SessionInv, [Next]_vars
  PROVE  SessionEffect
<1>0. inSet \subseteq Launches /\ listed \subseteq Launches
  BY DEF SessionInv, SessionTypes
<1> USE <1>0, WorkersFacts, Fields DEF sessionVars
<1>1. ASSUME NEW a \in Workers, Teardown(a) PROVE SessionEffect
  <2>1. CASE CancelPending(a)
    <3> DEFINE j == [job[a] EXCEPT !.pc = "collect"]
    <3>1. Goto(a, j) /\ SameHands(job[a], j)
      BY <2>1 DEF CancelPending, JobInv, JobType, SameHands
    <3> QED
      BY <2>1, <3>1, HandsKept DEF CancelPending, Aside, SessionEffect
  <2>2. CASE Collect(a)
    <3>1. Takes(a, inSet)
      BY <2>2, Taking DEF Collect
    <3> QED
      BY <3>1 DEF SessionEffect
  <2>3. CASE FinalizeRole(a)
    <3> DEFINE j == [job[a] EXCEPT !.pc = "free"]
    <3>1. Goto(a, j) /\ SameHands(job[a], j)
      BY <2>3 DEF FinalizeRole, AllJoined, JobInv, JobType, SameHands
    <3> QED
      BY <2>3, <3>1, HandsKept DEF FinalizeRole, Aside, SessionEffect
  <2> QED
    BY <1>1, <2>1, <2>2, <2>3 DEF Teardown, SessionEffect
<1>2. CASE RtspSweep
  <2>1. job["rtsp"].pc \in {"sweep", "idle"}
    BY <1>2 DEF RtspSweep, AtLoop
  <2>2. CASE CollectStopping("rtsp", "sweep")
    <3>1. Takes("rtsp", Stopping)
      <4>1. \/ Stopping = {} /\ Goto("rtsp", Idle)
            \/ Goto("rtsp", Cleaning("sweep", None, Stopping))
        BY <2>2 DEF CollectStopping
      <4>2. TurnsTo("rtsp", Stopping)
        BY <4>1, Turning
      <4> QED
        BY <2>1, <2>2, <4>2, HandsEmpty
           DEF Takes, TurnsTo, CollectStopping, Stopping, Idle
    <3> QED
      BY <3>1 DEF SessionEffect, Stopping
  <2>3. CASE ~CollectStopping("rtsp", "sweep")
    BY <1>2, <2>1, <2>3, HandsEmpty, HandsKept DEF RtspSweep, Aside, SessionEffect
  <2> QED
    BY <2>2, <2>3
<1>3. CASE RtspExits \/ ExpireLaunches
  <2>1. job["rtsp"].pc = "idle"
    BY <1>3 DEF RtspExits, ExpireLaunches, IoRuns, AtLoop
  <2> QED
    BY <1>3, <2>1, HandsEmpty, HandsKept
       DEF RtspExits, ExpireLaunches, Handled, Aside, SessionEffect
<1>4. CASE StopIo \/ JoinRtsp
  <2>1. job["main"].pc \in {"idle", "joinRtsp"}
    BY <1>4 DEF StopIo, JoinRtsp, MainInv
  <2> QED
    BY <1>4, <2>1, HandsEmpty, HandsKept DEF StopIo, JoinRtsp, Aside, SessionEffect
<1>5. ASSUME NEW t \in SUBSET listed, NEW g \in SUBSET listed, ControlWalk(t, g)
      PROVE  SessionEffect
  <2>1. PICK ls \in SUBSET listed : sess' = Stopped(ls)
    BY <1>5 DEF ControlWalk
  <2>2. Stops(ls)
    BY <1>5, <2>1 DEF ControlWalk, Stops, HandsSame, SameHands
  <2> QED
    BY <2>2 DEF SessionEffect
<1>6. ASSUME NEW l \in Launches, CaptureFails(l) \/ CaptureEnds(l)
      PROVE  SessionEffect
  <2>1. Stops({l})
    BY <1>6 DEF CaptureFails, CaptureEnds, Stops, HandsSame, SameHands
  <2> QED
    BY <2>1 DEF SessionEffect
<1>7. CASE ControlSample \/ ControlIterate \/ LaunchSessionClear \/ ControlExits
           \/ UNCHANGED vars \/ AppExits \/ BeginShutdown
           \/ \E l \in Launches : LaunchComesDue(l)
  <2>1. Aside
    BY <1>7 DEF ControlSample, ControlIterate, LaunchSessionClear, ControlExits,
       vars, AppExits, BeginShutdown, LaunchComesDue, Aside, HandsSame, SameHands
  <2> QED
    BY <2>1 DEF SessionEffect
<1>8. CASE Worker \/ (\E l \in Launches : Announce(l)) \/ FinishStartup
  BY <1>8 DEF Worker, Startup, SessionEffect
<1> QED
  BY <1>1, <1>2, <1>3, <1>4, <1>5, <1>6, <1>7, <1>8, CallEffects
     DEF Next, RtspHandles, Control, Environment

(* The thread that shuts down waits for its turn.                           *)
LEMMA MainKept ==
  ASSUME JobInv, MainInv, [Next]_vars
  PROVE  MainInv'
<1> SUFFICES ASSUME server' # "stopped" PROVE job'["main"] = Idle
  BY DEF MainInv
<1> USE WorkersFacts, Moves
<1>1. ASSUME NEW c \in Callers, CallBegins(c) \/ CallGoesOn(c)
      PROVE  UNCHANGED server /\ job'["main"] = job["main"]
  <2>1. c # "main" /\ c \in Workers
    BY StreamAssumption DEF StreamAssumption
  <2>2. CASE CallBegins(c)
    BY <2>1, <2>2 DEF CallBegins, BeginLaunch, BeginReplace, StopOne,
       BeginClientDisconnect, SweepFor, BeginRevoke, BeginRoleDisconnect, BeginCancel,
       BeginSweep, CollectStopping
  <2>3. CASE CallGoesOn(c)
    BY <2>1, <2>3 DEF CallGoesOn, LaunchFails, Recheck, RefuseLaunch, RaiseLaunch,
       PassBarrier, SweepFor, Scan, TerminateApp, CleanupIfIdle
  <2> QED
    BY <1>1, <2>2, <2>3
<1>2. ASSUME NEW a \in Workers, Teardown(a)
      PROVE  /\ UNCHANGED server /\ job[a] # Idle
             /\ a # "main" => job'["main"] = job["main"]
  <2>1. UNCHANGED server /\ job[a].pc # "idle"
    BY <1>2 DEF Teardown, CancelPending, Collect, JoinEnd, FinalizeRole,
       FreeSessions, AllJoined, EndBroadcast, StopNext
  <2>2. a # "main" => job'["main"] = job["main"]
    BY <1>2 DEF Teardown, CancelPending, Collect, JoinEnd, FinalizeRole,
       FreeSessions, EndBroadcast, StopNext
  <2> QED
    BY <2>1, <2>2, Fields
<1>3. RtspHandles \/ RtspSweep \/ RtspExits
        => UNCHANGED server /\ job'["main"] = job["main"]
  BY DEF RtspHandles, Announce, FinishStartup, ExpireLaunches, Handled, RtspSweep,
     CollectStopping, RtspExits
<1>4. StopIo \/ JoinRtsp => server' = "stopped" \/ (job["main"] # Idle /\ UNCHANGED server)
  BY Fields DEF StopIo, JoinRtsp
<1>5. Worker \/ Control \/ Environment \/ (\E l \in Launches : CaptureEnds(l))
        \/ UNCHANGED vars
          => UNCHANGED job /\ (server' = server \/ server = "up")
  BY DEF Worker, TakeStartup, StartSession, Insert, StartFails, Control, ControlSample,
     ControlIterate, LaunchSessionClear, ControlExits, ControlWalk, Environment,
     LaunchComesDue, CaptureFails, AppExits, BeginShutdown, CaptureEnds, vars
<1> QED
  BY <1>1, <1>2, <1>3, <1>4, <1>5 DEF Next, MainInv

-----------------------------------------------------------------------------
(* Types.                                                                   *)

LEMMA StoppedTyped ==
  ASSUME sess \in [Launches -> {"none", "running", "stopping", "freed"}], NEW ls
  PROVE  Stopped(ls) \in [Launches -> {"none", "running", "stopping", "freed"}]
BY DEF Stopped

LEMMA FinalizeTyped ==
  ASSUME armed \in BOOLEAN, FinalizeSharedRuntimeIfIdle PROVE armed' \in BOOLEAN
BY Zenon DEF FinalizeSharedRuntimeIfIdle


LEMMA CallsTyped ==
  ASSUME JobInv, AdmitInv, SessionInv, NEW c \in Callers, CallBegins(c) \/ CallGoesOn(c)
  PROVE  SessionInv'
<1> USE DEF SessionInv, SessionTypes, RuntimeTypes, sessionVars, startupVars,
            runtimeVars, transportVars
<1>1. CASE CallBegins(c)
  <2>1. calls' \in Nat
    <3>1. \E kind \in Calls : Begin(c, kind)
      BY <1>1 DEF CallBegins, BeginLaunch, BeginReplace, StopOne,
         BeginClientDisconnect, BeginRevoke, BeginRoleDisconnect, BeginCancel,
         BeginSweep, Begin
    <3> QED
      BY <3>1 DEF Begin
  <2>2. ASSUME NEW l \in Launches, StopOne(c, l) PROVE SessionInv'
    BY <2>1, <2>2, StoppedTyped DEF StopOne
  <2>3. CASE ~\E l \in Launches : StopOne(c, l)
    BY <1>1, <2>1, <2>3 DEF CallBegins, BeginLaunch, BeginReplace,
       BeginClientDisconnect, SweepFor, BeginRevoke, BeginRoleDisconnect, BeginCancel,
       BeginSweep, CollectStopping
  <2> QED
    BY <2>2, <2>3
<1>2. CASE CallGoesOn(c)
  <2>1. UNCHANGED <<pool, posted, task, sess, listed, peers, ended, bcast, control,
                    calls, server>> /\ inSet' \subseteq inSet
    BY <1>2 DEF CallGoesOn, LaunchFails, Recheck, RefuseLaunch, RaiseLaunch,
       PassBarrier, SweepFor, Scan, TerminateApp, CleanupIfIdle
  <2>2. armed' \in BOOLEAN /\ app' \in BOOLEAN
    <3>1. CASE CleanupIfIdle(c)
      <4>1. armed' \in BOOLEAN
        BY <3>1, FinalizeTyped DEF CleanupIfIdle
      <4> QED
        BY <3>1, <4>1 DEF CleanupIfIdle
    <3>2. CASE ~CleanupIfIdle(c)
      BY <1>2, <3>2 DEF CallGoesOn, LaunchFails, Recheck, RefuseLaunch, RaiseLaunch,
         PassBarrier, SweepFor, Scan, TerminateApp
    <3> QED
      BY <3>1, <3>2
  <2> QED
    BY <2>1, <2>2
<1> QED
  BY <1>1, <1>2

LEMMA TeardownTyped ==
  ASSUME JobInv, SessionInv, NEW a \in Workers, Teardown(a)
  PROVE  SessionInv'
<1> USE DEF SessionInv, SessionTypes, RuntimeTypes, sessionVars, startupVars,
            runtimeVars, transportVars
<1>1. CASE CancelPending(a) \/ FinalizeRole(a) \/ Collect(a)
  BY <1>1, FinalizeTyped DEF CancelPending, FinalizeRole, Collect
<1>2. CASE JoinEnd(a)
  <2>1. armed' \in BOOLEAN /\ app' \in BOOLEAN
    BY <1>2, FinalizeTyped DEF JoinEnd
  <2> QED
    BY <1>2, <2>1 DEF JoinEnd
<1>3. CASE FreeSessions(a)
  BY <1>3 DEF FreeSessions
<1>4. CASE EndBroadcast(a)
  BY <1>4 DEF EndBroadcast
<1>5. ASSUME NEW l \in Launches, StopNext(a, l) PROVE SessionInv'
  BY <1>5, StoppedTyped DEF StopNext
<1> QED
  BY <1>1, <1>2, <1>3, <1>4, <1>5 DEF Teardown

LEMMA RtspTyped ==
  ASSUME RegistryInv, SessionInv, RtspHandles \/ RtspSweep \/ RtspExits \/ StopIo \/ JoinRtsp
  PROVE  SessionInv'
<1> USE DEF SessionInv, SessionTypes, RuntimeTypes, sessionVars, startupVars,
            runtimeVars, transportVars
<1>1. ASSUME NEW l \in Launches, Announce(l) PROVE SessionInv'
  BY <1>1 DEF Announce
<1>2. CASE FinishStartup
  <2>1. armed' \in BOOLEAN
    BY <1>2, FinalizeTyped DEF FinishStartup
  <2> QED
    BY <1>2, <2>1 DEF FinishStartup
<1>3. CASE ExpireLaunches
  BY <1>3, FinalizeTyped DEF ExpireLaunches
<1>4. CASE RtspSweep \/ RtspExits \/ StopIo \/ JoinRtsp
  BY <1>4 DEF RtspSweep, CollectStopping, RtspExits, StopIo, JoinRtsp
<1> QED
  BY <1>1, <1>2, <1>3, <1>4 DEF RtspHandles

LEMMA TaskFacts ==
  ASSUME StartInv, task # NoTask PROVE task.l \in Launches /\ gate = "worker"
BY DEF StartInv

LEMMA StartupTyped ==
  ASSUME StartInv, SessionInv, Worker
  PROVE  SessionInv'
<1> USE WorkersFacts DEF SessionInv, SessionTypes, RuntimeTypes, sessionVars,
        startupVars, runtimeVars, transportVars
<1>1. CASE TakeStartup
  <2>1. Head(pool) \in Launches /\ Tail(pool) \in Seq(Launches)
    BY <1>1 DEF TakeStartup
  <2>2. PICK h \in Launches :
          \/ task' = [l |-> h, started |-> FALSE] /\ posted' = posted
          \/ task' = task /\ posted' = Append(posted, h)
    BY <1>1, <2>1 DEF TakeStartup, Finish
  <2>0. /\ posted \in Seq(Launches)
        /\ task \in [l : Launches \cup {None}, started : BOOLEAN]
    OBVIOUS
  <2>3. posted' \in Seq(Launches)
    BY ONLY <2>0, <2>2
  <2>5. [l |-> h, started |-> FALSE] \in [l : Launches \cup {None}, started : BOOLEAN]
    OBVIOUS
  <2>4. task' \in [l : Launches \cup {None}, started : BOOLEAN]
    BY ONLY <2>0, <2>2, <2>5, Zenon
  <2> QED
    BY <1>1, <2>1, <2>3, <2>4 DEF TakeStartup
<1>2. CASE StartSession
  <2>1. task.l \in Launches
    BY <1>2, TaskFacts DEF StartSession
  <2>2. control' \in {AtPoll, control}
    BY <1>2 DEF StartSession
  <2>3. /\ AtPoll \in [pc : {"off", "poll", "walk", "iterate", "clear", "exit", "done"},
                      l : Launches \cup {None}, game : BOOLEAN, keep : BOOLEAN]
        /\ AtPoll.pc = "poll"
    BY DEF AtPoll
  <2>4. task' \in [l : Launches \cup {None}, started : BOOLEAN]
    <3>1. task' = [task EXCEPT !.started = TRUE]
      BY <1>2 DEF StartSession
    <3> QED
      BY <3>1
  <2>5. sess' \in [Launches -> {"none", "running", "stopping", "freed"}]
    BY <1>2 DEF StartSession
  <2>6. UNCHANGED <<pool, posted, inSet, peers, ended, app, calls, server>>
        /\ listed' \subseteq Launches /\ armed' = TRUE /\ bcast' = "up"
    BY <1>2, <2>1 DEF StartSession
  <2> QED
    BY <2>2, <2>3, <2>4, <2>5, <2>6
<1>3. CASE Insert
  <2>1. task.l \in Launches
    BY <1>3 DEF Insert, StartInv, NoTask
  <2> QED
    BY <1>3, <2>1 DEF Insert, Finish, NoTask
<1>4. CASE StartFails
  <2>1. task.l \in Launches
    BY <1>4 DEF StartFails, StartInv, NoTask
  <2> QED
    BY <1>4, <2>1 DEF StartFails, Finish, NoTask
<1> QED
  BY <1>1, <1>2, <1>3, <1>4 DEF Worker

LEMMA ControlTyped ==
  ASSUME SessionInv, Control
  PROVE  SessionInv'
<1> USE WorkersFacts DEF SessionInv, SessionTypes, RuntimeTypes, sessionVars,
        startupVars, runtimeVars, transportVars, ControlAt
<1>0. /\ AtPoll \in [pc : {"off", "poll", "walk", "iterate", "clear", "exit", "done"},
                     l : Launches \cup {None}, game : BOOLEAN, keep : BOOLEAN]
      /\ AtPoll.pc = "poll"
  BY DEF AtPoll
<1>1. CASE ControlSample
  <2>1. (app \/ HasPendingLaunchOrStartup) \in BOOLEAN
    BY DEF HasPendingLaunchOrStartup
  <2>2. control' = [control EXCEPT !.pc = "exit"]
        \/ \E keep \in BOOLEAN :
             control' = [control EXCEPT !.pc = "walk", !.game = app, !.keep = keep]
    BY <1>1, <2>1 DEF ControlSample
  <2> QED
    BY <1>1, <2>2 DEF ControlSample
<1>2. CASE ControlIterate
  BY <1>2 DEF ControlIterate
<1>3. CASE LaunchSessionClear
  BY <1>0, <1>3, FinalizeTyped DEF LaunchSessionClear
<1>4. CASE ControlExits
  BY <1>4 DEF ControlExits, RaisesControlEnd
<1>5. ASSUME NEW t \in SUBSET listed, NEW g \in SUBSET listed, ControlWalk(t, g)
      PROVE  SessionInv'
  <2>1. /\ listed' \subseteq listed /\ ended' \subseteq ended \cup listed
        /\ sess' \in [Launches -> {"none", "running", "stopping", "freed"}]
    BY <1>5, StoppedTyped DEF ControlWalk, RaisesControlEnd
  <2>2. /\ control' \in [pc : {"off", "poll", "walk", "iterate", "clear", "exit", "done"},
                     l : Launches \cup {None}, game : BOOLEAN, keep : BOOLEAN]
        /\ control'.pc # "clear"
    BY <1>5 DEF ControlWalk, AtPoll
  <2> QED
    BY <1>5, <2>1, <2>2 DEF ControlWalk
<1> QED
  BY <1>1, <1>2, <1>3, <1>4, <1>5 DEF Control

(* Every step keeps the types.                                              *)
LEMMA SessionKept ==
  ASSUME JobInv, AdmitInv, RegistryInv, StartInv, SessionInv, [Next]_vars
  PROVE  SessionInv'
<1> USE DEF SessionInv, SessionTypes, RuntimeTypes, sessionVars, startupVars,
            runtimeVars, transportVars
<1>1. ASSUME NEW l \in Launches, CaptureFails(l) \/ CaptureEnds(l) PROVE SessionInv'
  BY <1>1, StoppedTyped DEF CaptureFails, CaptureEnds
<1>2. ASSUME NEW l \in Launches, LaunchComesDue(l) PROVE SessionInv'
  BY <1>2 DEF LaunchComesDue
<1>3. CASE AppExits \/ BeginShutdown \/ UNCHANGED vars
  BY <1>3 DEF AppExits, BeginShutdown, vars
<1> HIDE DEF SessionInv
<1> QED
  BY <1>1, <1>2, <1>3, CallsTyped, TeardownTyped, RtspTyped, StartupTyped, ControlTyped
     DEF Next, Environment
-----------------------------------------------------------------------------
(* Who holds a session.                                                     *)

\* The job a worker goes on with once its sessions are gone holds none.
Empty(j) == /\ j.mine = {} /\ j.todo = {} /\ j.cur = None
            /\ j.pc \notin {"join", "ending"}

LEMMA AfterwardsEmpty ==
  ASSUME NEW a PROVE Empty(Afterwards(a))
<1>1. Idle.todo = {}
  BY DEF Idle
<1>2. \/ Afterwards(a) = At(job[a].op, job[a].arg, "terminate")
      \/ Afterwards(a) = At("revoke", job[a].arg, "cleanup")
      \/ Afterwards(a) = At(job[a].op, job[a].arg, "scan")
      \/ Afterwards(a) = At("final", None, "done")
      \/ Afterwards(a) = At("final", None, "joinRtsp")
      \/ Afterwards(a) = Idle
  BY Zenon DEF Afterwards
<1> QED
  BY <1>1, <1>2, Fields DEF Empty

OthersStay(a) == \A b \in Workers \ {a} : job'[b] = job[b]

(* What the steps of a teardown leave in the worker's hands.                *)
LEMMA TeardownHands ==
  ASSUME JobInv, NEW a \in Workers
  PROVE  /\ JoinEnd(a) => /\ OthersStay(a) /\ job[a].pc = "join"
                          /\ job'[a].pc = "sessions" /\ job'[a].cur = None
                          /\ job'[a].mine = job[a].mine
                          /\ job'[a].todo = job[a].todo
         /\ \A l \in Launches : StopNext(a, l) =>
              /\ OthersStay(a) /\ job[a].pc = "sessions" /\ job[a].cur = None
              /\ l \in job[a].todo
              /\ job'[a].pc = "join" /\ job'[a].cur = l
              /\ job'[a].mine = job[a].mine
              /\ job'[a].todo = job[a].todo \ {l}
         /\ FreeSessions(a) =>
              /\ OthersStay(a) /\ job[a].pc \in {"free", "sessions"}
              /\ job[a].cur = None /\ job[a].todo = {}
              /\ \/ Empty(job'[a])
                 \/ /\ job'[a].pc = "ending" /\ job'[a].mine = job[a].mine
                    /\ job'[a].todo = {} /\ job'[a].cur = None
         /\ EndBroadcast(a) => /\ OthersStay(a) /\ job[a].pc = "ending"
                               /\ Empty(job'[a])
<1>0. job[a] \in JobType /\ JobShape(job[a])
  BY DEF JobInv
<1>1. ASSUME JoinEnd(a)
      PROVE  /\ OthersStay(a) /\ job[a].pc = "join"
             /\ job'[a].pc = "sessions" /\ job'[a].cur = None
             /\ job'[a].mine = job[a].mine /\ job'[a].todo = job[a].todo
  <2> DEFINE j == [job[a] EXCEPT !.pc = "sessions", !.cur = None]
  <2>1. /\ j.pc = "sessions" /\ j.cur = None
        /\ j.mine = job[a].mine /\ j.todo = job[a].todo
    BY <1>0 DEF JobType
  <2>2. Goto(a, j) /\ job[a].pc = "join"
    BY <1>1 DEF JoinEnd
  <2> HIDE DEF j
  <2> QED
    BY <2>1, <2>2, Moves DEF OthersStay
<1>2. ASSUME NEW l \in Launches, StopNext(a, l)
      PROVE  /\ OthersStay(a) /\ job[a].pc = "sessions" /\ job[a].cur = None
             /\ l \in job[a].todo
             /\ job'[a].pc = "join" /\ job'[a].cur = l
             /\ job'[a].mine = job[a].mine /\ job'[a].todo = job[a].todo \ {l}
  <2> DEFINE j == [job[a] EXCEPT !.pc = "join", !.cur = l,
                                 !.todo = job[a].todo \ {l}]
  <2>1. /\ j.pc = "join" /\ j.cur = l
        /\ j.mine = job[a].mine /\ j.todo = job[a].todo \ {l}
    BY <1>0 DEF JobType
  <2>2. Goto(a, j) /\ job[a].pc = "sessions" /\ l \in job[a].todo
    BY <1>2 DEF StopNext
  <2>3. job[a].cur = None
    BY <1>0, <2>2 DEF JobShape
  <2> HIDE DEF j
  <2> QED
    BY <2>1, <2>2, <2>3, Moves DEF OthersStay
<1>3. ASSUME FreeSessions(a)
      PROVE  /\ OthersStay(a) /\ job[a].pc \in {"free", "sessions"}
             /\ job[a].cur = None /\ job[a].todo = {}
             /\ \/ Empty(job'[a])
                \/ /\ job'[a].pc = "ending" /\ job'[a].mine = job[a].mine
                   /\ job'[a].todo = {} /\ job'[a].cur = None
  <2>1. /\ job[a].pc \in {"free", "sessions"}
        /\ job[a].cur = None /\ job[a].todo = {}
    BY <1>0, <1>3 DEF FreeSessions, AllJoined, JobShape
  <2>2. CASE Goto(a, Afterwards(a))
    BY <2>1, <2>2, Moves, AfterwardsEmpty DEF OthersStay
  <2>3. CASE Goto(a, [job[a] EXCEPT !.pc = "ending"])
    BY <1>0, <2>1, <2>3, Moves DEF OthersStay, JobType
  <2> QED
    BY <1>3, <2>2, <2>3 DEF FreeSessions
<1>4. ASSUME EndBroadcast(a)
      PROVE  OthersStay(a) /\ job[a].pc = "ending" /\ Empty(job'[a])
  BY <1>4, Moves, AfterwardsEmpty DEF EndBroadcast, OthersStay
<1> QED
  BY <1>1, <1>2, <1>3, <1>4

(* A request that is handled touches no session.                            *)
LEMMA HandlersAside ==
  ASSUME JobInv, FinishStartup \/ \E l \in Launches : Announce(l)
  PROVE  HandsSame /\ UNCHANGED <<task, sess, inSet, capture, countVars>>
<1>1. job["rtsp"].pc = "idle" /\ "rtsp" \in Workers
  BY WorkersFacts, Fields DEF FinishStartup, Announce, IoRuns, AtLoop
<1>2. HandsSame
  BY <1>1, HandsEmpty, HandsKept, Fields DEF FinishStartup, Announce, Handled
<1> QED
  BY <1>2 DEF FinishStartup, Announce, sessionVars

\* No session comes to life or is freed, and nobody lets go of one.
SessionsStay ==
  \A l \in Launches : /\ sess[l] \in Live <=> sess'[l] \in Live
                      /\ sess[l] = "freed" <=> sess'[l] = "freed"
                      /\ sess[l] = "none" <=> sess'[l] = "none"

MineStays ==
  \A a \in Workers : /\ job'[a].mine = job[a].mine
                     /\ job'[a].pc = "ending" <=> job[a].pc = "ending"

LEMMA HeldStays ==
  ASSUME HeldInv, StartInv, SessionInv, JobInv, UNCHANGED <<inSet, task>>,
         SessionsStay, MineStays
  PROVE  HeldInv'
<1> USE DEF Live
<1>1. /\ inSet \subseteq Launches
      /\ task.started => task.l \in Launches
      /\ \A a \in Workers : job[a].mine \subseteq Launches
  BY DEF SessionInv, SessionTypes, JobInv, JobType, StartInv, NoTask
<1>2. /\ \A l \in inSet : sess'[l] \in Live
      /\ task.started => sess'[task.l] \in Live /\ task.l \notin inSet
  <2>1. \A l \in inSet : sess'[l] \in Live
    BY <1>1 DEF HeldInv, SessionsStay
  <2>2. ASSUME task.started PROVE sess'[task.l] \in Live /\ task.l \notin inSet
    <3>1. task.l \in Launches /\ sess[task.l] \in Live /\ task.l \notin inSet
      BY <1>1, <2>2 DEF HeldInv
    <3> QED
      BY <3>1 DEF SessionsStay
  <2> QED
    BY <2>1, <2>2
<1>3. ASSUME NEW a \in Workers, NEW l \in job[a].mine
      PROVE  /\ l \notin inSet
             /\ task.started => l # task.l
             /\ IF job'[a].pc = "ending" THEN sess'[l] = "freed" ELSE sess'[l] \in Live
  <2>1. /\ l \in Launches /\ l \notin inSet
        /\ task.started => l # task.l
        /\ job[a].pc = "ending" => sess[l] = "freed"
        /\ job[a].pc # "ending" => sess[l] \in Live
    BY <1>1 DEF HeldInv
  <2> QED
    BY <2>1 DEF SessionsStay, MineStays
<1>4. \A a, b \in Workers : a # b => job'[a].mine \cap job'[b].mine = {}
  BY DEF HeldInv, MineStays
<1>5. \A a \in Workers : job'[a].mine = job[a].mine
  BY DEF MineStays
<1> QED
  BY <1>2, <1>3, <1>4, <1>5 DEF HeldInv

LEMMA StoppedStays ==
  ASSUME SessionInv, NEW ls, sess' = Stopped(ls)
  PROVE  SessionsStay
BY DEF Stopped, Live, SessionInv, SessionTypes, SessionsStay

(* Every step leaves each session with one holder at most.                  *)
LEMMA HeldKept ==
  ASSUME JobInv, MainInv, SessionInv, StartInv, HeldInv, [Next]_vars
  PROVE  HeldInv'
<1> USE DEF Live
<1>0. /\ sess \in [Launches -> {"none", "running", "stopping", "freed"}]
      /\ inSet \subseteq Launches
      /\ \A a \in Workers : job[a].mine \subseteq Launches
  BY DEF SessionInv, SessionTypes, JobInv, JobType
<1>1. CASE Aside
  BY <1>1 DEF HeldInv, Aside, HandsSame, SameHands, startupVars
<1>2. CASE Startup
  <2>1. CASE FinishStartup \/ \E l \in Launches : Announce(l)
    BY <2>1, HandlersAside DEF HeldInv, HandsSame, SameHands
  <2>2. CASE TakeStartup
    BY <2>2 DEF TakeStartup, HeldInv, NoTask, sessionVars
  <2>3. CASE StartSession
    <3>1. task.l \in Launches /\ sess[task.l] = "none" /\ task'.l = task.l
      BY <2>3, TaskFacts DEF StartSession, StartInv, SessionInv, SessionTypes
    <3>2. sess' = [sess EXCEPT ![task.l] = "running"] /\ UNCHANGED <<job, inSet>>
      BY <2>3 DEF StartSession
    <3> QED
      BY <1>0, <3>1, <3>2 DEF HeldInv
  <2>4. CASE Insert \/ StartFails
    BY <1>0, <2>4, WorkersFacts DEF Insert, StartFails, HeldInv, NoTask, sessionVars
  <2> QED
    BY <1>2, <2>1, <2>2, <2>3, <2>4 DEF Startup
<1>3. ASSUME NEW ls \in SUBSET Launches, Stops(ls) PROVE HeldInv'
  <2>1. UNCHANGED <<inSet, task>> /\ sess' = Stopped(ls)
    BY <1>3 DEF Stops, startupVars
  <2>2. MineStays
    BY <1>3 DEF Stops, HandsSame, SameHands, MineStays
  <2> QED
    BY <2>1, <2>2, StoppedStays, HeldStays
<1>4. ASSUME NEW a \in Workers, NEW ls \in SUBSET Launches, Takes(a, ls) PROVE HeldInv'
  BY <1>4 DEF Takes, HeldInv, startupVars
<1>5. ASSUME NEW a \in Workers, JoinEnd(a) PROVE HeldInv'
  <2>1. UNCHANGED <<inSet, task, sess>>
    BY <1>5 DEF JoinEnd, sessionVars, startupVars
  <2>2. MineStays
    BY <1>5, TeardownHands DEF OthersStay, MineStays
  <2>3. SessionsStay
    BY <2>1 DEF SessionsStay
  <2> QED
    BY <2>1, <2>2, <2>3, HeldStays
<1>6. ASSUME NEW a \in Workers, NEW l \in Launches, StopNext(a, l) PROVE HeldInv'
  <2>1. sess' = Stopped({l}) /\ UNCHANGED <<inSet, task>>
    BY <1>6 DEF StopNext, startupVars
  <2>2. MineStays
    BY <1>6, TeardownHands DEF OthersStay, MineStays
  <2> QED
    BY <2>1, <2>2, StoppedStays, HeldStays
<1>7. ASSUME NEW a \in Workers, EndBroadcast(a) PROVE HeldInv'
  <2>1. UNCHANGED <<sess, inSet, task>>
    BY <1>7 DEF EndBroadcast, startupVars
  <2> QED
    BY <1>7, <2>1, TeardownHands DEF OthersStay, Empty, HeldInv
<1>8. ASSUME NEW a \in Workers, FreeSessions(a) PROVE HeldInv'
  <2>1. /\ sess' = [l \in Launches |-> IF l \in job[a].mine THEN "freed" ELSE sess[l]]
        /\ UNCHANGED <<inSet, task>>
    BY <1>8 DEF FreeSessions, startupVars
  <2>2. task.started => task.l \in Launches
    BY DEF StartInv, NoTask
  <2>3. /\ OthersStay(a) /\ job'[a].mine \subseteq job[a].mine
        /\ job'[a].mine # {} => job'[a].pc = "ending"
    BY <1>8, TeardownHands DEF Empty
  <2>4. /\ \A l \in inSet : sess'[l] = sess[l]
        /\ task.started => sess'[task.l] = sess[task.l]
        /\ \A b \in Workers \ {a} : \A l \in job[b].mine : sess'[l] = sess[l]
        /\ \A l \in job[a].mine : sess'[l] = "freed"
    BY <1>0, <2>1, <2>2 DEF HeldInv
  <2> QED
    BY <2>1, <2>3, <2>4 DEF OthersStay, HeldInv
<1> QED
  BY <1>1, <1>2, <1>3, <1>4, <1>5, <1>6, <1>7, <1>8, SessionEffects DEF SessionEffect
-----------------------------------------------------------------------------
(* The startup pool.                                                        *)

(* Nothing else starts a session or touches the pool.                       *)
LEMMA QuietSteps ==
  ASSUME JobInv, MainInv, SessionInv, HeldInv, [Next]_vars, ~Startup
  PROVE  /\ UNCHANGED startupVars
         /\ \A l \in Launches : sess[l] = "none" <=> sess'[l] = "none"
<1>1. ASSUME NEW ls \in SUBSET Launches, Stops(ls)
      PROVE  /\ UNCHANGED startupVars
             /\ \A l \in Launches : sess[l] = "none" <=> sess'[l] = "none"
  BY <1>1, StoppedStays DEF Stops, SessionsStay
<1>2. ASSUME NEW a \in Workers, NEW l \in Launches, StopNext(a, l)
      PROVE  /\ UNCHANGED startupVars
             /\ \A k \in Launches : sess[k] = "none" <=> sess'[k] = "none"
  <2>1. UNCHANGED startupVars /\ sess' = Stopped({l})
    BY <1>2 DEF StopNext
  <2> QED
    BY <2>1, StoppedStays DEF SessionsStay
<1>3. ASSUME NEW a \in Workers, FreeSessions(a)
      PROVE  /\ UNCHANGED startupVars
             /\ \A l \in Launches : sess[l] = "none" <=> sess'[l] = "none"
  <2>1. /\ UNCHANGED startupVars
        /\ sess' = [l \in Launches |-> IF l \in job[a].mine THEN "freed" ELSE sess[l]]
    BY <1>3 DEF FreeSessions
  <2>2. \A l \in job[a].mine : sess[l] # "none"
    BY DEF HeldInv, Live
  <2> QED
    BY <2>1, <2>2
<1>4. ASSUME NEW a \in Workers, JoinEnd(a) \/ EndBroadcast(a)
      PROVE  UNCHANGED startupVars /\ UNCHANGED sess
  BY <1>4 DEF JoinEnd, EndBroadcast, sessionVars
<1>5. ASSUME NEW a \in Workers, NEW ls \in SUBSET Launches, Takes(a, ls)
      PROVE  UNCHANGED startupVars /\ UNCHANGED sess
  BY <1>5 DEF Takes
<1>6. CASE Aside
  BY <1>6 DEF Aside
<1> QED
  BY <1>1, <1>2, <1>3, <1>4, <1>5, <1>6, SessionEffects DEF SessionEffect

(* Taking the first launch out of the pool.                                 *)
LEMMA TailOfPool ==
  ASSUME pool \in Seq(Launches), pool # <<>>
  PROVE  /\ Head(pool) = pool[1] /\ 1 \in DOMAIN pool
         /\ \A i \in DOMAIN Tail(pool) : /\ i + 1 \in DOMAIN pool
                                         /\ Tail(pool)[i] = pool[i + 1]
                                         /\ i \in Nat \ {0}
OBVIOUS

LEMMA AppendToPool ==
  ASSUME pool \in Seq(Launches), NEW k \in Launches
  PROVE  /\ DOMAIN pool = 1..Len(pool) /\ Len(pool) \in Nat
         /\ DOMAIN Append(pool, k) = 1..(Len(pool) + 1)
         /\ \A i \in DOMAIN pool : Append(pool, k)[i] = pool[i]
         /\ Append(pool, k)[Len(pool) + 1] = k
         /\ \A i \in DOMAIN Append(pool, k) : i = Len(pool) + 1 \/ i \in DOMAIN pool
<1>1. /\ DOMAIN pool = 1..Len(pool) /\ Len(pool) \in Nat
      /\ DOMAIN Append(pool, k) = 1..(Len(pool) + 1)
      /\ \A i \in 1..Len(pool) : Append(pool, k)[i] = pool[i]
      /\ Append(pool, k)[Len(pool) + 1] = k
  OBVIOUS
<1> QED
  BY <1>1

(* A launch becomes taken by being announced.                               *)
LEMMA TakenKept ==
  ASSUME JobInv, MainInv, SessionInv, HeldInv, StartInv, [Next]_vars,
         NEW l \in Launches, Taken(l)'
  PROVE  Taken(l) \/ Announce(l)
<1> USE DEF Taken
<1>0. pool \in Seq(Launches)
  BY DEF SessionInv, SessionTypes
<1>1. CASE ~Startup
  BY <1>1, QuietSteps DEF startupVars
<1>2. CASE FinishStartup
  BY <1>2, HandlersAside DEF FinishStartup
<1>3. ASSUME NEW k \in Launches, Announce(k) PROVE Taken(l) \/ Announce(l)
  <2>1. pool' = Append(pool, k) /\ UNCHANGED <<task, sess>>
    BY <1>3 DEF Announce, sessionVars
  <2>2. CASE k = l
    BY <1>3, <2>2
  <2>3. CASE k # l
    <3>1. ASSUME NEW i \in DOMAIN pool', pool'[i] # k
          PROVE  i \in DOMAIN pool /\ pool'[i] = pool[i]
      <4>1. pool' = Append(pool, k)
        BY <2>1
      <4> QED
        BY ONLY <1>0, <3>1, <4>1, k \in Launches, AppendToPool
    <3> QED
      BY <2>1, <2>3, <3>1
  <2> QED
    BY <2>2, <2>3
<1>4. CASE TakeStartup
  <2>1. /\ pool # <<>> /\ pool' = Tail(pool) /\ UNCHANGED sess
        /\ task' = task \/ task'.l = Head(pool)
    BY <1>4 DEF TakeStartup, sessionVars
  <2> QED
    BY <1>0, <2>1, TailOfPool
<1>5. CASE StartSession
  <2>1. UNCHANGED pool /\ sess' = [sess EXCEPT ![task.l] = "running"]
    BY <1>5 DEF StartSession
  <2>2. sess'[l] # "none" => sess[l] # "none" \/ task.l = l
    BY <2>1 DEF SessionInv, SessionTypes
  <2>3. task'.l = task.l
    BY <1>5 DEF StartSession, SessionInv, SessionTypes
  <2> QED
    BY <2>1, <2>2, <2>3
<1>6. CASE Insert \/ StartFails
  BY <1>6, WorkersFacts DEF Insert, StartFails, NoTask, sessionVars
<1> QED
  BY <1>1, <1>2, <1>3, <1>4, <1>5, <1>6 DEF Startup

\* A launch that was taken is not new, and claimed while it is pending.
Claims == \A l \in Launches : Taken(l) => /\ entry[l] # "new"
                                          /\ entry[l] = "pending" => l \in claimed

LEMMA ClaimsKept ==
  ASSUME JobInv, MainInv, SessionInv, RegistryInv, AdmitInv, HeldInv, StartInv,
         [Next]_vars
  PROVE  Claims'
<1>0. Claims
  BY DEF Claims, StartInv
<1>1. \A l \in Launches : Taken(l)' => Taken(l) \/ Announce(l)
  BY TakenKept
<1>2. CASE RegistryUnchanged
  <2>1. ASSUME NEW l \in Launches, Announce(l) PROVE entry[l] # "new"
    BY <2>1 DEF Announce, ClaimLaunchStartup, Pending
  <2>2. ASSUME NEW l \in Launches, Announce(l) PROVE l \in claimed'
    BY <2>2 DEF Announce
  <2> QED
    BY <1>0, <1>1, <1>2, <2>1, <2>2 DEF RegistryUnchanged, Claims
<1>3. ASSUME NEW l \in Launches, Announce(l) PROVE Claims'
  <2>1. /\ entry' = entry /\ claimed' = claimed \cup {l} /\ entry[l] = "pending"
        /\ \A k \in Launches : Taken(k)' => Taken(k) \/ k = l
    <3>1. /\ entry' = entry /\ claimed' = claimed \cup {l} /\ entry[l] = "pending"
      BY <1>3 DEF Announce, ClaimLaunchStartup, Pending
    <3>2. ASSUME NEW k \in Launches, Announce(k) PROVE claimed' = claimed \cup {k} /\ k \notin claimed
      BY <3>2 DEF Announce, ClaimLaunchStartup
    <3>3. l \notin claimed
      BY <1>3 DEF Announce, ClaimLaunchStartup
    <3> QED
      BY <1>1, <3>1, <3>2, <3>3
  <2> QED
    BY <1>0, <2>1 DEF Claims
<1>4. CASE ~\E l \in Launches : Announce(l)
  <2>0. \A l \in Launches : Taken(l)' => Taken(l)
    BY <1>1, <1>4
  <2>1. ASSUME NEW ls \in SUBSET Pending, Erase(ls) PROVE Claims'
    BY <1>0, <2>0, <2>1 DEF Erase, Claims, Pending
  <2>2. ASSUME NEW l \in Launches, LaunchComesDue(l) PROVE Claims'
    BY <1>0, <2>0, <2>2 DEF LaunchComesDue, Claims
  <2>3. ASSUME NEW c \in Callers, Admission(c) PROVE Claims'
    <3>1. Admits(job[c]) /\ c \in Workers
      BY <2>3, WorkersFacts
         DEF Admission, LaunchFails, RefuseLaunch, RaiseLaunch, Admitting, Raising, Admits
    <3>2. job[c].arg \in Launches /\ entry[job[c].arg] = "new" /\ ~Taken(job[c].arg)
      BY <1>0, <3>1 DEF AdmitInv, Claims
    <3>3. entry \in [Launches -> {"new", "pending", "gone"}]
      BY DEF RegistryInv
    <3> DEFINE Kept == \A l \in Launches \ {job[c].arg} :
                         entry'[l] = "pending" => /\ entry[l] = "pending"
                                                  /\ l \in claimed => l \in claimed'
               Same == \A l \in Launches \ {job[c].arg} :
                         entry'[l] = "new" => entry[l] = "new"
    <3>4. ASSUME LaunchFails(c) PROVE Kept /\ Same
      BY <3>3, <3>4 DEF LaunchFails
    <3>5. ASSUME RefuseLaunch(c) PROVE Kept /\ Same
      <4>1. ASSUME NEW ls, Erase(ls) PROVE Kept /\ Same
        BY <3>3, <4>1 DEF Erase
      <4>2. CASE entry' = [entry EXCEPT ![job[c].arg] = "gone"] /\ UNCHANGED claimed
        BY <3>3, <4>2
      <4> QED
        BY <3>5, <4>1, <4>2 DEF RefuseLaunch
    <3>6. ASSUME RaiseLaunch(c) PROVE Kept /\ Same
      BY <3>3, <3>6 DEF RaiseLaunch
    <3>7. Kept /\ Same
      BY <2>3, <3>4, <3>5, <3>6 DEF Admission
    <3> QED
      BY <1>0, <2>0, <3>2, <3>7 DEF Claims
  <2> QED
    BY <1>2, <1>4, <2>1, <2>2, <2>3, RegistrySteps
<1> QED
  BY <1>3, <1>4

(* The worker keeps the gate until its session is published.                *)
LEMMA WorkerHoldsGate ==
  ASSUME gate = "worker", [Next]_vars, ~Insert, ~StartFails PROVE gate' = "worker"
<1> USE WorkersFacts DEF Free, StartAdmitted
<1>1. ASSUME NEW c \in Callers, CallBegins(c) PROVE gate' = gate
  BY <1>1 DEF CallBegins, BeginLaunch, BeginReplace, StopOne, BeginClientDisconnect,
     SweepFor, BeginRevoke, BeginRoleDisconnect, BeginCancel, BeginSweep,
     CollectStopping
<1>2. ASSUME NEW c \in Callers, CallGoesOn(c) PROVE gate' = gate
  BY <1>2 DEF CallGoesOn, LaunchFails, RefuseLaunch, RaiseLaunch, Recheck, Admitting,
     Raising, PassBarrier, SweepFor, Scan, TerminateApp, CleanupIfIdle
<1>3. ASSUME NEW a \in Workers, Teardown(a) PROVE gate' = gate
  BY <1>3 DEF Teardown, CancelPending, Collect, JoinEnd, FinalizeRole,
     FreeSessions, EndBroadcast, StopNext
<1>4. RtspHandles \/ Control \/ Environment \/ UNCHANGED vars => gate' = gate
  BY DEF RtspHandles, Announce, FinishStartup, ExpireLaunches, Control,
     ControlSample, ControlIterate, LaunchSessionClear, ControlExits, ControlWalk,
     Environment, LaunchComesDue, CaptureFails, AppExits, BeginShutdown, vars
<1>5. RtspSweep \/ RtspExits \/ Worker \/ StopIo \/ JoinRtsp
           \/ (\E l \in Launches : CaptureEnds(l)) => gate' = "worker"
  BY DEF RtspSweep, CollectStopping, RtspExits, Worker, TakeStartup,
     StartSession, Insert, StartFails, StopIo, JoinRtsp, CaptureEnds
<1> QED
  BY <1>1, <1>2, <1>3, <1>4, <1>5 DEF Next

\* The launches in the pool and in the worker's hands have not started.
QueueInv ==
  /\ \A i \in DOMAIN pool : sess[pool[i]] = "none" /\ task.l # pool[i]
  /\ \A i, j \in DOMAIN pool : pool[i] = pool[j] => i = j
  /\ task # NoTask /\ ~task.started => sess[task.l] = "none"

LEMMA QueueKept ==
  ASSUME JobInv, MainInv, SessionInv, HeldInv, StartInv, [Next]_vars
  PROVE  QueueInv'
<1>0. /\ pool \in Seq(Launches) /\ QueueInv
      /\ \A i \in DOMAIN pool : pool[i] \in Launches
      /\ task # NoTask => task.l \in Launches
      /\ sess \in [Launches -> {"none", "running", "stopping", "freed"}]
      /\ task \in [l : Launches \cup {None}, started : BOOLEAN]
  BY DEF SessionInv, SessionTypes, QueueInv, StartInv
<1>1. CASE ~Startup
  BY <1>0, <1>1, QuietSteps DEF startupVars, QueueInv
<1>2. CASE FinishStartup
  BY <1>0, <1>2, HandlersAside DEF FinishStartup, QueueInv
<1>3. ASSUME NEW k \in Launches, Announce(k) PROVE QueueInv'
  <2>1. pool' = Append(pool, k) /\ UNCHANGED <<task, sess>>
    BY <1>3 DEF Announce, sessionVars
  <2>2. ~Taken(k)
    BY <1>3 DEF StartInv, Announce, ClaimLaunchStartup, Pending
  <2>3. /\ sess[k] = "none" /\ task.l # k
        /\ \A i \in DOMAIN pool : pool[i] # k
    BY <2>2 DEF Taken
  <2>4. /\ DOMAIN pool' = 1..(Len(pool) + 1) /\ Len(pool) + 1 \notin DOMAIN pool
        /\ \A i \in DOMAIN pool : pool'[i] = pool[i]
        /\ pool'[Len(pool) + 1] = k
        /\ \A i \in DOMAIN pool' : i = Len(pool) + 1 \/ i \in DOMAIN pool
    BY <1>0, <2>1, AppendToPool
  <2> QED
    BY <1>0, <2>1, <2>3, <2>4 DEF QueueInv
<1>4. CASE TakeStartup
  <2>1. /\ pool # <<>> /\ pool' = Tail(pool) /\ UNCHANGED sess /\ task = NoTask
        /\ task' = NoTask \/ task' = [l |-> pool[1], started |-> FALSE]
    BY <1>0, <1>4, TailOfPool DEF TakeStartup, sessionVars
  <2>2. /\ 1 \in DOMAIN pool
        /\ \A i \in DOMAIN pool' : /\ i + 1 \in DOMAIN pool
                                   /\ pool'[i] = pool[i + 1]
                                   /\ i \in Nat /\ i + 1 # 1
    BY <1>0, <2>1, TailOfPool
  <2>3. \A i, j \in DOMAIN pool' : pool'[i] = pool'[j] => i = j
    BY <1>0, <2>2 DEF QueueInv
  <2>4. \A i \in DOMAIN pool' : pool'[i] # pool[1] /\ pool'[i] \in Launches
    BY <1>0, <2>2 DEF QueueInv
  <2>5. \A i \in DOMAIN pool' : sess'[pool'[i]] = "none" /\ task'.l # pool'[i]
    BY <1>0, <2>1, <2>2, <2>4, WorkersFacts DEF QueueInv, NoTask
  <2>6. task' # NoTask /\ ~task'.started => sess'[task'.l] = "none"
    BY <1>0, <2>1, <2>2 DEF QueueInv
  <2> QED
    BY <2>3, <2>5, <2>6 DEF QueueInv
<1>5. CASE StartSession
  <2>1. /\ UNCHANGED pool /\ sess' = [sess EXCEPT ![task.l] = "running"]
        /\ task' = [task EXCEPT !.started = TRUE]
    BY <1>5 DEF StartSession
  <2>2. task'.l = task.l /\ task'.started
    BY <1>0, <2>1
  <2> QED
    BY <1>0, <2>1, <2>2 DEF QueueInv
<1>6. CASE Insert \/ StartFails
  <2>1. UNCHANGED <<pool, sess>> /\ task' = NoTask
    BY <1>6 DEF Insert, StartFails, sessionVars
  <2> QED
    BY <1>0, <2>1, WorkersFacts DEF QueueInv, NoTask
<1> QED
  BY <1>1, <1>2, <1>3, <1>4, <1>5, <1>6 DEF Startup

(* Every step leaves each launch queued or started at most once.            *)
LEMMA StartKept ==
  ASSUME JobInv, MainInv, SessionInv, RegistryInv, AdmitInv, HeldInv, StartInv,
         [Next]_vars
  PROVE  StartInv'
<1>1. QueueInv' /\ Claims'
  BY QueueKept, ClaimsKept
<1>2. task' = NoTask \/ (task'.l \in Launches /\ gate' = "worker")
  <2>0. task = NoTask \/ (task.l \in Launches /\ gate = "worker")
    BY DEF StartInv
  <2>1. CASE ~Startup \/ FinishStartup \/ \E l \in Launches : Announce(l)
    <3>1. task' = task
      BY <2>1, QuietSteps, HandlersAside DEF startupVars
    <3>2. (~Insert /\ ~StartFails) \/ task' = NoTask
      BY DEF Insert, StartFails
    <3> QED
      BY <2>0, <3>1, <3>2, WorkerHoldsGate
  <2>2. CASE TakeStartup
    <3>1. Head(pool) \in Launches
      BY <2>2 DEF TakeStartup, SessionInv, SessionTypes
    <3> QED
      BY <2>2, <3>1 DEF TakeStartup
  <2>3. CASE StartSession
    BY <2>0, <2>3 DEF StartSession, SessionInv, SessionTypes
  <2>4. CASE Insert \/ StartFails
    BY <2>4 DEF Insert, StartFails
  <2> QED
    BY <2>1, <2>2, <2>3, <2>4 DEF Startup
<1> QED
  BY <1>1, <1>2 DEF StartInv, QueueInv, Claims
-----------------------------------------------------------------------------
(* The counters.                                                            *)

LEMMA FiniteCounts ==
  /\ IsFiniteSet(Counted) /\ IsFiniteSet(Joining)
  /\ Cardinality(Counted) \in Nat /\ Cardinality(Joining) \in Nat
<1>1. IsFiniteSet(Launches) /\ IsFiniteSet(Callers)
  BY StreamAssumption DEF StreamAssumption
<1>2. IsFiniteSet(Workers)
  <2>1. IsFiniteSet(Callers \cup {"rtsp"})
    BY <1>1, FS_AddElement
  <2>2. IsFiniteSet((Callers \cup {"rtsp"}) \cup {"main"})
    BY <2>1, FS_AddElement
  <2>3. Workers = (Callers \cup {"rtsp"}) \cup {"main"}
    BY DEF Workers
  <2> QED
    BY <2>2, <2>3
<1>3. Counted \in SUBSET Launches /\ Joining \in SUBSET Workers
  BY DEF Counted, Alive, Joining
<1>4. IsFiniteSet(Counted) /\ IsFiniteSet(Joining)
  BY <1>1, <1>2, <1>3, FS_Subset
<1> QED
  BY <1>4, FS_CardinalityType

(* startup_tasks counts what is queued, under way or unanswered.            *)
LEMMA StartupsKept ==
  ASSUME JobInv, MainInv, SessionInv, HeldInv, StartInv, [Next]_vars,
         startups = Len(pool) + Len(posted) + (IF task = NoTask THEN 0 ELSE 1)
  PROVE  startups' = Len(pool') + Len(posted') + (IF task' = NoTask THEN 0 ELSE 1)
<1>0. pool \in Seq(Launches) /\ posted \in Seq(Launches)
  BY DEF SessionInv, SessionTypes
<1>1. CASE ~Startup
  BY <1>1, QuietSteps DEF startupVars
<1>2. CASE FinishStartup
  <2>1. /\ Len(Tail(posted)) = Len(posted) - 1
        /\ Len(posted) \in Nat /\ Len(pool) \in Nat
    BY <1>0, <1>2 DEF FinishStartup
  <2>2. /\ Len(posted') = Len(posted) - 1 /\ startups' = startups - 1
        /\ UNCHANGED <<pool, task>>
    BY <1>2, <2>1 DEF FinishStartup
  <2>3. \E t \in {0, 1} : /\ t = IF task = NoTask THEN 0 ELSE 1
                          /\ t = IF task' = NoTask THEN 0 ELSE 1
    BY <2>2
  <2> QED
    BY <2>1, <2>2, <2>3
<1>3. ASSUME NEW l \in Launches, Announce(l)
      PROVE  startups' = Len(pool') + Len(posted') + (IF task' = NoTask THEN 0 ELSE 1)
  <2>1. Len(Append(pool, l)) = Len(pool) + 1
    BY <1>0
  <2>2. /\ pool' = Append(pool, l) /\ startups' = startups + 1
        /\ UNCHANGED <<posted, task>>
    BY <1>3 DEF Announce
  <2> QED
    BY ONLY <1>0, <2>1, <2>2,
            startups = Len(pool) + Len(posted) + (IF task = NoTask THEN 0 ELSE 1)
<1>4. CASE TakeStartup
  <2>1. pool # <<>> /\ Len(Tail(pool)) = Len(pool) - 1 /\ Len(pool) \in Nat
    BY <1>0, <1>4 DEF TakeStartup
  <2>2. Len(Append(posted, Head(pool))) = Len(posted) + 1 /\ Len(posted) \in Nat
    BY <1>0, <2>1
  <2>3. /\ pool' = Tail(pool) /\ startups' = startups /\ task = NoTask
        /\ \/ task' # NoTask /\ posted' = posted
           \/ task' = task /\ posted' = Append(posted, Head(pool))
    <3>1. Head(pool) # None
      BY <1>0, <2>1, WorkersFacts
    <3> QED
      BY <1>4, <3>1 DEF TakeStartup, Finish, NoTask
  <2> QED
    BY ONLY <2>1, <2>2, <2>3,
            startups = Len(pool) + Len(posted) + (IF task = NoTask THEN 0 ELSE 1)
<1>5. CASE StartSession
  <2>1. task \in [l : Launches \cup {None}, started : BOOLEAN]
    BY DEF SessionInv, SessionTypes
  <2>2. task' # NoTask
    BY <1>5, <2>1 DEF StartSession, NoTask
  <2> QED
    BY <1>5, <2>2 DEF StartSession
<1>6. CASE Insert \/ StartFails
  <2>1. task # NoTask
    BY <1>6 DEF Insert, StartFails, NoTask
  <2>2. Len(Append(posted, task.l)) = Len(posted) + 1 /\ Len(posted) \in Nat
    BY <1>0, <2>1, TaskFacts
  <2>3. /\ posted' = Append(posted, task.l) /\ task' = NoTask
        /\ UNCHANGED <<pool, startups>>
    BY <1>6 DEF Insert, StartFails, Finish
  <2>4. Len(pool) \in Nat
    BY <1>0
  <2> QED
    BY ONLY <2>1, <2>2, <2>3, <2>4,
            startups = Len(pool) + Len(posted) + (IF task = NoTask THEN 0 ELSE 1)
<1> QED
  BY <1>1, <1>2, <1>3, <1>4, <1>5, <1>6 DEF Startup

JoinedStays == \A a \in Workers : Joined(a)' = Joined(a)
JoiningStays == \A a \in Workers : job'[a].pc = "join" <=> job[a].pc = "join"
AliveStays == \A l \in Launches : sess'[l] \in Live <=> sess[l] \in Live

LEMMA CountsStay ==
  ASSUME CountInv, JoinedStays, AliveStays, JoiningStays, UNCHANGED countVars,
         capture' \subseteq capture,
         startups' = Len(pool') + Len(posted') + (IF task' = NoTask THEN 0 ELSE 1)
  PROVE  CountInv'
<1>1. Counted' = Counted
  BY DEF Counted, Alive, JoinedStays, AliveStays, Live
<1>2. Joining' = Joining
  BY DEF Joining, JoiningStays
<1>3. running' = running /\ teardown' = teardown
  BY DEF countVars
<1> QED
  BY <1>1, <1>2, <1>3 DEF CountInv

LEMMA HandsCount ==
  ASSUME HandsSame PROVE JoinedStays /\ JoiningStays
BY DEF HandsSame, SameHands, JoinedStays, JoiningStays, Joined

(* Every step keeps the counters equal to what they count.                  *)
LEMMA CountKept ==
  ASSUME JobInv, MainInv, SessionInv, HeldInv, StartInv, CountInv, [Next]_vars
  PROVE  CountInv'
<1>0. /\ sess \in [Launches -> {"none", "running", "stopping", "freed"}]
      /\ \A a \in Workers : JobShape(job[a]) /\ job[a].mine \subseteq Launches
      /\ startups' = Len(pool') + Len(posted') + (IF task' = NoTask THEN 0 ELSE 1)
  BY StartupsKept DEF SessionInv, SessionTypes, JobInv, JobType, CountInv
<1>1. CASE Aside
  <2>1. AliveStays /\ UNCHANGED countVars /\ capture' = capture
    BY <1>1 DEF Aside, AliveStays
  <2> QED
    BY <1>0, <1>1, <2>1, HandsCount, CountsStay DEF Aside
<1>2. ASSUME NEW ls \in SUBSET Launches, Stops(ls) PROVE CountInv'
  <2>1. AliveStays
    BY <1>2, StoppedStays DEF Stops, SessionsStay, AliveStays
  <2> QED
    BY <1>0, <1>2, <2>1, HandsCount, CountsStay DEF Stops
<1>3. ASSUME NEW a \in Workers, NEW ls \in SUBSET Launches, Takes(a, ls)
      PROVE  CountInv'
  <2>1. /\ job[a].mine = {} /\ job[a].pc # "join" /\ job'[a].pc # "join"
        /\ job'[a].mine = job'[a].todo /\ OthersStay(a)
        /\ UNCHANGED <<sess, capture, countVars>>
    BY <1>3 DEF Takes, OthersStay
  <2>2. JoinedStays /\ JoiningStays /\ AliveStays
    BY <2>1 DEF JoinedStays, JoiningStays, AliveStays, Joined, OthersStay
  <2> QED
    BY <1>0, <2>1, <2>2, CountsStay
<1>4. CASE Startup
  <2>1. CASE ~StartSession
    <3>1. CASE FinishStartup \/ \E l \in Launches : Announce(l)
      <4>1. HandsSame /\ UNCHANGED <<sess, capture, countVars>>
        BY <3>1, HandlersAside
      <4> QED
        BY <1>0, <4>1, HandsCount, CountsStay DEF AliveStays
    <3>2. CASE TakeStartup \/ Insert \/ StartFails
      <4>1. UNCHANGED <<sess, capture, countVars, job>>
        BY <3>2 DEF TakeStartup, Insert, StartFails, sessionVars
      <4> QED
        BY <1>0, <4>1, CountsStay DEF AliveStays, JoinedStays, JoiningStays, Joined
    <3> QED
      BY <1>4, <2>1, <3>1, <3>2 DEF Startup
  <2>2. CASE StartSession
    <3>1. task.l \in Launches /\ sess[task.l] = "none"
      BY <2>2, TaskFacts DEF StartSession, StartInv
    <3>2. /\ sess' = [sess EXCEPT ![task.l] = "running"] /\ job' = job
          /\ running' = running + 1 /\ teardown' = teardown
          /\ capture' = capture \cup {task.l}
      BY <2>2 DEF StartSession
    <3>3. \A a \in Workers : task.l \notin job[a].mine
      BY <3>1 DEF HeldInv, Live
    <3>4. Counted' = Counted \cup {task.l} /\ task.l \notin Counted
      BY <1>0, <3>1, <3>2, <3>3 DEF Counted, Alive, Joined
    <3>5. Joining' = Joining
      BY <3>2 DEF Joining
    <3>6. Cardinality(Counted \cup {task.l}) = Cardinality(Counted) + 1
      BY <3>4, FiniteCounts, FS_AddElement
    <3> QED
      BY <1>0, <3>2, <3>4, <3>5, <3>6 DEF CountInv
  <2> QED
    BY <2>1, <2>2
<1>5. ASSUME NEW a \in Workers, JoinEnd(a) PROVE CountInv'
  <2> DEFINE c == job[a].cur
  <2>1. /\ OthersStay(a) /\ job[a].pc = "join" /\ job'[a].pc = "sessions"
        /\ job'[a].cur = None /\ job'[a].mine = job[a].mine
        /\ job'[a].todo = job[a].todo
    BY <1>5, TeardownHands
  <2>2. /\ c \notin capture /\ running' = running - 1 /\ teardown' = teardown - 1
        /\ UNCHANGED <<sess, capture>>
    BY <1>5 DEF JoinEnd, ThreadsJoined, sessionVars
  <2>3. c \in job[a].mine \ job[a].todo /\ c \in Launches
    BY <1>0, <2>1 DEF JobShape
  <2>4. sess[c] \in Live /\ \A b \in Workers \ {a} : c \notin job[b].mine
    BY <2>1, <2>3 DEF HeldInv
  <2>5. /\ Joined(a)' = Joined(a) \cup {c} /\ c \notin Joined(a)
        /\ \A b \in Workers \ {a} : Joined(b)' = Joined(b) /\ c \notin Joined(b)
    <3>1. Joined(a)' = Joined(a) \cup {c} /\ c \notin Joined(a)
      BY <1>0, <2>1, <2>3, WorkersFacts DEF Joined
    <3>2. \A b \in Workers \ {a} : Joined(b)' = Joined(b) /\ c \notin Joined(b)
      BY <2>1, <2>4 DEF Joined, OthersStay
    <3> QED
      BY <3>1, <3>2
  <2>6. Counted' = Counted \ {c} /\ c \in Counted
    <3>1. Alive' = Alive /\ c \in Alive
      BY <2>2, <2>3, <2>4 DEF Alive, Live
    <3>2. ASSUME NEW l PROVE (\A b \in Workers : l \notin Joined(b)')
                               <=> (\A b \in Workers : l \notin Joined(b)) /\ l # c
      BY <2>5
    <3>3. \A b \in Workers : c \notin Joined(b)
      BY <2>5
    <3> QED
      BY <3>1, <3>2, <3>3 DEF Counted
  <2>7. Joining' = Joining \ {a} /\ a \in Joining
    BY <2>1 DEF Joining, OthersStay
  <2>8. /\ Cardinality(Counted \ {c}) = Cardinality(Counted) - 1
        /\ Cardinality(Joining \ {a}) = Cardinality(Joining) - 1
    BY <2>6, <2>7, FiniteCounts, FS_RemoveElement
  <2> QED
    BY <1>0, <2>2, <2>6, <2>7, <2>8 DEF CountInv
<1>6. ASSUME NEW a \in Workers, NEW l \in Launches, StopNext(a, l) PROVE CountInv'
  <2>1. /\ OthersStay(a) /\ job[a].pc = "sessions" /\ job[a].cur = None
        /\ l \in job[a].todo /\ job'[a].pc = "join" /\ job'[a].cur = l
        /\ job'[a].mine = job[a].mine /\ job'[a].todo = job[a].todo \ {l}
    BY <1>6, TeardownHands
  <2>2. /\ sess' = Stopped({l}) /\ running' = running /\ teardown' = teardown + 1
        /\ capture' = capture
    BY <1>6 DEF StopNext
  <2>3. JoinedStays
    <3>1. Joined(a)' = Joined(a)
      BY <1>0, <2>1, WorkersFacts DEF Joined
    <3>2. \A b \in Workers \ {a} : Joined(b)' = Joined(b)
      BY <2>1 DEF Joined, OthersStay
    <3> QED
      BY <3>1, <3>2 DEF JoinedStays
  <2>4. SessionsStay
    BY <2>2, StoppedStays
  <2>5. Counted' = Counted
    BY <2>3, <2>4 DEF Counted, Alive, JoinedStays, SessionsStay, Live
  <2>6. Joining' = Joining \cup {a} /\ a \notin Joining
    BY <2>1 DEF Joining, OthersStay
  <2>7. Cardinality(Joining \cup {a}) = Cardinality(Joining) + 1
    BY <2>6, FiniteCounts, FS_AddElement
  <2> QED
    BY <1>0, <2>2, <2>5, <2>6, <2>7 DEF CountInv
<1>7. ASSUME NEW a \in Workers, FreeSessions(a) PROVE CountInv'
  <2>1. /\ OthersStay(a) /\ job[a].pc \in {"free", "sessions"} /\ job'[a].pc # "join"
        /\ job[a].cur = None /\ job[a].todo = {}
        /\ job'[a].mine \subseteq job[a].mine
    BY <1>7, TeardownHands DEF Empty
  <2>2. /\ sess' = [l \in Launches |-> IF l \in job[a].mine THEN "freed" ELSE sess[l]]
        /\ UNCHANGED <<capture, countVars>>
    BY <1>7 DEF FreeSessions
  <2>3. /\ Joined(a) = job[a].mine /\ Joined(a)' \subseteq job[a].mine
        /\ \A b \in Workers \ {a} : Joined(b)' = Joined(b)
    <3>1. Joined(a) = job[a].mine /\ Joined(a)' \subseteq job[a].mine
      BY <1>0, <2>1, WorkersFacts DEF Joined
    <3>2. \A b \in Workers \ {a} : Joined(b)' = Joined(b)
      BY <2>1 DEF Joined, OthersStay
    <3> QED
      BY <3>1, <3>2
  <2>4. Alive' = Alive \ job[a].mine
    BY <1>0, <2>2 DEF Alive
  <2>5. Counted' = Counted
    <3>1. ASSUME NEW l \in Launches \ job[a].mine
          PROVE  \A b \in Workers : l \notin Joined(b)' <=> l \notin Joined(b)
      BY <2>3
    <3>2. Counted \cap job[a].mine = {}
      BY <2>3 DEF Counted
    <3> QED
      BY <2>4, <3>1, <3>2 DEF Counted, Alive
  <2>6. Joining' = Joining
    BY <2>1 DEF Joining, OthersStay
  <2> QED
    BY <1>0, <2>2, <2>5, <2>6 DEF CountInv, countVars
<1>8. ASSUME NEW a \in Workers, EndBroadcast(a) PROVE CountInv'
  <2>1. /\ OthersStay(a) /\ job[a].pc = "ending" /\ job'[a].pc # "join"
        /\ job'[a].mine = {} /\ UNCHANGED <<sess, capture, countVars>>
    BY <1>8, TeardownHands DEF Empty, EndBroadcast
  <2>2. \A l \in job[a].mine : l \notin Alive
    BY <2>1 DEF HeldInv, Alive
  <2>3. Alive' = Alive /\ \A b \in Workers \ {a} : Joined(b)' = Joined(b)
    BY <2>1 DEF Alive, Joined, OthersStay
  <2>4. \A l \in Alive : l \notin Joined(a) /\ l \notin Joined(a)'
    BY <2>1, <2>2 DEF Joined
  <2>5. Counted' = Counted
    BY <2>3, <2>4 DEF Counted
  <2>6. Joining' = Joining
    BY <2>1 DEF Joining, OthersStay
  <2> QED
    BY <1>0, <2>1, <2>5, <2>6 DEF CountInv, countVars
<1> QED
  BY <1>1, <1>2, <1>3, <1>4, <1>5, <1>6, <1>7, <1>8, SessionEffects DEF SessionEffect
-----------------------------------------------------------------------------
(* The inductive invariant.                                                 *)

LEMMA InitIInv ==
  Init => IInv
<1> SUFFICES ASSUME Init PROVE IInv
  OBVIOUS
<1> USE WorkersFacts DEF Init
<1>1. JobInv
  <2>1. Idle \in JobType /\ JobShape(Idle)
    BY NewJobs DEF Ops
  <2> QED
    BY <2>1 DEF JobInv
<1>2. MainInv /\ AdmitInv /\ RegistryInv
  BY Fields DEF MainInv, AdmitInv, Admits, RegistryInv, Pending
<1>3. HeldInv /\ StartInv
  BY Fields DEF HeldInv, StartInv, Taken, NoTask
<1>4. CountInv
  <2>1. Counted = {} /\ Joining = {}
    BY Fields DEF Counted, Alive, Joining
  <2>2. Cardinality({}) = 0
    BY FS_EmptySet
  <2>3. Len(pool) + Len(posted) + (IF task = NoTask THEN 0 ELSE 1) = 0
    BY DEF NoTask
  <2> QED
    BY <2>1, <2>2, <2>3 DEF CountInv
<1>5. SessionInv
  <2>1. SessionTypes
    BY DEF SessionTypes
  <2>2. RuntimeTypes
    <3>1. control = [pc |-> "off", l |-> None, game |-> FALSE, keep |-> FALSE]
      BY DEF AtPoll
    <3>2. control \in [pc : {"off", "poll", "walk", "iterate", "clear", "exit", "done"},
                     l : Launches \cup {None}, game : BOOLEAN, keep : BOOLEAN]
          /\ control.pc # "clear"
      BY ONLY <3>1
    <3>3. calls \in Nat
      OBVIOUS
    <3>4. armed \in BOOLEAN /\ app \in BOOLEAN
      BY Zenon
    <3> QED
      BY <3>2, <3>3, <3>4 DEF RuntimeTypes
  <2> QED
    BY <2>1, <2>2 DEF SessionInv
<1> QED
  BY <1>1, <1>2, <1>3, <1>4, <1>5 DEF IInv

LEMMA NextIInv ==
  IInv /\ [Next]_vars => IInv'
BY JobKept, MainKept, AdmitKept, RegistryKept, HeldKept, StartKept, CountKept,
   SessionKept DEF IInv

(* The invariant holds in every reachable state.                            *)
THEOREM Invariant == Spec => []IInv
<1>1. IInv /\ [Next]_vars => IInv'
  BY NextIInv
<1> QED
  BY InitIInv, <1>1, PTL DEF Spec

(* Every variable has its type; the three counters never fall below zero.   *)
THEOREM TypeCorrect == Spec => []TypeOK
<1>1. IInv => TypeOK
  <2> SUFFICES ASSUME IInv PROVE TypeOK
    OBVIOUS
  <2>1. startups \in Nat
    BY DEF IInv, CountInv, SessionInv, SessionTypes
  <2>2. running \in Nat /\ teardown \in Nat
    BY FiniteCounts DEF IInv, CountInv
  <2>3. capture \subseteq Launches
    BY DEF IInv, CountInv, Counted, Alive
  <2>4. job \in [Workers -> [op : Ops, pc : Pcs,
                            arg : Launches \cup Clients \cup {None},
                            todo : SUBSET Launches, mine : SUBSET Launches,
                            cur : Launches \cup {None}]]
    BY DEF IInv, JobInv, JobType
  <2> QED
    BY <2>1, <2>2, <2>3, <2>4
       DEF IInv, RegistryInv, SessionInv, SessionTypes, RuntimeTypes, TypeOK
<1> QED
  BY <1>1, Invariant, PTL

(* A launch starts one session at most, however often it is announced: the  *)
(* first ANNOUNCE claims it (claim_launch_startup), and the claim lasts as   *)
(* long as the launch is pending.                                           *)
THEOREM StartsOnceHolds == Spec => []StartsOnce
<1>1. IInv => StartsOnce
  BY DEF IInv, StartInv, StartsOnce, NoTask
<1> QED
  BY <1>1, Invariant, PTL

(* running_sessions is the number of sessions started and not yet joined:   *)
(* the join that takes it to zero is the last one.                          *)
THEOREM RunningCountedHolds == Spec => []RunningCounted
<1>1. IInv => RunningCounted
  <2>1. Counted = Alive \ UNION {Joined(a) : a \in Workers}
    BY DEF Counted
  <2> QED
    BY <2>1 DEF IInv, CountInv, RunningCounted
<1> QED
  BY <1>1, Invariant, PTL

\* finalize_shared_runtime_if_idle, by whoever finds the gate free, or holds it
\* while it joins the sessions of the app it replaces.
Finalizes ==
  /\ FinalizeSharedRuntimeIfIdle
  /\ Free \/ \E a \in Workers : gate = a /\ job[a].pc \in {"sessions", "join"}

(* The cleanup is disarmed by finalize_shared_runtime_if_idle only.         *)
LEMMA DisarmingSteps ==
  ASSUME [Next]_vars, armed, ~armed'
  PROVE  Finalizes /\ capture' = capture
<1> USE DEF runtimeVars, sessionVars, Finalizes, Gated
<1>1. ASSUME NEW c \in Callers, CallBegins(c) PROVE FALSE
  BY <1>1 DEF CallBegins, BeginLaunch, BeginReplace, StopOne, BeginClientDisconnect,
     SweepFor, BeginRevoke, BeginRoleDisconnect, BeginCancel, BeginSweep,
     CollectStopping
<1>2. ASSUME NEW c \in Callers, CallGoesOn(c)
      PROVE  Finalizes /\ capture' = capture
  BY <1>2 DEF CallGoesOn, LaunchFails, RefuseLaunch, RaiseLaunch, Recheck,
     PassBarrier, SweepFor, Scan, TerminateApp, CleanupIfIdle
<1>3. ASSUME NEW a \in Workers, Teardown(a)
      PROVE  Finalizes /\ capture' = capture
  BY <1>3 DEF Teardown, CancelPending, Collect, JoinEnd, FinalizeRole, AllJoined,
     Free, FreeSessions, EndBroadcast, StopNext
<1>4. RtspHandles \/ Control \/ Environment \/ UNCHANGED vars
        => Finalizes /\ capture' = capture
  BY DEF RtspHandles, Announce, FinishStartup, ExpireLaunches, Control,
     ControlSample, ControlIterate, LaunchSessionClear, ControlExits, ControlWalk,
     Environment, LaunchComesDue, CaptureFails, AppExits, BeginShutdown, vars
<1>5. RtspSweep \/ RtspExits \/ Worker \/ StopIo \/ JoinRtsp
           \/ (\E l \in Launches : CaptureEnds(l)) => FALSE
  BY DEF RtspSweep, CollectStopping, RtspExits, Worker, TakeStartup,
     StartSession, Insert, StartFails, StopIo, JoinRtsp, CaptureEnds
<1> QED
  BY <1>1, <1>2, <1>3, <1>4, <1>5 DEF Next

(* When it is, nothing is pending and nothing is captured.                  *)
LEMMA DisarmedIdle ==
  ASSUME IInv, [Next]_vars, armed, ~armed'
  PROVE  Pending' = {} /\ capture' = {} /\ capture = {}
<1>1. IInv'
  BY NextIInv
<1>2. Pending' = {} /\ running' = 0 /\ capture' = capture
  <2>1. FinalizeSharedRuntimeIfIdle /\ capture' = capture
    BY DisarmingSteps DEF Finalizes
  <2>2. ~HasSharedRuntimeOwner'
    BY <2>1 DEF FinalizeSharedRuntimeIfIdle
  <2> QED
    BY <2>1, <2>2 DEF HasSharedRuntimeOwner, HasPendingLaunchOrStartup
<1>3. Cardinality(Counted') = 0 /\ IsFiniteSet(Counted')
  <2>1. IsFiniteSet(Counted)'
    BY FiniteCounts, PTL
  <2> QED
    BY <1>1, <1>2, <2>1 DEF IInv, CountInv
<1>4. Counted' = {}
  BY <1>3, FS_EmptySet
<1> QED
  BY <1>1, <1>2, <1>4 DEF IInv, CountInv

(* The restoration of displays and platform, owed while armed, runs only    *)
(* when no capture thread lives: running_sessions counts every session that *)
(* has one, and the check is made over the state the step leaves.           *)
THEOREM RuntimeKeptHolds == Spec => RuntimeKept
<1>1. IInv /\ [Next]_vars => [armed /\ ~armed' => capture = {}]_vars
  BY DisarmedIdle
<1> QED
  BY <1>1, Invariant, PTL DEF Spec, RuntimeKept
=============================================================================
