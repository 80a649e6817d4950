------------------------- MODULE StreamServiceProofs -------------------------
(***************************************************************************)
(* Promises about launches and threads, for any launches, clients, callers *)
(* and bounds, on top of the invariant of StreamLifecycleProofs.  A        *)
(* revocation that has scanned leaves nothing of its client pending, the   *)
(* sessions implement StreamService, and an owed restoration always has an *)
(* owner; a server that has shut down is clean, the control thread's list  *)
(* names live sessions only, and no circle of threads waits on the gate, a *)
(* join and the broadcast context.                                         *)
(***************************************************************************)
EXTENDS StreamLifecycleProofs

(* Revocation.                                                              *)

SweepPcs == {"sessions", "join", "free", "ending", "scan"}

AtBarrier(j, k) == j.pc = "barrier" /\ j.arg = k

Sweeps(j, k) == j.op = "sweepRevoke" /\ j.pc \in SweepPcs /\ j.arg = k

NoRaise(k) == \A a \in Workers : job[a].pc = "raise" => ClientOf[job[a].arg] # k

\* Before the barrier a launch of the client may still be on its way; after
\* it none is, and what is pending is the scan's to take.
RevInv ==
  \A k \in unpaired :
    \/ \E c \in Callers : AtBarrier(job[c], k)
    \/ /\ NoRaise(k)
       /\ \/ Pending \cap OfClient(k) = {}
          \/ \E c \in Callers : Sweeps(job[c], k)

\* Job i goes on from job j and neither raises, nor passes the barrier or the
\* scan.
Follows(j, i) ==
  /\ i.pc = "raise" => j.pc = "raise" /\ i.arg = j.arg
  /\ j.pc = "barrier" => i.pc = "barrier" /\ i.arg = j.arg
  /\ j.op = "sweepRevoke" /\ j.pc \in SweepPcs =>
       i.op = "sweepRevoke" /\ i.pc \in SweepPcs /\ i.arg = j.arg

LEMMA RevStays ==
  ASSUME RevInv, UNCHANGED unpaired, Pending' \subseteq Pending,
         \A a \in Workers : Follows(job[a], job'[a])
  PROVE  RevInv'
<1> SUFFICES ASSUME NEW k \in unpaired
             PROVE  \/ \E c \in Callers : AtBarrier(job'[c], k)
                    \/ /\ NoRaise(k)'
                       /\ \/ Pending' \cap OfClient(k) = {}
                          \/ \E c \in Callers : Sweeps(job'[c], k)
  BY DEF RevInv, AtBarrier, Sweeps, OfClient
<1>1. CASE \E c \in Callers : AtBarrier(job[c], k)
  BY <1>1, WorkersFacts DEF AtBarrier, Follows
<1>2. ASSUME NoRaise(k) PROVE NoRaise(k)'
  BY <1>2 DEF NoRaise, Follows
<1>3. ASSUME NEW c \in Callers, Sweeps(job[c], k) PROVE Sweeps(job'[c], k)
  BY <1>3, WorkersFacts DEF Sweeps, Follows
<1> QED
  BY <1>1, <1>2, <1>3 DEF RevInv

LEMMA Following ==
  ASSUME JobInv, NEW a \in Workers, NEW j, Goto(a, j), Follows(job[a], j)
  PROVE  \A b \in Workers : Follows(job[b], job'[b])
BY Moves DEF Follows

(* A teardown neither raises, nor withdraws, nor gives up a scan to come.   *)
LEMMA TeardownFollows ==
  ASSUME JobInv, NEW a \in Workers, Teardown(a)
  PROVE  \E j : Goto(a, j) /\ Follows(job[a], j)
<1> USE Fields
<1>0. job[a] \in JobType
  BY DEF JobInv
<1>1. Follows(job[a], Afterwards(a)) \/ job[a].pc \in {"barrier", "raise"}
  <2>1. CASE job[a].op = "sweepRevoke"
    BY <2>1 DEF Afterwards, Follows, SweepPcs
  <2>2. CASE job[a].op # "sweepRevoke"
    <3>1. Afterwards(a).pc # "raise"
      <4>1. \/ Afterwards(a) = At(job[a].op, job[a].arg, "terminate")
            \/ Afterwards(a) = At("revoke", job[a].arg, "cleanup")
            \/ Afterwards(a) = At(job[a].op, job[a].arg, "scan")
            \/ Afterwards(a) = At("final", None, "done")
            \/ Afterwards(a) = At("final", None, "joinRtsp")
            \/ Afterwards(a) = Idle
        BY Zenon DEF Afterwards
      <4> QED
        BY <4>1
    <3> QED
      BY <2>2, <3>1 DEF Follows
  <2> QED
    BY <2>1, <2>2
<1>2. CASE CancelPending(a)
  <2> DEFINE j == [job[a] EXCEPT !.pc = "collect"]
  <2>1. Goto(a, j) /\ Follows(job[a], j)
    BY <1>0, <1>2 DEF CancelPending, JobType, Follows, SweepPcs
  <2> QED
    BY <2>1
<1>3. CASE Collect(a)
  BY <1>3 DEF Collect, Follows, SweepPcs
<1>4. CASE JoinEnd(a)
  <2> DEFINE j == [job[a] EXCEPT !.pc = "sessions", !.cur = None]
  <2>1. Goto(a, j) /\ Follows(job[a], j)
    BY <1>0, <1>4 DEF JoinEnd, JobType, Follows, SweepPcs
  <2> QED
    BY <2>1
<1>5. CASE FinalizeRole(a)
  <2> DEFINE j == [job[a] EXCEPT !.pc = "free"]
  <2>1. Goto(a, j) /\ Follows(job[a], j)
    BY <1>0, <1>5 DEF FinalizeRole, AllJoined, JobType, Follows, SweepPcs
  <2> QED
    BY <2>1
<1>6. CASE FreeSessions(a) \/ EndBroadcast(a)
  <2> DEFINE j == [job[a] EXCEPT !.pc = "ending"]
  <2>1. job[a].pc \in {"free", "sessions", "ending"}
        /\ (Goto(a, j) \/ Goto(a, Afterwards(a)))
    BY <1>6 DEF FreeSessions, AllJoined, EndBroadcast
  <2>2. Follows(job[a], j)
    BY <1>0, <2>1 DEF JobType, Follows, SweepPcs
  <2> QED
    BY <1>1, <2>1, <2>2
<1>7. ASSUME NEW l \in Launches, StopNext(a, l)
      PROVE  \E j : Goto(a, j) /\ Follows(job[a], j)
  <2> DEFINE j == [job[a] EXCEPT !.pc = "join", !.cur = l,
                                 !.todo = job[a].todo \ {l}]
  <2>1. Goto(a, j) /\ Follows(job[a], j)
    BY <1>0, <1>7 DEF StopNext, JobType, Follows, SweepPcs
  <2> QED
    BY <2>1
<1> QED
  BY <1>2, <1>3, <1>4, <1>5, <1>6, <1>7 DEF Teardown

\* The steps that do raise, withdraw or pass.
Turns(c) == Recheck(c) \/ PassBarrier(c) \/ Scan(c) \/ \E k \in Clients : BeginRevoke(c, k)

(* Every other step leaves these matters as they are.                       *)
LEMMA JobsFollow ==
  ASSUME IInv, [Next]_vars, ~\E c \in Callers : Turns(c)
  PROVE  UNCHANGED unpaired /\ \A b \in Workers : Follows(job[b], job'[b])
<1> USE WorkersFacts, Fields
<1>0. JobInv /\ job \in [Workers -> JobType]
  BY DEF IInv, JobInv
<1> DEFINE Quiet == UNCHANGED unpaired /\ \A b \in Workers : Follows(job[b], job'[b])
<1>1. UNCHANGED job /\ UNCHANGED unpaired => Quiet
  BY DEF Follows
<1>2. ASSUME NEW c \in Callers, CallBegins(c),
             ~\E k \in Clients : BeginRevoke(c, k)
      PROVE  Quiet
  <2>1. CASE \E l \in Launches : StopOne(c, l)
    BY <1>1, <2>1 DEF StopOne, registryVars
  <2>2. CASE ~\E l \in Launches : StopOne(c, l)
    <3>1. job[c] = Idle /\ UNCHANGED unpaired
      BY <1>2, <2>2 DEF CallBegins, BeginLaunch, BeginReplace,
         BeginClientDisconnect, SweepFor, BeginRoleDisconnect, BeginCancel, BeginSweep,
         CollectStopping, Begin, registryVars
    <3>2. PICK j : Goto(c, j) /\ j.pc # "raise"
      <4>1. \/ \E op, arg, pc : Goto(c, At(op, arg, pc)) /\ pc # "raise"
            \/ \E op, arg, ls : Goto(c, Cleaning(op, arg, ls))
            \/ Goto(c, Idle)
        BY <1>2, <2>2 DEF CallBegins, BeginLaunch, BeginReplace,
           BeginClientDisconnect, SweepFor, BeginRoleDisconnect, BeginCancel,
           BeginSweep, CollectStopping
      <4> QED
        BY <4>1
    <3>3. Follows(job[c], j)
      BY <3>1, <3>2 DEF Follows
    <3> QED
      BY <1>0, <3>1, <3>2, <3>3, Following
  <2> QED
    BY <2>1, <2>2
<1>3. ASSUME NEW c \in Callers, CallGoesOn(c), ~Recheck(c), ~PassBarrier(c),
             ~Scan(c)
      PROVE  Quiet
  <2>1. /\ job[c].pc \in {"admit", "raise", "terminate", "cleanup"}
        /\ UNCHANGED unpaired
    BY <1>3 DEF CallGoesOn, LaunchFails, RefuseLaunch, RaiseLaunch, TerminateApp,
       CleanupIfIdle, Admitting, Raising, registryVars
  <2>2. PICK j : Goto(c, j) /\ j.pc # "raise"
    <3>1. \/ \E op, arg, pc : Goto(c, At(op, arg, pc)) /\ pc # "raise"
          \/ Goto(c, Idle)
      <4>1. CASE TerminateApp(c)
        <5>1. \/ Goto(c, At("replace", job[c].arg, "admit"))
              \/ Goto(c, At("cancel", None, "cleanup"))
              \/ Goto(c, Idle)
          BY <4>1, Zenon DEF TerminateApp
        <5> QED
          BY <5>1
      <4>2. CASE ~TerminateApp(c)
        BY <1>3, <4>2 DEF CallGoesOn, LaunchFails, RefuseLaunch, RaiseLaunch,
           CleanupIfIdle
      <4> QED
        BY <4>1, <4>2
    <3> QED
      BY <3>1
  <2>3. Follows(job[c], j)
    BY <2>1, <2>2 DEF Follows, SweepPcs
  <2> QED
    BY <1>0, <2>1, <2>2, <2>3, Following
<1>4. ASSUME NEW a \in Workers, Teardown(a) PROVE Quiet
  <2>1. UNCHANGED unpaired
    BY <1>4 DEF Teardown, CancelPending, Collect, JoinEnd, FinalizeRole,
       FreeSessions, EndBroadcast, StopNext, registryVars
  <2>2. PICK j : Goto(a, j) /\ Follows(job[a], j)
    BY <1>0, <1>4, TeardownFollows
  <2> QED
    BY <1>0, <2>1, <2>2, Following
<1>5. ASSUME RtspHandles \/ RtspSweep \/ RtspExits \/ StopIo \/ JoinRtsp
       PROVE  Quiet
  <2>1. PICK a \in Workers :
          /\ job[a].pc \in {"idle", "sweep", "joinRtsp"}
          /\ \/ \E op, arg, pc : Goto(a, At(op, arg, pc)) /\ pc # "raise"
             \/ \E op, arg, ls : Goto(a, Cleaning(op, arg, ls))
             \/ Goto(a, Idle)
    <3>1. CASE StopIo
      BY <1>0, <3>1 DEF StopIo, IInv, MainInv
    <3>2. CASE ~StopIo
      BY <1>5, <3>2 DEF RtspHandles, Announce, FinishStartup, ExpireLaunches,
         Handled, IoRuns, AtLoop, RtspSweep, CollectStopping, RtspExits, JoinRtsp
    <3> QED
      BY <3>1, <3>2
  <2>2. PICK j : Goto(a, j) /\ j.pc # "raise"
    BY <2>1
  <2>3. Follows(job[a], j)
    BY <2>1, <2>2 DEF Follows, SweepPcs
  <2>4. UNCHANGED unpaired
    BY <1>5 DEF RtspHandles, Announce, FinishStartup, ExpireLaunches, RtspSweep,
       CollectStopping, RtspExits, StopIo, JoinRtsp, registryVars
  <2> QED
    BY <1>0, <2>2, <2>3, <2>4, Following
<1>6. ASSUME \/ Worker \/ Control \/ Environment \/ UNCHANGED vars
              \/ \E l \in Launches : CaptureEnds(l)
       PROVE  Quiet
  <2>1. UNCHANGED <<job, unpaired>>
    BY <1>6 DEF Worker, TakeStartup, StartSession, Insert, StartFails, Control,
       ControlSample, ControlIterate, LaunchSessionClear, ControlExits, ControlWalk,
       Environment, LaunchComesDue, CaptureFails, AppExits, BeginShutdown, CaptureEnds,
       vars, registryVars
  <2> QED
    BY <1>1, <2>1
<1> QED
  BY <1>2, <1>3, <1>4, <1>5, <1>6 DEF Next, Turns

(* Only a raised launch becomes pending.                                    *)
LEMMA PendingShrinks ==
  ASSUME RegistryInv, [Next]_vars, ~\E c \in Callers : RaiseLaunch(c)
  PROVE  Pending' \subseteq Pending
<1> USE DEF RegistryInv, Pending
<1>1. CASE RegistryUnchanged
  BY <1>1 DEF RegistryUnchanged
<1>2. ASSUME NEW ls, Erase(ls) PROVE Pending' \subseteq Pending
  BY <1>2 DEF Erase
<1>3. ASSUME NEW c \in Callers, Admission(c) PROVE Pending' \subseteq Pending
  <2>1. CASE LaunchFails(c)
    BY <2>1 DEF LaunchFails
  <2>2. CASE RefuseLaunch(c)
    BY <2>2, <1>2 DEF RefuseLaunch
  <2> QED
    BY <1>3, <2>1, <2>2 DEF Admission
<1>4. ASSUME NEW l \in Launches, LaunchComesDue(l) \/ Announce(l)
      PROVE  Pending' \subseteq Pending
  BY <1>4 DEF LaunchComesDue, Announce
<1> QED
  BY <1>1, <1>2, <1>3, <1>4, RegistrySteps

(* A launch crosses the registry only before its client is withdrawn or     *)
(* ahead of the barrier; the barrier waits for the gate, which it holds.    *)
LEMMA RevKept ==
  ASSUME IInv, RevInv, [Next]_vars
  PROVE  RevInv'
<1> USE WorkersFacts, Fields
<1>0. /\ JobInv /\ RegistryInv /\ AdmitInv
      /\ job \in [Workers -> JobType]
  BY DEF IInv, JobInv
<1>1. ASSUME NEW c \in Callers, RaiseLaunch(c) PROVE RevInv'
  <2> DEFINE l == job[c].arg
  <2>1. /\ Pending' \subseteq Pending \cup {l} /\ UNCHANGED unpaired
        /\ Goto(c, Idle) /\ job[c].pc = "raise"
    BY <1>1 DEF RaiseLaunch, Pending, Raising
  <2>2. \A b \in Workers : Follows(job[b], job'[b])
    BY <1>0, <2>1, Following DEF Follows, SweepPcs
  <2>3. ASSUME NEW k \in unpaired
        PROVE  \/ \E d \in Callers : AtBarrier(job'[d], k)
               \/ /\ NoRaise(k)'
                  /\ \/ Pending' \cap OfClient(k) = {}
                     \/ \E d \in Callers : Sweeps(job'[d], k)
    <3>1. CASE \E d \in Callers : AtBarrier(job[d], k)
      BY <3>1, <2>2 DEF AtBarrier, Follows
    <3>2. ASSUME NoRaise(k) PROVE NoRaise(k)' /\ ClientOf[l] # k
      BY <3>2, <2>1, <2>2 DEF NoRaise, Follows
    <3>3. ASSUME ClientOf[l] # k, Pending \cap OfClient(k) = {}
          PROVE  Pending' \cap OfClient(k) = {}
      BY <3>3, <2>1 DEF OfClient
    <3>4. ASSUME NEW d \in Callers, Sweeps(job[d], k) PROVE Sweeps(job'[d], k)
      BY <3>4, <2>2 DEF Sweeps, Follows
    <3> QED
      BY <3>1, <3>2, <3>3, <3>4 DEF RevInv
  <2> QED
    BY <2>1, <2>3 DEF RevInv, OfClient, AtBarrier, Sweeps
<1>2. ASSUME NEW c \in Callers, Recheck(c) PROVE RevInv'
  <2>0. PICK j : Goto(c, j) /\ j.pc = "raise" /\ j.arg = job[c].arg
    <3> DEFINE i == [job[c] EXCEPT !.pc = "raise"]
    <3>1. Goto(c, i) /\ i.pc = "raise" /\ i.arg = job[c].arg
      BY <1>0, <1>2 DEF Recheck, Admitting, JobType
    <3> QED
      BY <3>1
  <2>1. /\ job[c].pc = "admit" /\ ClientOf[job[c].arg] \notin unpaired
        /\ UNCHANGED <<entry, unpaired>>
    BY <1>2 DEF Recheck, Admitting, registryVars
  <2>2. /\ \A b \in Workers \ {c} : job'[b] = job[b]
        /\ job'[c].pc = "raise" /\ job'[c].arg = job[c].arg
    BY <1>0, <2>0, Moves
  <2>3. ASSUME NEW k \in unpaired, \E d \in Callers : AtBarrier(job[d], k)
        PROVE  \E d \in Callers : AtBarrier(job'[d], k)
    BY <2>1, <2>2, <2>3 DEF AtBarrier
  <2>4. ASSUME NEW k \in unpaired, NoRaise(k)
        PROVE  /\ NoRaise(k)'
               /\ \A d \in Callers : Sweeps(job[d], k) => Sweeps(job'[d], k)
    BY <2>1, <2>2, <2>4 DEF NoRaise, Sweeps, SweepPcs
  <2>5. Pending' = Pending
    BY <2>1 DEF Pending
  <2> QED
    BY <2>1, <2>3, <2>4, <2>5 DEF RevInv, OfClient
<1>3. ASSUME NEW c \in Callers, NEW k \in Clients, BeginRevoke(c, k) PROVE RevInv'
  <2>1. /\ Goto(c, At("revoke", k, "barrier")) /\ job[c].pc = "idle"
        /\ unpaired' = unpaired \cup {k} /\ UNCHANGED entry
    BY <1>3 DEF BeginRevoke, Begin
  <2>2. /\ \A b \in Workers \ {c} : job'[b] = job[b]
        /\ job'[c].pc = "barrier" /\ job'[c].arg = k
    BY <1>0, <2>1, Moves
  <2>3. AtBarrier(job'[c], k)
    BY <2>2 DEF AtBarrier
  <2>4. ASSUME NEW q \in unpaired, \E d \in Callers : AtBarrier(job[d], q)
        PROVE  \E d \in Callers : AtBarrier(job'[d], q)
    BY <2>1, <2>2, <2>4 DEF AtBarrier
  <2>5. ASSUME NEW q \in unpaired, NoRaise(q)
        PROVE  /\ NoRaise(q)'
               /\ \A d \in Callers : Sweeps(job[d], q) => Sweeps(job'[d], q)
    BY <2>1, <2>2, <2>5 DEF NoRaise, Sweeps, SweepPcs
  <2> QED
    BY <2>1, <2>3, <2>4, <2>5 DEF RevInv, OfClient, Pending
<1>4. ASSUME NEW c \in Callers, PassBarrier(c) PROVE RevInv'
  <2> DEFINE k == job[c].arg
  <2>1. /\ \/ Goto(c, At("sweepRevoke", k, "scan"))
           \/ Goto(c, Cleaning("sweepRevoke", k, Stopping))
        /\ job[c].pc = "barrier" /\ gate = None
        /\ UNCHANGED <<entry, unpaired>>
    BY <1>4 DEF PassBarrier, SweepFor, StartAdmitted, Free, registryVars
  <2>2. /\ \A b \in Workers \ {c} : job'[b] = job[b]
        /\ job'[c].op = "sweepRevoke" /\ job'[c].pc \in {"scan", "sessions"}
        /\ job'[c].arg = k
    BY <1>0, <2>1, Moves
  <2>3. Sweeps(job'[c], k)
    BY <2>2 DEF Sweeps, SweepPcs
  <2>4. \A q \in unpaired : NoRaise(q)'
    <3>1. \A a \in Workers : job[a].pc # "raise"
      BY <1>0, <2>1 DEF AdmitInv, Admits
    <3> QED
      BY <2>2, <3>1 DEF NoRaise
  <2>5. ASSUME NEW q \in unpaired, q # k, \E d \in Callers : AtBarrier(job[d], q)
        PROVE  \E d \in Callers : AtBarrier(job'[d], q)
    BY <2>1, <2>2, <2>5 DEF AtBarrier
  <2>6. ASSUME NEW q \in unpaired, NEW d \in Callers, Sweeps(job[d], q)
        PROVE  Sweeps(job'[d], q)
    BY <2>1, <2>2, <2>6 DEF Sweeps, SweepPcs
  <2> QED
    BY <2>1, <2>3, <2>4, <2>5, <2>6 DEF RevInv, OfClient, Pending
<1>5. ASSUME NEW c \in Callers, Scan(c) PROVE RevInv'
  <2> DEFINE k == job[c].arg
  <2>1. /\ Pending' \subseteq Pending \ OfClient(k) /\ UNCHANGED unpaired
        /\ job[c].pc = "scan"
        /\ \E op, ls : Goto(c, Cleaning(op, k, ls))
    BY <1>5 DEF Scan, Erase, Pending, OfClient
  <2>2. /\ \A b \in Workers \ {c} : job'[b] = job[b]
        /\ job'[c].pc = "sessions"
    BY <1>0, <2>1, Moves
  <2>3. ASSUME NEW q \in unpaired, \E d \in Callers : AtBarrier(job[d], q)
        PROVE  \E d \in Callers : AtBarrier(job'[d], q)
    BY <2>1, <2>2, <2>3 DEF AtBarrier
  <2>4. ASSUME NEW q \in unpaired, NoRaise(q) PROVE NoRaise(q)'
    BY <2>2, <2>4 DEF NoRaise
  <2>5. ASSUME NEW q \in unpaired, NEW d \in Callers, Sweeps(job[d], q)
        PROVE  q = k \/ Sweeps(job'[d], q)
    BY <2>2, <2>5 DEF Sweeps
  <2>6. Pending' \cap OfClient(k) = {} /\ Pending' \subseteq Pending
    BY <2>1
  <2> QED
    BY <2>1, <2>3, <2>4, <2>5, <2>6 DEF RevInv, OfClient
<1>6. ASSUME ~\E c \in Callers : RaiseLaunch(c) \/ Turns(c) PROVE RevInv'
  BY <1>0, <1>6, JobsFollow, PendingShrinks, RevStays
<1> QED
  BY <1>1, <1>2, <1>3, <1>4, <1>5, <1>6 DEF Turns

(* Once a revocation has crossed the admission barrier and scanned, no      *)
(* launch of that client is pending: whoever was being admitted when the    *)
(* pairing was withdrawn holds the gate the barrier waits for, and whoever  *)
(* comes later looks at the pairing with the gate held.                     *)
THEOREM RevokedNotPendingHolds == Spec => []RevokedNotPending
<1>1. Init => RevInv
  BY DEF Init, RevInv
<1>2. IInv /\ RevInv /\ [Next]_vars => RevInv'
  BY RevKept
<1>3. RevInv => RevokedNotPending
  BY DEF RevInv, RevokedNotPending, AtBarrier, Sweeps
<1> QED
  BY <1>1, <1>2, <1>3, Invariant, PTL DEF Spec
-----------------------------------------------------------------------------
(* The service.  A disconnect of one client and a revocation take launches  *)
(* out of the registry without the gate, also from under the worker that is *)
(* starting one: without them every step of the host is one of the service. *)

\* The operations of the jobs there are without such calls.
OwnOps == ({"none", "sweep", "clear", "final"} \cup Calls)
            \ {"client", "revoke", "sweepClient", "sweepRevoke"}

NoScan(j) == j.pc \notin {"barrier", "scan"} /\ j.op \in OwnOps

Raises == \E a \in Workers : job[a].pc = "raise"

\* The launch the worker starts is still on offer, and the cleanup is armed as
\* long as anything needs the runtime.
ServiceInv ==
  /\ \A a \in Workers : NoScan(job[a])
  /\ task # NoTask /\ ~task.started => entry[task.l] = "pending"
  /\ Pending # {} \/ capture # {} \/ Raises => armed

NoGatelessCalls == Calls \cap {"client", "revoke"} = {}

(* Nobody comes to scan.                                                    *)
LEMMA NoScanKept ==
  ASSUME NoGatelessCalls, IInv, \A a \in Workers : NoScan(job[a]), [Next]_vars
  PROVE  \A a \in Workers : NoScan(job'[a])
<1> USE WorkersFacts, Fields
<1>0. JobInv /\ job \in [Workers -> JobType] /\ MainInv
  BY DEF IInv, JobInv
<1> DEFINE Kept == \A a \in Workers : NoScan(job'[a])
<1>1. ASSUME NEW a \in Workers, NEW j, Goto(a, j), NoScan(j) PROVE Kept
  BY <1>0, <1>1, Moves
<1>2. NoScan(Idle) /\ {"none", "sweep", "clear", "final"} \subseteq OwnOps
  BY DEF NoScan, OwnOps
<1>3. ASSUME NEW op, NEW arg, NEW pc, pc \notin {"barrier", "scan"},
             op \in OwnOps
      PROVE  NoScan(At(op, arg, pc))
  BY <1>3 DEF NoScan
<1>4. ASSUME NEW op, NEW arg, NEW ls, op \in OwnOps
      PROVE  NoScan(Cleaning(op, arg, ls))
  BY <1>4 DEF NoScan
<1>5. ASSUME NEW c \in Callers, CallBegins(c) PROVE Kept
  <2>1. CASE \E l \in Launches : StopOne(c, l)
    BY <2>1 DEF StopOne
  <2>2. CASE ~\E l \in Launches : StopOne(c, l)
    <3>1. PICK j : Goto(c, j) /\ NoScan(j)
      BY <1>2, <1>3, <1>4, <1>5, <2>2 DEF CallBegins, BeginLaunch, BeginReplace,
         BeginClientDisconnect, BeginRevoke, BeginRoleDisconnect, BeginCancel,
         BeginSweep, CollectStopping, Begin, NoGatelessCalls, OwnOps
    <3> QED
      BY <1>1, <3>1
  <2> QED
    BY <2>1, <2>2
<1>6. ASSUME NEW c \in Callers, CallGoesOn(c) PROVE Kept
  <2>1. job[c].op \in OwnOps /\ job[c].pc \notin {"barrier", "scan"}
    BY DEF NoScan
  <2>2. PICK j : Goto(c, j) /\ NoScan(j)
    <3>1. CASE Recheck(c)
      <4> DEFINE i == [job[c] EXCEPT !.pc = "raise"]
      <4>1. Goto(c, i) /\ NoScan(i)
        BY <1>0, <2>1, <3>1 DEF Recheck, JobType, NoScan
      <4> QED
        BY <4>1
    <3>2. CASE TerminateApp(c)
      <4>1. \/ job[c].op = "replace" /\ Goto(c, At(job[c].op, job[c].arg, "admit"))
            \/ job[c].op = "cancel" /\ Goto(c, At(job[c].op, None, "cleanup"))
            \/ Goto(c, Idle)
        BY <3>2, Zenon DEF TerminateApp
      <4> QED
        BY <1>2, <1>3, <2>1, <4>1
    <3>3. CASE LaunchFails(c) \/ RefuseLaunch(c) \/ RaiseLaunch(c) \/ CleanupIfIdle(c)
      BY <1>2, <3>3 DEF LaunchFails, RefuseLaunch, RaiseLaunch, CleanupIfIdle
    <3> QED
      BY <1>6, <2>1, <3>1, <3>2, <3>3 DEF CallGoesOn, PassBarrier, Scan
  <2> QED
    BY <1>1, <2>2
<1>7. ASSUME NEW a \in Workers, Teardown(a) PROVE Kept
  <2>0. job[a].op \notin {"client", "revoke", "sweepClient", "sweepRevoke"}
    BY DEF NoScan, OwnOps
  <2>1. job[a].op \in OwnOps
    BY DEF NoScan
  <2>2. NoScan(Afterwards(a))
    <3>1. \/ Afterwards(a) = At(job[a].op, job[a].arg, "terminate")
          \/ Afterwards(a) = At("final", None, "done")
          \/ Afterwards(a) = At("final", None, "joinRtsp")
          \/ Afterwards(a) = Idle
      BY <2>0, Zenon DEF Afterwards
    <3> QED
      BY <1>2, <1>3, <2>1, <3>1
  <2>3. PICK j : Goto(a, j) /\ NoScan(j)
    <3>1. CASE CancelPending(a)
      <4> DEFINE i == [job[a] EXCEPT !.pc = "collect"]
      <4>1. Goto(a, i) /\ NoScan(i)
        BY <1>0, <2>1, <3>1 DEF CancelPending, JobType, NoScan
      <4> QED
        BY <4>1
    <3>2. CASE Collect(a)
      BY <1>4, <2>1, <3>2 DEF Collect
    <3>3. CASE JoinEnd(a)
      <4> DEFINE i == [job[a] EXCEPT !.pc = "sessions", !.cur = None]
      <4>1. Goto(a, i) /\ NoScan(i)
        BY <1>0, <2>1, <3>3 DEF JoinEnd, JobType, NoScan
      <4> QED
        BY <4>1
    <3>4. CASE FinalizeRole(a)
      <4> DEFINE i == [job[a] EXCEPT !.pc = "free"]
      <4>1. Goto(a, i) /\ NoScan(i)
        BY <1>0, <2>1, <3>4 DEF FinalizeRole, JobType, NoScan
      <4> QED
        BY <4>1
    <3>5. CASE FreeSessions(a) \/ EndBroadcast(a)
      <4> DEFINE i == [job[a] EXCEPT !.pc = "ending"]
      <4>1. Goto(a, i) \/ Goto(a, Afterwards(a))
        BY <3>5 DEF FreeSessions, EndBroadcast
      <4>2. NoScan(i)
        BY <1>0, <2>1 DEF JobType, NoScan
      <4> QED
        BY <2>2, <4>1, <4>2
    <3>6. ASSUME NEW l \in Launches, StopNext(a, l)
          PROVE  \E j : Goto(a, j) /\ NoScan(j)
      <4> DEFINE i == [job[a] EXCEPT !.pc = "join", !.cur = l,
                                     !.todo = job[a].todo \ {l}]
      <4>1. Goto(a, i) /\ NoScan(i)
        BY <1>0, <2>1, <3>6 DEF StopNext, JobType, NoScan
      <4> QED
        BY <4>1
    <3> QED
      BY <1>7, <3>1, <3>2, <3>3, <3>4, <3>5, <3>6 DEF Teardown
  <2> QED
    BY <1>1, <2>3
<1>8. CASE RtspHandles \/ RtspSweep \/ RtspExits \/ StopIo \/ JoinRtsp
  <2>1. PICK a \in Workers : \E j : Goto(a, j) /\ NoScan(j)
    BY <1>2, <1>3, <1>4, <1>8 DEF RtspHandles, Announce, FinishStartup,
       ExpireLaunches, Handled, RtspSweep, CollectStopping, RtspExits, StopIo, JoinRtsp
  <2> QED
    BY <1>1, <2>1
<1>9. CASE Worker \/ Control \/ Environment \/ UNCHANGED vars
           \/ \E l \in Launches : CaptureEnds(l)
  <2>1. UNCHANGED job
    BY <1>9 DEF Worker, TakeStartup, StartSession, Insert, StartFails, Control,
       ControlSample, ControlIterate, LaunchSessionClear, ControlExits, ControlWalk,
       Environment, LaunchComesDue, CaptureFails, AppExits, BeginShutdown, CaptureEnds,
       vars
  <2> QED
    BY <2>1
<1> QED
  BY <1>5, <1>6, <1>7, <1>8, <1>9 DEF Next

(* Only a request that holds the gate comes to raise.                       *)
LEMMA RaisingSteps ==
  ASSUME IInv, [Next]_vars, ~\E c \in Callers : Recheck(c)
  PROVE  \A a \in Workers : job'[a].pc = "raise" => job[a].pc = "raise"
<1> USE WorkersFacts, Fields
<1>0. JobInv
  BY DEF IInv
<1>1. ASSUME NEW c \in Callers,
             PassBarrier(c) \/ Scan(c) \/ \E k \in Clients : BeginRevoke(c, k)
      PROVE  \A a \in Workers : job'[a].pc = "raise" => job[a].pc = "raise"
  <2>1. PICK j : Goto(c, j) /\ j.pc # "raise"
    BY <1>1 DEF PassBarrier, SweepFor, Scan, BeginRevoke
  <2> QED
    BY <1>0, <2>1, Moves
<1>2. CASE ~\E c \in Callers : Turns(c)
  BY <1>2, JobsFollow DEF Follows
<1> QED
  BY <1>1, <1>2 DEF Turns

(* What changes the registry holds the gate, but for the scans.             *)
LEMMA EntryGated ==
  ASSUME IInv, gate = "worker", \A a \in Workers : NoScan(job[a]), [Next]_vars
  PROVE  UNCHANGED entry
<1> USE WorkersFacts DEF Free, StartAdmitted, registryVars
<1>1. ASSUME NEW c \in Callers, CallBegins(c) PROVE UNCHANGED entry
  BY <1>1 DEF CallBegins, BeginLaunch, BeginReplace, StopOne, BeginClientDisconnect,
     SweepFor, BeginRevoke, BeginRoleDisconnect, BeginCancel, BeginSweep,
     CollectStopping
<1>2. ASSUME NEW c \in Callers, CallGoesOn(c) PROVE UNCHANGED entry
  BY <1>2 DEF CallGoesOn, LaunchFails, RefuseLaunch, RaiseLaunch, Recheck, Admitting,
     Raising, PassBarrier, SweepFor, Scan, TerminateApp, CleanupIfIdle, NoScan, OwnOps
<1>3. ASSUME NEW a \in Workers, Teardown(a) PROVE UNCHANGED entry
  BY <1>3 DEF Teardown, CancelPending, Collect, JoinEnd, FinalizeRole,
     FreeSessions, EndBroadcast, StopNext
<1>4. RtspHandles \/ Control \/ Environment \/ UNCHANGED vars => UNCHANGED entry
  BY DEF RtspHandles, Announce, FinishStartup, ExpireLaunches, Control,
     ControlSample, ControlIterate, LaunchSessionClear, ControlExits, ControlWalk,
     Environment, LaunchComesDue, CaptureFails, AppExits, BeginShutdown, vars
<1>5. RtspSweep \/ RtspExits \/ Worker \/ StopIo \/ JoinRtsp
           \/ (\E l \in Launches : CaptureEnds(l)) => UNCHANGED entry
  BY DEF RtspSweep, CollectStopping, RtspExits, Worker, TakeStartup,
     StartSession, Insert, StartFails, StopIo, JoinRtsp, CaptureEnds
<1> QED
  BY <1>1, <1>2, <1>3, <1>4, <1>5 DEF Next

(* Capture threads come with a start and end one session at a time.         *)
LEMMA CaptureSteps ==
  ASSUME [Next]_vars, ~StartSession, ~\E l \in Launches : CaptureEnds(l)
  PROVE  UNCHANGED capture
<1> USE DEF sessionVars
<1>1. ASSUME NEW c \in Callers, CallBegins(c) PROVE UNCHANGED capture
  BY <1>1 DEF CallBegins, BeginLaunch, BeginReplace, StopOne, BeginClientDisconnect,
     SweepFor, BeginRevoke, BeginRoleDisconnect, BeginCancel, BeginSweep,
     CollectStopping
<1>2. ASSUME NEW c \in Callers, CallGoesOn(c) PROVE UNCHANGED capture
  BY <1>2 DEF CallGoesOn, LaunchFails, RefuseLaunch, RaiseLaunch, Recheck,
     PassBarrier, SweepFor, Scan, TerminateApp, CleanupIfIdle
<1>3. ASSUME NEW a \in Workers, Teardown(a) PROVE UNCHANGED capture
  BY <1>3 DEF Teardown, CancelPending, Collect, JoinEnd, FinalizeRole,
     FreeSessions, EndBroadcast, StopNext
<1>4. RtspHandles \/ Control \/ Environment \/ UNCHANGED vars => UNCHANGED capture
  BY DEF RtspHandles, Announce, FinishStartup, ExpireLaunches, Control,
     ControlSample, ControlIterate, LaunchSessionClear, ControlExits, ControlWalk,
     Environment, LaunchComesDue, CaptureFails, AppExits, BeginShutdown, vars
<1>5. RtspSweep \/ RtspExits \/ Worker \/ StopIo \/ JoinRtsp => UNCHANGED capture
  BY DEF RtspSweep, CollectStopping, RtspExits, Worker, TakeStartup,
     Insert, StartFails, StopIo, JoinRtsp
<1> QED
  BY <1>1, <1>2, <1>3, <1>4, <1>5 DEF Next

(* Who arms the cleanup.                                                    *)
LEMMA ArmingSteps ==
  ASSUME [Next]_vars, ~armed, armed',
         ~StartSession, ~\E c \in Callers : Recheck(c) \/ RefuseLaunch(c)
  PROVE  FALSE
<1> USE DEF runtimeVars, FinalizeSharedRuntimeIfIdle
<1>1. ASSUME NEW c \in Callers, CallBegins(c) PROVE FALSE
  BY <1>1 DEF CallBegins, BeginLaunch, BeginReplace, StopOne, BeginClientDisconnect,
     SweepFor, BeginRevoke, BeginRoleDisconnect, BeginCancel, BeginSweep,
     CollectStopping
<1>2. ASSUME NEW c \in Callers, CallGoesOn(c) PROVE FALSE
  BY <1>2 DEF CallGoesOn, LaunchFails, RaiseLaunch,
     PassBarrier, SweepFor, Scan, TerminateApp, CleanupIfIdle
<1>3. ASSUME NEW a \in Workers, Teardown(a) PROVE FALSE
  BY <1>3 DEF Teardown, CancelPending, Collect, JoinEnd, FinalizeRole,
     FreeSessions, EndBroadcast, StopNext
<1>4. RtspHandles \/ Control \/ Environment \/ UNCHANGED vars => FALSE
  BY DEF RtspHandles, Announce, FinishStartup, ExpireLaunches, Control,
     ControlSample, ControlIterate, LaunchSessionClear, ControlExits, ControlWalk,
     Environment, LaunchComesDue, CaptureFails, AppExits, BeginShutdown, vars
<1>5. RtspSweep \/ RtspExits \/ Worker \/ StopIo \/ JoinRtsp
           \/ (\E l \in Launches : CaptureEnds(l)) => FALSE
  BY DEF RtspSweep, CollectStopping, RtspExits, Worker, TakeStartup,
     Insert, StartFails, StopIo, JoinRtsp, CaptureEnds
<1> QED
  BY <1>1, <1>2, <1>3, <1>4, <1>5 DEF Next

(* The launch under the worker's hands stays on offer.                      *)
LEMMA TaskStaysPending ==
  ASSUME IInv, ServiceInv, [Next]_vars, task' # NoTask, ~task'.started
  PROVE  entry'[task'.l] = "pending"
<1>1. CASE TakeStartup
  <2>1. /\ UNCHANGED entry /\ task = NoTask /\ pool # <<>>
        /\ \/ task' = [l |-> Head(pool), started |-> FALSE]
              /\ Head(pool) \in Pending
           \/ task' = task
    BY <1>1 DEF TakeStartup, HasLaunchSession, registryVars
  <2> QED
    BY <2>1 DEF Pending
<1>2. CASE ~TakeStartup
  <2>1. task' = task
    <3>1. CASE Startup
      <4>1. CASE FinishStartup \/ \E l \in Launches : Announce(l)
        BY <4>1 DEF FinishStartup, Announce
      <4>2. CASE StartSession
        <5>1. task'.started
          BY <4>2 DEF StartSession, IInv, SessionInv, SessionTypes
        <5> QED
          BY <5>1
      <4>3. CASE Insert \/ StartFails
        BY <4>3 DEF Insert, StartFails
      <4> QED
        BY <1>2, <3>1, <4>1, <4>2, <4>3 DEF Startup
    <3>2. CASE ~Startup
      BY <3>2, QuietSteps DEF IInv, startupVars
    <3> QED
      BY <3>1, <3>2
  <2>2. gate = "worker" /\ entry[task.l] = "pending"
    BY <2>1 DEF IInv, StartInv, ServiceInv
  <2>3. UNCHANGED entry
    BY <2>2, EntryGated DEF ServiceInv
  <2> QED
    BY <2>1, <2>2, <2>3
<1> QED
  BY <1>1, <1>2

LEMMA ServiceInvKept ==
  ASSUME NoGatelessCalls, IInv, ServiceInv, [Next]_vars
  PROVE  ServiceInv'
<1>0. armed \in BOOLEAN /\ armed' \in BOOLEAN /\ RegistryInv
  BY NextIInv DEF IInv, SessionInv, RuntimeTypes
<1>1. \A a \in Workers : NoScan(job'[a])
  BY NoScanKept DEF ServiceInv
<1>2. task' # NoTask /\ ~task'.started => entry'[task'.l] = "pending"
  BY TaskStaysPending
<1>3. ASSUME ~armed' PROVE Pending' = {} /\ capture' = {} /\ ~Raises'
  <2>0. ~StartSession /\ ~\E c \in Callers : Recheck(c)
    BY <1>3 DEF StartSession, Recheck
  <2>1. \A a \in Workers : job'[a].pc = "raise" => job[a].pc = "raise"
    BY <2>0, RaisingSteps
  <2>2. CASE armed
    <3>1. Pending' = {} /\ capture' = {} /\ Finalizes
      BY <1>3, <2>2, DisarmedIdle, DisarmingSteps
    <3>2. ~Raises
      BY <3>1, WorkersFacts DEF Finalizes, Free, Raises, IInv, AdmitInv, Admits
    <3> QED
      BY <2>1, <3>1, <3>2 DEF Raises
  <2>3. CASE ~armed
    <3>1. Pending = {} /\ capture = {} /\ ~Raises
      BY <2>3 DEF ServiceInv
    <3>2. ~\E c \in Callers : RaiseLaunch(c)
      BY <3>1, WorkersFacts DEF Raises, RaiseLaunch, Raising
    <3>3. Pending' \subseteq Pending
      BY <1>0, <3>2, PendingShrinks
    <3>4. ~\E l \in Launches : CaptureEnds(l)
      BY <3>1 DEF CaptureEnds
    <3>5. UNCHANGED capture
      BY <2>0, <3>4, CaptureSteps
    <3> QED
      BY <2>1, <3>1, <3>3, <3>5 DEF Raises
  <2> QED
    BY <2>2, <2>3
<1> QED
  BY <1>0, <1>1, <1>2, <1>3 DEF ServiceInv, Raises

\* What the phase of a launch says about its session and its entry.
PhaseShape(l) ==
  /\ Phase(l) \in {"new", "offered", "streaming", "over"}
  /\ Phase(l) = "streaming" <=> l \in capture
  /\ Phase(l) = "offered" <=> l \notin capture /\ sess[l] = "none" /\ l \in Pending
  /\ Phase(l) = "new" <=> entry[l] = "new"

PhasesShaped == \A l \in Launches : PhaseShape(l)

LEMMA PhaseShapes ==
  IInv => PhasesShaped
<1> SUFFICES ASSUME IInv, NEW l \in Launches PROVE PhaseShape(l)
  BY DEF PhasesShaped
<1>1. /\ entry[l] \in {"new", "pending", "gone"}
      /\ entry[l] = "new" => sess[l] = "none"
      /\ l \in capture => sess[l] # "none"
  BY DEF IInv, RegistryInv, StartInv, Taken, CountInv, Counted, Alive
<1>2. Phase(l) = IF l \in capture THEN "streaming"
                 ELSE IF sess[l] # "none" THEN "over"
                 ELSE IF entry[l] = "new" THEN "new"
                 ELSE IF entry[l] = "pending" THEN "offered" ELSE "over"
  BY Zenon DEF Phase
<1> QED
  BY <1>1, <1>2 DEF PhaseShape, Pending

(* A launch that keeps its session, and whose entry only goes, stays where  *)
(* it is, or lapses from its offer.                                         *)
LEMMA Lapses ==
  ASSUME IInv, IInv', UNCHANGED capture, NEW ls \in SUBSET Pending,
         \A l \in Launches : sess[l] = "none" <=> sess'[l] = "none",
         NEW l \in Launches, entry'[l] = IF l \in ls THEN "gone" ELSE entry[l]
  PROVE  Phase(l)' = IF l \in ls /\ Phase(l) = "offered" THEN "over" ELSE Phase(l)
<1>0. PhasesShaped /\ PhasesShaped'
  BY PhaseShapes, PTL
<1>1. PhaseShape(l) /\ PhaseShape(l)'
  BY <1>0 DEF PhasesShaped
<1>2. l \in Pending' <=> l \in Pending /\ l \notin ls
  BY DEF Pending
<1>3. entry'[l] = "new" <=> entry[l] = "new"
  BY DEF Pending
<1> QED
  BY <1>1, <1>2, <1>3 DEF PhaseShape

(* Only a start gives a launch its session.                                 *)
LEMMA SessionlessStays ==
  ASSUME IInv, [Next]_vars, ~StartSession
  PROVE  \A l \in Launches : sess[l] = "none" <=> sess'[l] = "none"
<1>1. CASE Startup
  <2>1. UNCHANGED sess
    BY <1>1, HandlersAside DEF IInv, Startup, TakeStartup, Insert, StartFails, sessionVars
  <2> QED
    BY <2>1
<1>2. CASE ~Startup
  BY <1>2, QuietSteps DEF IInv
<1> QED
  BY <1>1, <1>2

(* The initial states are the service's.                                    *)
LEMMA ServiceInit ==
  Init => Service!Init
<1> SUFFICES ASSUME Init PROVE Service!Init
  OBVIOUS
<1>1. ASSUME NEW l \in Launches PROVE Phase(l) = "new"
  <2>1. l \notin capture /\ sess[l] = "none" /\ entry[l] = "new"
    BY DEF Init
  <2> QED
    BY <2>1 DEF Phase
<1>2. armed = FALSE
  BY DEF Init
<1> QED
  BY <1>1, <1>2 DEF Service!Init

(* Offers lapse or are withdrawn.                                           *)
LEMMA WithdrawStep ==
  ASSUME NEW ls \in SUBSET Launches, \A l \in ls : Phase(l) = "offered",
         \A l \in Launches : Phase(l)' = IF l \in ls THEN "over" ELSE Phase(l),
         \/ armed' = armed
         \/ armed' = FALSE
            /\ \A l \in Launches : Phase(l)' \notin {"offered", "streaming"}
  PROVE  Service!Next
<1>1. Service!Withdraw(ls)
  BY DEF Service!Withdraw, Service!In, Service!Moved, Service!InUse
<1> QED
  BY <1>1 DEF Service!Next

(* An admission offers its launch, or refuses it.                           *)
LEMMA AdmissionStep ==
  ASSUME IInv, IInv', ServiceInv, NEW c \in Callers, Admission(c)
  PROVE  Service!Next
<1> DEFINE lapsed == {k \in due : Phase(k) = "offered"}
<1>0. PhasesShaped /\ PhasesShaped'
  BY PhaseShapes, PTL
<1>1. \A k \in Launches : PhaseShape(k) /\ PhaseShape(k)'
  BY <1>0 DEF PhasesShaped
<1>2. PICK l \in Launches :
      /\ l = job[c].arg /\ entry[l] = "new" /\ Phase(l) = "new"
      /\ due \subseteq Pending /\ l \notin due
      /\ entry \in [Launches -> {"new", "pending", "gone"}]
  <2>1. Admits(job[c]) /\ c \in Workers
    BY WorkersFacts
       DEF Admission, LaunchFails, RefuseLaunch, RaiseLaunch, Admitting, Raising, Admits
  <2>2. job[c].arg \in Launches /\ entry[job[c].arg] = "new"
    BY <2>1 DEF IInv, AdmitInv
  <2> QED
    BY <1>1, <2>2 DEF PhaseShape, IInv, RegistryInv, Pending
<1>3. sess[l] = "none" /\ l \notin capture
  BY <1>1, <1>2 DEF PhaseShape, IInv, StartInv, Taken
<1>4. CASE RaiseLaunch(c)
  <2>1. /\ UNCHANGED <<sess, capture, armed>>
        /\ \A k \in Launches : entry'[k] = IF k = l THEN "pending"
                                          ELSE IF k \in due THEN "gone" ELSE entry[k]
    BY <1>2, <1>4 DEF RaiseLaunch, sessionVars, runtimeVars
  <2>2. armed = TRUE
    BY <1>4, WorkersFacts DEF RaiseLaunch, Raising, ServiceInv, Raises, IInv,
       SessionInv, RuntimeTypes
  <2>3. Phase(l)' = "offered"
    BY <1>1, <1>2, <1>3, <2>1 DEF PhaseShape, Pending
  <2>4. \A k \in Launches \ {l} :
          Phase(k)' = IF k \in lapsed THEN "over" ELSE Phase(k)
    BY <1>1, <1>2, <2>1 DEF PhaseShape, Pending
  <2>5. lapsed \in SUBSET Launches /\ l \notin lapsed
    BY <1>2 DEF Pending
  <2> HIDE DEF lapsed
  <2>6. Service!Offer(l, lapsed)
    <3>1. \A k \in lapsed : Phase(k) = "offered"
      BY DEF lapsed
    <3> QED
      BY <1>2, <2>1, <2>2, <2>3, <2>4, <2>5, <3>1
         DEF Service!Offer, Service!In, Service!Moved
  <2> QED
    BY <1>2, <2>5, <2>6 DEF Service!Next
<1>5. CASE LaunchFails(c) \/ RefuseLaunch(c)
  <2>1. PICK ls \in SUBSET due :
          /\ UNCHANGED <<sess, capture>> /\ armed' \in {armed, TRUE}
          /\ \A k \in Launches :
               entry'[k] = IF k \in ls \cup {l} THEN "gone" ELSE entry[k]
    <3>1. CASE Erase(due \cup {l})
      BY <1>2, <1>5, <3>1 DEF LaunchFails, RefuseLaunch, sessionVars, Erase
    <3>2. CASE entry' = [entry EXCEPT ![l] = "gone"]
      <4>1. /\ UNCHANGED <<sess, capture>> /\ armed' \in {armed, TRUE}
            /\ \A k \in Launches :
                 entry'[k] = IF k \in {} \cup {l} THEN "gone" ELSE entry[k]
        BY <1>2, <1>5, <3>2 DEF LaunchFails, RefuseLaunch, sessionVars
      <4> QED
        BY <4>1
    <3> QED
      BY <1>2, <1>5, <3>1, <3>2 DEF LaunchFails, RefuseLaunch
  <2> DEFINE gone == {k \in ls : Phase(k) = "offered"}
  <2>2. Phase(l)' = "over"
    BY <1>1, <1>2, <1>3, <2>1 DEF PhaseShape, Pending
  <2>3. \A k \in Launches \ {l} :
          Phase(k)' = IF k \in gone THEN "over" ELSE Phase(k)
    BY <1>1, <1>2, <2>1 DEF PhaseShape, Pending
  <2>4. gone \in SUBSET Launches /\ \A k \in gone : Phase(k) = "offered"
    BY <1>2 DEF Pending
  <2> HIDE DEF gone
  <2>5. Service!Refuse(l, gone)
    BY <1>2, <2>1, <2>2, <2>3, <2>4 DEF Service!Refuse, Service!In, Service!Moved
  <2> QED
    BY <1>2, <2>4, <2>5 DEF Service!Next
<1> QED
  BY <1>4, <1>5 DEF Admission

(* A session starts for the launch under the worker's hands.                *)
LEMMA StartStep ==
  ASSUME IInv, IInv', ServiceInv, StartSession
  PROVE  Service!Next
<1>0. PhasesShaped /\ PhasesShaped'
  BY PhaseShapes, PTL
<1>1. \A k \in Launches : PhaseShape(k) /\ PhaseShape(k)'
  BY <1>0 DEF PhasesShaped
<1>2. PICK l \in Launches :
      /\ l = task.l /\ sess[l] = "none" /\ l \in Pending
      /\ capture \subseteq Alive
  BY TaskFacts DEF StartSession, IInv, StartInv, ServiceInv, Pending, CountInv, Counted
<1>3. /\ capture' = capture \cup {l} /\ armed' = TRUE /\ UNCHANGED entry
      /\ \A k \in Launches \ {l} : sess'[k] = sess[k]
  BY <1>2 DEF StartSession, registryVars, IInv, SessionInv, SessionTypes
<1>4. Phase(l) = "offered" /\ Phase(l)' = "streaming"
  BY <1>1, <1>2, <1>3 DEF PhaseShape, Alive
<1>5. \A k \in Launches \ {l} : Phase(k)' = Phase(k)
  BY <1>1, <1>3 DEF PhaseShape, Pending
<1>6. Service!Start(l)
  BY <1>2, <1>3, <1>4, <1>5 DEF Service!Start, Service!Moved
<1> QED
  BY <1>2, <1>6 DEF Service!Next

(* A session's last capture thread ends.                                    *)
LEMMA EndStep ==
  ASSUME IInv, IInv', NEW l \in Launches, CaptureEnds(l)
  PROVE  Service!Next
<1>0. PhasesShaped /\ PhasesShaped'
  BY PhaseShapes, PTL
<1>1. \A k \in Launches : PhaseShape(k) /\ PhaseShape(k)'
  BY <1>0 DEF PhasesShaped
<1>2. /\ l \in capture /\ capture' = capture \ {l} /\ UNCHANGED <<entry, armed>>
      /\ \A k \in Launches : sess[k] = "none" <=> sess'[k] = "none"
  BY StoppedStays DEF CaptureEnds, registryVars, runtimeVars, IInv, SessionsStay
<1>3. sess[l] # "none" /\ entry[l] # "new"
  BY <1>2 DEF IInv, CountInv, Counted, Alive, StartInv, Taken
<1>4. Phase(l) = "streaming" /\ Phase(l)' = "over"
  BY <1>1, <1>2, <1>3 DEF PhaseShape
<1>5. \A k \in Launches \ {l} : Phase(k)' = Phase(k)
  BY <1>1, <1>2 DEF PhaseShape, Pending
<1>6. Service!End(l)
  BY <1>2, <1>4, <1>5 DEF Service!End, Service!Moved
<1> QED
  BY <1>6 DEF Service!Next

(* Every step is a step of the service.                                     *)
LEMMA ServiceStep ==
  ASSUME IInv, IInv', ServiceInv, [Next]_vars
  PROVE  [Service!Next]_(Service!serviceVars)
<1> USE WorkersFacts
<1>1. ASSUME NEW c \in Callers, Recheck(c) PROVE Service!Next
  <2>1. UNCHANGED <<entry, capture, sess>> /\ armed' = TRUE
    BY <1>1 DEF Recheck, registryVars, sessionVars
  <2>2. \A l \in Launches : Phase(l)' = Phase(l)
    BY <2>1 DEF Phase
  <2>3. Service!Prepare
    BY <2>1, <2>2 DEF Service!Prepare
  <2> QED
    BY <2>3 DEF Service!Next
<1>2. CASE /\ ~StartSession /\ ~\E l \in Launches : CaptureEnds(l)
           /\ ~\E c \in Callers : Recheck(c) \/ Admission(c)
  <2>1. UNCHANGED capture
    BY <1>2, CaptureSteps
  <2>2. \A l \in Launches : sess[l] = "none" <=> sess'[l] = "none"
    BY <1>2, SessionlessStays
  <2>3. PICK ls \in SUBSET Pending :
          \A l \in Launches : entry'[l] = IF l \in ls THEN "gone" ELSE entry[l]
    <3>1. CASE UNCHANGED entry
      <4> WITNESS {} \in SUBSET Pending
      <4> QED
        BY <3>1
    <3>2. CASE \E ls \in SUBSET Pending : Erase(ls)
      <4>1. PICK ls \in SUBSET Pending : Erase(ls)
        BY <3>2
      <4>2. \A l \in Launches : entry'[l] = IF l \in ls THEN "gone" ELSE entry[l]
        BY <4>1 DEF Erase
      <4> QED
        BY <4>2
    <3>3. UNCHANGED entry \/ \E ls \in SUBSET Pending : Erase(ls)
      BY <1>2, RegistrySteps DEF IInv, RegistryUnchanged, LaunchComesDue, Announce
    <3> QED
      BY <3>1, <3>2, <3>3
  <2> DEFINE lapsed == {l \in ls : Phase(l) = "offered"}
  <2>4. \A l \in Launches : Phase(l)' = IF l \in lapsed THEN "over" ELSE Phase(l)
    BY <2>1, <2>2, <2>3, Lapses
  <2>5. lapsed \in SUBSET Launches /\ \A l \in lapsed : Phase(l) = "offered"
    BY DEF Pending
  <2>6. \/ armed' = armed
        \/ armed' = FALSE
           /\ \A l \in Launches : Phase(l)' \notin {"offered", "streaming"}
    <3>1. armed \in BOOLEAN /\ armed' \in BOOLEAN
      BY DEF IInv, SessionInv, RuntimeTypes
    <3>2. armed => armed' \/ (Pending' = {} /\ capture' = {})
      BY DisarmedIdle
    <3>3. ~armed => ~armed'
      BY <1>2, ArmingSteps DEF Admission
    <3>4. PhasesShaped'
      BY PhaseShapes, PTL
    <3>5. Pending' = {} /\ capture' = {}
            => \A l \in Launches : Phase(l)' \notin {"offered", "streaming"}
      BY <3>4 DEF PhasesShaped, PhaseShape
    <3> QED
      BY <3>1, <3>2, <3>3, <3>5
  <2> HIDE DEF lapsed
  <2> QED
    BY <2>4, <2>5, <2>6, WithdrawStep
<1> QED
  BY <1>1, <1>2, AdmissionStep, StartStep, EndStep

(* Unless a client is disconnected or revoked, the sessions implement the   *)
(* service: a launch that was cancelled, disconnected or timed out never    *)
(* streams, none streams twice, and the displays and overrides the streams  *)
(* share are restored only when none is on offer and none streams.          *)
THEOREM ImplementsServiceHolds ==
  ASSUME NoGatelessCalls
  PROVE  Spec => ImplementsService
<1>1. Init => ServiceInv
  <2> SUFFICES ASSUME Init PROVE ServiceInv
    OBVIOUS
  <2>1. /\ \A a \in Workers : job[a] = Idle
        /\ task = NoTask /\ Pending = {} /\ capture = {}
    BY DEF Init, NoTask, Pending
  <2> QED
    BY <2>1, Fields DEF ServiceInv, NoScan, OwnOps, Raises
<1>2. IInv /\ ServiceInv /\ [Next]_vars => ServiceInv'
  BY ServiceInvKept
<1>3. IInv /\ IInv' /\ ServiceInv /\ [Next]_vars => [Service!Next]_(Service!serviceVars)
  BY ServiceStep
<1> QED
  BY <1>1, <1>2, <1>3, Invariant, ServiceInit, PTL DEF Spec, ImplementsService, Service!Spec
-----------------------------------------------------------------------------
(* The restoration of displays and platform is never forgotten, for any     *)
(* launches, clients, callers and bounds, unless a client's sessions are    *)
(* disconnected, which withdraws its launches and restores nothing.         *)

\* What the place a job has reached says about the call it belongs to.
Ordered(j) ==
  /\ j.op # "sweepClient"
  /\ j.pc \in {"admit", "raise"} => j.op \in {"launch", "replace"}
  /\ j.pc = "terminate" => j.op \in {"role", "replace", "cancel"}
  /\ j.pc = "barrier" => j.op = "revoke"
  /\ j.pc = "sweep" => j.op = "sweep"
  /\ j.pc = "joinRtsp" => j.op = "final"

Finalizing(j) ==
  \/ j.op \in {"cancel", "revoke", "sweepRevoke"}
  \/ j.op \in {"role", "replace"} /\ j.pc \in {"sessions", "join"}

Admitted(j) == j.op \in {"launch", "replace"}

\* Job i, after job j, still finalizes or raises what j would have, and admits
\* no other launch.
Carries(j, i) ==
  /\ Finalizing(j) => Finalizing(i)
  /\ j.pc = "raise" => i.pc = "raise"
  /\ Admitted(i) => Admitted(j) /\ i.arg = j.arg

\* The steps after which it does not.
Settles(c) ==
  c \in Callers /\ (RefuseLaunch(c) \/ RaiseLaunch(c) \/ CleanupIfIdle(c))
Enters(c) ==
  c \in Callers /\ \E l \in Launches : BeginLaunch(c, l) \/ BeginReplace(c, l)

(* Jobs stay ordered, and carry what they are about.                        *)
LEMMA OrderedTeardown ==
  ASSUME IInv, NEW a \in Workers, Ordered(job[a]), Teardown(a)
  PROVE  \E j : Goto(a, j) /\ Ordered(j) /\ (FinalizeRole(a) \/ Carries(job[a], j))
                /\ (Admitted(j) => Admitted(job[a]) /\ j.arg = job[a].arg)
<1> USE Fields
<1>0. job[a] \in JobType
  BY DEF IInv, JobInv
<1>1. Ordered(Afterwards(a))
  <2>1. \/ /\ Afterwards(a) = At(job[a].op, job[a].arg, "terminate")
           /\ job[a].op \in {"role", "replace", "cancel"}
        \/ Afterwards(a) = At("revoke", job[a].arg, "cleanup")
        \/ /\ Afterwards(a) = At(job[a].op, job[a].arg, "scan")
           /\ job[a].op \in {"sweepClient", "sweepRevoke"}
        \/ Afterwards(a) = At("final", None, "done")
        \/ Afterwards(a) = At("final", None, "joinRtsp")
        \/ Afterwards(a) = Idle
    BY Zenon DEF Afterwards
  <2> QED
    BY <2>1 DEF Ordered
<1>2. job[a].pc \in {"free", "sessions", "ending"} /\
      (job[a].op \in {"role", "replace"} => job[a].pc \in {"free", "ending"})
        => Carries(job[a], Afterwards(a))
  <2>1. CASE job[a].op \in {"role", "replace"}
    <3>1. Afterwards(a) = At(job[a].op, job[a].arg, "terminate")
      BY <2>1 DEF Afterwards
    <3> QED
      BY <2>1, <3>1 DEF Carries, Finalizing, Admitted
  <2>2. CASE job[a].op \in {"cancel", "revoke", "sweepRevoke"}
    <3>1. Afterwards(a).op \in {"cancel", "revoke", "sweepRevoke"}
      BY <2>2 DEF Afterwards
    <3> QED
      BY <3>1 DEF Carries, Finalizing, Admitted
  <2>3. CASE job[a].op \notin {"role", "replace", "cancel", "revoke", "sweepRevoke"}
    <3>1. \/ Afterwards(a) = At(job[a].op, job[a].arg, "scan")
          \/ Afterwards(a) = At("final", None, "done")
          \/ Afterwards(a) = At("final", None, "joinRtsp")
          \/ Afterwards(a) = Idle
      BY <2>3, Zenon DEF Afterwards
    <3> QED
      BY <2>3, <3>1 DEF Carries, Finalizing, Admitted
  <2> QED
    BY <2>1, <2>2, <2>3
<1>3. CASE CancelPending(a)
  <2> DEFINE i == [job[a] EXCEPT !.pc = "collect"]
  <2>1. Goto(a, i) /\ Ordered(i) /\ Carries(job[a], i)
    BY <1>0, <1>3 DEF CancelPending, JobType, Ordered, Carries, Finalizing, Admitted
  <2> QED
    BY <2>1 DEF Carries
<1>4. CASE Collect(a)
  <2>1. PICK j : Goto(a, j) /\ j.op = job[a].op /\ j.arg = job[a].arg
                 /\ j.pc = "sessions" /\ job[a].pc = "collect"
    BY <1>4 DEF Collect
  <2> QED
    BY <2>1 DEF Ordered, Carries, Finalizing, Admitted
<1>5. CASE JoinEnd(a)
  <2> DEFINE i == [job[a] EXCEPT !.pc = "sessions", !.cur = None]
  <2>1. Goto(a, i) /\ Ordered(i) /\ Carries(job[a], i)
    BY <1>0, <1>5 DEF JoinEnd, JobType, Ordered, Carries, Finalizing, Admitted
  <2> QED
    BY <2>1 DEF Carries
<1>6. CASE FinalizeRole(a)
  <2> DEFINE i == [job[a] EXCEPT !.pc = "free"]
  <2>1. /\ Goto(a, i) /\ Ordered(i)
        /\ Admitted(i) => Admitted(job[a]) /\ i.arg = job[a].arg
    BY <1>0, <1>6 DEF FinalizeRole, AllJoined, JobType, Ordered, Admitted
  <2> QED
    BY <2>1, <1>6
<1>7. CASE FreeSessions(a) \/ EndBroadcast(a)
  <2> DEFINE i == [job[a] EXCEPT !.pc = "ending"]
  <2>1. /\ Goto(a, i) \/ Goto(a, Afterwards(a))
        /\ job[a].pc \in {"free", "sessions", "ending"}
        /\ job[a].op \in {"role", "replace"} => job[a].pc \in {"free", "ending"}
    BY <1>7 DEF FreeSessions, AllJoined, EndBroadcast
  <2>2. Ordered(i) /\ Carries(job[a], i)
    BY <1>0, <2>1 DEF JobType, Ordered, Carries, Finalizing, Admitted
  <2> QED
    BY <1>1, <1>2, <2>1, <2>2 DEF Carries
<1>8. ASSUME NEW l \in Launches, StopNext(a, l)
      PROVE  \E j : Goto(a, j) /\ Ordered(j) /\ Carries(job[a], j)
  <2> DEFINE i == [job[a] EXCEPT !.pc = "join", !.cur = l,
                                 !.todo = job[a].todo \ {l}]
  <2>1. Goto(a, i) /\ Ordered(i) /\ Carries(job[a], i)
    BY <1>0, <1>8 DEF StopNext, JobType, Ordered, Carries, Finalizing, Admitted
  <2> QED
    BY <2>1
<1> QED
  BY <1>3, <1>4, <1>5, <1>6, <1>7, <1>8 DEF Teardown, Carries

\* No call takes one client's launches and restores nothing.
NoClientDisconnect == "client" \notin Calls

\* Worker a goes on: in order, and carrying what its job is about.
GoesOn(a) ==
  /\ Ordered(job'[a])
  /\ Carries(job[a], job'[a]) \/ FinalizeRole(a) \/ Settles(a) \/ Enters(a)
  /\ Admitted(job'[a]) => (Admitted(job[a]) /\ job'[a].arg = job[a].arg) \/ Enters(a)

LEMMA OrderedKept ==
  ASSUME NoClientDisconnect, IInv, \A a \in Workers : Ordered(job[a]), [Next]_vars
  PROVE  \A a \in Workers : GoesOn(a)
<1> USE WorkersFacts, Fields
<1>0. JobInv /\ MainInv /\ job \in [Workers -> JobType]
  BY DEF IInv, JobInv
<1> DEFINE All == \A a \in Workers : GoesOn(a)
<1>1. ASSUME UNCHANGED job PROVE All
  BY <1>1 DEF GoesOn, Carries
<1>2. ASSUME NEW a \in Workers, NEW j, Goto(a, j), Ordered(j),
             Carries(job[a], j) \/ FinalizeRole(a) \/ Settles(a) \/ Enters(a),
             Admitted(j) => (Admitted(job[a]) /\ j.arg = job[a].arg) \/ Enters(a)
      PROVE  All
  <2>1. job'[a] = j /\ \A b \in Workers \ {a} : job'[b] = job[b]
    BY <1>0, <1>2, Moves
  <2>2. \A b \in Workers \ {a} : GoesOn(b)
    BY <2>1 DEF GoesOn, Carries
  <2>3. GoesOn(a)
    BY <1>2, <2>1 DEF GoesOn
  <2> QED
    BY <2>2, <2>3
<1>3. ASSUME NEW c \in Callers, CallBegins(c) PROVE All
  <2>1. CASE \E l \in Launches : StopOne(c, l)
    BY <1>1, <2>1 DEF StopOne
  <2>2. CASE ~\E l \in Launches : StopOne(c, l)
    <3>1. job[c].op = "none" /\ job[c].pc = "idle"
      BY <1>3, <2>2 DEF CallBegins, BeginLaunch, BeginReplace,
         BeginClientDisconnect, BeginRevoke, BeginRoleDisconnect, BeginCancel,
         BeginSweep, Begin
    <3>2. PICK j : Goto(c, j) /\ Ordered(j) /\ (Admitted(j) => Enters(c))
      <4>1. CASE Enters(c)
        <5>1. PICK l \in Launches : BeginLaunch(c, l) \/ BeginReplace(c, l)
          BY <4>1 DEF Enters
        <5>2. \/ Goto(c, At("launch", l, "admit"))
              \/ Goto(c, At("replace", l, "terminate"))
              \/ Goto(c, Cleaning("replace", l, inSet))
          BY <5>1 DEF BeginLaunch, BeginReplace
        <5> QED
          BY <4>1, <5>2 DEF Ordered
      <4>2. CASE ~Enters(c)
        <5>1. \/ Goto(c, At("role", None, "terminate"))
              \/ Goto(c, Cleaning("role", None, inSet))
              \/ \E k : Goto(c, At("revoke", k, "barrier"))
              \/ Goto(c, At("cancel", None, "cancelPending"))
              \/ Goto(c, Cleaning("sweep", None, Stopping))
              \/ Goto(c, Idle)
          BY <1>3, <2>2, <4>2 DEF NoClientDisconnect, CallBegins, BeginRevoke,
             BeginRoleDisconnect, BeginCancel, BeginSweep, CollectStopping,
             BeginClientDisconnect, Begin, Enters
        <5> QED
          BY <5>1 DEF Ordered, Admitted
      <4> QED
        BY <4>1, <4>2
    <3>3. Carries(job[c], j) \/ Enters(c)
      BY <3>1, <3>2 DEF Carries, Finalizing
    <3> QED
      BY <1>2, <3>2, <3>3
  <2> QED
    BY <2>1, <2>2
<1>4. ASSUME NEW c \in Callers, CallGoesOn(c) PROVE All
  <2>1. Ordered(job[c])
    OBVIOUS
  <2>2. Ordered(Idle) /\ ~Admitted(Idle)
    BY DEF Ordered, Admitted
  <2>3. CASE Settles(c)
    <3>1. Goto(c, Idle)
      BY <2>3 DEF Settles, RefuseLaunch, RaiseLaunch, CleanupIfIdle
    <3> QED
      BY <1>2, <2>2, <2>3, <3>1
  <2>4. CASE LaunchFails(c)
    <3>1. Goto(c, Idle) /\ job[c].pc = "admit"
      BY <2>4 DEF LaunchFails, Admitting
    <3>2. Carries(job[c], Idle)
      BY <2>1, <3>1 DEF Carries, Finalizing, Ordered, Admitted
    <3> QED
      BY <1>2, <2>2, <3>1, <3>2
  <2>5. CASE Recheck(c)
    <3> DEFINE i == [job[c] EXCEPT !.pc = "raise"]
    <3>1. Goto(c, i) /\ Ordered(i) /\ Carries(job[c], i)
      BY <1>0, <2>1, <2>5
         DEF Recheck, Admitting, JobType, Ordered, Carries, Finalizing, Admitted
    <3>2. Admitted(i) => Admitted(job[c]) /\ i.arg = job[c].arg
      BY <3>1 DEF Carries
    <3> HIDE DEF i
    <3> QED
      BY <1>2, <3>1, <3>2
  <2>6. CASE PassBarrier(c)
    <3>1. PICK j : /\ Goto(c, j) /\ j.op = "sweepRevoke" /\ j.pc \in {"scan", "sessions"}
                   /\ job[c].pc = "barrier"
      BY <2>6 DEF PassBarrier, SweepFor
    <3> QED
      BY <1>2, <3>1 DEF Ordered, Carries, Finalizing, Admitted
  <2>7. CASE Scan(c)
    <3>1. PICK j : /\ Goto(c, j) /\ j.op = "revoke" /\ j.pc = "sessions"
                   /\ job[c].pc = "scan"
      BY <2>1, <2>7 DEF Scan, Ordered
    <3> QED
      BY <1>2, <3>1 DEF Ordered, Carries, Finalizing, Admitted
  <2>8. CASE TerminateApp(c)
    <3>1. PICK j : /\ Goto(c, j) /\ job[c].pc = "terminate"
                   /\ \/ job[c].op = "replace" /\ j = At("replace", job[c].arg, "admit")
                      \/ job[c].op = "cancel" /\ j = At("cancel", None, "cleanup")
                      \/ job[c].op \notin {"replace", "cancel"} /\ j = Idle
      BY <2>8, Zenon DEF TerminateApp
    <3> QED
      BY <1>2, <2>1, <3>1 DEF Ordered, Carries, Finalizing, Admitted
  <2> QED
    BY <1>4, <2>3, <2>4, <2>5, <2>6, <2>7, <2>8 DEF CallGoesOn, Settles
<1>5. ASSUME NEW a \in Workers, Teardown(a) PROVE All
  <2>1. PICK j : Goto(a, j) /\ Ordered(j) /\ (FinalizeRole(a) \/ Carries(job[a], j))
                 /\ (Admitted(j) => Admitted(job[a]) /\ j.arg = job[a].arg)
    BY <1>5, OrderedTeardown
  <2> QED
    BY <1>2, <2>1
<1>6. CASE RtspHandles \/ RtspSweep \/ RtspExits \/ StopIo \/ JoinRtsp
  <2>1. PICK a \in Workers :
          /\ job[a].pc \in {"idle", "sweep", "joinRtsp"}
          /\ job[a].op \in {"none", "sweep", "final"}
          /\ \/ Goto(a, At("sweep", None, "sweep"))
             \/ Goto(a, Cleaning("sweep", None, Stopping))
             \/ Goto(a, At("clear", None, "cancelPending"))
             \/ Goto(a, At("final", None, "cancelPending"))
             \/ Goto(a, At("final", None, "done"))
             \/ Goto(a, Idle)
    <3>1. CASE StopIo
      BY <1>0, <3>1 DEF StopIo, MainInv
    <3>2. CASE JoinRtsp
      BY <3>2 DEF JoinRtsp, Ordered
    <3>3. CASE RtspHandles \/ RtspSweep \/ RtspExits
      BY <3>3 DEF RtspHandles, Announce, FinishStartup, ExpireLaunches, Ordered,
         Handled, IoRuns, AtLoop, RtspSweep, CollectStopping, RtspExits
    <3> QED
      BY <1>6, <3>1, <3>2, <3>3
  <2>2. PICK j : Goto(a, j) /\ Ordered(j) /\ ~Admitted(j)
    BY <2>1 DEF Ordered, Admitted
  <2>3. Carries(job[a], j)
    BY <2>1, <2>2 DEF Carries, Finalizing
  <2> QED
    BY <1>2, <2>2, <2>3
<1>7. CASE Worker \/ Control \/ Environment \/ UNCHANGED vars
           \/ \E l \in Launches : CaptureEnds(l)
  <2>1. UNCHANGED job
    BY <1>7 DEF Worker, TakeStartup, StartSession, Insert, StartFails, Control,
       ControlSample, ControlIterate, LaunchSessionClear, ControlExits, ControlWalk,
       Environment, LaunchComesDue, CaptureFails, AppExits, BeginShutdown, CaptureEnds,
       vars
  <2> QED
    BY <1>1, <2>1
<1> QED
  BY <1>3, <1>4, <1>5, <1>6, <1>7 DEF Next

(* Whoever waits at the barrier stays there until the gate is free.         *)
LEMMA BarrierStays ==
  ASSUME IInv, [Next]_vars, ~\E c \in Callers : PassBarrier(c)
  PROVE  /\ \A d \in Callers : \A k : AtBarrier(job[d], k) => AtBarrier(job'[d], k)
         /\ \/ UNCHANGED unpaired
            \/ \E c \in Callers, k \in Clients :
                 unpaired' = unpaired \cup {k} /\ AtBarrier(job'[c], k)
<1> USE WorkersFacts, Fields
<1>0. JobInv
  BY DEF IInv
<1>1. ASSUME NEW c \in Callers, Recheck(c) \/ Scan(c)
      PROVE  /\ \A d \in Callers : \A k : AtBarrier(job[d], k) => AtBarrier(job'[d], k)
             /\ UNCHANGED unpaired
  <2>1. PICK j : Goto(c, j) /\ job[c].pc \in {"admit", "scan"}
    BY <1>1 DEF Recheck, Scan, Admitting
  <2>2. \A b \in Workers \ {c} : job'[b] = job[b]
    BY <1>0, <2>1, Moves
  <2>3. UNCHANGED unpaired
    BY <1>1 DEF Recheck, Scan, registryVars
  <2> QED
    BY <2>1, <2>2, <2>3 DEF AtBarrier
<1>2. ASSUME NEW c \in Callers, NEW q \in Clients, BeginRevoke(c, q)
      PROVE  /\ \A d \in Callers : \A k : AtBarrier(job[d], k) => AtBarrier(job'[d], k)
             /\ unpaired' = unpaired \cup {q} /\ AtBarrier(job'[c], q)
  <2>1. /\ Goto(c, At("revoke", q, "barrier")) /\ job[c].pc = "idle"
        /\ unpaired' = unpaired \cup {q}
    BY <1>2 DEF BeginRevoke, Begin
  <2>2. /\ \A b \in Workers \ {c} : job'[b] = job[b]
        /\ job'[c].pc = "barrier" /\ job'[c].arg = q
    BY <1>0, <2>1, Moves
  <2> QED
    BY <2>1, <2>2 DEF AtBarrier
<1>3. CASE ~\E c \in Callers : Turns(c)
  BY <1>3, JobsFollow DEF Follows, AtBarrier
<1> QED
  BY <1>1, <1>2, <1>3 DEF Turns

\* A launch admitted before its client was withdrawn has the revocation wait.
Guarded ==
  \A a \in Workers :
    Admitted(job[a]) /\ ClientOf[job[a].arg] \in unpaired =>
      \E c \in Callers : AtBarrier(job[c], ClientOf[job[a].arg])

LEMMA GuardedKept ==
  ASSUME NoClientDisconnect, IInv, \A a \in Workers : Ordered(job[a]), Guarded,
         [Next]_vars
  PROVE  Guarded'
<1> USE WorkersFacts, Fields
<1> SUFFICES ASSUME NEW a \in Workers, Admitted(job'[a]),
                    ClientOf[job'[a].arg] \in unpaired'
             PROVE  \E c \in Callers : AtBarrier(job'[c], ClientOf[job'[a].arg])
  BY DEF Guarded, Admitted, AtBarrier
<1>1. GoesOn(a)
  BY OrderedKept
<1>2. CASE Enters(a)
  <2>1. PICK l \in Launches : BeginLaunch(a, l) \/ BeginReplace(a, l)
    BY <1>2 DEF Enters
  <2>2. /\ ClientOf[l] \notin unpaired /\ UNCHANGED unpaired
        /\ \E j : Goto(a, j) /\ j.arg = l
    BY <2>1 DEF BeginLaunch, BeginReplace, registryVars
  <2>3. job'[a].arg = l
    BY <2>2, Moves DEF IInv
  <2> QED
    BY <2>2, <2>3
<1>3. CASE ~Enters(a)
  <2>1. Admitted(job[a]) /\ job'[a].arg = job[a].arg
    BY <1>1, <1>3 DEF GoesOn
  <2>2. ~\E c \in Callers : PassBarrier(c)
    <3>1. gate = a
      BY <2>1 DEF Admitted, Admits, IInv, AdmitInv
    <3> QED
      BY <3>1 DEF PassBarrier, StartAdmitted, Free
  <2>3. CASE ClientOf[job[a].arg] \in unpaired
    BY <2>1, <2>2, <2>3, BarrierStays DEF Guarded
  <2>4. CASE ClientOf[job[a].arg] \notin unpaired
    BY <2>1, <2>2, <2>4, BarrierStays
  <2> QED
    BY <2>3, <2>4
<1> QED
  BY <1>2, <1>3
-----------------------------------------------------------------------------
(* Who owns the runtime.                                                    *)

Owned == Pending # {} \/ startups > 0 \/ running # 0 \/ teardown # 0

(* A session in the set is counted as running.                              *)
LEMMA OwnerCounted ==
  IInv => (HasSharedRuntimeOwner => Owned)
<1> SUFFICES ASSUME IInv, inSet # {} PROVE running # 0
  BY DEF HasSharedRuntimeOwner, HasPendingLaunchOrStartup, Owned
<1>1. PICK l : l \in inSet
  OBVIOUS
<1>2. l \in Alive
  BY <1>1 DEF IInv, HeldInv, Live, Alive, SessionInv, SessionTypes
<1>3. \A a \in Workers : l \notin Joined(a)
  BY <1>1 DEF IInv, HeldInv, Joined
<1>4. Counted # {}
  BY <1>2, <1>3 DEF Counted
<1> QED
  BY <1>4, FiniteCounts, FS_EmptySet DEF IInv, CountInv

\* The steps that take an owner away and restore nothing yet.
Disowns(c) ==
  \/ \E l \in Launches : BeginReplace(c, l)
  \/ BeginRoleDisconnect(c) \/ Scan(c)

LEMMA OwnedStays ==
  ASSUME IInv, [Next]_vars, Owned, ~FinalizeSharedRuntimeIfIdle,
         ~\E c \in Callers : Disowns(c) \/ Settles(c)
  PROVE  Owned'
<1> USE DEF Owned, Pending, registryVars, startupVars, countVars
<1>0. /\ startups \in Nat /\ running \in Nat /\ teardown \in Nat
      /\ entry \in [Launches -> {"new", "pending", "gone"}]
  BY FiniteCounts DEF IInv, CountInv, RegistryInv, SessionInv, SessionTypes
<1>1. ASSUME NEW c \in Callers, CallBegins(c) PROVE Owned'
  BY <1>1 DEF CallBegins, Disowns, BeginLaunch, StopOne, BeginClientDisconnect,
     SweepFor, BeginRevoke, BeginCancel, BeginSweep, CollectStopping
<1>2. ASSUME NEW c \in Callers, CallGoesOn(c) PROVE Owned'
  <2>1. CASE LaunchFails(c)
    <3>1. entry[job[c].arg] = "new"
      BY <2>1, WorkersFacts DEF LaunchFails, Admitting, IInv, AdmitInv, Admits
    <3> QED
      BY <1>0, <2>1, <3>1 DEF LaunchFails
  <2> QED
    BY <1>2, <2>1 DEF CallGoesOn, Disowns, Settles, Recheck, PassBarrier, SweepFor,
       TerminateApp
<1>3. ASSUME NEW a \in Workers, Teardown(a) PROVE Owned'
  <2>1. CASE CancelPending(a)
    BY <2>1 DEF CancelPending, Erase
  <2>2. CASE JoinEnd(a)
    <3>1. running' = running - 1 /\ running # 1
      BY <2>2 DEF JoinEnd
    <3>2. running' # 0
      BY ONLY <1>0, <3>1
    <3> QED
      BY <3>2
  <2>3. CASE \E l \in Launches : StopNext(a, l)
    BY <1>0, <2>3 DEF StopNext
  <2> QED
    BY <1>3, <2>1, <2>2, <2>3 DEF Teardown, Collect, FinalizeRole, FreeSessions,
       EndBroadcast
<1>4. RtspHandles \/ Control \/ Environment \/ UNCHANGED vars => Owned'
  <2>1. ASSUME LaunchSessionClear PROVE Owned'
    BY <2>1 DEF LaunchSessionClear, Erase
  <2>2. ASSUME NEW l \in Launches, Announce(l) PROVE Owned'
    BY <1>0, <2>2 DEF Announce
  <2> QED
    BY <2>1, <2>2 DEF RtspHandles, FinishStartup, ExpireLaunches, Control,
     ControlSample, ControlIterate, ControlExits, ControlWalk,
     Environment, LaunchComesDue, CaptureFails, AppExits, BeginShutdown, vars
<1>5. CASE StartSession
  <2>1. running' = running + 1
    BY <1>5 DEF StartSession
  <2>2. running' # 0
    BY ONLY <1>0, <2>1
  <2> QED
    BY <2>2
<1>6. RtspSweep \/ RtspExits \/ TakeStartup \/ Insert \/ StartFails \/ StopIo \/ JoinRtsp
           \/ (\E l \in Launches : CaptureEnds(l)) => Owned'
  BY DEF RtspSweep, CollectStopping, RtspExits, TakeStartup, Insert, StartFails,
     StopIo, JoinRtsp, CaptureEnds
<1> QED
  BY <1>1, <1>2, <1>3, <1>4, <1>5, <1>6 DEF Next, Worker
-----------------------------------------------------------------------------
(* What is owed.                                                            *)

Covered == Owned \/ Raises \/ \E a \in Workers : Finalizing(job[a])

\* While the restoration is owed, something owns the runtime, a launch is about
\* to, or a call is on its way to finalize.
OwedInv ==
  /\ \A a \in Workers : Ordered(job[a])
  /\ Guarded
  /\ armed => Covered

(* A step that hands the runtime over, or leaves it, is followed by another.*)
LEMMA OwedHandedOver ==
  ASSUME NoClientDisconnect, IInv, OwedInv, [Next]_vars, NEW c \in Callers,
         Disowns(c) \/ Enters(c), armed
  PROVE  Covered'
<1> USE WorkersFacts, Fields
<1>0. JobInv
  BY DEF IInv
<1>1. ASSUME NEW j, Goto(c, j), Finalizing(j) PROVE Covered'
  BY <1>0, <1>1, Moves DEF Covered, Finalizing
<1>2. ASSUME NEW j, Goto(c, j), ~Finalizing(job[c]), job[c].pc # "raise",
             UNCHANGED <<startups, running, teardown>>, Pending' = Pending
      PROVE  Covered'
  <2>1. \A b \in Workers \ {c} : job'[b] = job[b]
    BY <1>0, <1>2, Moves
  <2>2. Owned => Owned'
    BY <1>2 DEF Owned
  <2>3. Raises => Raises'
    BY <1>2, <2>1 DEF Raises
  <2>4. ASSUME NEW a \in Workers, Finalizing(job[a]) PROVE Finalizing(job'[a])
    BY <1>2, <2>1, <2>4
  <2> QED
    BY <2>2, <2>3, <2>4 DEF OwedInv, Covered, Finalizing
<1>3. CASE Scan(c)
  <2>1. PICK j : Goto(c, j) /\ j.op = "revoke"
    <3>1. job[c].op # "sweepClient"
      BY DEF OwedInv, Ordered
    <3> QED
      BY <1>3, <3>1 DEF Scan
  <2> QED
    BY <1>1, <2>1 DEF Finalizing
<1>4. CASE BeginRoleDisconnect(c) \/ \E l \in Launches : BeginReplace(c, l)
  <2>1. job[c] = Idle /\ UNCHANGED <<startups, running, teardown>> /\ Erase(Pending)
    BY <1>4 DEF BeginRoleDisconnect, BeginReplace, Begin, startupVars, countVars
  <2>2. \/ \E j : Goto(c, j) /\ Finalizing(j)
        \/ Pending = {} /\ \E j : Goto(c, j)
    BY <1>4 DEF BeginRoleDisconnect, BeginReplace, Finalizing
  <2>3. Pending = {} => Pending' = Pending
    BY <2>1 DEF Erase, Pending
  <2> QED
    BY <1>1, <1>2, <2>1, <2>2, <2>3 DEF Finalizing
<1>5. ASSUME NEW l \in Launches, BeginLaunch(c, l) PROVE Covered'
  <2>1. /\ job[c] = Idle /\ UNCHANGED <<startups, running, teardown>>
        /\ Pending' = Pending /\ \E j : Goto(c, j)
    BY <1>5 DEF BeginLaunch, Begin, startupVars, countVars, registryVars, Pending
  <2> QED
    BY <1>2, <2>1 DEF Finalizing
<1> QED
  BY <1>3, <1>4, <1>5 DEF Disowns, Enters

(* A refusal arms the cleanup again: another launch is pending, or the      *)
(* revocation that caused it waits at the barrier.                          *)
LEMMA OwedSettled ==
  ASSUME IInv, IInv', OwedInv, [Next]_vars, NEW c \in Callers, Settles(c), armed'
  PROVE  Covered'
<1> USE WorkersFacts, Fields
<1>0. /\ JobInv /\ RegistryInv
      /\ entry \in [Launches -> {"new", "pending", "gone"}]
  BY DEF IInv, RegistryInv
<1>1. CASE RaiseLaunch(c)
  <2>1. job[c].arg \in Launches
    BY <1>1 DEF RaiseLaunch, Raising, IInv, AdmitInv, Admits
  <2>2. job[c].arg \in Pending'
    BY <1>1, <2>1 DEF RaiseLaunch, Pending
  <2> QED
    BY <2>2 DEF Covered, Owned
<1>2. CASE CleanupIfIdle(c)
  <2>1. HasSharedRuntimeOwner'
    BY <1>2 DEF CleanupIfIdle, FinalizeSharedRuntimeIfIdle
  <2>2. (HasSharedRuntimeOwner => Owned)'
    BY OwnerCounted, PTL
  <2> QED
    BY <2>1, <2>2 DEF Covered
<1>3. CASE RefuseLaunch(c)
  <2>0. Goto(c, Idle) /\ job[c].pc \in {"admit", "raise"}
    BY <1>3 DEF RefuseLaunch, Admitting, Raising
  <2>1. job[c].arg \in Launches /\ entry[job[c].arg] = "new"
    BY <2>0 DEF IInv, AdmitInv, Admits
  <2>2. CASE Raising(c) /\ Pending \ due # {} /\ Erase(due \cup {job[c].arg})
    <3>1. PICK l : l \in Pending \ due
      BY <2>2
    <3>2. l \in Pending'
      BY <2>1, <2>2, <3>1 DEF Erase, Pending
    <3> QED
      BY <3>2 DEF Covered, Owned
  <2>3. CASE Admitting(c) /\ ClientOf[job[c].arg] \in unpaired
    <3>1. Admitted(job[c])
      BY <2>0 DEF OwedInv, Ordered, Admitted
    <3>2. PICK d \in Callers : AtBarrier(job[d], ClientOf[job[c].arg])
      BY <2>3, <3>1 DEF OwedInv, Guarded
    <3>3. job[d].pc = "barrier" /\ job[d].op = "revoke" /\ d # c
      BY <2>0, <3>2 DEF AtBarrier, OwedInv, Ordered
    <3>4. job'[d] = job[d]
      BY <1>0, <2>0, <3>3, Moves
    <3> QED
      BY <3>3, <3>4 DEF Covered, Finalizing
  <2> QED
    BY <1>3, <2>2, <2>3 DEF RefuseLaunch
<1> QED
  BY <1>1, <1>2, <1>3 DEF Settles

LEMMA OwedKept ==
  ASSUME NoClientDisconnect, IInv, IInv', OwedInv, [Next]_vars
  PROVE  OwedInv'
<1> USE WorkersFacts
<1>1. /\ \A a \in Workers : GoesOn(a)
      /\ Guarded'
  BY OrderedKept, GuardedKept DEF OwedInv
<1>2. \A a \in Workers : Ordered(job'[a])
  BY <1>1 DEF GoesOn
<1>3. ASSUME armed' PROVE Covered'
  <2>1. CASE \E c \in Callers : Settles(c)
    BY <1>3, <2>1, OwedSettled
  <2>2. CASE FinalizeSharedRuntimeIfIdle
    <3>1. HasSharedRuntimeOwner'
      BY <1>3, <2>2 DEF FinalizeSharedRuntimeIfIdle
    <3>2. (HasSharedRuntimeOwner => Owned)'
      BY OwnerCounted, PTL
    <3> QED
      BY <3>1, <3>2 DEF Covered
  <2>3. ASSUME NEW c \in Callers, Recheck(c) PROVE Covered'
    <3>1. Goto(c, [job[c] EXCEPT !.pc = "raise"]) /\ job[c] \in JobType
      BY <2>3 DEF Recheck, IInv, JobInv
    <3>2. job'[c].pc = "raise"
      BY <3>1 DEF Goto, IInv, JobInv, JobType
    <3> QED
      BY <3>2 DEF Covered, Raises
  <2>4. CASE StartSession
    <3>1. running' = running + 1 /\ running \in Nat
      BY <2>4, FiniteCounts DEF StartSession, IInv, CountInv
    <3>2. running' # 0
      BY ONLY <3>1
    <3> QED
      BY <3>2 DEF Covered, Owned
  <2>5. CASE /\ ~\E c \in Callers : Settles(c) \/ Recheck(c)
             /\ ~FinalizeSharedRuntimeIfIdle /\ ~StartSession
    <3>1. armed
      BY <1>3, <2>5, ArmingSteps DEF Settles
    <3>2. CASE \E c \in Callers : Disowns(c) \/ Enters(c)
      BY <3>1, <3>2, OwedHandedOver
    <3>3. CASE ~\E c \in Callers : Disowns(c) \/ Enters(c)
      <4>1. Owned => Owned'
        BY <2>5, <3>3, OwnedStays
      <4>2. \A a \in Workers : Carries(job[a], job'[a])
        <5> TAKE a \in Workers
        <5>1. ~FinalizeRole(a)
          BY <2>5 DEF FinalizeRole
        <5>2. ~Settles(a)
          BY <2>5 DEF Settles
        <5>3. ~Enters(a)
          BY <3>3 DEF Enters
        <5> QED
          BY <1>1, <5>1, <5>2, <5>3 DEF GoesOn
      <4>3. Raises => Raises'
        BY <4>2 DEF Raises, Carries
      <4>4. \A a \in Workers : Finalizing(job[a]) => Finalizing(job'[a])
        BY <4>2 DEF Carries
      <4>5. (\E a \in Workers : Finalizing(job[a])) => (\E a \in Workers : Finalizing(job'[a]))
        BY <4>4
      <4> QED
        BY <3>1, <4>1, <4>3, <4>5 DEF OwedInv, Covered, Finalizing
    <3> QED
      BY <3>2, <3>3
  <2> QED
    BY <2>1, <2>2, <2>3, <2>4, <2>5
<1> QED
  BY <1>1, <1>2, <1>3 DEF OwedInv

(* While the restoration of displays and platform is owed, something still  *)
(* owns the runtime, the gate is held, or a call is on its way to           *)
(* finalize_shared_runtime_if_idle: every path that takes the last owner    *)
(* away comes back to it, but the disconnect of one client.                 *)
THEOREM CleanupOwedHolds ==
  ASSUME NoClientDisconnect
  PROVE  Spec => []CleanupOwed
<1>1. Init => OwedInv
  <2> SUFFICES ASSUME Init PROVE OwedInv
    OBVIOUS
  <2>1. /\ \A a \in Workers : job[a] = Idle
        /\ armed = FALSE /\ unpaired = {}
    BY DEF Init
  <2> QED
    BY <2>1, Fields DEF OwedInv, Ordered, Guarded, Admitted
<1>2. IInv /\ IInv' /\ OwedInv /\ [Next]_vars => OwedInv'
  BY OwedKept
<1>3. IInv /\ OwedInv => CleanupOwed
  <2> SUFFICES ASSUME IInv, OwedInv, armed, Free PROVE
         HasSharedRuntimeOwner \/ \E a \in Workers : WillFinalize(a)
    BY DEF CleanupOwed
  <2>1. ~Raises
    BY WorkersFacts DEF Raises, Free, IInv, AdmitInv, Admits
  <2>2. Owned => HasSharedRuntimeOwner
    BY DEF Owned, HasSharedRuntimeOwner, HasPendingLaunchOrStartup
  <2> QED
    BY <2>1, <2>2 DEF OwedInv, Covered, Finalizing, WillFinalize
<1> QED
  BY <1>1, <1>2, <1>3, Invariant, PTL DEF Spec

-----------------------------------------------------------------------------
(* Shutdown.                                                                *)

\* A session is not lost: while it is alive somebody has it.
Has(l) ==
  \/ l \in inSet
  \/ task.started /\ task.l = l
  \/ \E a \in Workers : l \in job[a].mine

AliveHeld == \A l \in Alive : Has(l)

\* The RTSP thread is past its loop.
Leaving == job["rtsp"].op = "final"

DownInv ==
  /\ AliveHeld
  /\ server = "stopped" => pool = <<>> /\ task = NoTask
  /\ Leaving => server # "up" /\ startups = 0
  /\ Leaving /\ job["rtsp"].pc \notin {"cancelPending", "collect"} => inSet = {}
  /\ job["rtsp"].pc = "sweep" => ~Leaving
  /\ job["rtsp"].pc = "done" => Leaving
  /\ job["main"].pc = "done" => job["rtsp"].pc = "done"
(* Every step leaves each live session with a holder.                       *)
LEMMA AliveHeldKept ==
  ASSUME IInv, AliveHeld, [Next]_vars
  PROVE  AliveHeld'
<1> USE DEF IInv
<1>0. /\ sess \in [Launches -> {"none", "running", "stopping", "freed"}]
      /\ \A a \in Workers : job[a].mine \subseteq Launches
      /\ inSet \subseteq Launches
  BY DEF SessionInv, SessionTypes, JobInv, JobType
<1> SUFFICES ASSUME NEW l \in Launches, sess'[l] \in Live
             PROVE  Has(l)'
  BY DEF AliveHeld, Alive, Live
<1>1. sess[l] \in Live => Has(l)
  BY DEF AliveHeld, Alive, Live
<1>2. ASSUME SessionsStay, MineStays, UNCHANGED <<inSet, task>>
      PROVE  Has(l)'
  BY <1>1, <1>2 DEF SessionsStay, MineStays, Has
<1>3. HandsSame => MineStays
  BY DEF HandsSame, SameHands, MineStays
<1>4. CASE Aside
  BY <1>2, <1>3, <1>4 DEF Aside, startupVars, SessionsStay
<1>5. CASE Startup
  <2>1. CASE FinishStartup \/ \E k \in Launches : Announce(k)
    BY <2>1, <1>2, <1>3, HandlersAside DEF SessionsStay
  <2>2. CASE TakeStartup \/ StartFails
    <3>1. ~task.started /\ UNCHANGED <<job, inSet, sess>>
      BY <2>2 DEF TakeStartup, StartFails, NoTask, sessionVars
    <3> QED
      BY <3>1, <1>1 DEF Has
  <2>3. CASE StartSession
    <3>1. /\ task # NoTask /\ task' = [task EXCEPT !.started = TRUE] /\ ~task.started
          /\ sess' = [sess EXCEPT ![task.l] = "running"] /\ UNCHANGED <<job, inSet>>
      BY <2>3 DEF StartSession
    <3>2. task'.started /\ task'.l = task.l
      BY <3>1 DEF SessionInv, SessionTypes
    <3>3. l # task.l => sess'[l] = sess[l]
      BY <3>1, <1>0
    <3> QED
      BY <3>1, <3>2, <3>3, <1>1 DEF Has
  <2>4. CASE Insert
    <3>1. inSet' = inSet \cup {task.l} /\ UNCHANGED <<job, sess>>
      BY <2>4 DEF Insert
    <3> QED
      BY <3>1, <1>1 DEF Has
  <2> QED
    BY <1>5, <2>1, <2>2, <2>3, <2>4 DEF Startup
<1>6. ASSUME NEW ls \in SUBSET Launches, Stops(ls) PROVE Has(l)'
  BY <1>2, <1>3, <1>6, StoppedStays DEF Stops, startupVars
<1>7. ASSUME NEW a \in Workers, NEW ls \in SUBSET Launches, Takes(a, ls) PROVE Has(l)'
  BY <1>1, <1>7 DEF Takes, startupVars, Has
<1>8. ASSUME NEW a \in Workers, JoinEnd(a) PROVE Has(l)'
  <2>1. UNCHANGED <<sess, inSet, task>> /\ MineStays
    BY <1>8, TeardownHands DEF JoinEnd, sessionVars, startupVars, OthersStay, MineStays
  <2> QED
    BY <2>1, <1>2 DEF SessionsStay
<1>9. ASSUME NEW a \in Workers, NEW k \in Launches, StopNext(a, k) PROVE Has(l)'
  <2>1. sess' = Stopped({k}) /\ UNCHANGED <<inSet, task>> /\ MineStays
    BY <1>9, TeardownHands DEF StopNext, startupVars, OthersStay, MineStays
  <2> QED
    BY <2>1, <1>2, StoppedStays
<1>10. ASSUME NEW a \in Workers, EndBroadcast(a) PROVE Has(l)'
  <2>1. UNCHANGED <<sess, inSet, task>> /\ OthersStay(a) /\ job[a].pc = "ending"
    BY <1>10, TeardownHands DEF EndBroadcast, startupVars
  <2>2. l \notin job[a].mine
    BY <2>1 DEF HeldInv, Live
  <2> QED
    BY <1>1, <2>1, <2>2 DEF Has, OthersStay
<1>11. ASSUME NEW a \in Workers, FreeSessions(a) PROVE Has(l)'
  <2>1. /\ sess' = [k \in Launches |-> IF k \in job[a].mine THEN "freed" ELSE sess[k]]
        /\ UNCHANGED <<inSet, task>> /\ OthersStay(a)
    BY <1>11, TeardownHands DEF FreeSessions, startupVars
  <2>2. l \notin job[a].mine /\ sess[l] \in Live
    BY <2>1 DEF Live
  <2> QED
    BY <1>1, <2>1, <2>2 DEF Has, OthersStay
<1> QED
  BY <1>4, <1>5, <1>6, <1>7, <1>8, <1>9, <1>10, <1>11, SessionEffects DEF SessionEffect

(* With no startup under way nothing is queued, started or posted.           *)
LEMMA IdlePool ==
  ASSUME IInv, startups = 0
  PROVE  pool = <<>> /\ posted = <<>> /\ task = NoTask
<1>1. /\ startups = Len(pool) + Len(posted) + (IF task = NoTask THEN 0 ELSE 1)
      /\ pool \in Seq(Launches) /\ posted \in Seq(Launches)
  BY DEF IInv, CountInv, SessionInv, SessionTypes
<1>2. Len(pool) \in Nat /\ Len(posted) \in Nat
  BY <1>1
<1>3. Len(pool) = 0 /\ Len(posted) = 0 /\ task = NoTask
  BY <1>1, <1>2
<1> QED
  BY <1>1, <1>3

(* Where the thread goes on that clears the sessions at shutdown.           *)
LEMMA AfterwardsPlace ==
  ASSUME NEW a
  PROVE  /\ Afterwards(a).pc \in {"idle", "terminate", "cleanup", "scan", "done", "joinRtsp"}
         /\ Afterwards(a).pc = "done" => Afterwards(a).op = "final"
         /\ a # "rtsp" => Afterwards(a).pc # "done"
         /\ Afterwards(a).op = "final" => job[a].op = "final"
<1>1. CASE job[a].op = "final"
  BY <1>1, Fields DEF Afterwards
<1>2. CASE job[a].op # "final"
  <2>1. \/ Afterwards(a) = At(job[a].op, job[a].arg, "terminate")
        \/ Afterwards(a) = At("revoke", job[a].arg, "cleanup")
        \/ Afterwards(a) = At(job[a].op, job[a].arg, "scan")
        \/ Afterwards(a) = Idle
    BY <1>2, Zenon DEF Afterwards
  <2> QED
    BY <1>2, <2>1, Fields
<1> QED
  BY <1>1, <1>2

(* Where a teardown takes its worker.                                       *)
LEMMA TeardownMoves ==
  ASSUME JobInv, NEW a \in Workers, Teardown(a)
  PROVE  /\ \A b \in Workers \ {a} : job'[b] = job[b]
         /\ job[a].pc \notin {"idle", "sweep", "done"}
         /\ \/ job'[a].op = job[a].op /\ job'[a].pc \in {"collect", "sessions", "join", "free", "ending"}
            \/ job[a].pc \notin {"cancelPending", "collect"} /\ job'[a] = Afterwards(a)
         /\ job[a].pc = "cancelPending" => job'[a].pc = "collect"
         /\ job'[a].pc = "collect" => job[a].pc = "cancelPending"
         /\ job[a].pc = "collect" => inSet' = {}
<1> USE Moves, Fields
<1>0. job[a] \in JobType
  BY DEF JobInv
<1>1. CASE CancelPending(a)
  BY <1>0, <1>1 DEF CancelPending, JobType
<1>2. CASE Collect(a)
  BY <1>0, <1>2 DEF Collect, JobType
<1>3. CASE JoinEnd(a)
  <2> DEFINE j == [job[a] EXCEPT !.pc = "sessions", !.cur = None]
  <2>1. j.pc = "sessions" /\ j.op = job[a].op
    BY <1>0 DEF JobType
  <2>2. Goto(a, j) /\ job[a].pc = "join"
    BY <1>3 DEF JoinEnd
  <2> HIDE DEF j
  <2> QED
    BY <2>1, <2>2
<1>4. CASE FinalizeRole(a)
  BY <1>0, <1>4 DEF FinalizeRole, AllJoined, JobType
<1>5. CASE FreeSessions(a)
  <2>1. job[a].pc \in {"free", "sessions"}
    BY <1>5 DEF FreeSessions, AllJoined
  <2>2. job'[a] = [job[a] EXCEPT !.pc = "ending"] \/ job'[a] = Afterwards(a)
    BY <1>5 DEF FreeSessions
  <2> QED
    BY <1>0, <1>5, <2>1, <2>2, TeardownHands, AfterwardsPlace DEF OthersStay, JobType
<1>6. CASE EndBroadcast(a)
  BY <1>0, <1>6, AfterwardsPlace DEF EndBroadcast
<1>7. ASSUME NEW l \in Launches, StopNext(a, l)
      PROVE  /\ OthersStay(a) /\ job[a].pc = "sessions"
             /\ job'[a].op = job[a].op /\ job'[a].pc = "join"
  <2> DEFINE j == [job[a] EXCEPT !.pc = "join", !.cur = l,
                                 !.todo = job[a].todo \ {l}]
  <2>1. j.pc = "join" /\ j.op = job[a].op
    BY <1>0 DEF JobType
  <2>2. Goto(a, j) /\ job[a].pc = "sessions"
    BY <1>7 DEF StopNext
  <2> HIDE DEF j
  <2> QED
    BY <2>1, <2>2 DEF OthersStay
<1> QED
  BY <1>1, <1>2, <1>3, <1>4, <1>5, <1>6, <1>7 DEF Teardown, OthersStay

(* What a step does to the two threads that shut down, and to the set.       *)
LEMMA DownKept ==
  ASSUME IInv, DownInv, [Next]_vars
  PROVE  DownInv'
<1> USE DEF Leaving
<1>0. /\ JobInv /\ MainInv /\ SessionInv /\ AliveHeld'
      /\ startups = 0 => pool = <<>> /\ posted = <<>> /\ task = NoTask
  BY AliveHeldKept, IdlePool DEF IInv, DownInv
<1> DEFINE Rest ==
  /\ server = "stopped" => pool = <<>> /\ task = NoTask
  /\ Leaving => server # "up" /\ startups = 0
  /\ Leaving /\ job["rtsp"].pc \notin {"cancelPending", "collect"} => inSet = {}
  /\ job["rtsp"].pc = "sweep" => ~Leaving
  /\ job["rtsp"].pc = "done" => Leaving
  /\ job["main"].pc = "done" => job["rtsp"].pc = "done"
<1> SUFFICES Rest'
  BY <1>0 DEF DownInv
<1>1. ASSUME NEW c \in Callers, CallBegins(c) \/ CallGoesOn(c) PROVE Rest'
  <2>1. /\ UNCHANGED <<server, startupVars>> /\ inSet' \subseteq inSet
        /\ \E j : Goto(c, j) \/ UNCHANGED job
    BY <1>1 DEF CallBegins, BeginLaunch, BeginReplace, StopOne,
       BeginClientDisconnect, SweepFor, BeginRevoke, BeginRoleDisconnect, BeginCancel,
       BeginSweep, CollectStopping, CallGoesOn, LaunchFails, Recheck, RefuseLaunch,
       RaiseLaunch, PassBarrier, Scan, TerminateApp, CleanupIfIdle, sessionVars
  <2>2. c \notin {"rtsp", "main"} /\ c \in Workers
    BY StreamAssumption, WorkersFacts DEF StreamAssumption
  <2>3. job'["rtsp"] = job["rtsp"] /\ job'["main"] = job["main"]
    BY <1>0, <2>1, <2>2, WorkersFacts, Moves
  <2> QED
    BY <2>1, <2>3 DEF DownInv, startupVars
<1>2. ASSUME NEW a \in Workers, Teardown(a) PROVE Rest'
  <2>1. UNCHANGED <<server, startupVars>> /\ inSet' \subseteq inSet
    BY <1>2 DEF Teardown, CancelPending, Collect, JoinEnd, FinalizeRole, FreeSessions,
       EndBroadcast, StopNext, sessionVars
  <2>2. /\ \A b \in Workers \ {a} : job'[b] = job[b]
        /\ job[a].pc \notin {"idle", "sweep", "done"}
        /\ \/ job'[a].op = job[a].op /\ job'[a].pc \in {"collect", "sessions", "join", "free", "ending"}
           \/ job[a].pc \notin {"cancelPending", "collect"} /\ job'[a] = Afterwards(a)
        /\ job[a].pc = "cancelPending" => job'[a].pc = "collect"
        /\ job'[a].pc = "collect" => job[a].pc = "cancelPending"
        /\ job[a].pc = "collect" => inSet' = {}
    BY <1>0, <1>2, TeardownMoves
  <2>3. CASE a = "rtsp"
    <3>1. job'["main"] = job["main"]
      BY <2>2, <2>3, WorkersFacts
    <3>2. Leaving' => Leaving
      BY <2>2, <2>3, AfterwardsPlace
    <3>3. job'["rtsp"].pc = "done" => Leaving'
      BY <2>2, <2>3, AfterwardsPlace
    <3>4. job'["rtsp"].pc # "sweep" /\ job["rtsp"].pc # "done"
      BY <2>2, <2>3, AfterwardsPlace
    <3>5. Leaving' /\ job'["rtsp"].pc \notin {"cancelPending", "collect"} => inSet' = {}
      BY <2>1, <2>2, <2>3, <3>2 DEF DownInv
    <3> QED
      BY <2>1, <3>1, <3>2, <3>3, <3>4, <3>5 DEF DownInv, startupVars
  <2>4. CASE a = "main"
    <3>1. job'["rtsp"] = job["rtsp"] /\ job'["main"].pc # "done"
      BY <2>2, <2>4, AfterwardsPlace, WorkersFacts
    <3> QED
      BY <2>1, <3>1 DEF DownInv, startupVars
  <2>5. CASE a \notin {"rtsp", "main"}
    <3>1. job'["rtsp"] = job["rtsp"] /\ job'["main"] = job["main"]
      BY <2>2, <2>5, WorkersFacts
    <3> QED
      BY <2>1, <3>1 DEF DownInv, startupVars
  <2> QED
    BY <2>3, <2>4, <2>5
<1>3. CASE RtspHandles \/ RtspSweep
  <2>1. /\ ~Leaving /\ UNCHANGED <<server, task>>
        /\ server = "stopped" => UNCHANGED pool
        /\ job["rtsp"].pc # "done"
    BY <1>3, Fields DEF RtspHandles, Announce, FinishStartup, ExpireLaunches, IoRuns,
       AtLoop, RtspSweep, CollectStopping, startupVars, DownInv
  <2>2. \E ls : \/ Goto("rtsp", Idle) \/ Goto("rtsp", At("sweep", None, "sweep"))
                \/ Goto("rtsp", At("clear", None, "cancelPending"))
                \/ Goto("rtsp", Cleaning("sweep", None, ls))
    BY <1>3 DEF RtspHandles, Announce, FinishStartup, ExpireLaunches, Handled,
       RtspSweep, CollectStopping
  <2>3. /\ job'["rtsp"].op # "final" /\ job'["rtsp"].pc # "done"
        /\ job'["main"] = job["main"]
    BY <1>0, <2>2, Fields, Moves, WorkersFacts
  <2> QED
    BY <2>1, <2>3 DEF DownInv
<1>4. CASE RtspExits
  <2>1. /\ server # "up" /\ startups = 0 /\ UNCHANGED <<server, startupVars>>
        /\ job["rtsp"].pc = "idle"
    BY <1>4, Fields DEF RtspExits, LoopEnds, AtLoop
  <2>2. /\ job'["rtsp"].op = "final" /\ job'["rtsp"].pc = "cancelPending"
        /\ job'["main"] = job["main"]
    BY <1>0, <1>4, Fields, Moves, WorkersFacts DEF RtspExits
  <2> QED
    BY <2>1, <2>2 DEF DownInv, startupVars
<1>5. CASE StopIo \/ JoinRtsp
  <2>1. /\ job'["rtsp"] = job["rtsp"] /\ UNCHANGED <<startupVars, inSet>>
        /\ job'["main"].pc = "done" => job["rtsp"].pc = "done"
        /\ \/ UNCHANGED server
           \/ server = "draining" /\ server' = "stopped" /\ pool = <<>> /\ task = NoTask
    BY <1>0, <1>5, Fields, Moves, WorkersFacts DEF StopIo, JoinRtsp, sessionVars
  <2> QED
    BY <2>1 DEF DownInv, startupVars
<1>6. CASE Worker
  <2>1. UNCHANGED <<server, startups, job>>
    BY <1>6 DEF Worker, TakeStartup, StartSession, Insert, StartFails
  <2>2. ~(pool = <<>> /\ task = NoTask)
    <3>1. NoTask.started = FALSE
      BY DEF NoTask
    <3> QED
      BY <1>6, <3>1 DEF Worker, TakeStartup, StartSession, Insert, StartFails
  <2> QED
    BY <1>0, <2>1, <2>2 DEF DownInv
<1>7. CASE Control \/ Environment \/ (\E l \in Launches : CaptureEnds(l)) \/ UNCHANGED vars
  <2>1. UNCHANGED <<startupVars, inSet, job>> /\ (server' = server \/ (server = "up" /\ server' = "draining"))
    BY <1>7 DEF Control, ControlSample, ControlIterate, LaunchSessionClear, ControlExits,
       ControlWalk, Environment, LaunchComesDue, CaptureFails, AppExits, BeginShutdown,
       CaptureEnds, vars, sessionVars
  <2> QED
    BY <2>1 DEF DownInv, startupVars
<1> HIDE DEF Rest
<1> QED
  BY <1>1, <1>2, <1>3, <1>4, <1>5, <1>6, <1>7 DEF Next

(* When the RTSP server has shut down nothing is queued, started or posted, *)
(* the set is empty, and a session still alive is in the hands of a caller  *)
(* that joins it: the RTSP loop ends only with no startup under way, and    *)
(* clear() takes what is left out of the set before it is over.             *)
THEOREM ShutdownCleanHolds == Spec => []ShutdownClean
<1>1. Init => DownInv
  BY Fields, WorkersFacts DEF Init, DownInv, AliveHeld, Alive, Leaving
<1>2. IInv /\ DownInv /\ [Next]_vars => DownInv'
  BY DownKept
<1>3. IInv /\ DownInv => ShutdownClean
  <2> SUFFICES ASSUME IInv, DownInv, job["main"].pc = "done" PROVE
         /\ startups = 0 /\ pool = <<>> /\ posted = <<>> /\ task = NoTask
         /\ inSet = {}
         /\ Alive \subseteq UNION {job[c].mine : c \in Callers}
    BY DEF ShutdownClean
  <2>1. /\ startups = 0 /\ pool = <<>> /\ posted = <<>> /\ task = NoTask
        /\ inSet = {} /\ job["rtsp"].pc = "done"
    BY IdlePool DEF DownInv, Leaving
  <2>2. job["rtsp"].mine = {} /\ job["main"].mine = {}
    BY <2>1, WorkersFacts DEF IInv, JobInv, JobShape
  <2>3. ASSUME NEW l \in Alive PROVE \E c \in Callers : l \in job[c].mine
    <3>1. ~task.started
      BY <2>1 DEF NoTask
    <3> QED
      BY <2>1, <2>2, <3>1 DEF DownInv, AliveHeld, Has, Workers
  <2> QED
    BY <2>1, <2>3
<1> QED
  BY <1>1, <1>2, <1>3, Invariant, PTL DEF Spec

-----------------------------------------------------------------------------
(* The control thread's list.                                               *)

\* Nobody but the control thread raises controlEnd.
NoGracefulStop == Calls \cap {"client", "revoke", "stop"} = {}

Listing == control.pc \notin {"off", "done"}

\* The broadcast context has its control thread, whose list names sessions that
\* live and whose end was not raised; what was joined had its end raised.
ListShape ==
  /\ bcast = "down" <=> control.pc = "off"
  /\ bcast = "down" => listed = {}
  /\ Listing => listed \subseteq Alive \ ended
  /\ ended \subseteq Alive
  /\ \A a \in Workers : job[a].pc # "ending" => Joined(a) \subseteq ended

ListInv == ListShape /\ \A a \in Workers : NoScan(job[a])

LEMMA NoGracefulGateless ==
  ASSUME NoGracefulStop PROVE NoGatelessCalls /\ "stop" \notin Calls
BY DEF NoGracefulStop, NoGatelessCalls

(* Who touches the list, controlEnd and the broadcast context.              *)
LEMMA ListSteps ==
  ASSUME NoGracefulStop, IInv, ListInv, [Next]_vars
  PROVE  \/ UNCHANGED <<listed, ended, bcast, control>> /\ ~StartSession
            /\ ~\E a \in Workers : FreeSessions(a) \/ EndBroadcast(a)
         \/ StartSession \/ Control
         \/ \E a \in Workers : FreeSessions(a) \/ EndBroadcast(a)
<1> DEFINE Same == UNCHANGED <<listed, ended, bcast, control>>
<1>1. ASSUME NEW c \in Callers, CallBegins(c) \/ CallGoesOn(c) PROVE Same
  <2>1. ~\E l \in Launches : StopOne(c, l)
    BY NoGracefulGateless DEF StopOne, Begin
  <2> QED
    BY <1>1, <2>1 DEF CallBegins, BeginLaunch, BeginReplace,
       BeginClientDisconnect, SweepFor, BeginRevoke, BeginRoleDisconnect, BeginCancel,
       BeginSweep, CollectStopping, CallGoesOn, LaunchFails, Recheck, RefuseLaunch,
       RaiseLaunch, PassBarrier, Scan, TerminateApp, CleanupIfIdle, sessionVars,
       transportVars
<1>2. ASSUME NEW a \in Workers, Teardown(a)
      PROVE  Same \/ FreeSessions(a) \/ EndBroadcast(a)
  <2>1. ~Graceful(a)
    BY DEF Graceful, ListInv, NoScan, OwnOps
  <2> QED
    BY <1>2, <2>1 DEF Teardown, CancelPending, Collect, JoinEnd, FinalizeRole, StopNext,
       sessionVars, transportVars
<1>3. CASE RtspHandles \/ RtspSweep \/ RtspExits \/ StopIo \/ JoinRtsp
  BY <1>3 DEF RtspHandles, Announce, FinishStartup, ExpireLaunches, RtspSweep,
     CollectStopping, RtspExits, StopIo, JoinRtsp, sessionVars, transportVars
<1>4. CASE Worker
  BY <1>4 DEF Worker, TakeStartup, Insert, StartFails, sessionVars, transportVars
<1>5. CASE Environment \/ (\E l \in Launches : CaptureEnds(l)) \/ UNCHANGED vars
  BY <1>5 DEF Environment, LaunchComesDue, CaptureFails, AppExits, BeginShutdown,
     CaptureEnds, vars, sessionVars, transportVars
<1> QED
  BY <1>1, <1>2, <1>3, <1>4, <1>5 DEF Next

(* A step that leaves them alone.                                           *)
LEMMA ListStays ==
  ASSUME IInv, ListInv, [Next]_vars, UNCHANGED <<listed, ended, bcast, control>>,
         ~StartSession, ~\E a \in Workers : FreeSessions(a) \/ EndBroadcast(a)
  PROVE  ListShape'
<1>1. ASSUME SessionsStay,
             \A a \in Workers : job'[a].pc # "ending" => Joined(a)' \subseteq ended
      PROVE  ListShape'
  <2>1. Alive' = Alive
    BY <1>1 DEF SessionsStay, Alive, Live
  <2> QED
    BY <1>1, <2>1 DEF ListInv, ListShape, Listing
<1>2. ASSUME HandsSame
      PROVE  \A a \in Workers : job'[a].pc # "ending" => Joined(a)' \subseteq ended
  BY <1>2 DEF HandsSame, SameHands, Joined, ListInv, ListShape
<1>3. CASE Aside
  BY <1>1, <1>2, <1>3 DEF Aside, SessionsStay
<1>4. CASE Startup
  <2>1. HandsSame /\ UNCHANGED sess
    BY <1>4, HandlersAside DEF IInv, Startup, TakeStartup, Insert, StartFails, sessionVars,
       HandsSame, SameHands
  <2> QED
    BY <1>1, <1>2, <2>1 DEF SessionsStay
<1>5. ASSUME NEW ls \in SUBSET Launches, Stops(ls) PROVE ListShape'
  BY <1>1, <1>2, <1>5, StoppedStays DEF Stops, IInv
<1>6. ASSUME NEW a \in Workers, NEW ls \in SUBSET Launches, Takes(a, ls) PROVE ListShape'
  <2>1. Joined(a)' = {} /\ \A b \in Workers \ {a} : job'[b] = job[b]
    BY <1>6 DEF Takes, Joined
  <2> QED
    BY <1>1, <1>6, <2>1 DEF Takes, SessionsStay, Joined, ListInv, ListShape
<1>7. ASSUME NEW a \in Workers, JoinEnd(a) PROVE ListShape'
  <2>1. /\ OthersStay(a) /\ job[a].pc = "join" /\ job'[a].mine = job[a].mine
        /\ job'[a].todo = job[a].todo /\ UNCHANGED sess /\ job[a].cur \in ended
    BY <1>7, TeardownHands DEF IInv, JoinEnd, sessionVars, ThreadsJoined
  <2>2. Joined(a)' \subseteq Joined(a) \cup {job[a].cur}
    BY <2>1 DEF Joined
  <2> QED
    BY <1>1, <2>1, <2>2 DEF OthersStay, SessionsStay, Joined, ListInv, ListShape
<1>8. ASSUME NEW a \in Workers, NEW l \in Launches, StopNext(a, l) PROVE ListShape'
  <2>1. /\ OthersStay(a) /\ job[a].pc = "sessions" /\ job'[a].mine = job[a].mine
        /\ job'[a].todo = job[a].todo \ {l} /\ job'[a].cur = l /\ sess' = Stopped({l})
    BY <1>8, TeardownHands DEF IInv, StopNext
  <2>2. Joined(a)' \subseteq Joined(a)
    <3>1. job[a].cur = None /\ None \notin job[a].mine
      BY <2>1, WorkersFacts DEF IInv, JobInv, JobShape, JobType
    <3> QED
      BY <2>1, <3>1 DEF Joined
  <2> QED
    BY <1>1, <2>1, <2>2, StoppedStays DEF IInv, OthersStay, Joined, ListInv, ListShape
<1> QED
  BY <1>3, <1>4, <1>5, <1>6, <1>7, <1>8, SessionEffects DEF IInv, SessionEffect

LEMMA ListKept ==
  ASSUME NoGracefulStop, IInv, ListInv, [Next]_vars
  PROVE  ListInv'
<1>0. /\ sess \in [Launches -> {"none", "running", "stopping", "freed"}]
      /\ listed \subseteq Launches /\ ended \subseteq Launches
      /\ \A a \in Workers : job[a].mine \subseteq Launches
      /\ bcast \in {"down", "up", "ending"}
      /\ control \in [pc : {"off", "poll", "walk", "iterate", "clear", "exit", "done"},
                       l : Launches \cup {None}, game : BOOLEAN, keep : BOOLEAN]
  BY DEF IInv, SessionInv, SessionTypes, RuntimeTypes, JobInv, JobType
<1>1. \A a \in Workers : NoScan(job'[a])
  BY NoScanKept, NoGracefulGateless DEF ListInv
<1>2. CASE StartSession
  <2> DEFINE l == task.l
  <2>1. /\ listed' = listed \cup {l} /\ bcast # "ending" /\ bcast' = "up"
        /\ control' = (IF bcast = "down" THEN AtPoll ELSE control)
        /\ sess' = [sess EXCEPT ![l] = "running"]
        /\ UNCHANGED <<ended, job>>
        /\ task # NoTask /\ ~task.started
    BY <1>2 DEF StartSession
  <2>2. l \in Launches /\ sess[l] = "none"
    BY <2>1 DEF IInv, StartInv
  <2>3. Alive' = Alive \cup {l} /\ l \notin Alive
    BY <1>0, <2>1, <2>2 DEF Alive
  <2>4. AtPoll.pc = "poll"
    BY DEF AtPoll
  <2>5. l \notin ended
    BY <2>3 DEF ListInv, ListShape
  <2> HIDE DEF l
  <2> QED
    BY <1>0, <2>1, <2>3, <2>4, <2>5 DEF ListInv, ListShape, Listing, Joined
<1>3. CASE Control
  <2>1. CASE ControlSample \/ ControlIterate \/ LaunchSessionClear
    <3>1. /\ UNCHANGED <<listed, ended, bcast, job, sess>>
          /\ control.pc \in {"poll", "iterate", "clear"}
      BY <2>1 DEF ControlSample, ControlIterate, LaunchSessionClear, sessionVars
    <3>2. control'.pc \in {"poll", "walk", "iterate", "clear", "exit"}
      <4>1. CASE ControlSample
        BY <1>0, <4>1 DEF ControlSample
      <4>2. CASE ControlIterate
        BY <1>0, <4>2 DEF ControlIterate, ControlAt
      <4>3. CASE LaunchSessionClear
        BY <4>3 DEF LaunchSessionClear, AtPoll
      <4> QED
        BY <2>1, <4>1, <4>2, <4>3
    <3> QED
      BY <3>1, <3>2 DEF ListInv, ListShape, Listing, Alive, Joined
  <2>2. ASSUME NEW t \in SUBSET listed, NEW g \in SUBSET listed, ControlWalk(t, g)
        PROVE  ListShape'
    <3>1. PICK leaving \in SUBSET listed, stops \in SUBSET listed :
             /\ listed' = listed \ leaving /\ ended' = ended \cup leaving
             /\ sess' = Stopped(stops)
      BY <2>2 DEF ControlWalk, RaisesControlEnd
    <3>2. control.pc = "walk" /\ UNCHANGED <<bcast, job>> /\ control'.pc \in {"exit", "iterate"}
      BY <2>2 DEF ControlWalk, AtPoll
    <3>3. Alive' = Alive
      BY <3>1, StoppedStays DEF IInv, SessionsStay, Alive, Live
    <3> QED
      BY <3>1, <3>2, <3>3 DEF ListInv, ListShape, Listing, Joined
  <2>3. CASE ControlExits
    <3>1. /\ UNCHANGED <<listed, bcast, job, sess>> /\ ended' = ended \cup listed
          /\ control.pc = "exit"
      BY <2>3 DEF ControlExits, RaisesControlEnd
    <3>2. control'.pc = "done"
      BY <1>0, <2>3 DEF ControlExits, ControlAt
    <3> QED
      BY <3>1, <3>2 DEF ListInv, ListShape, Listing, Alive, Joined
  <2> QED
    BY <1>1, <1>3, <2>1, <2>2, <2>3 DEF Control, ListInv
<1>4. ASSUME NEW a \in Workers, FreeSessions(a) PROVE ListShape'
  <2>1. /\ sess' = [l \in Launches |-> IF l \in job[a].mine THEN "freed" ELSE sess[l]]
        /\ ended' = ended \ job[a].mine /\ UNCHANGED <<listed, control>>
        /\ bcast' = bcast \/ (bcast = "up" /\ bcast' = "ending")
    BY <1>4 DEF FreeSessions
  <2>2. /\ OthersStay(a) /\ job[a].pc # "ending" /\ job[a].cur = None /\ job[a].todo = {}
        /\ job'[a].pc = "ending" \/ job'[a].mine = {}
    BY <1>4, TeardownHands DEF IInv, Empty
  <2>3. job[a].mine \subseteq ended
    BY <1>0, <2>2, WorkersFacts DEF Joined, ListInv, ListShape
  <2>4. Alive' = Alive \ job[a].mine
    BY <1>0, <2>1 DEF Alive
  <2>5. \A b \in Workers \ {a} : Joined(b)' = Joined(b) /\ Joined(b) \cap job[a].mine = {}
    BY <2>2 DEF OthersStay, Joined, IInv, HeldInv
  <2>6. Joined(a)' = {} \/ job'[a].pc = "ending"
    BY <2>2 DEF Joined
  <2>7. \A b \in Workers : job'[b].pc # "ending" => Joined(b)' \subseteq ended'
    BY <2>1, <2>2, <2>5, <2>6 DEF OthersStay, ListInv, ListShape
  <2> QED
    BY <2>1, <2>3, <2>4, <2>7 DEF ListInv, ListShape, Listing
<1>5. ASSUME NEW a \in Workers, EndBroadcast(a) PROVE ListShape'
  <2>1. /\ bcast' = "down" /\ listed' = {} /\ UNCHANGED <<sess, ended>>
        /\ OthersStay(a) /\ job'[a].mine = {}
    BY <1>5, TeardownHands DEF IInv, EndBroadcast, Empty
  <2>2. control'.pc = "off"
    BY <1>0, <1>5 DEF EndBroadcast
  <2> QED
    BY <2>1, <2>2 DEF ListInv, ListShape, Listing, Alive, Joined, OthersStay
<1> QED
  BY <1>1, <1>2, <1>3, <1>4, <1>5, ListSteps, ListStays DEF ListInv

LEMMA ListInvariant ==
  ASSUME NoGracefulStop
  PROVE  Spec => []ListInv
<1>1. Init => ListInv
  BY Fields DEF Init, ListInv, ListShape, Listing, Alive, AtPoll, Joined, NoScan, OwnOps
<1>2. IInv /\ ListInv /\ [Next]_vars => ListInv'
  BY ListKept
<1> QED
  BY <1>1, <1>2, Invariant, PTL DEF Spec

(* The control thread's list holds pointers to live sessions only, if its   *)
(* own thread is the one that raises controlEnd: a join waits for that, and *)
(* with it the session leaves the list.  A graceful stop raises it too.     *)
THEOREM ListedAliveHolds ==
  ASSUME NoGracefulStop
  PROVE  Spec => []ListedAlive
<1>1. ListInv => ListedAlive
  BY DEF ListInv, ListShape, Listing, ListedAlive
<1> QED
  BY <1>1, ListInvariant, PTL
-----------------------------------------------------------------------------
(* Waiting.                                                                 *)

\* No launch replaces a running app.
NoReplace == "replace" \notin Calls

\* The gate is held by a launch being admitted or by the startup worker.
GateWait ==
  /\ gate \in Callers => job[gate].pc \in {"admit", "raise"}
  /\ task # NoTask <=> gate = "worker"

\* One thread at most ends the broadcast context, and then no session lives; the
\* control thread clears the launch of a session on its list.
EndWait ==
  /\ bcast = "ending" => Alive = {}
  /\ \A a \in Workers : job[a].pc = "ending" => bcast = "ending"
  /\ \A a, b \in Workers : job[a].pc = "ending" /\ job[b].pc = "ending" => a = b
  /\ control.pc = "clear" => control.l \in listed

(* A step of a thread that does not admit a launch.                         *)
LEMMA GateStays ==
  ASSUME GateWait, UNCHANGED gate, task' = NoTask <=> task = NoTask,
         NEW a, a \in Callers => job[a].pc \notin {"admit", "raise"},
         \A b \in Callers : b # a => job'[b] = job[b]
  PROVE  GateWait'
BY DEF GateWait

LEMMA GateWaitKept ==
  ASSUME NoReplace, IInv, GateWait, [Next]_vars
  PROVE  GateWait'
<1>0. /\ JobInv /\ Callers \subseteq Workers /\ "worker" \notin Callers /\ None \notin Callers
      /\ "rtsp" \notin Callers /\ "main" \notin Callers /\ None # "worker"
      /\ "rtsp" \in Workers /\ "main" \in Workers
  BY WorkersFacts, StreamAssumption DEF StreamAssumption, IInv
<1>1. ASSUME NEW c \in Callers, CallBegins(c) PROVE GateWait'
  <2>1. UNCHANGED task
    BY <1>1 DEF CallBegins, BeginLaunch, BeginReplace, StopOne, BeginClientDisconnect,
       SweepFor, BeginRevoke, BeginRoleDisconnect, BeginCancel, BeginSweep,
       CollectStopping, startupVars
  <2>2. ASSUME NEW l \in Launches, BeginLaunch(c, l) PROVE GateWait'
    <3>1. gate = None /\ gate' = c /\ job'[c].pc = "admit"
      BY <1>0, <2>2, Moves, Fields DEF BeginLaunch, StartAdmitted, Free
    <3> QED
      BY <1>0, <2>1, <3>1 DEF GateWait
  <2>3. CASE ~\E l \in Launches : BeginLaunch(c, l)
    <3>1. (UNCHANGED gate /\ job[c].pc \notin {"admit", "raise"}) \/ UNCHANGED <<gate, job>>
      BY <1>1, <2>3, Fields DEF CallBegins, BeginReplace, StopOne, BeginClientDisconnect,
         SweepFor, BeginRevoke, BeginRoleDisconnect, BeginCancel, BeginSweep,
         CollectStopping, Begin, NoReplace
    <3>2. UNCHANGED job \/ \E j : Goto(c, j)
      BY <1>1, <2>3 DEF CallBegins, BeginReplace, StopOne, BeginClientDisconnect,
         SweepFor, BeginRevoke, BeginRoleDisconnect, BeginCancel, BeginSweep,
         CollectStopping
    <3>3. \A b \in Callers : b # c => job'[b] = job[b]
      BY <1>0, <3>2, Moves
    <3> QED
      BY <2>1, <3>1, <3>3, GateStays DEF GateWait
  <2> QED
    BY <2>2, <2>3
<1>2. ASSUME NEW c \in Callers, CallGoesOn(c) PROVE GateWait'
  <2>1. UNCHANGED task /\ \E j : Goto(c, j)
    BY <1>2 DEF CallGoesOn, LaunchFails, Recheck, RefuseLaunch, RaiseLaunch, PassBarrier,
       SweepFor, Scan, TerminateApp, CleanupIfIdle, startupVars
  <2>2. \A b \in Callers : b # c => job'[b] = job[b]
    BY <1>0, <2>1, Moves
  <2>3. \/ gate = c /\ gate' = None
        \/ Recheck(c)
        \/ UNCHANGED gate /\ job[c].pc \notin {"admit", "raise"}
    BY <1>2 DEF CallGoesOn, LaunchFails, RefuseLaunch, RaiseLaunch, Admitting, Raising,
       PassBarrier, SweepFor, Scan, TerminateApp, CleanupIfIdle
  <2>4. CASE Recheck(c)
    <3>1. job'[c].pc = "raise" /\ UNCHANGED gate
      BY <1>0, <2>4, Moves DEF Recheck, JobInv, JobType
    <3> QED
      BY <2>1, <2>2, <3>1 DEF GateWait
  <2> QED
    BY <1>0, <2>1, <2>2, <2>3, <2>4, GateStays DEF GateWait
<1>3. ASSUME NEW a \in Workers, Teardown(a) PROVE GateWait'
  <2>1. UNCHANGED <<gate, task>> /\ job[a].pc \notin {"admit", "raise"}
    BY <1>3 DEF Teardown, CancelPending, Collect, JoinEnd, FinalizeRole, FreeSessions,
       AllJoined, EndBroadcast, StopNext, startupVars
  <2>2. \A b \in Callers : b # a => job'[b] = job[b]
    BY <1>0, <1>3, TeardownMoves
  <2> QED
    BY <2>1, <2>2, GateStays
<1>4. CASE RtspHandles \/ RtspSweep \/ RtspExits \/ StopIo \/ JoinRtsp
  <2>1. UNCHANGED <<gate, task>> /\ \E a \in {"rtsp", "main"} : \E j : Goto(a, j)
    BY <1>4 DEF RtspHandles, Announce, FinishStartup, ExpireLaunches, Handled, RtspSweep,
       CollectStopping, RtspExits, StopIo, JoinRtsp, startupVars
  <2>2. \A b \in Callers : job'[b] = job[b]
    BY <1>0, <2>1, Moves
  <2> QED
    BY <1>0, <2>1, <2>2, GateStays
<1>5. CASE Worker
  <2>1. CASE TakeStartup
    <3>1. \/ gate' = "worker" /\ task' = [l |-> Head(pool), started |-> FALSE] /\ HasLaunchSession(Head(pool))
          \/ UNCHANGED <<gate, task>>
      BY <2>1 DEF TakeStartup
    <3>2. HasLaunchSession(Head(pool)) => [l |-> Head(pool), started |-> FALSE] # NoTask
      BY WorkersFacts DEF HasLaunchSession, Pending, NoTask
    <3>3. UNCHANGED job
      BY <2>1 DEF TakeStartup
    <3> QED
      BY <1>0, <3>1, <3>2, <3>3 DEF GateWait
  <2>2. CASE StartSession
    <3>1. /\ UNCHANGED <<gate, job>> /\ task # NoTask /\ task' = [task EXCEPT !.started = TRUE]
          /\ task \in [l : Launches \cup {None}, started : BOOLEAN]
      BY <2>2 DEF StartSession, IInv, SessionInv, SessionTypes
    <3>2. task' # NoTask
      BY <3>1 DEF NoTask
    <3> QED
      BY <3>1, <3>2 DEF GateWait
  <2>3. CASE Insert \/ StartFails
    BY <1>0, <2>3 DEF Insert, StartFails, GateWait
  <2> QED
    BY <1>5, <2>1, <2>2, <2>3 DEF Worker
<1>6. CASE Control \/ Environment \/ (\E l \in Launches : CaptureEnds(l)) \/ UNCHANGED vars
  <2>1. UNCHANGED <<gate, task, job>>
    BY <1>6 DEF Control, ControlSample, ControlIterate, LaunchSessionClear, ControlExits,
       ControlWalk, Environment, LaunchComesDue, CaptureFails, AppExits, BeginShutdown,
       CaptureEnds, vars, startupVars
  <2> QED
    BY <2>1 DEF GateWait
<1> QED
  BY <1>1, <1>2, <1>3, <1>4, <1>5, <1>6 DEF Next

(* Sessions come to life in StartSession and are gone in FreeSessions, which *)
(* with EndBroadcast is where the broadcast context is ended.                *)
LEMMA EndingSame ==
  ASSUME IInv, [Next]_vars, ~StartSession,
         ~\E a \in Workers : FreeSessions(a) \/ EndBroadcast(a)
  PROVE  Alive' = Alive /\ \A a \in Workers : job'[a].pc = "ending" => job[a].pc = "ending"
<1> DEFINE Same == SessionsStay /\ \A a \in Workers : job'[a].pc = "ending" => job[a].pc = "ending"
<1> SUFFICES Same
  BY DEF SessionsStay, Alive, Live
<1> USE DEF IInv
<1>1. HandsSame => \A a \in Workers : job'[a].pc = "ending" => job[a].pc = "ending"
  BY DEF HandsSame, SameHands
<1>2. CASE Aside
  BY <1>1, <1>2 DEF Aside, SessionsStay
<1>3. CASE Startup
  BY <1>1, <1>3, HandlersAside DEF Startup, TakeStartup, Insert, StartFails, sessionVars,
     HandsSame, SameHands, SessionsStay
<1>4. ASSUME NEW ls \in SUBSET Launches, Stops(ls) PROVE Same
  BY <1>1, <1>4, StoppedStays DEF Stops
<1>5. ASSUME NEW a \in Workers, NEW ls \in SUBSET Launches, Takes(a, ls) PROVE Same
  BY <1>5 DEF Takes, SessionsStay
<1>6. ASSUME NEW a \in Workers, JoinEnd(a) PROVE Same
  BY <1>6, TeardownHands DEF JoinEnd, sessionVars, OthersStay, SessionsStay
<1>7. ASSUME NEW a \in Workers, NEW l \in Launches, StopNext(a, l) PROVE Same
  <2>1. sess' = Stopped({l}) /\ OthersStay(a) /\ job'[a].pc = "join"
    BY <1>7, TeardownHands DEF StopNext
  <2> QED
    BY <2>1, StoppedStays DEF OthersStay
<1> QED
  BY <1>2, <1>3, <1>4, <1>5, <1>6, <1>7, SessionEffects DEF SessionEffect

LEMMA EndWaitKept ==
  ASSUME NoGracefulStop, IInv, ListInv, EndWait, [Next]_vars
  PROVE  EndWait'
<1> USE DEF EndWait
<1>0. /\ sess \in [Launches -> {"none", "running", "stopping", "freed"}]
      /\ control \in [pc : {"off", "poll", "walk", "iterate", "clear", "exit", "done"},
                       l : Launches \cup {None}, game : BOOLEAN, keep : BOOLEAN]
  BY DEF IInv, SessionInv, SessionTypes, RuntimeTypes
<1>1. CASE /\ UNCHANGED <<listed, ended, bcast, control>> /\ ~StartSession
           /\ ~\E a \in Workers : FreeSessions(a) \/ EndBroadcast(a)
  BY <1>1, EndingSame
<1>2. CASE StartSession
  <2>1. /\ bcast # "ending" /\ bcast' = "up" /\ UNCHANGED job
        /\ control' = (IF bcast = "down" THEN AtPoll ELSE control)
        /\ listed \subseteq listed' /\ AtPoll.pc = "poll"
    BY <1>2 DEF StartSession, AtPoll
  <2> QED
    BY <2>1
<1>3. CASE Control
  <2>1. UNCHANGED <<bcast, job>>
    BY <1>3 DEF Control, ControlSample, ControlIterate, LaunchSessionClear, ControlExits,
       ControlWalk
  <2>2. Alive' = Alive
    <3>1. UNCHANGED sess \/ \E ls : sess' = Stopped(ls)
      BY <1>3 DEF Control, ControlSample, ControlIterate, LaunchSessionClear, ControlExits,
         ControlWalk, sessionVars
    <3> QED
      BY <3>1, StoppedStays DEF IInv, SessionsStay, Alive, Live
  <2>3. control'.pc = "clear" => control'.l \in listed'
    <3>1. CASE ControlSample
      BY <1>0, <3>1 DEF ControlSample
    <3>2. CASE ControlIterate
      BY <1>0, <3>2 DEF ControlIterate, ControlAt
    <3>3. CASE LaunchSessionClear
      BY <3>3 DEF LaunchSessionClear, AtPoll
    <3>5. ASSUME NEW t \in SUBSET listed, NEW g \in SUBSET listed, ControlWalk(t, g)
          PROVE  control'.pc # "clear"
      BY <3>5 DEF ControlWalk, AtPoll
    <3>4. CASE ControlExits
      BY <1>0, <3>4 DEF ControlExits, ControlAt
    <3> QED
      BY <1>3, <3>1, <3>2, <3>3, <3>4, <3>5 DEF Control
  <2> QED
    BY <2>1, <2>2, <2>3
<1>4. ASSUME NEW a \in Workers, FreeSessions(a) PROVE EndWait'
  <2>1. /\ sess' = [l \in Launches |-> IF l \in job[a].mine THEN "freed" ELSE sess[l]]
        /\ UNCHANGED <<listed, control>>
        /\ \/ /\ Alive \subseteq job[a].mine /\ bcast = "up" /\ bcast' = "ending"
           \/ bcast' = bcast /\ Goto(a, Afterwards(a))
    BY <1>4 DEF FreeSessions
  <2>2. OthersStay(a)
    BY <1>4, TeardownHands DEF IInv
  <2>3. Alive' = Alive \ job[a].mine
    BY <1>0, <2>1 DEF Alive
  <2>4. Goto(a, Afterwards(a)) => job'[a].pc # "ending"
    BY Moves, AfterwardsEmpty DEF IInv, Empty
  <2> QED
    BY <2>1, <2>2, <2>3, <2>4 DEF OthersStay
<1>5. ASSUME NEW a \in Workers, EndBroadcast(a) PROVE EndWait'
  <2>1. /\ bcast' = "down" /\ OthersStay(a) /\ job'[a].pc # "ending" /\ job[a].pc = "ending"
    BY <1>5, TeardownHands DEF IInv, EndBroadcast, Empty
  <2>2. control'.pc = "off"
    BY <1>0, <1>5 DEF EndBroadcast
  <2> QED
    BY <2>1, <2>2 DEF OthersStay
<1> QED
  BY <1>1, <1>2, <1>3, <1>4, <1>5, ListSteps

(* No circle of threads waits: the gate is held by a launch, which waits    *)
(* for nobody, or by the worker, which waits for the end of the broadcast   *)
(* context only, when no session is left that the control thread could      *)
(* have to clear.                                                           *)
THEOREM NoCircularWaitHolds ==
  ASSUME NoGracefulStop, NoReplace
  PROVE  Spec => []NoCircularWait
<1>1. Init => GateWait /\ EndWait
  BY Fields, WorkersFacts, StreamAssumption DEF StreamAssumption, Init, GateWait, EndWait, Alive, AtPoll, NoTask
<1>2. IInv /\ ListInv /\ GateWait /\ EndWait /\ [Next]_vars => GateWait' /\ EndWait'
  BY GateWaitKept, EndWaitKept
<1>3. IInv /\ ListInv /\ GateWait /\ EndWait => NoCircularWait
  <2> SUFFICES ASSUME IInv, ListInv, GateWait, EndWait PROVE NoCircularWait
    OBVIOUS
  <2>0. /\ gate \in {None, "worker"} \cup Callers
        /\ None \notin Threads /\ Callers \cap {"rtsp", "main", "worker"} = {}
        /\ Callers \cup {"rtsp", "main"} = Workers
        /\ "control" \notin Workers /\ "worker" \notin Workers
    BY StreamAssumption DEF IInv, RegistryInv, StreamAssumption, Threads, Workers
  <2>1. gate \in Callers => WaitsFor(gate) = {}
    <3> SUFFICES ASSUME gate \in Callers PROVE WaitsFor(gate) = {}
      OBVIOUS
    <3>1. job[gate].pc \in {"admit", "raise"} /\ gate \in Workers
      BY <2>0 DEF GateWait
    <3>2. ~NeedsGate(gate)
      BY <2>0, <3>1 DEF NeedsGate, AllJoined
    <3> QED
      BY <2>0, <3>1, <3>2 DEF WaitsFor
  <2>2. \A a : WaitsFor(a) \subseteq Threads \ {a}
    BY DEF WaitsFor
  <2>3. WaitsFor("control") \subseteq {gate}
        /\ (WaitsFor("control") # {} => control.pc = "clear")
    BY <2>0 DEF WaitsFor, NeedsGate
  <2>4. control.pc = "clear" => \A a \in Workers : job[a].pc # "ending"
    BY DEF EndWait, ListInv, ListShape, Listing
  <2>5. WaitsFor("worker") \subseteq {b \in Workers : job[b].pc = "ending"} \cup {gate}
        /\ (gate = "worker" => WaitsFor("worker") \subseteq {b \in Workers : job[b].pc = "ending"})
    BY <2>0, <2>2 DEF WaitsFor
  <2>6. \A a \in Workers : job[a].pc = "ending" => WaitsFor(a) \subseteq {"control"}
    <3> SUFFICES ASSUME NEW a \in Workers, job[a].pc = "ending"
                 PROVE  WaitsFor(a) \subseteq {"control"}
      OBVIOUS
    <3>1. a \notin {"worker", "control"}
      BY <2>0
    <3>2. ~NeedsGate(a)
      BY <2>0, <3>1, Fields DEF NeedsGate, AllJoined, IoRuns, AtLoop
    <3> QED
      BY <3>1, <3>2 DEF WaitsFor
  <2>7. \A a \in Workers \ {"main"} : WaitsFor(a) \subseteq {"control", gate}
    BY <2>0 DEF WaitsFor
  <2>8. WaitsFor("main") \subseteq {"control", gate, "rtsp"}
    BY <2>0 DEF WaitsFor
  <2> SUFFICES ASSUME NEW S \in SUBSET Threads, S # {},
                      \A a \in S : WaitsFor(a) # {}
               PROVE  \E a \in S : WaitsFor(a) \cap S = {}
    BY DEF NoCircularWait
  <2>9. gate \in S => gate = "worker"
    BY <2>0, <2>1
  <2>10. CASE "control" \in S
    <3>1. CASE gate = "worker"
      BY <2>0, <2>3, <2>4, <2>5, <2>10, <3>1
    <3>2. CASE gate # "worker"
      BY <2>3, <2>9, <2>10, <3>2
    <3> QED
      BY <3>1, <3>2
  <2>11. CASE "control" \notin S /\ \E a \in S : a \in Workers /\ job[a].pc = "ending"
    BY <2>6, <2>11
  <2>12. CASE /\ "control" \notin S /\ "worker" \in S
              /\ ~\E a \in S : a \in Workers /\ job[a].pc = "ending"
    BY <2>5, <2>9, <2>12
  <2>13. CASE "control" \notin S /\ "worker" \notin S
    <3>1. gate \notin S
      BY <2>9, <2>13
    <3>2. \A a \in S \ {"main"} : WaitsFor(a) \cap S = {}
      BY <2>0, <2>7, <2>13, <3>1 DEF Threads
    <3>3. S = {"main"} => WaitsFor("main") \cap S = {}
      BY <2>2
    <3> QED
      BY <3>2, <3>3
  <2> QED
    BY <2>10, <2>11, <2>12, <2>13
<1> QED
  BY <1>1, <1>2, <1>3, Invariant, ListInvariant, PTL DEF Spec
=============================================================================
