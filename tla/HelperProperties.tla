-------------------------- MODULE HelperProperties --------------------------
(***************************************************************************)
(* What the display helper promises.                                       *)
(***************************************************************************)
EXTENDS DisplayHelper

SessionType == [applySent : BOOLEAN, verifySent : BOOLEAN, verified : BOOLEAN,
                hdrTried : BOOLEAN, reapply : BOOLEAN,
                discoveries : 0..Discoveries, repairs : 0..Repairs]

SettlementType == [requested : BOOLEAN, pending : BOOLEAN, repairing : BOOLEAN,
                   next : 0..SettleChecks, recent : BOOLEAN]

LeaseType == [armed : BOOLEAN, explicit : BOOLEAN, task : BOOLEAN,
              unconfirmed : BOOLEAN, before : BOOLEAN]

RestoreType == [sched : {"off", "open", "expired"}, quiet : BOOLEAN,
                reset : {"none", "ok", "failed"}, rod : BOOLEAN]

StagingType == [prepared : BOOLEAN, resetting : BOOLEAN, exitAfter : BOOLEAN]

SessionTypes ==
  /\ state \in States
  /\ req \in [virt : Layouts, hdr : BOOLEAN, rod : BOOLEAN, seq : Nat, epoch : Nat]
  /\ sess \in SessionType
  /\ base \in [avail : BOOLEAN, flight : BOOLEAN]
  /\ settle \in SettlementType

RecoveryTypes ==
  /\ lease \in LeaseType
  /\ restore \in RestoreType
  /\ staging \in StagingType
  /\ attempted \in BOOLEAN

FenceTypes ==
  /\ worker \in [kind : WorkerKinds, gen : Nat] \cup {None}
  /\ deferred \in Seq(DeferrableType)
  /\ held \in ApplyDoneType \cup {None}
  /\ todo \in Seq(FrameType)

DispatchTypes ==
  /\ gen \in Nat
  /\ tasks \in Seq(TaskType)
  /\ phase \in [at : {"start", "boundary", "touched"}, armed : BOOLEAN]
  /\ timers \in Seq([gen : Nat, for : Nat])

HostTypes ==
  /\ epoch \in Nat /\ bound \in Nat /\ origin \in Nat
  /\ link \in Links
  /\ running \in BOOLEAN
  /\ mailbox \in Seq(MessageType)
  /\ ticket \in [event : EventKinds, gen : Nat, epoch : Nat] \cup {None}
  /\ heartbeat \in BOOLEAN

HistoryTypes ==
  /\ tiers \in BOOLEAN /\ taskExists \in BOOLEAN
  /\ debt \in BOOLEAN
  /\ newest \in Nat
  /\ replies \in [1..MaxSends -> [apply : 0..2, verify : 0..2]]
  /\ sent \in 0..MaxSends /\ posted \in 0..MaxEvents /\ retries \in 0..MaxRetries

\* Every variable has its type; in particular the repair budgets (size_t in the
\* code) never wrap, and the index into the delays of the disconnect checks
\* never passes their end.
TypeOK ==
  SessionTypes /\ RecoveryTypes /\ FenceTypes /\ DispatchTypes /\ HostTypes
    /\ HistoryTypes

-----------------------------------------------------------------------------
(* The mutation fence.                                                     *)

\* The messages delivered to the main thread and not handled yet.
HandledNext == {todo[i].msg : i \in {j \in DOMAIN todo : todo[j].op = "handle"}}

Count(q, Test(_)) == Cardinality({i \in DOMAIN q : Test(q[i])})

IsMutationTask(t) == t.op \in {"apply", "refresh", "recover", "validate"}

IsMutationDone(m) ==
  m.kind \in {"ApplyDone", "RefreshDone", "RecoverDone", "ValidateDone"}

KindOf(x) ==
  IF x \in {"apply", "ApplyDone"} THEN "Apply"
  ELSE IF x \in {"refresh", "RefreshDone"} THEN "RefreshRate" ELSE "Recovery"

IsMutationFrame(f) == f.op = "handle" /\ IsMutationDone(f.msg)

\* At most one display mutation is in flight, from its dispatch to the moment
\* its completion is handled, and active_mutation_worker_ names it: no handler
\* starts a worker over another one's, and none forgets one.
MutationFence ==
  /\ Count(tasks, IsMutationTask) + Count(mailbox, IsMutationDone)
       + Count(todo, IsMutationFrame) = IF worker = None THEN 0 ELSE 1
  /\ \A i \in DOMAIN tasks : IsMutationTask(tasks[i]) =>
       worker = [kind |-> KindOf(tasks[i].op), gen |-> tasks[i].gen]
  /\ \A m \in HandledNext \cup {mailbox[i] : i \in DOMAIN mailbox} :
       IsMutationDone(m) => worker = [kind |-> KindOf(m.kind), gen |-> m.gen]

IsResetTask(t) == t.op = "reset"
IsResetDone(m) == m.kind = "ResetDone"
IsResetFrame(f) == f.op = "handle" /\ IsResetDone(f.msg)

\* staged_state_reset_pending_ is up exactly while one reset is on its way.
ResetBarrier ==
  Count(tasks, IsResetTask) + Count(mailbox, IsResetDone)
    + Count(todo, IsResetFrame) = IF staging.resetting THEN 1 ELSE 0

\* The host loop has nothing left to do in this round: no handler runs, and the
\* disconnect branch has run if the connection was retired.
Settled ==
  Idle /\ running /\ ~(link \in {"up", "broken"} /\ epoch # bound)

\* What waits for the reset under way and takes over when it is done.
WaitsForReset ==
  staging.resetting /\ (held # None \/ HasDeferredFollowup(deferred))

\* A state the helper leaves only when some work completes has that work: an
\* APPLY in InProgress ...
ProgressOwned ==
  Settled /\ state = "InProgress" =>
    WaitsForReset \/ (WorkerActive /\ worker.kind = "Apply")

\* ... a restore in Recovery and RecoveryValidation ...
RecoveryOwned ==
  Settled /\ RecoveryInProgress =>
    WaitsForReset \/ (WorkerActive /\ worker.kind = "Recovery")

IsFreshVerify(t) == t.op = "verify" /\ t.gen = gen
IsFreshTimer(t) == t.gen = gen
IsFreshVerdict(m) == m.kind = "VerifyDone" /\ m.gen = gen

\* ... and a verification that is not cancelled in Verification.
VerificationOwned ==
  Settled /\ state = "Verification" =>
    Occurs(tasks, IsFreshVerify) \/ Occurs(timers, IsFreshTimer)
      \/ Occurs(mailbox, IsFreshVerdict)

\* The settlement of a recent disconnect is always on its way to a decision: a
\* mutation or a check that is not cancelled will report.
DisconnectDecided ==
  Settled /\ settle.requested =>
    WorkerActive \/ WaitsForReset \/ Occurs(tasks, IsFreshVerify)
      \/ Occurs(timers, IsFreshTimer) \/ Occurs(mailbox, IsFreshVerdict)

\* finish_apply_completed overwrites active_mutation_worker_: it runs only while
\* no display mutation is in flight.
FinishUnfenced == OnTop("outcome") => ~WorkerActive

\* A live command queued behind the fence, or a completion held for one, is
\* not left behind when the fence is free.
NothingStranded ==
  Idle /\ running /\ ~FenceUp =>
    held = None /\ \A i \in DOMAIN deferred : StaleConnection(deferred[i])

\* The client's newest word wins: no APPLY, REVERT or DISARM runs after a newer
\* one was accepted.
IntentOrder ==
  \A c \in {"Apply", "Revert", "Disarm"} :
    Handling(c) /\ ~StaleConnection(Msg) /\ Msg.seq # 0 => Msg.seq >= newest

-----------------------------------------------------------------------------
(* The recovery lease and the durable restore task.                        *)

ApplyOutstanding ==
  WorkerActive /\ worker.kind = "Apply"

\* A desktop an APPLY changed is under a recovery lease once its worker is
\* retired, whatever cancelled it, until it is restored or released.
ChangedDesktopLeased == debt /\ ~WorkerActive => lease.armed

\* The helper's belief about the durable task is true while no APPLY runs, so
\* it never leaves one behind that restores a released desktop at next logon.
TaskRemembered ==
  ~ApplyOutstanding /\ link # "off" => (taskExists <=> lease.task)

\* A restore is pending only under a lease, with a snapshot to restore from.
RestoreLeased == RestorePending => lease.armed /\ tiers

\* A verified session is watched by the heartbeat while its client is there.
SessionWatched ==
  Idle /\ running /\ link = "up" /\ epoch = bound /\ sess.verified
    /\ state \in {"Waiting", "VirtualDisplayMonitoring"} /\ lease.armed
      => heartbeat

-----------------------------------------------------------------------------
(* Results.                                                                *)

\* Each APPLY is answered at most once.
AnsweredOnce ==
  \A c \in DOMAIN replies : replies[c].apply <= 1 /\ replies[c].verify <= 1

\* An APPLY is answered by work done for it, never by a predecessor's.
AnsweredByOwnWork ==
  [][ replies' # replies =>
        req.seq = IF todo[1].op = "outcome" THEN todo[1].done.for
                  ELSE todo[1].msg.for ]_vars

\* The helper does not stop itself over newer work: a confirmed restore never
\* ends it while a transaction drained behind that restore runs, nor while one
\* is queued.  (A reset that failed after a restore does retire it; and a
\* refresh rate, which asks for no reset barrier, may still be in flight.)
ExitKeepsIntent ==
  [][ running /\ ~running' /\ todo # todo' /\ ~IsResetFrame(todo[1]) =>
        /\ worker' = None \/ worker'.kind = "RefreshRate"
        /\ ~\E i \in DOMAIN deferred' :
              IsSessionIntent(deferred'[i]) /\ ~StaleConnection(deferred'[i]) ]_vars

\* The helper retires itself only when no desktop is left to its care: never
\* with the recovery lease up, whatever was drained before it decides.
RetiresReleased ==
  [][ running /\ ~running' /\ todo # todo' => ~lease.armed' ]_vars

-----------------------------------------------------------------------------
(* Liveness.                                                               *)

AtRest ==
  /\ Idle
  /\ mailbox = <<>> /\ tasks = <<>> /\ timers = <<>>
  /\ ~WorkerActive /\ ~staging.resetting
  /\ deferred = <<>>
  /\ state \in {"Waiting", "VirtualDisplayMonitoring", "EventLoop"}

\* Once the client and Windows are quiet the helper comes to rest.
ComesToRest == <>[](~running \/ AtRest)

\* An APPLY is answered, unless its connection ends, a newer command takes its
\* place or the helper stops.
ApplyAnswered ==
  \A c \in 1..MaxSends :
    (req.seq = c /\ newest = c) ~>
      \/ replies[c].verify > 0
      \/ newest # c
      \/ epoch # req.epoch
      \/ ~running
=============================================================================
