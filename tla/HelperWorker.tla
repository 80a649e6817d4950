---------------------------- MODULE HelperWorker ----------------------------
(***************************************************************************)
(* The two threads of AsyncDispatcher (async_dispatcher.cpp) and the       *)
(* operations they run (operations.cpp).  The worker runs its tasks in     *)
(* order, one at a time; the timer thread holds back delayed verifications *)
(* one after the other.  A task notices its cancellation at the points     *)
(* where it reads its token, which are the steps below; what it did to the *)
(* desktop is reported by its completion.                                  *)
(***************************************************************************)
EXTENDS HelperState

workerUnchanged ==
  <<sessionVars, recoveryVars, staging, fenceVars, todo, gen, exitVars,
    epoch, bound, link, ticket, heartbeat, tiers, newest, replies, budgetVars>>

Task == Head(tasks)

At(op, point) ==
  /\ running
  /\ tasks # <<>>
  /\ Task.op = op
  /\ phase.at = point

Cancelled(t) == t.gen # gen

Complete(m) ==
  /\ mailbox' = Append(mailbox, m)
  /\ tasks' = Tail(tasks)
  /\ phase' = AtStart

-----------------------------------------------------------------------------
(* ApplyOperation::run.                                                    *)

ApplyDone(status, touched, armed, staged) ==
  [kind |-> "ApplyDone", gen |-> Task.gen, for |-> Task.for, status |-> status,
   touched |-> touched, armed |-> armed, staged |-> staged]

\* Cancelled before it began, or refused by the read-only preflight.
ApplyRefused ==
  /\ At("apply", "start")
  /\ Cancelled(Task) \/ ~Task.repair
  /\ Complete(ApplyDone("Failed", FALSE, FALSE, FALSE))
  /\ UNCHANGED <<workerUnchanged, timers, taskExists, debt>>

\* The durable restore task is registered before the first mutation; the
\* worker goes on when the registration fails.
ApplyArms ==
  /\ At("apply", "start")
  /\ ~Task.repair
  /\ ~Cancelled(Task)
  /\ \E armed \in BOOLEAN :
       /\ phase' = [at |-> "boundary", armed |-> armed]
       /\ taskExists' = (taskExists \/ armed)
  /\ UNCHANGED <<workerUnchanged, tasks, timers, mailbox, debt>>

ApplyAbortsAtBoundary ==
  /\ At("apply", "boundary")
  /\ Cancelled(Task)
  /\ Complete(ApplyDone("Failed", FALSE, phase.armed, FALSE))
  /\ UNCHANGED <<workerUnchanged, timers, taskExists, debt>>

\* The first mutation.  A settings-only repair arms nothing: the transaction
\* it repeats already did.
ApplyTouches ==
  /\ At("apply", IF tasks # <<>> /\ Task.op = "apply" /\ Task.repair
                 THEN "start" ELSE "boundary")
  /\ ~Cancelled(Task)
  /\ phase' = [phase EXCEPT !.at = "touched"]
  /\ debt' = TRUE
  /\ UNCHANGED <<workerUnchanged, tasks, timers, mailbox, taskExists>>

\* A cancelled transaction may have stopped before SettingsManager's own
\* transaction; a repair is nothing else.
ApplyCompletes ==
  /\ At("apply", "touched")
  /\ \E status \in Statuses, staged \in BOOLEAN :
       /\ Cancelled(Task) => status = "Failed"
       /\ ~staged => Cancelled(Task) /\ ~Task.repair
       /\ Complete(ApplyDone(status, TRUE, phase.armed, staged))
  /\ UNCHANGED <<workerUnchanged, timers, taskExists, debt>>

ApplyWorker ==
  \/ ApplyRefused \/ ApplyArms \/ ApplyAbortsAtBoundary
  \/ ApplyTouches \/ ApplyCompletes

-----------------------------------------------------------------------------
(* Verification, the staged-state reset and the refresh rate: each is one  *)
(* step.  Only the reset ignores its cancellation.                         *)

VerifyRuns ==
  /\ At("verify", "start")
  /\ \E ok \in BOOLEAN :
       /\ ok => ~Cancelled(Task)
       /\ Complete([kind |-> "VerifyDone", gen |-> Task.gen, for |-> Task.for,
                    purpose |-> Task.purpose, ok |-> ok])
  /\ UNCHANGED <<workerUnchanged, timers, taskExists, debt>>

ResetRuns ==
  /\ At("reset", "start")
  /\ \E ok \in BOOLEAN :
       Complete([kind |-> "ResetDone", gen |-> Task.gen, ok |-> ok])
  /\ UNCHANGED <<workerUnchanged, timers, taskExists, debt>>

\* The mutation may have started before the cancellation.
RefreshRuns ==
  /\ At("refresh", "start")
  /\ \E ok \in BOOLEAN :
       Complete([kind |-> "RefreshDone", gen |-> Task.gen, ok |-> ok,
                 inScope |-> Task.inScope])
  /\ UNCHANGED <<workerUnchanged, timers, taskExists, debt>>

-----------------------------------------------------------------------------
(* RecoveryOperation::run, behind its cancellable grace period, and the    *)
(* validation of what it restored.                                         *)

RecoverDone(ok, touched, reset) ==
  [kind |-> "RecoverDone", gen |-> Task.gen, ok |-> ok, touched |-> touched,
   reset |-> reset]

RecoveryAborts ==
  /\ At("recover", "start")
  /\ Cancelled(Task)
  /\ Complete(RecoverDone(FALSE, FALSE, "none"))
  /\ UNCHANGED <<workerUnchanged, timers, taskExists, debt>>

\* The last look at the token before the restore counts as begun ...
RecoveryBegins ==
  /\ At("recover", "start")
  /\ ~Cancelled(Task)
  /\ phase' = [phase EXCEPT !.at = "boundary"]
  /\ UNCHANGED <<workerUnchanged, tasks, timers, mailbox, taskExists, debt>>

\* ... which the main thread sees here.
RecoveryMarks ==
  /\ At("recover", "boundary")
  /\ phase' = [phase EXCEPT !.at = "touched"]
  /\ attempted' = TRUE
  /\ UNCHANGED <<sessionVars, lease, restore, staging, fenceVars, todo, gen,
                 exitVars, epoch, bound, link, ticket, heartbeat, tiers, newest,
                 replies, budgetVars, tasks, timers, mailbox, taskExists, debt>>

\* A session restore already on screen counts, cancelled or not, and clears the
\* staged state (what a failed restore did to it is not reported further).
RecoveryCompletes ==
  /\ At("recover", "touched")
  /\ \E ok \in BOOLEAN, reset \in {"none", "ok", "failed"} :
       /\ ok <=> reset # "none"
       /\ Complete(RecoverDone(ok, TRUE, reset))
  /\ UNCHANGED <<workerUnchanged, timers, taskExists, debt>>

ValidationRuns ==
  /\ At("validate", "start")
  /\ \E ok \in BOOLEAN :
       /\ ok => ~Cancelled(Task)
       /\ Complete([kind |-> "ValidateDone", gen |-> Task.gen, ok |-> ok])
  /\ UNCHANGED <<workerUnchanged, timers, taskExists, debt>>

RecoveryWorker ==
  \/ RecoveryAborts \/ RecoveryBegins \/ RecoveryMarks \/ RecoveryCompletes
  \/ ValidationRuns

WorkerThread ==
  ApplyWorker \/ VerifyRuns \/ ResetRuns \/ RefreshRuns \/ RecoveryWorker

-----------------------------------------------------------------------------
(* The timer thread: the delay of its head is over, or it was cancelled.   *)

TimerThread ==
  /\ running
  /\ timers # <<>>
  /\ timers' = Tail(timers)
  /\ tasks' = IF Cancelled(Head(timers)) THEN tasks
              ELSE Append(tasks, [op |-> "verify", gen |-> Head(timers).gen,
                                  purpose |-> "TransientDisconnect",
                                  for |-> Head(timers).for])
  /\ UNCHANGED <<workerUnchanged, phase, mailbox, taskExists, debt>>
=============================================================================
