--------------------------- MODULE HelperRecovery ---------------------------
(***************************************************************************)
(* What the state machine does when a staged-state reset, a refresh rate,  *)
(* a restore or its validation completes, on a display event and on the    *)
(* restore schedule's tick (state_machine.cpp).                            *)
(***************************************************************************)
EXTENDS HelperCompletions

-----------------------------------------------------------------------------
(* The staged-state reset completed: it always retires its barrier, even   *)
(* when a newer generation was dispatched meanwhile.                       *)

\* Faulty variant: a stale completion leaves the barrier up.
SettlesIfFresh ==
  IF StaleGeneration(Msg) THEN staging
  ELSE [staging EXCEPT !.resetting = FALSE, !.prepared = @ /\ ~Msg.ok]

ResetSettled ==
  [staging EXCEPT !.resetting = FALSE, !.prepared = @ /\ ~Msg.ok]

\* A restore that could not clear the staged state retires the helper.
HandleResetFailedExit ==
  /\ Handling("ResetDone")
  /\ staging.exitAfter
  /\ ~Msg.ok
  /\ staging' = [ResetSettled EXCEPT !.exitAfter = FALSE]
  /\ ExitCallback(1, gen)
  /\ Return
  /\ UNCHANGED <<sessionVars, recoveryVars, fenceVars, tasks, timers, heartbeat,
                 machineVars, newest, replies, retries>>

HandleResetDone ==
  /\ Handling("ResetDone")
  /\ ~(staging.exitAfter /\ ~Msg.ok)
  /\ staging' = [ResetSettled EXCEPT !.exitAfter =
                   @ /\ ~HasDeferredFollowup(deferred)]
  /\ ReturnInto(<<DrainFrame, [op |-> "afterReset"]>>)
  /\ UNCHANGED <<sessionVars, recoveryVars, fenceVars, dispatchVars, exitVars,
                 heartbeat, machineVars, newest, replies, retries>>

\* The replacement of a held APPLY completion never started: it goes on.
AfterReset ==
  /\ OnTop("afterReset")
  /\ LET exit == <<[op |-> "exitAfterReset"]>> \o Tail(todo) IN
     IF held # None /\ ~WorkerActive /\ ~staging.resetting
     THEN AcceptApply(held, lease, None, exit)
     ELSE todo' = exit /\ UNCHANGED <<held, base, lease, restore>>
  /\ UNCHANGED <<state, req, sess, settle, attempted, staging, worker, deferred,
                 dispatchVars, exitVars, heartbeat, machineVars, newest, replies,
                 retries>>

ExitAfterReset ==
  /\ OnTop("exitAfterReset")
  /\ IF staging.exitAfter /\ ~staging.resetting
     THEN staging' = [staging EXCEPT !.exitAfter = FALSE] /\ ExitCallback(0, gen)
     ELSE UNCHANGED <<staging, gen, exitVars>>
  /\ Return
  /\ UNCHANGED <<sessionVars, recoveryVars, fenceVars, tasks, timers, heartbeat,
                 machineVars, newest, replies, retries>>

-----------------------------------------------------------------------------
(* The refresh rate completed.                                             *)

HandleRefreshCancelled ==
  /\ Handling("RefreshDone")
  /\ Owns("RefreshRate", Msg)
  /\ StaleGeneration(Msg)
  /\ worker' = None
  /\ ReturnInto(<<DrainFrame>>)
  /\ UNCHANGED <<sessionVars, recoveryVars, staging, deferred, held, dispatchVars,
                 exitVars, heartbeat, machineVars, newest, replies, retries>>

\* A disconnect during the mutation left its checks to this completion.  A
\* connected session has no delayed verification to replace.
TakesOver == Msg.inScope /\ req.seq # 0 /\ settle.requested

HandleRefreshDone ==
  /\ Handling("RefreshDone")
  /\ Owns("RefreshRate", Msg)
  /\ ~StaleGeneration(Msg)
  /\ worker' = None
  /\ LET g == IF TakesOver /\ sess.verified /\ state = "Verification"
              THEN gen + 1 ELSE gen IN
     /\ gen' = g
     /\ sess' = IF TakesOver THEN [sess EXCEPT !.reapply = FALSE] ELSE sess
     /\ IF settle.requested /\ CheckDue(settle)
        THEN DispatchCheck(settle, g)
        ELSE SettlementOver /\ UNCHANGED <<state, timers>>
  /\ ReturnInto(<<DrainFrame>>)
  /\ UNCHANGED <<req, base, recoveryVars, staging, deferred, held, tasks, exitVars,
                 heartbeat, machineVars, newest, replies, retries>>

-----------------------------------------------------------------------------
(* The restore and its validation completed.                               *)

HandleCancelledRecovery ==
  /\ Handling("RecoverDone")
  /\ Owns("Recovery", Msg)
  /\ StaleGeneration(Msg)
  /\ worker' = None
  /\ IF Msg.touched
     THEN /\ lease' = RetainLease(lease)
          /\ heartbeat' = TRUE
          /\ UNCHANGED attempted
     ELSE /\ attempted' = FALSE
          /\ UNCHANGED <<lease, heartbeat>>
  /\ ReturnInto(<<DrainFrame>>)
  /\ UNCHANGED <<sessionVars, restore, staging, deferred, held, dispatchVars,
                 exitVars, machineVars, newest, replies, retries>>

HandleRestored ==
  /\ Handling("RecoverDone")
  /\ Owns("Recovery", Msg)
  /\ ~StaleGeneration(Msg)
  /\ Msg.ok
  /\ restore' = IF Msg.reset = "none" THEN restore
                ELSE [restore EXCEPT !.reset = Msg.reset]
  /\ state' = "RecoveryValidation"
  /\ worker' = [worker EXCEPT !.gen = gen]
  /\ tasks' = Append(tasks, ValidateTask(gen))
  /\ Return
  /\ UNCHANGED <<req, sess, base, settle, lease, attempted, staging, deferred,
                 held, gen, timers, exitVars, heartbeat, machineVars, newest,
                 replies, retries>>

\* The restore or its validation failed: wait for the schedule, deaf to the
\* display events of the attempt itself for the quiet period.
HandleAttemptFailed ==
  /\ \E kind \in {"RecoverDone", "ValidateDone"} : Handling(kind)
  /\ Owns("Recovery", Msg)
  /\ ~StaleGeneration(Msg)
  /\ ~Msg.ok
  /\ worker' = None
  /\ restore' = [restore EXCEPT !.quiet = TRUE]
  /\ state' = "EventLoop"
  /\ ReturnInto(<<DrainFrame>>)
  /\ UNCHANGED <<req, sess, base, settle, lease, attempted, staging, deferred,
                 held, dispatchVars, exitVars, heartbeat, machineVars, newest,
                 replies, retries>>

HandleCancelledValidation ==
  /\ Handling("ValidateDone")
  /\ Owns("Recovery", Msg)
  /\ StaleGeneration(Msg)
  /\ worker' = None
  /\ lease' = RetainLease(lease)
  /\ heartbeat' = TRUE
  /\ ReturnInto(<<DrainFrame>>)
  /\ UNCHANGED <<sessionVars, restore, attempted, staging, deferred, held,
                 dispatchVars, exitVars, machineVars, newest, replies, retries>>

\* The staged state of the session outlived the restore that dropped it.
StageOutlives(s) == s.prepared /\ restore.reset = "failed"

KeepsArmed(l) == [l EXCEPT !.unconfirmed = FALSE]  \* faulty variant
Released(l) == [l EXCEPT !.armed = FALSE, !.unconfirmed = FALSE, !.task = FALSE]

\* A confirmed restore releases the lease, the task and the heartbeat.
HandleConfirmed ==
  /\ Handling("ValidateDone")
  /\ Owns("Recovery", Msg)
  /\ ~StaleGeneration(Msg)
  /\ Msg.ok
  /\ worker' = None
  /\ lease' = Released(lease)
  /\ restore' = [restore EXCEPT !.sched = "off", !.quiet = FALSE]
  /\ attempted' = FALSE
  /\ heartbeat' = FALSE
  /\ taskExists' = FALSE
  /\ debt' = FALSE
  /\ state' = "Waiting"
  /\ LET failed == StageOutlives(staging)
         resetQueued == staging.resetting \/ Occurs(deferred, IsReset)
         s == [staging EXCEPT !.prepared = failed,
                              !.exitAfter = failed \/ resetQueued] IN
     /\ IF failed THEN BeginReset(s) ELSE staging' = s /\ UNCHANGED tasks
     /\ ReturnInto(<<DrainFrame,
                     [op |-> "afterRestore", resetFailed |-> failed,
                      followup |-> HasDeferredFollowup(deferred)]>>)
  /\ UNCHANGED <<req, sess, base, settle, deferred, held, gen, timers, exitVars,
                 tiers, newest, replies, retries>>

\* After the drain: a newer transaction keeps the helper, a reset under way
\* delays the exit, and otherwise the helper has done its work.
AfterRestore ==
  /\ OnTop("afterRestore")
  /\ IF Head(todo).followup /\ ~Head(todo).resetFailed
     THEN /\ staging' = [staging EXCEPT !.exitAfter = FALSE]
          /\ UNCHANGED <<gen, exitVars>>
     ELSE /\ UNCHANGED staging
          /\ IF staging.exitAfter THEN UNCHANGED <<gen, exitVars>>
             ELSE ExitCallback(0, gen)
  /\ Return
  /\ UNCHANGED <<sessionVars, recoveryVars, fenceVars, tasks, timers, heartbeat,
                 machineVars, newest, replies, retries>>

-----------------------------------------------------------------------------
(* Display events.                                                         *)

EventFresh ==
  /\ Handling("Event")
  /\ ~StaleGeneration(Msg)
  /\ ~StaleConnection(Msg)

Identity == Msg.event # "generic"

Monitoring == state = "VirtualDisplayMonitoring"

VirtualSession ==
  /\ req.virt # "none"
  /\ state \in {"VirtualDisplayMonitoring", "InProgress", "Verification"}

FenceUp == WorkerActive \/ staging.resetting

\* A physical display of the baseline may be back, once per APPLY.
BaselineAdmissible ==
  /\ Monitoring
  /\ base.avail
  /\ Msg.event # "removal"
  /\ ~FenceUp

HandleBaselineReturn ==
  /\ EventFresh
  /\ VirtualSession
  /\ BaselineAdmissible
  /\ base' = [base EXCEPT !.avail = FALSE]
  /\ sess' = [sess EXCEPT !.reapply = FALSE]
  /\ state' = "Verification"
  /\ tasks' = Append(tasks, VerifyTask(gen, "BaselineTopologyReturn"))
  /\ Return
  /\ UNCHANGED <<req, settle, recoveryVars, staging, fenceVars, gen, timers,
                 exitVars, heartbeat, machineVars, newest, replies, retries>>

MayDiscover(s) == s.repairs > 0 /\ s.discoveries > 0

\* The event changes nothing: stale, generic without baseline evidence, over
\* budget, no restore to retry, or inside the open window.
EventIgnored ==
  \/ StaleGeneration(Msg) \/ StaleConnection(Msg)
  \/ VirtualSession /\ ~Identity
  \/ VirtualSession /\ Identity /\ ~MayDiscover(sess)
  \/ ~VirtualSession /\ state # "EventLoop"
  \/ state = "EventLoop" /\ (~lease.armed \/ restore.quiet)

HandleEventIgnored ==
  /\ Handling("Event")
  /\ EventIgnored
  /\ Return
  /\ UNCHANGED <<sessionVars, recoveryVars, staging, fenceVars, dispatchVars,
                 exitVars, heartbeat, machineVars, newest, replies, retries>>

\* Faulty variant of HandleSameIdentity: it cancels before it compares.
CancelsSameIdentity ==
  /\ EventFresh
  /\ VirtualSession
  /\ Identity
  /\ MayDiscover(sess)
  /\ sess' = [sess EXCEPT !.discoveries = @ - 1]
  /\ gen' = gen + 1
  /\ Return
  /\ UNCHANGED <<state, req, base, settle, recoveryVars, staging, fenceVars,
                 tasks, timers, exitVars, heartbeat, machineVars, newest, replies,
                 retries>>

\* No identity yet, or the active one again.
HandleSameIdentity ==
  /\ EventFresh
  /\ VirtualSession
  /\ Identity
  /\ MayDiscover(sess)
  /\ sess' = [sess EXCEPT !.discoveries = @ - 1]
  /\ Return
  /\ UNCHANGED <<state, req, base, settle, recoveryVars, staging, fenceVars,
                 dispatchVars, exitVars, heartbeat, machineVars, newest, replies,
                 retries>>

\* Another identity: a repair queued behind the fence, or run at once.
HandleIdentityQueued ==
  /\ EventFresh
  /\ VirtualSession
  /\ Identity
  /\ MayDiscover(sess)
  /\ FenceUp
  /\ sess' = [sess EXCEPT !.discoveries = @ - 1]
  /\ Enqueue([kind |-> "Repair", epoch |-> req.epoch])
  /\ Return
  /\ UNCHANGED <<state, req, base, settle, recoveryVars, staging, worker, held,
                 dispatchVars, exitVars, heartbeat, machineVars, newest, replies,
                 retries>>

HandleIdentityReplaced ==
  /\ EventFresh
  /\ VirtualSession
  /\ Identity
  /\ MayDiscover(sess)
  /\ ~FenceUp
  /\ gen' = gen + 1
  /\ sess' = [sess EXCEPT !.discoveries = @ - 1, !.repairs = @ - 1,
                          !.reapply = TRUE]
  /\ state' = "InProgress"
  /\ StartWorker("Apply", ApplyTask(gen + 1, FALSE))
  /\ Return
  /\ UNCHANGED <<req, base, settle, recoveryVars, staging, deferred, held, timers,
                 exitVars, heartbeat, machineVars, newest, replies, retries>>

RetriableEvent ==
  /\ EventFresh
  /\ state = "EventLoop"
  /\ lease.armed
  /\ ~restore.quiet

\* Inside the open window the schedule decides; disarmed there is none.
HandleEventInWindow ==
  /\ RetriableEvent
  /\ restore.sched # "expired"
  /\ Return
  /\ UNCHANGED <<sessionVars, recoveryVars, staging, fenceVars, dispatchVars,
                 exitVars, heartbeat, machineVars, newest, replies, retries>>

HandleEventReopens ==
  /\ RetriableEvent
  /\ restore.sched = "expired"
  /\ restore' = [restore EXCEPT !.sched = "open", !.reset = "none"]
  /\ StartRecovery(gen)
  /\ Return
  /\ UNCHANGED <<req, sess, base, settle, lease, attempted, staging, deferred,
                 held, gen, timers, exitVars, heartbeat, machineVars, newest,
                 replies, retries>>

HandleEvent ==
  \/ HandleBaselineReturn \/ HandleEventIgnored \/ HandleSameIdentity
  \/ HandleIdentityQueued \/ HandleIdentityReplaced
  \/ HandleEventInWindow \/ HandleEventReopens

-----------------------------------------------------------------------------
(* The tick retries a failed restore while its window is open.             *)

TickInAnyState == lease.armed /\ restore.sched = "open"  \* faulty variant
TickAllowed == state = "EventLoop" /\ lease.armed /\ restore.sched = "open"

HandleTick ==
  /\ todo = <<>>
  /\ running
  /\ TickAllowed
  /\ retries < MaxRetries
  /\ retries' = retries + 1
  /\ restore' = [restore EXCEPT !.reset = "none"]
  /\ StartRecovery(gen)
  /\ UNCHANGED <<req, sess, base, settle, lease, attempted, staging, deferred,
                 held, todo, gen, timers, exitVars, heartbeat, machineVars,
                 newest, replies>>

HandleCompletion ==
  \/ HandleForeignCompletion
  \/ HandleApplyDone \/ HandleCancelledApplyTouched
  \/ HandleCancelledApplyUntouched
  \/ HandleVerifyDone
  \/ HandleResetFailedExit \/ HandleResetDone
  \/ HandleRefreshCancelled \/ HandleRefreshDone
  \/ HandleCancelledRecovery \/ HandleRestored \/ HandleAttemptFailed
  \/ HandleCancelledValidation \/ HandleConfirmed

Continue ==
  \/ DrainNext \/ DrainEnds \/ ResumeFinish \/ ApplyOutcome
  \/ AfterReset \/ ExitAfterReset \/ AfterRestore

Handlers == HandleCommand \/ HandleCompletion \/ Continue \/ HandleEvent
=============================================================================
