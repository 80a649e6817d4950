------------------------- MODULE HelperCompletions -------------------------
(***************************************************************************)
(* What the state machine does with the dispatcher's completions and with  *)
(* display events (state_machine.cpp), one action per path.  A completion  *)
(* that owns the mutation fence retires it even when it is stale, and then *)
(* the commands queued behind the fence are drained.                       *)
(***************************************************************************)
EXTENDS HelperCommands

\* Faulty variant: a stale completion does not retire its fence.
OwnsIfFresh(kind, m) == worker = [kind |-> kind, gen |-> m.gen] /\ m.gen = gen
Owns(kind, m) == worker = [kind |-> kind, gen |-> m.gen]

\* A completion neither fresh nor owning, or fresh without a fence to retire.
HandleForeignCompletion ==
  /\ \/ Handling("ApplyDone") /\ ~Owns("Apply", Msg)
     \/ Handling("RefreshDone") /\ ~Owns("RefreshRate", Msg)
     \/ Handling("RecoverDone") /\ ~Owns("Recovery", Msg)
     \/ Handling("ValidateDone") /\ ~Owns("Recovery", Msg)
     \/ Handling("VerifyDone") /\ StaleGeneration(Msg)
  /\ Return
  /\ UNCHANGED <<sessionVars, recoveryVars, staging, fenceVars, dispatchVars,
                 exitVars, heartbeat, machineVars, newest, replies, retries>>

-----------------------------------------------------------------------------
(* The delayed verify-before-repair lane of a recent disconnect.           *)

\* Faulty variant of CheckDue: no end to the checks.
CheckAlwaysDue(s) == s.pending \/ (s.requested /\ req.seq # 0)

\* dispatch_next_transient_disconnect_verification returns TRUE.
CheckDue(s) ==
  s.pending \/ (s.requested /\ s.next < SettleChecks /\ req.seq # 0)

\* What that call does then; g is the generation at its dispatch.
DispatchCheck(s, g) ==
  IF s.pending
  THEN settle' = s /\ UNCHANGED <<state, timers>>
  ELSE /\ settle' = [s EXCEPT !.pending = TRUE, !.next = @ + 1]
       /\ state' = "Verification"
       /\ timers' = Append(timers, [gen |-> g, for |-> req.seq])

-----------------------------------------------------------------------------
(* Results published to the client.                                        *)

Capped(n) == IF n < 2 THEN n + 1 ELSE n

\* send_apply_result and send_verification_result, each latched.
Publish(s) ==
  replies' = [replies EXCEPT
    ![req.seq].apply = IF s.applySent THEN @ ELSE Capped(@),
    ![req.seq].verify = IF s.verifySent THEN @ ELSE Capped(@)]

LatchesApplyOnly(s) == [s EXCEPT !.applySent = TRUE]  \* faulty variant
Published(s) == [s EXCEPT !.applySent = TRUE, !.verifySent = TRUE]

-----------------------------------------------------------------------------
(* APPLY completed.                                                        *)

ForgetsTask(l, d) == l  \* faulty variant of the next definition
\* The worker's registration of the durable task, learnt from its completion.
Remembered(l, d) == [l EXCEPT !.task = @ \/ d.armed]

\* finish_apply_completed up to the replacement check: d is the completion, l
\* and h the lease and the held completion before it, rest what comes after.
AcceptApply(d, l, h, rest) ==
  /\ base' = [base EXCEPT !.flight = FALSE]
  /\ lease' = [Remembered(l, d) EXCEPT !.armed = @ \/ d.status = "Ok"
                                                   \/ d.touched]
  /\ restore' = IF d.status = "Ok" \/ d.touched THEN CurrentPolicy ELSE restore
  /\ LET next(op) == [op |-> op, done |-> d, baseline |-> base.flight] IN
     IF HasDeferredApply
     THEN held' = d /\ todo' = <<DrainFrame, next("resume")>> \o rest
     ELSE held' = h /\ todo' = <<next("outcome")>> \o rest

HandleApplyDone ==
  /\ Handling("ApplyDone")
  /\ Owns("Apply", Msg)
  /\ ~StaleGeneration(Msg)
  /\ worker' = None
  /\ staging' = [staging EXCEPT !.prepared = @ \/ Msg.staged]
  /\ AcceptApply(Msg, lease, held, Tail(todo))
  /\ UNCHANGED <<state, req, sess, settle, attempted, deferred, dispatchVars,
                 exitVars, heartbeat, machineVars, newest, replies, retries>>

RetainsUnarmed(l) == [l EXCEPT !.unconfirmed = TRUE]  \* faulty variant
\* What a cancelled mutation that touched the desktop keeps (a restore cannot
\* tell how far it got): the lease, as an unconfirmed guard.
RetainLease(l) == [l EXCEPT !.armed = TRUE, !.unconfirmed = TRUE]

HandleCancelledApplyTouched ==
  /\ Handling("ApplyDone")
  /\ Owns("Apply", Msg)
  /\ StaleGeneration(Msg)
  /\ Msg.touched
  /\ worker' = None
  /\ staging' = [staging EXCEPT !.prepared = @ \/ Msg.staged]
  /\ lease' = RetainLease(Remembered(lease, Msg))
  /\ restore' = CurrentPolicy
  /\ heartbeat' = TRUE
  /\ ReturnInto(<<DrainFrame>>)
  /\ UNCHANGED <<sessionVars, attempted, deferred, held, dispatchVars, exitVars,
                 machineVars, newest, replies, retries>>

\* reset_uncommitted_staged_state_if_needed
UncommittedStage(s, l) ==
  s.prepared /\ ~l.before /\ ~l.armed /\ ~l.unconfirmed

DropUncommitted(s, l) ==
  IF UncommittedStage(s, l)
  THEN /\ lease' = [l EXCEPT !.task = FALSE]
       /\ taskExists' = (taskExists /\ ~l.task)
       /\ BeginReset(s)
  ELSE /\ lease' = l
       /\ staging' = s
       /\ UNCHANGED <<taskExists, tasks>>

HandleCancelledApplyUntouched ==
  /\ Handling("ApplyDone")
  /\ Owns("Apply", Msg)
  /\ StaleGeneration(Msg)
  /\ ~Msg.touched
  /\ worker' = None
  /\ DropUncommitted([staging EXCEPT !.prepared = @ \/ Msg.staged],
                     Remembered(lease, Msg))
  /\ ReturnInto(<<DrainFrame>>)
  /\ UNCHANGED <<sessionVars, restore, attempted, deferred, held, gen, timers,
                 exitVars, heartbeat, tiers, debt, newest, replies, retries>>

-----------------------------------------------------------------------------
(* The drain of the deferred commands, and the rest of an APPLY completion *)
(* that was held for one of them.                                          *)

OnTop(op) == todo # <<>> /\ Head(todo).op = op

\* Faulty variants: no drain while a restore is pending, and a drain of one
\* command only.
DrainRefused ==
  ~RestorePending /\ ~WorkerActive /\ ~staging.resetting /\ deferred # <<>>

DrainContinues == ~WorkerActive /\ ~staging.resetting /\ deferred # <<>>

DrainOne ==
  /\ OnTop("drain")
  /\ DrainContinues
  /\ deferred' = Tail(deferred)
  /\ ReturnInto(<<HandleFrame(Head(deferred))>>)
  /\ UNCHANGED <<sessionVars, recoveryVars, staging, worker, held, dispatchVars,
                 exitVars, heartbeat, machineVars, newest, replies, retries>>

DrainNext ==
  /\ OnTop("drain")
  /\ DrainContinues
  /\ deferred' = Tail(deferred)
  /\ todo' = <<HandleFrame(Head(deferred))>> \o todo
  /\ UNCHANGED <<sessionVars, recoveryVars, staging, worker, held, dispatchVars,
                 exitVars, heartbeat, machineVars, newest, replies, retries>>

DrainEnds ==
  /\ OnTop("drain")
  /\ ~DrainContinues
  /\ Return
  /\ UNCHANGED <<sessionVars, recoveryVars, staging, fenceVars, dispatchVars,
                 exitVars, heartbeat, machineVars, newest, replies, retries>>

\* The replacement started: the obsolete completion publishes nothing.
\* Otherwise its connection retired in between, and the completion goes on.
ResumeFinish ==
  /\ OnTop("resume")
  /\ IF WorkerActive \/ staging.resetting
     THEN Return /\ UNCHANGED held
     ELSE /\ held' = None
          /\ ReturnInto(<<[op |-> "outcome", done |-> Head(todo).done,
                           baseline |-> Head(todo).baseline]>>)
  /\ UNCHANGED <<sessionVars, recoveryVars, staging, worker, deferred,
                 dispatchVars, exitVars, heartbeat, machineVars, newest, replies,
                 retries>>

-----------------------------------------------------------------------------
(* The outcome of an accepted APPLY: the branches of finish_apply_completed *)
(* after the replacement check.                                            *)

Done == Head(todo).done

Succeeded == Done.status = "Ok"

\* A failed baseline repair keeps the verified session.
OutcomeBaselineFailed ==
  /\ OnTop("outcome")
  /\ Head(todo).baseline
  /\ ~Succeeded
  /\ state' = SteadyState
  /\ ReturnInto(<<DrainFrame>>)
  /\ UNCHANGED <<req, sess, base, settle, recoveryVars, staging, fenceVars,
                 dispatchVars, exitVars, heartbeat, machineVars, newest, replies,
                 retries>>

\* The next delayed check decides: after a repair that succeeded, and after
\* any failure of a recently disconnected session.
ChecksDecide ==
  /\ IF Succeeded THEN settle.repairing
     ELSE ~Head(todo).baseline /\ settle.requested
  /\ CheckDue(settle)

OutcomeChecked ==
  /\ OnTop("outcome")
  /\ ChecksDecide
  /\ DispatchCheck([settle EXCEPT !.repairing = FALSE], gen)
  /\ Return
  /\ UNCHANGED <<req, sess, base, recoveryVars, staging, fenceVars, gen, tasks,
                 exitVars, heartbeat, machineVars, newest, replies, retries>>

\* The last repair has no following check: the session counts as verified.
OutcomeRepaired ==
  /\ OnTop("outcome")
  /\ Succeeded
  /\ settle.repairing
  /\ ~ChecksDecide
  /\ settle' = ResetSettlement(settle)
  /\ sess' = [sess EXCEPT !.verified = TRUE]
  /\ lease' = [lease EXCEPT !.armed = TRUE, !.unconfirmed = FALSE]
  /\ restore' = CurrentPolicy
  /\ state' = SteadyState
  /\ ReturnInto(<<DrainFrame>>)
  /\ UNCHANGED <<req, base, attempted, staging, fenceVars, dispatchVars, exitVars,
                 heartbeat, machineVars, newest, replies, retries>>

OutcomeVerify ==
  /\ OnTop("outcome")
  /\ Succeeded
  /\ ~settle.repairing
  /\ state' = "Verification"
  /\ tasks' = Append(tasks, VerifyTask(gen, IF Head(todo).baseline
                                            THEN "BaselineTopologyRepair"
                                            ELSE "Initial"))
  /\ ReturnInto(<<DrainFrame>>)
  /\ UNCHANGED <<req, sess, base, settle, recoveryVars, staging, fenceVars, gen,
                 timers, exitVars, heartbeat, machineVars, newest, replies,
                 retries>>

OutcomeFails ==
  /\ OnTop("outcome")
  /\ ~Succeeded
  /\ ~Head(todo).baseline
  /\ ~ChecksDecide

SettlementOver ==
  settle' = IF settle.requested THEN ResetSettlement(settle) ELSE settle

\* One effective-SDR retry of a virtual display whose HDR state failed.
FallsBackToSdr ==
  /\ ~sess.hdrTried
  /\ req.virt # "none"
  /\ req.hdr
  /\ Done.status = "HdrStateFailed"

OutcomeHdrFallback ==
  /\ OutcomeFails
  /\ FallsBackToSdr
  /\ SettlementOver
  /\ sess' = [sess EXCEPT !.hdrTried = TRUE]
  /\ req' = [req EXCEPT !.hdr = FALSE]
  /\ state' = "InProgress"
  /\ StartWorker("Apply", ApplyTask(gen, TRUE))
  /\ Return
  /\ UNCHANGED <<base, recoveryVars, staging, deferred, held, gen, timers,
                 exitVars, heartbeat, machineVars, newest, replies, retries>>

OutcomeFailed ==
  /\ OutcomeFails
  /\ ~FallsBackToSdr
  /\ SettlementOver
  /\ Publish(sess)
  /\ sess' = Published(sess)
  /\ heartbeat' = (heartbeat /\ lease.armed)
  /\ IF Done.touched
     THEN UNCHANGED <<lease, staging, taskExists, tasks>>
     ELSE DropUncommitted(staging, lease)
  /\ state' = IF sess.verified THEN SteadyState ELSE "Waiting"
  /\ ReturnInto(<<DrainFrame>>)
  /\ UNCHANGED <<req, base, restore, attempted, fenceVars, gen, timers, exitVars,
                 tiers, debt, newest, retries>>

ApplyOutcome ==
  \/ OutcomeBaselineFailed \/ OutcomeChecked \/ OutcomeRepaired \/ OutcomeVerify
  \/ OutcomeHdrFallback \/ OutcomeFailed

-----------------------------------------------------------------------------
(* Verification completed.  This handler never drains.                     *)

Verified(purpose, ok) ==
  /\ Handling("VerifyDone")
  /\ ~StaleGeneration(Msg)
  /\ Msg.purpose = purpose
  /\ Msg.ok = ok

\* The disconnected session stuck.
HandleCheckPassed ==
  /\ Verified("TransientDisconnect", TRUE)
  /\ IF sess.verified
     THEN UNCHANGED <<sess, lease, restore>>
     ELSE /\ sess' = [sess EXCEPT !.verified = TRUE]
          /\ lease' = [lease EXCEPT !.armed = TRUE, !.unconfirmed = FALSE]
          /\ restore' = CurrentPolicy
  /\ settle' = ResetSettlement(settle)
  /\ state' = SteadyState
  /\ Return
  /\ UNCHANGED <<req, base, attempted, staging, fenceVars, dispatchVars, exitVars,
                 heartbeat, machineVars, newest, replies, retries>>

\* It did not: cancel what is left of the checks and repair.
HandleCheckFailed ==
  /\ Verified("TransientDisconnect", FALSE)
  /\ gen' = gen + 1
  /\ settle' = [settle EXCEPT !.pending = FALSE, !.repairing = TRUE]
  /\ state' = "InProgress"
  /\ StartWorker("Apply", ApplyTask(gen + 1, TRUE))
  /\ Return
  /\ UNCHANGED <<req, sess, base, recoveryVars, staging, deferred, held, timers,
                 exitVars, heartbeat, machineVars, newest, replies, retries>>

\* The gate: the first result, or the end of a later repair.
HandleVerified ==
  /\ Verified("Initial", TRUE)
  /\ IF sess.verifySent
     THEN UNCHANGED <<sess, lease, restore, heartbeat, replies>>
     ELSE /\ Publish(sess)
          /\ sess' = [Published(sess) EXCEPT !.verified = TRUE]
          /\ lease' = [lease EXCEPT !.armed = TRUE, !.unconfirmed = FALSE]
          /\ restore' = CurrentPolicy
          /\ heartbeat' = (heartbeat \/ ~settle.requested)
  /\ IF settle.requested /\ CheckDue(settle)
     THEN DispatchCheck(settle, gen)
     ELSE SettlementOver /\ state' = SteadyState /\ UNCHANGED timers
  /\ Return
  /\ UNCHANGED <<req, base, attempted, staging, fenceVars, gen, tasks, exitVars,
                 machineVars, newest, retries>>

BaselinePurposes == {"BaselineTopologyReturn", "BaselineTopologyRepair"}

HandleBaselineVerified ==
  /\ \E purpose \in BaselinePurposes : Verified(purpose, TRUE)
  /\ state' = SteadyState
  /\ Return
  /\ UNCHANGED <<req, sess, base, settle, recoveryVars, staging, fenceVars,
                 dispatchVars, exitVars, heartbeat, machineVars, newest, replies,
                 retries>>

Unverified ==
  \E purpose \in BaselinePurposes \cup {"Initial"} : Verified(purpose, FALSE)

\* A recently disconnected session leaves the decision to its checks.
HandleUnverifiedDisconnected ==
  /\ Unverified
  /\ settle.requested
  /\ IF CheckDue(settle)
     THEN DispatchCheck(settle, gen)
     ELSE /\ settle' = ResetSettlement(settle)
          /\ state' = IF sess.verified THEN SteadyState ELSE "Waiting"
          /\ UNCHANGED timers
  /\ Return
  /\ UNCHANGED <<req, sess, base, recoveryVars, staging, fenceVars, gen, tasks,
                 exitVars, heartbeat, machineVars, newest, replies, retries>>

HandleBaselineMissing ==
  /\ Verified("BaselineTopologyReturn", FALSE)
  /\ ~settle.requested
  /\ sess' = [sess EXCEPT !.reapply = FALSE]
  /\ base' = [base EXCEPT !.flight = TRUE]
  /\ state' = "InProgress"
  /\ StartWorker("Apply", ApplyTask(gen, FALSE))
  /\ Return
  /\ UNCHANGED <<req, settle, recoveryVars, staging, deferred, held, gen, timers,
                 exitVars, heartbeat, machineVars, newest, replies, retries>>

HandleBaselineUnrepaired ==
  /\ Verified("BaselineTopologyRepair", FALSE)
  /\ ~settle.requested
  /\ state' = SteadyState
  /\ Return
  /\ UNCHANGED <<req, sess, base, settle, recoveryVars, staging, fenceVars,
                 dispatchVars, exitVars, heartbeat, machineVars, newest, replies,
                 retries>>

AlwaysReapply(s) == TRUE  \* faulty variant of the next definition
ReapplyAllowed(s) == s.reapply

\* One settings-only repair, then the failure is final.
HandleUnverifiedReapply ==
  /\ Verified("Initial", FALSE)
  /\ ~settle.requested
  /\ ReapplyAllowed(sess)
  /\ sess' = [sess EXCEPT !.reapply = FALSE]
  /\ state' = "InProgress"
  /\ StartWorker("Apply", ApplyTask(gen, TRUE))
  /\ Return
  /\ UNCHANGED <<req, base, settle, recoveryVars, staging, deferred, held, gen,
                 timers, exitVars, heartbeat, machineVars, newest, replies,
                 retries>>

HandleUnverified ==
  /\ Verified("Initial", FALSE)
  /\ ~settle.requested
  /\ ~ReapplyAllowed(sess)
  /\ IF sess.verified
     THEN state' = SteadyState /\ UNCHANGED <<sess, replies>>
     ELSE /\ Publish(sess)
          /\ sess' = Published(sess)
          /\ state' = "Waiting"
  /\ Return
  /\ UNCHANGED <<req, base, settle, recoveryVars, staging, fenceVars,
                 dispatchVars, exitVars, heartbeat, machineVars, newest, retries>>

HandleVerifyDone ==
  \/ HandleCheckPassed \/ HandleCheckFailed \/ HandleVerified
  \/ HandleBaselineVerified \/ HandleUnverifiedDisconnected
  \/ HandleBaselineMissing \/ HandleBaselineUnrepaired
  \/ HandleUnverifiedReapply \/ HandleUnverified
=============================================================================
