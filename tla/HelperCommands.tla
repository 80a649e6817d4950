--------------------------- MODULE HelperCommands ---------------------------
(***************************************************************************)
(* The state machine's helpers and its command handlers (handle_*_command, *)
(* state_machine.cpp), one action per path through a handler.  The message *)
(* being handled is on top of todo.  What no handler touches (the mailbox, *)
(* the epoch, the running task) is left unchanged by the composition in    *)
(* DisplayHelper.                                                          *)
(***************************************************************************)
EXTENDS HelperState

RestorePending == state \in {"Recovery", "RecoveryValidation", "EventLoop"}

RecoveryInProgress == state \in {"Recovery", "RecoveryValidation"}

WorkerActive == worker # None

ApplyInFlight == WorkerActive \/ state \in {"InProgress", "Verification"}

\* is_stale_connection: epoch 0 marks the helper's own commands.
StaleConnection(m) == m.epoch # 0 /\ m.epoch # epoch

StaleGeneration(m) == m.gen # gen

Handling(kind) ==
  /\ todo # <<>>
  /\ Head(todo).op = "handle"
  /\ Head(todo).msg.kind = kind

Msg == Head(todo).msg

HandleFrame(m) == [op |-> "handle", msg |-> m]

DrainFrame == [op |-> "drain"]

Return == todo' = Tail(todo)

ReturnInto(frames) == todo' = frames \o Tail(todo)

-----------------------------------------------------------------------------
(* The deferred-command queue.                                             *)

IsSessionIntent(c) == c.kind \in {"Apply", "Revert", "Disarm"}

IsReset(c) == c.kind = "Reset"

Occurs(q, Test(_)) == \E i \in DOMAIN q : Test(q[i])

\* Faulty variants of Survives: a RESET folded into the session intent, and a
\* queue that supersedes nothing.  No action uses a faulty variant.
FoldsReset(d, c) == IF c.kind = "Repair" THEN d.kind # "Repair" ELSE IsReset(d)
SupersedesNothing(d, c) == TRUE

\* Does the queued d survive the arrival of c?  The newest session intent
\* supersedes all but the RESETs, a newer repair only the older one.
Survives(d, c) ==
  CASE c.kind = "Reset" -> TRUE
    [] c.kind = "Repair" -> d.kind # "Repair"
    [] OTHER -> IsReset(d)

\* An autonomous repair never displaces a client's intent.
Enqueue(c) ==
  IF c.kind = "Repair" /\ Occurs(deferred, IsSessionIntent)
  THEN UNCHANGED deferred
  ELSE \E q \in Filtered(deferred, LAMBDA d : Survives(d, c)) :
         deferred' = Append(q, c)

HasDeferredApply ==
  \E i \in DOMAIN deferred :
    deferred[i].kind \in {"Apply", "Repair"} /\ ~StaleConnection(deferred[i])

IgnoresFollowup(q) == FALSE  \* faulty variant of the next definition
HasDeferredFollowup(q) == \E i \in DOMAIN q : ~IsReset(q[i])

-----------------------------------------------------------------------------
(* Helpers the handlers share.                                             *)

SteadyState ==
  IF req.virt # "none" THEN "VirtualDisplayMonitoring" ELSE "Waiting"

ResetSettlement(s) == [NoSettlement EXCEPT !.recent = s.recent]

StartWorker(kind, task) ==
  /\ worker' = [kind |-> kind, gen |-> task.gen]
  /\ tasks' = Append(tasks, task)

\* start_recovery, with the generation current at its dispatch.
StartRecovery(g) ==
  /\ state' = "Recovery"
  /\ StartWorker("Recovery", RecoverTask(g))

\* activate_recovery_lease, the policy half: the current request's.
CurrentPolicy == [restore EXCEPT !.rod = req.rod]

\* clear_recovery_state(true): also deletes the durable task.  It releases
\* the desktop as it is, so nothing is owed any more.
ClearRecoveryState ==
  /\ lease' = [lease EXCEPT !.armed = FALSE, !.explicit = FALSE, !.task = FALSE]
  /\ restore' = [restore EXCEPT !.sched = "off", !.quiet = FALSE]
  /\ settle' = NoSettlement
  /\ attempted' = FALSE
  /\ heartbeat' = FALSE
  /\ base' = NoBase
  /\ taskExists' = FALSE
  /\ debt' = FALSE

\* begin_staged_state_reset
BeginReset(s) ==
  IF s.resetting
  THEN staging' = s /\ UNCHANGED tasks
  ELSE /\ staging' = [s EXCEPT !.resetting = TRUE]
       /\ tasks' = Append(tasks, ResetTask(gen))

\* The exit callback: a confirmed restore keeps the helper for a newer client.
ExitCallback(code, g) ==
  IF code = 0 /\ origin # 0 /\ epoch > origin /\ link \in {"up", "broken"}
  THEN origin' = 0 /\ gen' = g /\ UNCHANGED running
  ELSE running' = FALSE /\ gen' = g + 1 /\ UNCHANGED origin

UncheckedTier == TRUE  \* faulty variant of the next definition
\* snapshots_.has_any(): a tier to restore from.
AnyTier == tiers

Accept(c) == newest' = IF c.seq > newest THEN c.seq ELSE newest

-----------------------------------------------------------------------------
(* A command of a retired connection changes nothing.                      *)

HandleStaleCommand ==
  /\ \E kind \in {"Apply", "Repair", "Revert", "Disarm", "Reset", "Snapshot",
                  "Refresh"} : Handling(kind)
  /\ StaleConnection(Msg)
  /\ Return
  /\ UNCHANGED <<sessionVars, recoveryVars, staging, fenceVars, dispatchVars,
                 exitVars, heartbeat, machineVars, newest, replies, retries>>

-----------------------------------------------------------------------------
(* APPLY.                                                                  *)

\* Behind a worker or a staged reset it waits, without cancelling the worker.
HandleApplyDeferred ==
  /\ Handling("Apply")
  /\ ~StaleConnection(Msg)
  /\ WorkerActive \/ staging.resetting
  /\ lease' = [lease EXCEPT !.explicit = FALSE]
  /\ settle' = ResetSettlement(settle)
  /\ Enqueue(Msg)
  /\ Accept(Msg)
  /\ Return
  /\ UNCHANGED <<state, req, sess, base, restore, attempted, staging, worker,
                 held, dispatchVars, exitVars, heartbeat, machineVars, replies,
                 retries>>

UncancelledGeneration == gen  \* faulty variant of the next definition
\* The generation a new transaction starts with: cancel_operations().
ApplyGeneration == gen + 1

HandleApply ==
  /\ Handling("Apply")
  /\ ~StaleConnection(Msg)
  /\ ~WorkerActive
  /\ ~staging.resetting
  /\ state' = "InProgress"
  /\ req' = [virt |-> Msg.req.virt, hdr |-> Msg.req.hdr, rod |-> Msg.req.rod,
             seq |-> Msg.seq, epoch |-> Msg.epoch]
  /\ sess' = NewSession
  /\ base' = [NoBase EXCEPT !.avail = Msg.req.virt = "extended"]
  /\ settle' = [NoSettlement EXCEPT !.recent = TRUE]
  /\ lease' = [lease EXCEPT !.explicit = FALSE, !.before = lease.armed]
  /\ restore' = [restore EXCEPT !.sched = "off", !.rod = Msg.req.rod]
  /\ attempted' = FALSE
  /\ heartbeat' = TRUE
  /\ held' = None
  /\ gen' = ApplyGeneration
  /\ StartWorker("Apply", [op |-> "apply", gen |-> ApplyGeneration,
                           repair |-> FALSE, for |-> Msg.seq])
  /\ \E captured \in BOOLEAN : tiers' = (tiers \/ captured)
  /\ Accept(Msg)
  /\ Return
  /\ UNCHANGED <<staging, deferred, timers, exitVars, taskExists, debt,
                 replies, retries>>

-----------------------------------------------------------------------------
(* A queued virtual-display repair, re-observed at the fence.              *)

\* No virtual session, no budget left, or the identity observed at dispatch
\* is absent or is the active one again.
HandleRepairDropped ==
  /\ Handling("Repair")
  /\ ~StaleConnection(Msg)
  /\ Return
  /\ UNCHANGED <<sessionVars, recoveryVars, staging, fenceVars, dispatchVars,
                 exitVars, heartbeat, machineVars, newest, replies, retries>>

RepairBudget(s) == s.repairs > 0

HandleRepair ==
  /\ Handling("Repair")
  /\ ~StaleConnection(Msg)
  /\ req.seq # 0
  /\ req.virt # "none"
  /\ RepairBudget(sess)
  /\ sess' = [sess EXCEPT !.repairs = @ - 1, !.reapply = TRUE]
  /\ held' = None
  /\ state' = "InProgress"
  /\ StartWorker("Apply", ApplyTask(gen, FALSE))
  /\ Return
  /\ UNCHANGED <<req, base, settle, recoveryVars, staging, deferred, gen, timers,
                 exitVars, heartbeat, machineVars, newest, replies, retries>>

-----------------------------------------------------------------------------
(* REVERT, from the client or from the host loop after a disconnect.       *)

\* What a REVERT latches before anything can defer it.
RevertLease ==
  IF Msg.fromDisconnect THEN lease ELSE [lease EXCEPT !.explicit = TRUE]

RevertSettlement ==
  IF Msg.fromDisconnect THEN settle ELSE ResetSettlement(settle)

JoinsRecovery == Msg.fromDisconnect /\ RecoveryInProgress

HandleRevertJoins ==
  /\ Handling("Revert")
  /\ ~StaleConnection(Msg)
  /\ JoinsRecovery
  /\ Return
  /\ UNCHANGED <<sessionVars, recoveryVars, staging, fenceVars, dispatchVars,
                 exitVars, heartbeat, machineVars, newest, replies, retries>>

\* Behind a worker it also cancels the worker; behind a reset it only waits.
HandleRevertDeferred ==
  /\ Handling("Revert")
  /\ ~StaleConnection(Msg)
  /\ ~JoinsRecovery
  /\ WorkerActive \/ staging.resetting
  /\ gen' = IF WorkerActive THEN gen + 1 ELSE gen
  /\ lease' = RevertLease
  /\ settle' = RevertSettlement
  /\ Enqueue(Msg)
  /\ Accept(Msg)
  /\ Return
  /\ UNCHANGED <<state, req, sess, base, restore, attempted, staging, worker,
                 held, tasks, timers, exitVars, heartbeat, machineVars, replies,
                 retries>>

RevertRuns ==
  /\ Handling("Revert")
  /\ ~StaleConnection(Msg)
  /\ ~JoinsRecovery
  /\ ~WorkerActive
  /\ ~staging.resetting

\* restore_on_disconnect = false: a disconnect keeps the session's desktop.
PolicyKeepsDesktop ==
  Msg.fromDisconnect /\ ~lease.explicit /\ ~restore.rod

HandleRevertPolicyOff ==
  /\ RevertRuns
  /\ PolicyKeepsDesktop
  /\ ClearRecoveryState
  /\ sess' = [sess EXCEPT !.reapply = FALSE, !.discoveries = 0, !.repairs = 0]
  /\ state' = "Waiting"
  /\ held' = None
  /\ gen' = gen + 1
  /\ Accept(Msg)
  /\ Return
  /\ UNCHANGED <<req, staging, worker, deferred, tasks, timers, exitVars, tiers,
                 replies, retries>>

\* No snapshot tier: the helper releases everything and exits.  The state is
\* left as it was.
HandleRevertNothing ==
  /\ RevertRuns
  /\ ~PolicyKeepsDesktop
  /\ ~AnyTier
  /\ ClearRecoveryState
  /\ sess' = [sess EXCEPT !.discoveries = 0, !.repairs = 0]
  /\ held' = None
  /\ ExitCallback(0, gen + 1)
  /\ Accept(Msg)
  /\ Return
  /\ UNCHANGED <<state, req, staging, worker, deferred, tasks, timers, tiers,
                 replies, retries>>

\* arm_primary, and the recovery worker with its grace.
HandleRevert ==
  /\ RevertRuns
  /\ ~PolicyKeepsDesktop
  /\ AnyTier
  /\ lease' = [RevertLease EXCEPT !.armed = TRUE]
  /\ settle' = RevertSettlement
  /\ restore' = [restore EXCEPT !.sched = "open", !.reset = "none"]
  /\ base' = NoBase
  /\ sess' = [sess EXCEPT !.reapply = FALSE]
  /\ heartbeat' = FALSE
  /\ held' = None
  /\ gen' = gen + 1
  /\ StartRecovery(gen + 1)
  /\ Accept(Msg)
  /\ Return
  /\ UNCHANGED <<req, attempted, staging, deferred, timers, exitVars,
                 machineVars, replies, retries>>

-----------------------------------------------------------------------------
(* DISARM.                                                                 *)

\* A restore attempt that began and is not confirmed outlives a plain DISARM.
DisarmIgnored == ~Msg.force /\ RestorePending /\ attempted

HandleDisarmIgnored ==
  /\ Handling("Disarm")
  /\ ~StaleConnection(Msg)
  /\ DisarmIgnored
  /\ Return
  /\ UNCHANGED <<sessionVars, recoveryVars, staging, fenceVars, dispatchVars,
                 exitVars, heartbeat, machineVars, newest, replies, retries>>

\* Behind a reset it waits; behind a worker it also disarms the scheduler and
\* cancels the worker.
HandleDisarmDeferred ==
  /\ Handling("Disarm")
  /\ ~StaleConnection(Msg)
  /\ ~DisarmIgnored
  /\ WorkerActive \/ staging.resetting
  /\ \/ /\ staging.resetting
        /\ UNCHANGED <<gen, restore>>
     \/ /\ ~staging.resetting
        /\ gen' = gen + 1
        /\ restore' = [restore EXCEPT !.sched = "off"]
  /\ lease' = [lease EXCEPT !.explicit = FALSE]
  /\ settle' = ResetSettlement(settle)
  /\ Enqueue(Msg)
  /\ Accept(Msg)
  /\ Return
  /\ UNCHANGED <<state, req, sess, base, attempted, staging, worker, held,
                 tasks, timers, exitVars, heartbeat, machineVars, replies,
                 retries>>

KeepsGuardOnDisarm == lease.unconfirmed

HandleDisarm ==
  /\ Handling("Disarm")
  /\ ~StaleConnection(Msg)
  /\ ~DisarmIgnored
  /\ ~WorkerActive
  /\ ~staging.resetting
  /\ \/ /\ KeepsGuardOnDisarm
        /\ lease' = [lease EXCEPT !.explicit = FALSE]
        /\ settle' = NoSettlement
        /\ base' = NoBase
        /\ sess' = [sess EXCEPT !.applySent = FALSE, !.verifySent = FALSE,
                                !.verified = FALSE, !.reapply = FALSE]
        /\ UNCHANGED <<restore, attempted, heartbeat, taskExists, debt>>
     \/ /\ ~KeepsGuardOnDisarm
        /\ ClearRecoveryState
        /\ sess' = [NoSession EXCEPT !.hdrTried = sess.hdrTried]
  /\ state' = "Waiting"
  /\ held' = None
  /\ gen' = gen + 1
  /\ Accept(Msg)
  /\ Return
  /\ UNCHANGED <<req, staging, worker, deferred, tasks, timers, exitVars, tiers,
                 replies, retries>>

-----------------------------------------------------------------------------
(* EXPORT_GOLDEN and SNAPSHOT_CURRENT: skipped while the display changes.  *)

CaptureAllowed == ~ApplyInFlight /\ ~RestorePending

HandleSnapshot ==
  /\ Handling("Snapshot")
  /\ ~StaleConnection(Msg)
  /\ \E saved \in BOOLEAN : tiers' = (tiers \/ (CaptureAllowed /\ saved))
  /\ Return
  /\ UNCHANGED <<sessionVars, recoveryVars, staging, fenceVars, dispatchVars,
                 exitVars, heartbeat, taskExists, debt, newest,
                 replies, retries>>

-----------------------------------------------------------------------------
(* REFRESH_RATE: inScope tells whether it names the active request's       *)
(* target.                                                                 *)

RefreshAllowed ==
  /\ req.seq = 0 \/ Msg.inScope
  /\ ~ApplyInFlight
  /\ ~RestorePending

HandleRefreshRejected ==
  /\ Handling("Refresh")
  /\ ~StaleConnection(Msg)
  /\ ~RefreshAllowed
  /\ Return
  /\ UNCHANGED <<sessionVars, recoveryVars, staging, fenceVars, dispatchVars,
                 exitVars, heartbeat, machineVars, newest, replies, retries>>

HandleRefresh ==
  /\ Handling("Refresh")
  /\ ~StaleConnection(Msg)
  /\ RefreshAllowed
  /\ StartWorker("RefreshRate", RefreshTask(gen, Msg.inScope))
  /\ Return
  /\ UNCHANGED <<sessionVars, recoveryVars, staging, deferred, held, gen, timers,
                 exitVars, heartbeat, machineVars, newest, replies, retries>>

-----------------------------------------------------------------------------
(* RESET: clears SettingsManager's staged state, without cancelling.       *)

HandleResetDeferred ==
  /\ Handling("Reset")
  /\ ~StaleConnection(Msg)
  /\ staging.resetting \/ WorkerActive
  /\ Enqueue(Msg)
  /\ Return
  /\ UNCHANGED <<sessionVars, recoveryVars, staging, worker, held, dispatchVars,
                 exitVars, heartbeat, machineVars, newest, replies, retries>>

HandleReset ==
  /\ Handling("Reset")
  /\ ~StaleConnection(Msg)
  /\ ~staging.resetting
  /\ ~WorkerActive
  /\ BeginReset(staging)
  /\ Return
  /\ UNCHANGED <<sessionVars, recoveryVars, fenceVars, gen, timers, exitVars,
                 heartbeat, machineVars, newest, replies, retries>>

HandleCommand ==
  \/ HandleStaleCommand
  \/ HandleApplyDeferred \/ HandleApply
  \/ HandleRepairDropped \/ HandleRepair
  \/ HandleRevertJoins \/ HandleRevertDeferred \/ HandleRevertPolicyOff
  \/ HandleRevertNothing \/ HandleRevert
  \/ HandleDisarmIgnored \/ HandleDisarmDeferred \/ HandleDisarm
  \/ HandleSnapshot
  \/ HandleRefreshRejected \/ HandleRefresh
  \/ HandleResetDeferred \/ HandleReset
=============================================================================
