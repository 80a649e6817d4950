------------------------- MODULE HelperSessionProofs -------------------------
(***************************************************************************)
(* What the display helper owes the desktop and the client, for every set  *)
(* of requests, events and bounds.  The desktop, for a helper that nobody  *)
(* asks for a RESET: what an APPLY changed is under a recovery lease, and  *)
(* the durable restore task is where the helper believes it is.  Between   *)
(* the moment the worker changes the desktop or registers the task and the *)
(* moment the main thread learns of it, the invariant follows the APPLY    *)
(* through the steps of its task, and in its completion.  The client: an   *)
(* APPLY is answered by its own work, for which the invariant follows the  *)
(* tags of everything that is not stale yet, and once at most, for which   *)
(* it follows every APPLY from place to place; no command is forgotten,    *)
(* for which it follows the deferred queue and what must still drain it;   *)
(* and the newest command wins, for which it follows the order of commands.*)
(* The helper retires itself only when nobody needs it: what a confirmed   *)
(* restore decides is followed through its drain and the reset behind it.  *)
(***************************************************************************)
EXTENDS MutationFenceProofs

ApplyDones == {m \in MessageType : m.kind = "ApplyDone"}
UntouchedDones == {m \in ApplyDones : ~m.touched}
ArmedDones == {m \in ApplyDones : m.armed}
UnarmedDones == {m \in ApplyDones : ~m.armed}

NoDone(G) == Free(mailbox, G) /\ Free(todo, Frames(G))

\* The only mutation in flight is an APPLY, whose task has got as far as
\* reached says, or whose completion is none of G.
OnlyApply(G, reached) ==
  /\ ApplyOutstanding
  /\ NoDone(G)
  /\ ~Free(tasks, MutationTasks) =>
       tasks # <<>> /\ Head(tasks).op = "apply" /\ reached

\* Only an APPLY registers the task.
PhaseInv ==
  phase.armed => phase.at # "start" /\ tasks # <<>> /\ Head(tasks).op = "apply"

\* A changed desktop is leased, or the APPLY that reports it is on its way.
DebtInv ==
  debt => lease.armed \/ OnlyApply(UntouchedDones, phase.at = "touched")

\* A registered task is remembered, or the APPLY that registered it is on its
\* way; without a task none is remembered or reported.
TaskInv ==
  link # "off" =>
    \/ taskExists /\ (lease.task \/ OnlyApply(UnarmedDones, phase.armed))
    \/ ~taskExists /\ ~lease.task /\ NoDone(ArmedDones) /\ ~phase.armed

DesktopInv == PhaseInv /\ DebtInv /\ TaskInv

\* What holds whenever no APPLY is on its way.
Balanced ==
  /\ debt => lease.armed
  /\ link # "off" => (taskExists <=> lease.task)

(* The kinds of completion of an APPLY.                                     *)
LEMMA DonesOfApply ==
  /\ ApplyDones \subseteq MutationDones
  /\ UntouchedDones \subseteq ApplyDones
  /\ ArmedDones \subseteq ApplyDones
  /\ UnarmedDones \subseteq ApplyDones
  /\ \A m \in ApplyDones : IsCompletion(m)
BY DEF ApplyDones, MutationDones, IsMutationDone, UntouchedDones, ArmedDones,
   UnarmedDones, IsCompletion

(* Fewer messages of fewer kinds.                                           *)
LEMMA NoDonePart ==
  ASSUME NEW G, NEW H \in SUBSET G, NoDone(G)
  PROVE  NoDone(H)
BY FramesPart, FreePart DEF NoDone

(* A registration that is not reported yet is that of a task.               *)
LEMMA ArmedTask ==
  ASSUME IInv, PhaseInv, phase.armed
  PROVE  ~Free(tasks, MutationTasks)
<1>1. tasks # <<>> /\ Head(tasks).op = "apply"
  BY DEF PhaseInv
<1>2. tasks \in Seq(TaskType) /\ Head(tasks) \in TaskType
  BY <1>1, TailType DEF IInv, TypeOK, DispatchTypes
<1>3. Head(tasks) \in MutationTasks
  BY <1>1, <1>2 DEF MutationTasks, IsMutationTask
<1> QED
  BY <1>1, <1>2, <1>3, TailSole

(* With no APPLY outstanding there is no completion of one and no task of   *)
(* one, and the helper's books are balanced.                                *)
LEMMA NoApply ==
  ASSUME IInv, MutationInv, DesktopInv, ~ApplyOutstanding
  PROVE  NoDone(ApplyDones) /\ ~phase.armed /\ Balanced
<1>1. NoDone(ApplyDones)
  <2>1. CASE worker = None
    <3>1. NoDone(MutationDones)
      BY <2>1 DEF MutationInv, FenceInv, NoneOf, NoDone
    <3> QED
      BY <3>1, NoDonePart, DonesOfApply
  <2>2. CASE worker # None
    <3>1. worker.kind # "Apply"
      BY <2>2 DEF ApplyOutstanding, WorkerActive
    <3>2. ApplyDones \subseteq ForeignDones(worker)
      BY <3>1, DonesOfApply DEF ApplyDones, ForeignDones, WorkerFor, KindOf
    <3>3. NoDone(ForeignDones(worker))
      BY <2>2 DEF MutationInv, FenceInv, NoneOf, NoDone
    <3> QED
      BY <3>2, <3>3, NoDonePart
  <2> QED
    BY <2>1, <2>2
<1>2. ~phase.armed
  <2> SUFFICES ASSUME phase.armed PROVE FALSE
    OBVIOUS
  <2>1. tasks # <<>> /\ Head(tasks).op = "apply"
    BY DEF DesktopInv, PhaseInv
  <2>2. tasks \in Seq(TaskType) /\ Head(tasks) \in TaskType
    BY <2>1, TailType DEF IInv, TypeOK, DispatchTypes
  <2>3. Head(tasks) \in MutationTasks /\ KindOf(Head(tasks).op) = "Apply"
    BY <2>1, <2>2 DEF MutationTasks, IsMutationTask, KindOf
  <2>4. ~Free(tasks, MutationTasks)
    BY ArmedTask DEF DesktopInv
  <2>5. worker # None /\ Free(tasks, ForeignTasks(worker))
    BY <2>4 DEF MutationInv, FenceInv, NoneOf
  <2>6. worker = WorkerOf(Head(tasks))
    <3>1. Head(tasks) \notin ForeignTasks(worker)
      BY <2>1, <2>2, <2>5, TailSole
    <3> QED
      BY <2>3, <3>1 DEF ForeignTasks
  <2> QED
    BY <2>3, <2>5, <2>6 DEF ApplyOutstanding, WorkerActive, WorkerOf
<1>3. Balanced
  BY DEF DesktopInv, DebtInv, TaskInv, OnlyApply, Balanced
<1> QED
  BY <1>1, <1>2, <1>3

(* Balanced books with no registration to report are all that is asked.     *)
LEMMA BalancedAfter ==
  ASSUME Balanced', ~phase'.armed, NoDone(ArmedDones)'
  PROVE  DesktopInv'
BY DEF Balanced, DesktopInv, PhaseInv, DebtInv, TaskInv

(* Steps that leave the worker, and do not dispatch a mutation, keep what   *)
(* is owed unless they settle it.                                           *)
LEMMA KeptDesktop ==
  ASSUME IInv, DesktopInv, UNCHANGED <<worker, phase, taskExists>>,
         lease'.task = lease.task, debt' => debt /\ (lease.armed => lease'.armed),
         link = "off" => link' = "off",
         tasks' = tasks \/ \E t \in TaskType : tasks' = Append(tasks, t),
         Free(tasks, MutationTasks) => Free(tasks', MutationTasks),
         \A G \in SUBSET ApplyDones : NoDone(G) => NoDone(G)'
  PROVE  DesktopInv'
<1>1. /\ NoDone(UntouchedDones) => NoDone(UntouchedDones)'
      /\ NoDone(UnarmedDones) => NoDone(UnarmedDones)'
      /\ NoDone(ArmedDones) => NoDone(ArmedDones)'
  BY DonesOfApply
<1>2. tasks # <<>> => tasks' # <<>> /\ Head(tasks') = Head(tasks)
  <2>1. tasks \in Seq(TaskType)
    BY DEF IInv, TypeOK, DispatchTypes
  <2> HIDE DEF TaskType
  <2> QED
    BY <2>1
<1>3. ApplyOutstanding => ApplyOutstanding'
  BY DEF ApplyOutstanding, WorkerActive
<1>4. /\ OnlyApply(UntouchedDones, phase.at = "touched")
           => OnlyApply(UntouchedDones, phase.at = "touched")'
      /\ OnlyApply(UnarmedDones, phase.armed) => OnlyApply(UnarmedDones, phase.armed)'
  BY <1>1, <1>2, <1>3, Zenon DEF OnlyApply
<1>5. PhaseInv'
  BY <1>2 DEF DesktopInv, PhaseInv
<1>6. DebtInv'
  BY <1>4 DEF DesktopInv, DebtInv
<1>7. TaskInv'
  BY <1>1, <1>4 DEF DesktopInv, TaskInv
<1> QED
  BY <1>5, <1>6, <1>7 DEF DesktopInv

(* A handler pushes no completion.                                          *)
LEMMA CallsNoDone ==
  ASSUME IInv, Calls, NEW G, \A m \in G : IsCompletion(m), Free(mailbox, G),
         Free(Tail(todo), Frames(G))
  PROVE  NoDone(G)'
<1>1. todo \in Seq(FrameType) /\ todo # <<>> /\ Tail(todo) \in Seq(FrameType)
      /\ UNCHANGED mailbox
  BY TailType DEF IInv, TypeOK, FenceTypes, Calls
<1>2. PICK s \in Seq(FrameType) :
        /\ todo' = s \o Tail(todo)
        /\ \A i \in DOMAIN s : s[i].op = "handle" => ~IsCompletion(s[i].msg)
  BY DEF Calls
<1>3. Free(s, Frames(G))
  <2> SUFFICES ASSUME NEW i \in DOMAIN s, NEW m \in G, s[i] = HandleFrame(m)
               PROVE  FALSE
    BY DEF Free, Frames
  <2>1. s[i].op = "handle" /\ s[i].msg = m
    BY DEF HandleFrame
  <2> QED
    BY <1>2, <2>1
<1>4. Free(todo', Frames(G))
  BY <1>1, <1>2, <1>3, PushSole
<1> QED
  BY <1>1, <1>4 DEF NoDone

-----------------------------------------------------------------------------
(* Handlers.                                                                *)

(* Only the handlers of an APPLY's completion, of a restore and of commands *)
(* that find no worker touch the books.                                     *)
BooksKept ==
  /\ \/ debt' = debt /\ (lease.armed => lease'.armed)
     \/ debt' = FALSE
  /\ \/ taskExists' = taskExists /\ lease'.task = lease.task
     \/ /\ ~ApplyOutstanding
        /\ ~lease'.task
        /\ taskExists' => taskExists /\ ~lease.task

(* The commands.                                                            *)
LEMMA CommandBooks ==
  ASSUME IInv, HandleCommand
  PROVE  BooksKept
<1>0. lease \in LeaseType
  BY DEF IInv, TypeOK, RecoveryTypes
<1>1. CASE HandleRevertPolicyOff \/ HandleRevertNothing
  <2>1. ClearRecoveryState /\ ~WorkerActive
    BY <1>1 DEF HandleRevertPolicyOff, HandleRevertNothing, RevertRuns
  <2> QED
    BY <1>0, <2>1 DEF ClearRecoveryState, BooksKept, ApplyOutstanding, LeaseType
<1>2. CASE HandleDisarm
  <2>1. \/ ClearRecoveryState /\ ~WorkerActive
        \/ lease' = [lease EXCEPT !.explicit = FALSE] /\ UNCHANGED <<taskExists, debt>>
    BY <1>2 DEF HandleDisarm
  <2> QED
    BY <1>0, <2>1 DEF ClearRecoveryState, BooksKept, ApplyOutstanding, LeaseType
<1>3. CASE ~HandleRevertPolicyOff /\ ~HandleRevertNothing /\ ~HandleDisarm
  <2>1. /\ UNCHANGED <<taskExists, debt>>
        /\ lease.armed => lease'.armed
        /\ lease'.task = lease.task
    BY <1>0, <1>3 DEF HandleCommand, HandleStaleCommand, HandleApplyDeferred, HandleApply,
       HandleRepairDropped, HandleRepair, HandleRevertJoins, HandleRevertDeferred,
       HandleRevert, RevertLease, HandleDisarmIgnored, HandleDisarmDeferred,
       HandleSnapshot, HandleRefreshRejected, HandleRefresh, HandleResetDeferred,
       HandleReset, recoveryVars, machineVars, LeaseType
  <2> QED
    BY <2>1 DEF BooksKept
<1> QED
  BY <1>1, <1>2, <1>3

(* Events and verdicts.                                                     *)
LEMMA VerdictBooks ==
  ASSUME IInv, HandleEvent \/ HandleVerifyDone
  PROVE  BooksKept
<1>0. lease \in LeaseType
  BY DEF IInv, TypeOK, RecoveryTypes
<1>1. /\ UNCHANGED <<taskExists, debt>>
      /\ lease.armed => lease'.armed
      /\ lease'.task = lease.task
  BY <1>0 DEF HandleEvent, HandleBaselineReturn, HandleEventIgnored,
     HandleSameIdentity, HandleIdentityQueued, HandleIdentityReplaced,
     HandleEventInWindow, HandleEventReopens, HandleVerifyDone, HandleCheckPassed,
     HandleCheckFailed, HandleVerified, HandleBaselineVerified,
     HandleUnverifiedDisconnected, HandleBaselineMissing, HandleBaselineUnrepaired,
     HandleUnverifiedReapply, HandleUnverified, recoveryVars, machineVars, LeaseType
<1> QED
  BY <1>1 DEF BooksKept

(* reset_uncommitted_staged_state_if_needed forgets the task it deletes.    *)
LEMMA DropBooks ==
  ASSUME NEW s, NEW l \in LeaseType, DropUncommitted(s, l)
  PROVE  /\ lease'.armed = l.armed
         /\ \/ lease' = l /\ taskExists' = taskExists
            \/ ~lease'.task /\ taskExists' = (taskExists /\ ~l.task)
BY DEF DropUncommitted, LeaseType

(* The outcome of an APPLY finds no worker.                                 *)
LEMMA OutcomeBooks ==
  ASSUME IInv, MutationInv, ApplyOutcome
  PROVE  BooksKept
<1>0. lease \in LeaseType
  BY DEF IInv, TypeOK, RecoveryTypes
<1>1. ~ApplyOutstanding
  <2>1. OnTop("outcome")
    BY DEF ApplyOutcome, OutcomeBaselineFailed, OutcomeChecked, OutcomeRepaired,
       OutcomeVerify, OutcomeHdrFallback, OutcomeFailed, OutcomeFails
  <2> QED
    BY <2>1 DEF MutationInv, StackInv, FenceUp, ApplyOutstanding
<1>2. CASE OutcomeFailed
  <2>1. debt' = debt
    BY <1>2 DEF OutcomeFailed
  <2>2. CASE UNCHANGED <<lease, taskExists>>
    BY <2>1, <2>2 DEF BooksKept
  <2>3. CASE DropUncommitted(staging, lease)
    BY <1>0, <1>1, <2>1, <2>3, DropBooks DEF BooksKept
  <2> QED
    BY <1>2, <2>2, <2>3 DEF OutcomeFailed
<1>3. CASE ~OutcomeFailed
  <2>1. /\ UNCHANGED <<taskExists, debt>>
        /\ lease.armed => lease'.armed
        /\ lease'.task = lease.task
    BY <1>0, <1>3 DEF ApplyOutcome, OutcomeBaselineFailed, OutcomeChecked,
       OutcomeRepaired, OutcomeVerify, OutcomeHdrFallback, recoveryVars, machineVars,
       LeaseType
  <2> QED
    BY <2>1 DEF BooksKept
<1> QED
  BY <1>2, <1>3

\* The handlers that learn what an APPLY did.
ApplyReports ==
  HandleApplyDone \/ HandleCancelledApplyTouched \/ HandleCancelledApplyUntouched

(* The other completions: a confirmed restore releases the desktop, and a   *)
(* helper that nobody asks for a RESET holds no completion behind one.      *)
LEMMA CompletionBooks ==
  ASSUME IInv, ApplyCompletion \/ RestoreCompletion, ~ApplyReports,
         OnTop("afterReset") => held = None
  PROVE  BooksKept
<1>0. lease \in LeaseType
  BY DEF IInv, TypeOK, RecoveryTypes
<1>1. CASE HandleConfirmed
  <2>1. ~ApplyOutstanding
    BY <1>1 DEF HandleConfirmed, Owns, ApplyOutstanding
  <2> QED
    BY <1>0, <1>1, <2>1 DEF HandleConfirmed, Released, BooksKept, LeaseType
<1>2. CASE HandleCancelledRecovery \/ HandleCancelledValidation
  BY <1>0, <1>2 DEF HandleCancelledRecovery, HandleCancelledValidation, RetainLease,
     BooksKept, machineVars, LeaseType
<1>3. CASE AfterReset
  BY <1>3 DEF AfterReset, BooksKept, machineVars
<1>4. CASE ~HandleConfirmed /\ ~HandleCancelledRecovery /\ ~HandleCancelledValidation
           /\ ~AfterReset
  <2>1. UNCHANGED <<lease, taskExists, debt>>
    BY <1>4 DEF ApplyCompletion, RestoreCompletion, ApplyReports,
       HandleForeignCompletion, DrainNext, DrainEnds, ResumeFinish,
       HandleResetFailedExit, HandleResetDone, HandleRefreshCancelled,
       HandleRefreshDone, HandleRestored, HandleAttemptFailed, ExitAfterReset,
       AfterRestore, recoveryVars, machineVars
  <2> QED
    BY <2>1 DEF BooksKept
<1> QED
  BY <1>1, <1>2, <1>3, <1>4

(* Handlers that do not end an APPLY.                                       *)
LEMMA HandlersBooks ==
  ASSUME IInv, MutationInv, Handlers, ~ApplyReports
  PROVE  BooksKept
<1>1. OnTop("afterReset") => held = None
  <2>1. OnTop("afterReset") => /\ todo # <<>> /\ ~OnTop("resume") /\ ~OnTop("drain")
                               /\ ~HandleOnTop
    BY DEF OnTop, HandleOnTop
  <2> QED
    BY <2>1, NothingHeld DEF MutationInv
<1> QED
  BY <1>1, CommandBooks, VerdictBooks, OutcomeBooks, CompletionBooks
     DEF Handlers, HandleCompletion, Continue, ApplyCompletion, RestoreCompletion

(* The handlers of the completion that retires an APPLY.                    *)
LEMMA ReportTop ==
  ASSUME Handlers, Handling("ApplyDone"), Owns("Apply", Msg)
  PROVE  ApplyReports
BY DEF Handlers, HandleCommand, HandleStaleCommand, HandleApplyDeferred, HandleApply,
   HandleRepairDropped, HandleRepair, HandleRevertJoins, HandleRevertDeferred,
   HandleRevertPolicyOff, HandleRevertNothing, HandleRevert, RevertRuns,
   HandleDisarmIgnored, HandleDisarmDeferred, HandleDisarm, HandleSnapshot,
   HandleRefreshRejected, HandleRefresh, HandleResetDeferred, HandleReset, Continue,
   DrainNext, DrainEnds, ResumeFinish, ApplyOutcome, OutcomeBaselineFailed,
   OutcomeChecked, OutcomeRepaired, OutcomeVerify, OutcomeHdrFallback, OutcomeFailed,
   OutcomeFails, AfterReset, ExitAfterReset, AfterRestore, HandleEvent,
   HandleBaselineReturn, HandleEventIgnored, HandleSameIdentity, HandleIdentityQueued,
   HandleIdentityReplaced, HandleEventInWindow, HandleEventReopens, RetriableEvent,
   EventFresh, Handling, OnTop, HandleCompletion, HandleForeignCompletion,
   HandleVerifyDone, HandleCheckPassed, HandleCheckFailed, HandleVerified,
   HandleBaselineVerified, HandleUnverifiedDisconnected, HandleBaselineMissing,
   HandleBaselineUnrepaired, HandleUnverifiedReapply, HandleUnverified, Verified,
   Unverified, HandleResetFailedExit, HandleResetDone, HandleRefreshCancelled,
   HandleRefreshDone, HandleCancelledRecovery, HandleRestored, HandleAttemptFailed,
   HandleCancelledValidation, HandleConfirmed, ApplyReports

(* No other handler ends an APPLY, or dispatches a mutation beside it.      *)
LEMMA ApplyKept ==
  ASSUME IInv, MutationInv, Handlers, Effects, ApplyOutstanding, ~ApplyReports
  PROVE  worker' = worker /\ NotAdded(MutationTasks)
<1>1. worker # None /\ worker.kind = "Apply"
  BY DEF ApplyOutstanding, WorkerActive
<1>2. ~Starts
  BY <1>1, StartsFree
<1>3. ~HandleRestored
  BY <1>1 DEF HandleRestored, Owns
<1>4. ~Retires
  <2> SUFFICES ASSUME Retires PROVE FALSE
    OBVIOUS
  <2>1. HandleOnTop /\ IsMutationDone(Msg) /\ worker = WorkerFor(Msg)
    BY DEF Retires
  <2>2. Msg.kind = "ApplyDone"
    BY <1>1, <2>1 DEF WorkerFor, KindOf, IsMutationDone
  <2>3. Handling("ApplyDone") /\ Owns("Apply", Msg)
    BY <2>1, <2>2 DEF Handling, HandleOnTop, OnTop, Owns, WorkerFor, KindOf, Msg
  <2> QED
    BY <2>3, ReportTop
<1>5. worker' = worker
  BY <1>2, <1>3, <1>4 DEF Effects, Skips, Defers, Cancels, Judges, Concludes, Resets,
     Ends, AfterReset, DrainEnds, DrainNext, ResumeFinish, HandleBaselineReturn,
     ApplyReports, fenceVars
<1> QED
  BY <1>2, <1>3, <1>5, NoMutationAdded

(* The main thread learns what an APPLY did.                                *)
LEMMA ReportDesktop ==
  ASSUME IInv, MutationInv, DesktopInv, Handle, ApplyReports
  PROVE  DesktopInv'
<1>0. Calls /\ todo # <<>> /\ UNCHANGED <<phase, link>>
  BY HandlersCall, HandlersTop DEF Handle, hostUnchanged, hostVars
<1>1. Handling("ApplyDone") /\ HandleOnTop /\ IsMutationDone(Msg)
  BY DEF ApplyReports, HandleApplyDone, HandleCancelledApplyTouched,
     HandleCancelledApplyUntouched, Handling, HandleOnTop, OnTop, IsMutationDone, Msg
<1>2. Popped(MutationTasks, MutationDones)
  BY <1>0, <1>1, HandledTop, OwnedTop DEF MutationInv
<1>3. NoDone(ApplyDones)'
  <2>1. Free(mailbox, ApplyDones) /\ Free(Tail(todo), Frames(ApplyDones))
    BY <1>2, DonesOfApply, FreePart, FramesPart DEF Popped
  <2> QED
    BY <1>0, <2>1, CallsNoDone, DonesOfApply
<1>4. ~phase.armed
  BY <1>2, ArmedTask DEF DesktopInv, Popped
<1>5. Msg \in ApplyDoneType
  BY <1>1, ApplyCompletionTop DEF IInv, ApplyReports, ApplyCompletion
<1>6. /\ Msg.armed \in BOOLEAN /\ Msg.touched \in BOOLEAN /\ Msg \in ApplyDones
      /\ Msg.staged \in BOOLEAN
  BY <1>5 DEF ApplyDoneType, ApplyDones, MessageType
<1>7. debt => lease.armed \/ Msg.touched
  <2>1. NoDone(UntouchedDones) => Msg.touched
    BY <1>1, <1>6, TopAllowed DEF NoDone, UntouchedDones
  <2> QED
    BY <2>1 DEF DesktopInv, DebtInv, OnlyApply
<1>8. link # "off" => (taskExists <=> lease.task \/ Msg.armed)
  <2>1. NoDone(UnarmedDones) => Msg.armed
    BY <1>1, <1>6, TopAllowed DEF NoDone, UnarmedDones
  <2>2. NoDone(ArmedDones) => ~Msg.armed
    BY <1>1, <1>6, TopAllowed DEF NoDone, ArmedDones
  <2>3. lease.task \in BOOLEAN
    BY DEF IInv, TypeOK, RecoveryTypes, LeaseType
  <2> QED
    BY <1>4, <2>1, <2>2, <2>3 DEF DesktopInv, TaskInv, OnlyApply
<1> DEFINE l == Remembered(lease, Msg)
<1>9. /\ l \in LeaseType /\ l.armed = lease.armed /\ l.task = (lease.task \/ Msg.armed)
  BY <1>6 DEF Remembered, IInv, TypeOK, RecoveryTypes, LeaseType
<1>10. debt' = debt
  BY DEF ApplyReports, HandleApplyDone, HandleCancelledApplyTouched,
     HandleCancelledApplyUntouched, machineVars
<1>11. Balanced'
  <2>1. CASE HandleApplyDone
    <3>1. /\ lease' = [l EXCEPT !.armed = @ \/ Msg.status = "Ok" \/ Msg.touched]
          /\ taskExists' = taskExists
      BY <2>1 DEF HandleApplyDone, AcceptApply, machineVars
    <3> HIDE DEF l
    <3>2. lease'.task = l.task /\ (l.armed \/ Msg.touched => lease'.armed)
      BY <1>9, <3>1 DEF LeaseType
    <3> QED
      BY <1>0, <1>7, <1>8, <1>9, <1>10, <3>1, <3>2 DEF Balanced
  <2>2. CASE HandleCancelledApplyTouched
    <3>1. lease' = RetainLease(l) /\ taskExists' = taskExists
      BY <2>2 DEF HandleCancelledApplyTouched, machineVars
    <3> HIDE DEF l
    <3>2. lease'.task = l.task /\ lease'.armed
      BY <1>9, <3>1 DEF LeaseType, RetainLease
    <3> QED
      BY <1>0, <1>8, <1>9, <3>1, <3>2 DEF Balanced
  <2>3. CASE HandleCancelledApplyUntouched
    <3>1. /\ ~Msg.touched
          /\ \E s : DropUncommitted(s, l)
      BY <2>3 DEF HandleCancelledApplyUntouched
    <3> HIDE DEF l
    <3>2. /\ lease'.armed = l.armed
          /\ \/ lease' = l /\ taskExists' = taskExists
             \/ ~lease'.task /\ taskExists' = (taskExists /\ ~l.task)
      BY <1>9, <3>1, DropBooks
    <3>3. taskExists \in BOOLEAN /\ lease.task \in BOOLEAN
      BY DEF IInv, TypeOK, RecoveryTypes, LeaseType, HistoryTypes
    <3>4. debt' => lease'.armed
      BY <1>7, <1>9, <1>10, <3>1, <3>2
    <3>5. link' # "off" => (taskExists' <=> lease'.task)
      <4>1. CASE lease' = l /\ taskExists' = taskExists
        BY <1>0, <1>6, <1>8, <1>9, <3>3, <4>1, Zenon
      <4>2. CASE ~lease'.task /\ taskExists' = (taskExists /\ ~l.task)
        BY <1>0, <1>6, <1>8, <1>9, <3>3, <4>2
      <4> QED
        BY <3>2, <4>1, <4>2
    <3> QED
      BY <3>4, <3>5 DEF Balanced
  <2> QED
    BY <2>1, <2>2, <2>3 DEF ApplyReports
<1>12. NoDone(ArmedDones)'
  BY <1>3, DonesOfApply, FreePart, FramesPart DEF NoDone
<1> QED
  BY <1>0, <1>4, <1>11, <1>12, BalancedAfter

(* Every handler keeps the invariant.                                       *)
LEMMA HandlersDesktop ==
  ASSUME IInv, IInv', MutationInv, DesktopInv, Handle
  PROVE  DesktopInv'
<1>0. Calls /\ todo # <<>> /\ Handlers /\ UNCHANGED <<phase, link, mailbox>>
  BY HandlersCall, HandlersTop DEF Handle, hostUnchanged, hostVars
<1>1. Effects
  <2>1. HandleOnTop => Msg.kind # "Reset"
    BY TopAllowed DEF MutationInv, PendingInv, Unheard
  <2> QED
    BY <1>0, <2>1, HandlersEffects
<1>2. \A G \in SUBSET ApplyDones : NoDone(G) => NoDone(G)'
  <2> SUFFICES ASSUME NEW G \in SUBSET ApplyDones, NoDone(G) PROVE NoDone(G)'
    OBVIOUS
  <2>1. todo \in Seq(FrameType)
    BY DEF IInv, TypeOK, FenceTypes
  <2>2. Free(mailbox, G) /\ Free(Tail(todo), Frames(G))
    BY <1>0, <2>1, TailSole DEF NoDone
  <2> QED
    BY <1>0, <2>2, CallsNoDone, DonesOfApply
<1>3. CASE ApplyReports
  BY <1>3, ReportDesktop
<1>4. CASE ~ApplyReports /\ ~ApplyOutstanding
  <2>1. NoDone(ApplyDones) /\ ~phase.armed /\ Balanced
    BY <1>4, NoApply
  <2>2. BooksKept
    BY <1>0, <1>4, HandlersBooks
  <2>3. lease.task \in BOOLEAN /\ taskExists \in BOOLEAN
    BY DEF IInv, TypeOK, RecoveryTypes, LeaseType, HistoryTypes
  <2>4. Balanced'
    BY <1>0, <2>1, <2>2, <2>3 DEF Balanced, BooksKept
  <2>5. NoDone(ArmedDones)'
    BY <1>2, <2>1, NoDonePart, DonesOfApply
  <2> QED
    BY <1>0, <2>1, <2>4, <2>5, BalancedAfter
<1>5. CASE ~ApplyReports /\ ApplyOutstanding
  <2>1. worker' = worker /\ NotAdded(MutationTasks)
    BY <1>0, <1>1, <1>5, ApplyKept
  <2>2. BooksKept
    BY <1>0, <1>5, HandlersBooks
  <2>3. /\ taskExists' = taskExists /\ lease'.task = lease.task
        /\ debt' => debt /\ (lease.armed => lease'.armed)
    BY <1>5, <2>2 DEF BooksKept
  <2>4. tasks' = tasks \/ \E t \in TaskType : tasks' = Append(tasks, t)
    BY <1>1, AddedNow
  <2>5. Free(tasks, MutationTasks) => Free(tasks', MutationTasks)
    <3>1. tasks \in Seq(TaskType)
      BY DEF IInv, TypeOK, DispatchTypes
    <3> QED
      BY <2>1, <3>1, AppendSole DEF NotAdded
  <2> QED
    BY <1>0, <1>2, <2>1, <2>3, <2>4, <2>5, KeptDesktop
<1> QED
  BY <1>3, <1>4, <1>5

-----------------------------------------------------------------------------
(* The worker.                                                              *)

(* A task that is no APPLY.                                                 *)
LEMMA OtherTask ==
  ASSUME IInv, DesktopInv, WorkerThread, Head(tasks).op # "apply"
  PROVE  DesktopInv'
<1>1. UNCHANGED <<lease, taskExists, debt, link, worker, todo>>
  <2>1. ~ApplyWorker
    BY DEF ApplyWorker, ApplyRefused, ApplyArms, ApplyAbortsAtBoundary, ApplyTouches,
       ApplyCompletes, At, Task
  <2>2. UNCHANGED <<taskExists, debt>>
    BY <2>1 DEF WorkerThread, VerifyRuns, ResetRuns, RefreshRuns, RecoveryWorker,
       RecoveryAborts, RecoveryBegins, RecoveryMarks, RecoveryCompletes, ValidationRuns
  <2> QED
    BY <2>2, WorkerMoves
<1>2. ~phase.armed
  BY DEF DesktopInv, PhaseInv
<1>3. ~phase'.armed
  <2>1. phase' \in {phase, AtStart, [phase EXCEPT !.at = "boundary"],
                    [phase EXCEPT !.at = "touched"]}
    BY DEF WorkerThread, ApplyWorker, ApplyRefused, ApplyArms, ApplyAbortsAtBoundary,
       ApplyTouches, ApplyCompletes, At, Task, VerifyRuns, ResetRuns, RefreshRuns,
       RecoveryWorker, RecoveryAborts, RecoveryBegins, RecoveryMarks, RecoveryCompletes,
       ValidationRuns, Complete
  <2>2. phase \in [at : {"start", "boundary", "touched"}, armed : BOOLEAN]
    BY DEF IInv, TypeOK, DispatchTypes
  <2> QED
    BY <1>2, <2>1, <2>2 DEF AtStart
<1>4. /\ Free(tasks, MutationTasks) => Free(tasks', MutationTasks)
      /\ \A G \in SUBSET ApplyDones : NoDone(G) => NoDone(G)'
  <2>1. CASE UNCHANGED <<tasks, mailbox>>
    BY <1>1, <2>1 DEF NoDone
  <2>2. ASSUME NEW m \in MessageType, tasks # <<>>, tasks' = Tail(tasks),
               mailbox' = Append(mailbox, m), <<Head(tasks).op, m.kind>> \in Reports
        PROVE  /\ Free(tasks, MutationTasks) => Free(tasks', MutationTasks)
               /\ \A G \in SUBSET ApplyDones : NoDone(G) => NoDone(G)'
    <3>1. m \notin ApplyDones
      BY <2>2 DEF Reports, ApplyDones
    <3>2. tasks \in Seq(TaskType) /\ mailbox \in Seq(MessageType)
      BY DEF IInv, TypeOK, DispatchTypes, HostTypes
    <3>3. \A G \in SUBSET ApplyDones : Free(mailbox, G) => Free(mailbox', G)
      BY <2>2, <3>1, <3>2, AppendSole
    <3> QED
      BY <1>1, <2>2, <3>2, <3>3, TailSole DEF NoDone
  <2> QED
    BY <2>1, <2>2, WorkerMoves
<1>5. ApplyOutstanding => ApplyOutstanding'
  BY <1>1 DEF ApplyOutstanding, WorkerActive
<1>6. /\ NoDone(UntouchedDones) => NoDone(UntouchedDones)'
      /\ NoDone(UnarmedDones) => NoDone(UnarmedDones)'
      /\ NoDone(ArmedDones) => NoDone(ArmedDones)'
  BY <1>4, DonesOfApply
<1>7. /\ OnlyApply(UntouchedDones, phase.at = "touched")
           => OnlyApply(UntouchedDones, phase.at = "touched")'
      /\ OnlyApply(UnarmedDones, phase.armed) => OnlyApply(UnarmedDones, phase.armed)'
  BY <1>4, <1>5, <1>6 DEF OnlyApply
<1>8. PhaseInv'
  BY <1>3 DEF PhaseInv
<1>9. DebtInv'
  BY <1>1, <1>7 DEF DesktopInv, DebtInv
<1>10. TaskInv'
  BY <1>1, <1>3, <1>6, <1>7 DEF DesktopInv, TaskInv
<1> QED
  BY <1>8, <1>9, <1>10 DEF DesktopInv

(* While the task of an APPLY runs its worker is active, and neither its    *)
(* completion nor another mutation is in flight.                            *)
LEMMA RunningApply ==
  ASSUME IInv, MutationInv, tasks # <<>>, Head(tasks).op = "apply"
  PROVE  ApplyOutstanding /\ NoDone(ApplyDones) /\ Free(Tail(tasks), MutationTasks)
<1>1. tasks \in Seq(TaskType) /\ Head(tasks) \in TaskType
  BY TailType DEF IInv, TypeOK, DispatchTypes
<1>2. Head(tasks) \in MutationTasks /\ KindOf(Head(tasks).op) = "Apply"
  BY <1>1 DEF MutationTasks, IsMutationTask, KindOf
<1>3. ~Free(tasks, MutationTasks)
  BY <1>1, <1>2, TailSole
<1>4. worker # None /\ Sole(tasks, MutationTasks) /\ NoDone(MutationDones)
      /\ Free(tasks, ForeignTasks(worker))
  BY <1>3 DEF MutationInv, FenceInv, OneOf, NoneOf, NoDone
<1>5. worker = WorkerOf(Head(tasks))
  <2>1. Head(tasks) \notin ForeignTasks(worker)
    BY <1>1, <1>4, TailSole
  <2> QED
    BY <1>2, <2>1 DEF ForeignTasks
<1>6. ApplyOutstanding
  BY <1>2, <1>4, <1>5 DEF ApplyOutstanding, WorkerActive, WorkerOf
<1>7. NoDone(ApplyDones)
  BY <1>4, NoDonePart, DonesOfApply
<1>8. Free(Tail(tasks), MutationTasks)
  BY <1>1, <1>2, <1>4, TailSole
<1> QED
  BY <1>6, <1>7, <1>8

(* The task of an APPLY ends: its completion says what it did.              *)
LEMMA ApplyReturns ==
  ASSUME IInv, MutationInv, DesktopInv, tasks # <<>>, Head(tasks).op = "apply",
         UNCHANGED <<lease, taskExists, debt, link, worker, todo>>,
         NEW m \in ApplyDones, Complete(m), m.armed = phase.armed,
         phase.at = "touched" => m.touched
  PROVE  DesktopInv'
<1>1. ApplyOutstanding /\ NoDone(ApplyDones) /\ Free(Tail(tasks), MutationTasks)
  BY RunningApply
<1>2. /\ tasks' = Tail(tasks) /\ mailbox' = Append(mailbox, m)
      /\ phase'.at = "start" /\ ~phase'.armed
  BY DEF Complete, AtStart
<1>3. ASSUME NEW G \in SUBSET ApplyDones, m \notin G PROVE NoDone(G)'
  <2>1. mailbox \in Seq(MessageType) /\ NoDone(G)
    BY <1>1, NoDonePart DEF IInv, TypeOK, HostTypes
  <2> QED
    BY <1>2, <1>3, <2>1, AppendSole DEF NoDone
<1>4. /\ m.touched => NoDone(UntouchedDones)'
      /\ m.armed => NoDone(UnarmedDones)'
      /\ ~m.armed => NoDone(ArmedDones)'
  <2>1. /\ m.touched => m \notin UntouchedDones
        /\ m.armed => m \notin UnarmedDones
        /\ ~m.armed => m \notin ArmedDones
    BY DEF UntouchedDones, UnarmedDones, ArmedDones
  <2> QED
    BY <1>3, <2>1, DonesOfApply
<1>5. ApplyOutstanding' /\ Free(tasks', MutationTasks)
  BY <1>1, <1>2 DEF ApplyOutstanding, WorkerActive
<1>6. ~Free(tasks, MutationTasks)
  <2>1. tasks \in Seq(TaskType) /\ Head(tasks) \in TaskType
    BY TailType DEF IInv, TypeOK, DispatchTypes
  <2>2. Head(tasks) \in MutationTasks
    BY <2>1 DEF MutationTasks, IsMutationTask
  <2> QED
    BY <2>1, <2>2, TailSole
<1>7. PhaseInv'
  BY <1>2 DEF PhaseInv
<1>8. DebtInv'
  BY <1>4, <1>5, <1>6 DEF DesktopInv, DebtInv, OnlyApply
<1>9. TaskInv'
  BY <1>2, <1>4, <1>5, <1>6 DEF DesktopInv, TaskInv, OnlyApply
<1> QED
  BY <1>7, <1>8, <1>9 DEF DesktopInv

(* The steps of the task of an APPLY.                                       *)
LEMMA ApplyDesktop ==
  ASSUME IInv, MutationInv, DesktopInv, ApplyWorker
  PROVE  DesktopInv'
<1>0. tasks # <<>> /\ Head(tasks).op = "apply"
  BY DEF ApplyWorker, ApplyRefused, ApplyArms, ApplyAbortsAtBoundary, ApplyTouches,
     ApplyCompletes, At, Task
<1>1. ApplyOutstanding /\ NoDone(ApplyDones)
  BY <1>0, RunningApply
<1>2. UNCHANGED <<lease, link, worker, todo>>
  BY WorkerMoves DEF WorkerThread
<1>3. phase \in [at : {"start", "boundary", "touched"}, armed : BOOLEAN]
      /\ taskExists \in BOOLEAN
  BY DEF IInv, TypeOK, DispatchTypes, HistoryTypes
<1>4. CASE ApplyRefused \/ ApplyAbortsAtBoundary \/ ApplyCompletes
  <2>1. UNCHANGED <<taskExists, debt>>
    BY <1>4 DEF ApplyRefused, ApplyAbortsAtBoundary, ApplyCompletes
  <2>2. Task.gen \in Nat /\ Task.for \in Nat
    <3>1. Head(tasks) \in TaskType
      BY <1>0, TailType DEF IInv, TypeOK, DispatchTypes
    <3> QED
      BY <1>0, <3>1 DEF Task, TaskType
  <2>3. \A s \in Statuses, t, a, g \in BOOLEAN :
          /\ ApplyDone(s, t, a, g) \in ApplyDones
          /\ ApplyDone(s, t, a, g).armed = a /\ ApplyDone(s, t, a, g).touched = t
    BY <2>2 DEF ApplyDones, MessageType, ApplyDoneType, ApplyDone
  <2>4. \E s \in Statuses, t, g \in BOOLEAN :
          /\ Complete(ApplyDone(s, t, phase.armed, g))
          /\ phase.at = "touched" => t
    <3>1. phase.at = "start" => phase.armed = FALSE
      BY <1>3 DEF DesktopInv, PhaseInv
    <3>2. "Failed" \in Statuses
      BY DEF Statuses
    <3>3. CASE ApplyRefused
      <4>1. phase.at = "start" /\ Complete(ApplyDone("Failed", FALSE, FALSE, FALSE))
        BY <3>3 DEF ApplyRefused, At
      <4> QED
        BY <3>1, <3>2, <4>1
    <3>4. CASE ApplyAbortsAtBoundary
      <4>1. phase.at = "boundary" /\ Complete(ApplyDone("Failed", FALSE, phase.armed, FALSE))
        BY <3>4 DEF ApplyAbortsAtBoundary, At
      <4> QED
        BY <3>2, <4>1
    <3>5. CASE ApplyCompletes
      BY <3>5 DEF ApplyCompletes
    <3> QED
      BY <1>4, <3>3, <3>4, <3>5
  <2> QED
    BY <1>0, <1>2, <1>3, <2>1, <2>3, <2>4, ApplyReturns
<1>5. CASE ApplyArms
  <2>1. PICK a \in BOOLEAN :
          /\ phase' = [at |-> "boundary", armed |-> a]
          /\ taskExists' = (taskExists \/ a)
    BY <1>5 DEF ApplyArms
  <2>2. UNCHANGED <<tasks, mailbox, debt>> /\ phase.at = "start"
    BY <1>5 DEF ApplyArms, At
  <2>3. ~phase.armed /\ phase'.at = "boundary" /\ phase'.armed = a
    BY <2>1, <2>2 DEF DesktopInv, PhaseInv
  <2>4. ~Free(tasks, MutationTasks)
    <3>1. tasks \in Seq(TaskType) /\ Head(tasks) \in TaskType
      BY <1>0, TailType DEF IInv, TypeOK, DispatchTypes
    <3> QED
      BY <1>0, <3>1, TailSole DEF MutationTasks, IsMutationTask
  <2>5. PhaseInv' /\ ApplyOutstanding'
    BY <1>0, <1>1, <1>2, <2>2, <2>3 DEF PhaseInv, ApplyOutstanding, WorkerActive
  <2>6. DebtInv'
    BY <1>2, <2>2, <2>4 DEF DesktopInv, DebtInv, OnlyApply
  <2>7. NoDone(UnarmedDones)' /\ NoDone(ArmedDones)'
    BY <1>1, <1>2, <2>2, NoDonePart, DonesOfApply DEF NoDone
  <2>8. TaskInv'
    <3>1. CASE a
      BY <1>0, <2>1, <2>2, <2>3, <2>5, <2>7, <3>1 DEF TaskInv, OnlyApply
    <3>2. CASE ~a
      <4>1. taskExists' = taskExists
        BY <1>3, <2>1, <3>2
      <4> QED
        BY <1>2, <2>3, <2>4, <2>7, <3>2, <4>1 DEF DesktopInv, TaskInv, OnlyApply
    <3> QED
      BY <2>1, <3>1, <3>2
  <2> QED
    BY <2>5, <2>6, <2>8 DEF DesktopInv
<1>6. CASE ApplyTouches
  <2>1. /\ phase' = [phase EXCEPT !.at = "touched"]
        /\ UNCHANGED <<tasks, mailbox, taskExists>>
    BY <1>6 DEF ApplyTouches
  <2>2. phase'.at = "touched" /\ phase'.armed = phase.armed
    BY <1>3, <2>1
  <2>3. PhaseInv' /\ ApplyOutstanding'
    BY <1>0, <1>1, <1>2, <2>1, <2>2 DEF PhaseInv, ApplyOutstanding, WorkerActive
  <2>4. NoDone(UnarmedDones)' /\ NoDone(ArmedDones)' /\ NoDone(UntouchedDones)'
    BY <1>1, <1>2, <2>1, NoDonePart, DonesOfApply DEF NoDone
  <2>5. DebtInv'
    BY <1>0, <2>1, <2>2, <2>3, <2>4 DEF DebtInv, OnlyApply
  <2>6. TaskInv'
    BY <1>0, <1>2, <2>1, <2>2, <2>3, <2>4 DEF DesktopInv, TaskInv, OnlyApply
  <2> QED
    BY <2>3, <2>5, <2>6 DEF DesktopInv
<1> QED
  BY <1>4, <1>5, <1>6 DEF ApplyWorker

(* The worker keeps the invariant.                                          *)
LEMMA WorkerDesktop ==
  ASSUME IInv, MutationInv, DesktopInv, WorkerThread
  PROVE  DesktopInv'
<1>1. CASE ApplyWorker
  BY <1>1, ApplyDesktop
<1>2. CASE ~ApplyWorker
  <2>1. Head(tasks).op # "apply"
    BY <1>2 DEF WorkerThread, VerifyRuns, ResetRuns, RefreshRuns, RecoveryWorker,
       RecoveryAborts, RecoveryBegins, RecoveryMarks, RecoveryCompletes, ValidationRuns,
       At, Task
  <2> QED
    BY <2>1, OtherTask
<1> QED
  BY <1>1, <1>2

-----------------------------------------------------------------------------
(* The other steps leave the worker, the task and what is owed alone.       *)

(* Steps of the pipe, of Windows, of time and of the host loop.             *)
LEMMA AsideDesktop ==
  ASSUME NoReset, IInv, MutationInv, DesktopInv,
         Aside \/ SendStop \/ Receive \/ Disconnect
  PROVE  DesktopInv'
<1>1. UNCHANGED <<worker, phase, taskExists, debt, lease, tasks>>
  <2>1. CASE Aside \/ SendStop
    BY <2>1 DEF Aside, PipeStep, FireTicket, HeartbeatTimeout, Connect, PipeBreaks,
       SendStop, Send, ClientSends, Notify, GraceElapses, WindowExpires, QuietEnds,
       timeUnchanged, vars, recoveryVars, fenceVars, dispatchVars, machineVars
  <2>2. CASE Receive
    BY <2>2 DEF Receive, recoveryVars, fenceVars, dispatchVars, machineVars
  <2>3. CASE Disconnect
    BY <2>3, DisconnectMoves DEF Disconnect, DisconnectKeeps, DisconnectWaits,
       DisconnectChecks, DisconnectReverts, RetireConnection, recoveryVars, machineVars
  <2> QED
    BY <2>1, <2>2, <2>3
<1>2. link = "off" => link' = "off"
  BY DEF Aside, PipeStep, FireTicket, HeartbeatTimeout, Connect, PipeBreaks, SendStop,
     Send, ClientSends, Notify, GraceElapses, WindowExpires, QuietEnds, timeUnchanged,
     vars, hostVars, Receive, Disconnect, DisconnectKeeps, DisconnectWaits,
     DisconnectChecks, DisconnectReverts, RetireConnection
<1>3. ASSUME NEW G \in SUBSET ApplyDones, NoDone(G) PROVE NoDone(G)'
  <2>0. mailbox \in Seq(MessageType)
    BY DEF IInv, TypeOK, HostTypes
  <2>1. CASE Aside \/ SendStop
    <3>1. /\ todo' = todo
          /\ \/ mailbox' = mailbox
             \/ \E m \in MessageType : mailbox' = Append(mailbox, m) /\ ~IsCompletion(m)
      BY <2>1, AsideMoves DEF MutationInv, SendStop, ClientSends
    <3>2. Free(mailbox', G)
      BY <1>3, <2>0, <3>1, AppendSole, DonesOfApply DEF NoDone
    <3> QED
      BY <1>3, <3>1, <3>2 DEF NoDone
  <2>2. CASE Receive
    BY <1>3, <2>2, ReceiveMoves DEF NoDone
  <2>3. CASE Disconnect
    <3>1. Free(mailbox', G)
      BY <1>3, <2>3, DisconnectMoves, RetireKeeps DEF NoDone
    <3>2. ASSUME NEW m \in MessageType, m.kind = "Revert", todo' = <<HandleFrame(m)>>
          PROVE  Free(todo', Frames(G))
      <4>1. m \notin G
        BY <3>2 DEF ApplyDones
      <4>2. PICK f : f = HandleFrame(m) /\ f \notin Frames(G)
        BY <4>1, FrameOf
      <4>3. DOMAIN <<f>> = {1} /\ <<f>>[1] = f
        OBVIOUS
      <4> QED
        BY <3>2, <4>2, <4>3 DEF Free
    <3>3. todo' = <<>> => Free(todo', Frames(G))
      BY DEF Free
    <3> QED
      BY <2>3, <3>1, <3>2, <3>3, DisconnectMoves DEF NoDone
  <2> QED
    BY <2>1, <2>2, <2>3
<1> QED
  BY <1>1, <1>2, <1>3, KeptDesktop

(* The timer thread dispatches a check.                                     *)
LEMMA TimerDesktop ==
  ASSUME IInv, DesktopInv, TimerThread
  PROVE  DesktopInv'
<1> DEFINE h == Head(timers)
           t == [op |-> "verify", gen |-> h.gen, purpose |-> "TransientDisconnect",
                 for |-> h.for]
<1>1. /\ UNCHANGED <<worker, phase, taskExists, debt, lease, link, todo, mailbox>>
      /\ timers # <<>> /\ (tasks' = tasks \/ tasks' = Append(tasks, t))
  BY DEF TimerThread, workerUnchanged, recoveryVars, fenceVars
<1>2. timers \in Seq([gen : Nat, for : Nat]) /\ tasks \in Seq(TaskType)
  BY DEF IInv, TypeOK, DispatchTypes
<1>3. h \in [gen : Nat, for : Nat]
  BY <1>1, <1>2, TailType
<1>4. t \in TaskType /\ t.op = "verify"
  BY <1>3 DEF TaskType, Purposes
<1> HIDE DEF t, h
<1>5. t \notin MutationTasks
  BY <1>4 DEF MutationTasks, IsMutationTask
<1>6. Free(tasks, MutationTasks) => Free(tasks', MutationTasks)
  BY <1>1, <1>2, <1>4, <1>5, AppendSole
<1>7. \A G \in SUBSET ApplyDones : NoDone(G) => NoDone(G)'
  BY <1>1 DEF NoDone
<1> QED
  BY <1>1, <1>4, <1>6, <1>7, KeptDesktop

(* The event loop tries a restore again only when no worker is active.      *)
LEMMA TickDesktop ==
  ASSUME IInv, MutationInv, DesktopInv, Tick
  PROVE  DesktopInv'
<1>1. UNCHANGED <<phase, taskExists, debt, lease, link, todo, mailbox>>
  BY DEF Tick, HandleTick, hostUnchanged, hostVars, machineVars
<1>2. ~ApplyOutstanding
  BY DEF Tick, HandleTick, TickAllowed, MutationInv, EventLoopInv, ApplyOutstanding,
     WorkerActive
<1>3. NoDone(ApplyDones) /\ ~phase.armed /\ Balanced
  BY <1>2, NoApply
<1>4. NoDone(ArmedDones)
  BY <1>3, NoDonePart, DonesOfApply
<1>5. Balanced' /\ ~phase'.armed /\ NoDone(ArmedDones)'
  BY <1>1, <1>3, <1>4 DEF Balanced, NoDone
<1> QED
  BY <1>5, BalancedAfter

(* Every step of a helper that nobody asks for a RESET keeps what is owed.  *)
LEMMA NextDesktop ==
  ASSUME NoReset, IInv, MutationInv, DesktopInv, [Next]_vars
  PROVE  DesktopInv'
<1>1. IInv'
  BY NextTyped
<1>2. CASE Handle
  BY <1>1, <1>2, HandlersDesktop
<1>3. CASE TimerThread
  BY <1>3, TimerDesktop
<1>4. CASE Tick
  BY <1>4, TickDesktop
<1>5. CASE WorkerThread
  BY <1>5, WorkerDesktop
<1>6. CASE Aside \/ SendStop \/ Receive \/ Disconnect
  BY <1>6, AsideDesktop
<1> QED
  BY <1>2, <1>3, <1>4, <1>5, <1>6
     DEF Next, Host, Client, Environment, PipeStep, Aside

(* A helper that has just started owes nothing, and serves a client only    *)
(* when no task is registered.                                              *)
LEMMA InitDesktop == Init => DesktopInv
<1> SUFFICES ASSUME Init PROVE DesktopInv
  OBVIOUS
<1>1. /\ ~debt /\ ~phase.armed /\ ~lease.task /\ todo = <<>>
      /\ link # "off" => ~taskExists /\ mailbox = <<>>
  BY DEF Init, AtStart, NoLease
<1>2. link # "off" => NoDone(ArmedDones)
  BY <1>1 DEF NoDone, Free
<1> QED
  BY <1>1, <1>2 DEF DesktopInv, PhaseInv, DebtInv, TaskInv

-----------------------------------------------------------------------------
(* Once the worker of an APPLY that changed the desktop is retired, and     *)
(* whatever cancelled it, the desktop is under a recovery lease until it is *)
(* restored or released: for a helper that nobody asks for a RESET.         *)
THEOREM ChangedDesktopLeasedHolds ==
  ASSUME NoReset
  PROVE  Spec => []ChangedDesktopLeased
<1>1. IInv /\ MutationInv /\ DesktopInv => ChangedDesktopLeased
  BY NoApply DEF ChangedDesktopLeased, ApplyOutstanding, Balanced
<1> QED
  BY <1>1, InitMutation, InitDesktop, NextMutation, NextDesktop, SpecTyped, PTL DEF Spec

(* While no APPLY runs the helper knows whether the durable restore task is *)
(* registered, so it leaves none behind that restores a released desktop at *)
(* the next logon: for a helper that nobody asks for a RESET.               *)
THEOREM TaskRememberedHolds ==
  ASSUME NoReset
  PROVE  Spec => []TaskRemembered
<1>1. IInv /\ MutationInv /\ DesktopInv => TaskRemembered
  BY NoApply DEF TaskRemembered, Balanced
<1> QED
  BY <1>1, InitMutation, InitDesktop, NextMutation, NextDesktop, SpecTyped, PTL DEF Spec

-----------------------------------------------------------------------------
(* The answers to the client.                                              *)

\* Work of the generation g, or a later one, that is not done for the APPLY s.
Alien(x, s, g) == ~(x.gen < g \/ (x.gen = g /\ x.for = s))

AlienTasks(s, g) == {t \in TaskType : t.op \in {"apply", "verify"} /\ Alien(t, s, g)}
AlienDones(s, g) ==
  {m \in MessageType : m.kind \in {"ApplyDone", "VerifyDone"} /\ Alien(m, s, g)}
AlienTimers(s, g) == {t \in [gen : Nat, for : Nat] : Alien(t, s, g)}

\* What is left of the completion of another APPLY.
AlienFinish(op, s) == {f \in FrameType : f.op = op /\ f.done.for # s}

Completions == {m \in MessageType : IsCompletion(m)}
OtherFrames == {f \in FrameType : f.op # "handle"}

\* A completion arrives in a batch of its own, and nothing is held over it.
LastInv ==
  \/ Free(todo, Frames(Completions))
  \/ Sole(todo, Frames(Completions)) /\ Free(todo, OtherFrames)

FinishInv ==
  /\ held # None => held.for = req.seq
  /\ Free(todo, AlienFinish("outcome", req.seq))
  /\ FenceUp \/ Free(todo, AlienFinish("resume", req.seq))

\* Work that is not stale was done for the APPLY in force, and so was what is
\* held back or still has to be finished; a completion that goes on below a
\* replacement is dropped there, for the replacement holds the fence.
AnswerInv ==
  /\ NoneOf(AlienTasks(req.seq, gen), AlienDones(req.seq, gen))
  /\ Free(timers, AlienTimers(req.seq, gen))
  /\ LastInv
  /\ FinishInv

\* A step goes on with the same APPLY, or cancels what was done for it.
Onward == gen <= gen' /\ (req'.seq = req.seq \/ gen < gen')

(* What is stale stays stale.                                               *)
LEMMA AlienLess ==
  ASSUME NEW s, NEW r, NEW g \in Nat, NEW h \in Nat, g <= h, r = s \/ g < h
  PROVE  /\ AlienTasks(r, h) \subseteq AlienTasks(s, g)
         /\ AlienDones(r, h) \subseteq AlienDones(s, g)
         /\ AlienTimers(r, h) \subseteq AlienTimers(s, g)
<1>1. \A t \in TaskType : t.gen \in Nat
  BY DEF TaskType
<1>2. \A m \in MessageType : m.kind \in {"ApplyDone", "VerifyDone"} => m.gen \in Nat
  BY DEF MessageType, ApplyDoneType, DeferrableType
<1>3. ASSUME NEW x, x.gen \in Nat, Alien(x, r, h) PROVE Alien(x, s, g)
  BY <1>3 DEF Alien
<1> QED
  BY <1>1, <1>2, <1>3 DEF AlienTasks, AlienDones, AlienTimers

(* A completion that is fresh is one of the APPLY in force.                 *)
LEMMA FreshOwn ==
  ASSUME NEW m \in MessageType, m.kind \in {"ApplyDone", "VerifyDone"}, m.gen = gen,
         gen \in Nat, m \notin AlienDones(req.seq, gen)
  PROVE  m.for = req.seq
BY DEF AlienDones, Alien

-----------------------------------------------------------------------------
(* The handlers.                                                            *)

\* What a handler dispatches is for the APPLY in force.
OwnWork ==
  /\ Onward
  /\ tasks' = tasks \/ \E t : tasks' = Append(tasks, t) /\ t \notin AlienTasks(req'.seq, gen')
  /\ \/ timers' = timers
     \/ timers' = Append(timers, [gen |-> gen', for |-> req'.seq])

(* Tasks for the request in force.                                          *)
LEMMA OwnTasks ==
  ASSUME NEW g \in Nat
  PROVE  /\ \A b : ApplyTask(g, b) \notin AlienTasks(req.seq, g)
         /\ \A p : VerifyTask(g, p) \notin AlienTasks(req.seq, g)
         /\ \A s, h, t : t.op \in {"reset", "refresh", "recover", "validate"}
                           => t \notin AlienTasks(s, h)
BY DEF ApplyTask, VerifyTask, AlienTasks, Alien

(* A worker of another kind is started for nobody.                          *)
LEMMA OtherTasks ==
  \A g : /\ ResetTask(g).op = "reset" /\ RecoverTask(g).op = "recover"
         /\ ValidateTask(g).op = "validate"
         /\ \A b : RefreshTask(g, b).op = "refresh"
BY DEF ResetTask, RecoverTask, ValidateTask, RefreshTask

(* Starting an own worker.                                                  *)
LEMMA OwnStart ==
  ASSUME NEW kind, NEW t, StartWorker(kind, t), t \notin AlienTasks(req'.seq, gen'),
         timers' = timers, Onward
  PROVE  OwnWork
BY DEF StartWorker, OwnWork

(* Starting an APPLY of the request in force.                               *)
LEMMA OwnApply ==
  ASSUME NEW t, tasks' = Append(tasks, t), t.gen = gen', t.for = req.seq, gen' \in Nat,
         gen <= gen', req'.seq = req.seq, timers' = timers
  PROVE  OwnWork
<1>1. t \notin AlienTasks(req'.seq, gen')
  BY DEF AlienTasks, Alien
<1> QED
  BY <1>1 DEF OwnWork, Onward

(* The commands.                                                            *)
LEMMA CommandsOwn ==
  ASSUME TypeOK, HandleCommand
  PROVE  OwnWork
<1>0. gen \in Nat /\ req.seq \in Nat
  BY DEF TypeOK, DispatchTypes, SessionTypes
<1>1. CASE HandleApply
  <2> DEFINE t == [op |-> "apply", gen |-> gen + 1, repair |-> FALSE, for |-> Msg.seq]
  <2>1. StartWorker("Apply", t) /\ gen' = gen + 1 /\ req'.seq = Msg.seq /\ timers' = timers
    BY <1>1 DEF HandleApply, ApplyGeneration
  <2>2. t \notin AlienTasks(Msg.seq, gen + 1)
    BY DEF AlienTasks, Alien
  <2> HIDE DEF t
  <2> QED
    BY <1>0, <2>1, <2>2, OwnStart DEF Onward
<1>2. CASE HandleRepair
  BY <1>0, <1>2, OwnApply DEF HandleRepair, StartWorker, ApplyTask
<1>3. CASE HandleRevert
  BY <1>0, <1>3, OwnTasks, OtherTasks, OwnStart DEF HandleRevert, StartRecovery, Onward
<1>4. CASE HandleRefresh
  BY <1>0, <1>4, OwnTasks, OtherTasks, OwnStart DEF HandleRefresh, Onward, sessionVars
<1>5. CASE HandleReset
  <2>1. tasks' = tasks \/ tasks' = Append(tasks, ResetTask(gen))
    BY <1>5 DEF HandleReset, BeginReset
  <2> QED
    BY <1>0, <1>5, <2>1, OwnTasks, OtherTasks DEF HandleReset, OwnWork, Onward, sessionVars
<1>6. CASE ~HandleApply /\ ~HandleRepair /\ ~HandleRevert /\ ~HandleRefresh /\ ~HandleReset
  <2>1. UNCHANGED <<req, tasks, timers>>
    BY <1>6 DEF HandleCommand, HandleStaleCommand, HandleApplyDeferred,
       HandleRepairDropped, HandleRevertJoins, HandleRevertDeferred,
       HandleRevertPolicyOff, HandleRevertNothing, HandleDisarmIgnored,
       HandleDisarmDeferred, HandleDisarm, HandleSnapshot, HandleRefreshRejected,
       HandleResetDeferred, dispatchVars, sessionVars
  <2>2. gen <= gen'
    BY <1>0, <1>6 DEF HandleCommand, HandleStaleCommand, HandleApplyDeferred,
       HandleRepairDropped, HandleRevertJoins, HandleRevertDeferred,
       HandleRevertPolicyOff, HandleRevertNothing, ExitCallback, HandleDisarmIgnored,
       HandleDisarmDeferred, HandleDisarm, HandleSnapshot, HandleRefreshRejected,
       HandleResetDeferred, dispatchVars
  <2> QED
    BY <2>1, <2>2 DEF OwnWork, Onward
<1> QED
  BY <1>1, <1>2, <1>3, <1>4, <1>5, <1>6

(* A check of the session is for its request.                               *)
LEMMA OwnCheck ==
  ASSUME NEW s, DispatchCheck(s, gen'), UNCHANGED <<req, tasks>>, gen <= gen'
  PROVE  OwnWork
BY DEF DispatchCheck, OwnWork, Onward

(* A handler that dispatches nothing.                                       *)
LEMMA OwnNothing ==
  ASSUME UNCHANGED <<req, tasks, timers>>, gen <= gen'
  PROVE  OwnWork
BY DEF OwnWork, Onward

(* Display events.                                                          *)
LEMMA EventsOwn ==
  ASSUME TypeOK, HandleEvent
  PROVE  OwnWork
<1>0. gen \in Nat
  BY DEF TypeOK, DispatchTypes
<1>1. CASE HandleBaselineReturn
  BY <1>0, <1>1, OwnTasks DEF HandleBaselineReturn, OwnWork, Onward
<1>2. CASE HandleIdentityReplaced
  BY <1>0, <1>2, OwnApply DEF HandleIdentityReplaced, StartWorker, ApplyTask
<1>3. CASE HandleEventReopens
  BY <1>0, <1>3, OwnTasks, OtherTasks, OwnStart
     DEF HandleEventReopens, StartRecovery, Onward
<1>4. CASE ~HandleBaselineReturn /\ ~HandleIdentityReplaced /\ ~HandleEventReopens
  <2>1. UNCHANGED <<req, tasks, timers, gen>>
    BY <1>4 DEF HandleEvent, HandleEventIgnored, HandleSameIdentity, HandleIdentityQueued,
       HandleEventInWindow, dispatchVars, sessionVars
  <2> QED
    BY <1>0, <2>1, OwnNothing
<1> QED
  BY <1>1, <1>2, <1>3, <1>4

(* Verdicts of a verification.                                             *)
LEMMA VerdictsOwn ==
  ASSUME TypeOK, HandleVerifyDone
  PROVE  OwnWork
<1>0. gen \in Nat
  BY DEF TypeOK, DispatchTypes
<1>1. CASE HandleCheckFailed
  BY <1>0, <1>1, OwnApply DEF HandleCheckFailed, StartWorker, ApplyTask
<1>2. CASE HandleBaselineMissing
  BY <1>0, <1>2, OwnApply DEF HandleBaselineMissing, StartWorker, ApplyTask
<1>6. CASE HandleUnverifiedReapply
  BY <1>0, <1>6, OwnApply DEF HandleUnverifiedReapply, StartWorker, ApplyTask
<1>3. CASE HandleVerified
  <2>1. UNCHANGED <<req, tasks, gen>> /\ (timers' = timers \/ DispatchCheck(settle, gen))
    BY <1>3 DEF HandleVerified
  <2> QED
    BY <1>0, <2>1, OwnCheck, OwnNothing
<1>4. CASE HandleUnverifiedDisconnected
  <2>1. UNCHANGED <<req, tasks, gen>> /\ (timers' = timers \/ DispatchCheck(settle, gen))
    BY <1>4 DEF HandleUnverifiedDisconnected
  <2> QED
    BY <1>0, <2>1, OwnCheck, OwnNothing
<1>5. CASE \/ HandleCheckPassed \/ HandleBaselineVerified \/ HandleBaselineUnrepaired
           \/ HandleUnverified
  <2>1. UNCHANGED <<req, tasks, timers, gen>>
    BY <1>5 DEF HandleCheckPassed, HandleBaselineVerified, HandleBaselineUnrepaired,
       HandleUnverified, dispatchVars
  <2> QED
    BY <1>0, <2>1, OwnNothing
<1> QED
  BY <1>1, <1>2, <1>3, <1>4, <1>5, <1>6 DEF HandleVerifyDone

(* Dropping what is uncommitted may start a reset.                         *)
LEMMA DropOwn ==
  ASSUME TypeOK, NEW s, NEW l, DropUncommitted(s, l)
  PROVE  tasks' = tasks \/ tasks' = Append(tasks, ResetTask(gen))
BY DEF DropUncommitted, BeginReset

(* The outcomes of an APPLY.                                               *)
LEMMA OutcomesOwn ==
  ASSUME TypeOK, ApplyOutcome
  PROVE  OwnWork
<1>0. gen \in Nat /\ req \in [virt : Layouts, hdr : BOOLEAN, rod : BOOLEAN, seq : Nat, epoch : Nat]
  BY DEF TypeOK, DispatchTypes, SessionTypes
<1>1. CASE OutcomeFailed
  <2>1. tasks' = tasks \/ tasks' = Append(tasks, ResetTask(gen))
    BY <1>1, DropOwn DEF OutcomeFailed
  <2>2. UNCHANGED <<req, timers, gen>>
    BY <1>1 DEF OutcomeFailed
  <2> QED
    BY <1>0, <2>1, <2>2, OwnTasks, OtherTasks DEF OwnWork, Onward
<1>2. CASE OutcomeHdrFallback
  <2>1. StartWorker("Apply", ApplyTask(gen, TRUE)) /\ UNCHANGED <<timers, gen>>
    BY <1>2 DEF OutcomeHdrFallback
  <2>2. req'.seq = req.seq
    BY <1>0, <1>2 DEF OutcomeHdrFallback
  <2> QED
    BY <1>0, <2>1, <2>2, OwnApply DEF StartWorker, ApplyTask
<1>3. CASE OutcomeVerify
  BY <1>0, <1>3, OwnTasks DEF OutcomeVerify, OwnWork, Onward
<1>4. CASE OutcomeChecked
  BY <1>0, <1>4, OwnCheck DEF OutcomeChecked
<1>5. CASE OutcomeBaselineFailed \/ OutcomeRepaired
  <2>1. UNCHANGED <<req, tasks, timers, gen>>
    BY <1>5 DEF OutcomeBaselineFailed, OutcomeRepaired, dispatchVars
  <2> QED
    BY <1>0, <2>1, OwnNothing
<1> QED
  BY <1>1, <1>2, <1>3, <1>4, <1>5 DEF ApplyOutcome

(* The other completions.                                                   *)
LEMMA CompletionsOwn ==
  ASSUME TypeOK, ApplyCompletion \/ RestoreCompletion
  PROVE  OwnWork
<1>0. gen \in Nat
  BY DEF TypeOK, DispatchTypes
<1>1. CASE HandleCancelledApplyUntouched
  <2>1. tasks' = tasks \/ tasks' = Append(tasks, ResetTask(gen))
    BY <1>1, DropOwn DEF HandleCancelledApplyUntouched
  <2>2. UNCHANGED <<req, timers, gen>>
    BY <1>1 DEF HandleCancelledApplyUntouched, sessionVars
  <2> QED
    BY <1>0, <2>1, <2>2, OwnTasks, OtherTasks DEF OwnWork, Onward
<1>2. CASE HandleConfirmed
  <2>1. tasks' = tasks \/ tasks' = Append(tasks, ResetTask(gen))
    BY <1>2 DEF HandleConfirmed, BeginReset
  <2>2. UNCHANGED <<req, timers, gen>>
    BY <1>2 DEF HandleConfirmed
  <2> QED
    BY <1>0, <2>1, <2>2, OwnTasks, OtherTasks DEF OwnWork, Onward
<1>3. CASE HandleRestored
  BY <1>0, <1>3, OwnTasks, OtherTasks DEF HandleRestored, OwnWork, Onward
<1>4. CASE HandleRefreshDone
  <2>1. /\ UNCHANGED <<req, tasks>> /\ gen' \in {gen, gen + 1}
        /\ timers' = timers \/ DispatchCheck(settle, gen')
    BY <1>4 DEF HandleRefreshDone
  <2> QED
    BY <1>0, <2>1, OwnCheck, OwnNothing
<1>5. CASE /\ ~HandleCancelledApplyUntouched /\ ~HandleConfirmed /\ ~HandleRestored
           /\ ~HandleRefreshDone
  <2>1. UNCHANGED <<req, tasks, timers>>
    BY <1>5 DEF ApplyCompletion, RestoreCompletion,
       HandleForeignCompletion, HandleApplyDone, HandleCancelledApplyTouched,
       DrainNext, DrainEnds, ResumeFinish, AfterReset, HandleResetFailedExit,
       HandleResetDone, HandleRefreshCancelled, HandleCancelledRecovery,
       HandleAttemptFailed, HandleCancelledValidation, ExitAfterReset, AfterRestore,
       dispatchVars, sessionVars
  <2>2. gen <= gen'
    BY <1>0, <1>5 DEF ApplyCompletion, RestoreCompletion,
       HandleForeignCompletion, HandleApplyDone, HandleCancelledApplyTouched,
       DrainNext, DrainEnds, ResumeFinish, AfterReset, HandleResetFailedExit,
       HandleResetDone, HandleRefreshCancelled, HandleCancelledRecovery,
       HandleAttemptFailed, HandleCancelledValidation, ExitAfterReset, AfterRestore,
       ExitCallback, dispatchVars
  <2> QED
    BY <2>1, <2>2, OwnNothing
<1> QED
  BY <1>1, <1>2, <1>3, <1>4, <1>5

(* Every handler dispatches work for the APPLY in force only.              *)
LEMMA HandlersOwn ==
  ASSUME TypeOK, Handlers
  PROVE  OwnWork
BY CommandsOwn, EventsOwn, VerdictsOwn, OutcomesOwn, CompletionsOwn
   DEF Handlers, HandleCompletion, Continue, ApplyCompletion, RestoreCompletion

\* The handlers that may take up or put off the rest of a completion.
Finishers == HandleApplyDone \/ AfterReset \/ ResumeFinish

(* Only a completion lowers the fence.                                      *)
LEMMA FenceLowered ==
  ASSUME IInv, Handlers, FenceUp, ~FenceUp'
  PROVE  HandleCompletion
<1>0. TypeOK /\ staging.resetting \in BOOLEAN
  BY StagingUpdates DEF IInv
<1>1. ASSUME staging.resetting, ~staging'.resetting, ~HandleCompletion PROVE FALSE
  <2>1. KeepsBarrier
    BY <1>0, <1>1, CommandsBarrier, VerdictsBarrier, CompletionsBarrier
       DEF Handlers, HandleCompletion, Continue, ApplyCompletion, RestoreCompletion,
           ResetCompletes
  <2> QED
    BY <1>1, <2>1 DEF KeepsBarrier
<1>2. ASSUME worker # None, worker' = None, ~HandleCompletion PROVE FALSE
  <2>1. worker' # worker
    BY <1>2
  <2>2. CASE Starts
    <3>1. PICK t \in MutationTasks : worker' = WorkerOf(t)
      BY <2>2 DEF Starts
    <3>2. WorkerOf(t) \in [kind : WorkerKinds, gen : Nat]
      BY DEF MutationTasks, IsMutationTask, WorkerOf, KindOf, WorkerKinds, TaskType
    <3> QED
      BY <1>2, <3>1, <3>2, NoneAssumption
  <2>3. CASE HandleCommand
    <3>1. CASE Msg.kind = "Reset"
      BY <2>1, <2>3, <3>1 DEF HandleCommand, HandleStaleCommand,
         HandleApplyDeferred, HandleApply, HandleRepairDropped, HandleRepair,
         HandleRevertJoins, HandleRevertDeferred, HandleRevertPolicyOff,
         HandleRevertNothing, HandleRevert, RevertRuns, HandleDisarmIgnored,
         HandleDisarmDeferred, HandleDisarm, HandleSnapshot, HandleRefreshRejected,
         HandleRefresh, HandleResetDeferred, HandleReset, Handling, Msg, fenceVars
    <3>2. CASE Msg.kind # "Reset"
      BY <2>1, <2>2, <2>3, <3>2, CommandEffects DEF Skips, Defers, Cancels
    <3> QED
      BY <3>1, <3>2
  <2>4. CASE HandleEvent
    BY <2>1, <2>2, <2>4, EventEffects DEF Skips, Defers, HandleBaselineReturn, fenceVars
  <2>5. CASE ApplyOutcome
    BY <2>1, <2>2, <2>5, OutcomeEffects DEF Concludes
  <2>6. CASE Continue /\ ~ApplyOutcome
    BY <2>1, <2>6 DEF Continue, DrainNext, DrainEnds, ResumeFinish, AfterReset,
       ExitAfterReset, AfterRestore, fenceVars
  <2> QED
    BY <1>2, <2>3, <2>4, <2>5, <2>6 DEF Handlers
<1> QED
  BY <1>0, <1>1, <1>2 DEF FenceUp, WorkerActive

(* Where a completion is handled from.                                      *)
LEMMA CompletionTop ==
  ASSUME IInv, HandleCompletion
  PROVE  Head(todo) \in Frames(Completions)
<1>1. HandleOnTop /\ IsCompletion(Msg)
  BY DEF HandleCompletion, HandleForeignCompletion, HandleApplyDone,
     HandleCancelledApplyTouched, HandleCancelledApplyUntouched, HandleVerifyDone,
     HandleCheckPassed, HandleCheckFailed, HandleVerified, HandleBaselineVerified,
     HandleUnverifiedDisconnected, HandleBaselineMissing, HandleBaselineUnrepaired,
     HandleUnverifiedReapply, HandleUnverified, Verified, Unverified,
     HandleResetFailedExit, HandleResetDone, HandleRefreshCancelled, HandleRefreshDone,
     HandleCancelledRecovery, HandleRestored, HandleAttemptFailed,
     HandleCancelledValidation, HandleConfirmed, Handling, HandleOnTop, OnTop,
     IsCompletion, Msg
<1> QED
  BY <1>1, HandledTop DEF Completions, Frames

(* What a handler that is no finisher leaves on the stack.                  *)
LEMMA OthersPush ==
  ASSUME IInv, Handlers, ~Finishers, NEW G, \A f \in G : f.op \in {"resume", "outcome"},
         Free(Tail(todo), G)
  PROVE  Free(todo', G)
<1>0. todo \in Seq(FrameType) /\ todo # <<>> /\ Tail(todo) \in Seq(FrameType)
  BY HandlersTop, TailType DEF IInv, TypeOK, FenceTypes
<1>1. DrainFrame \notin G
  BY DEF DrainFrame
<1>2. CASE SimpleHandlers
  <2>1. todo' = Tail(todo) \/ todo' = <<DrainFrame>> \o Tail(todo)
    BY <1>2, SimpleReturns
  <2> QED
    BY <1>0, <1>1, <2>1, PushedOther
<1>3. CASE HandleResetDone \/ HandleConfirmed
  <2>1. \E f : f \notin G /\ todo' = <<DrainFrame, f>> \o Tail(todo)
    <3>1. [op |-> "afterReset"] \notin G
      OBVIOUS
    <3>2. \A b, c : [op |-> "afterRestore", resetFailed |-> b, followup |-> c] \notin G
      OBVIOUS
    <3> QED
      BY <1>3, <3>1, <3>2 DEF HandleResetDone, HandleConfirmed, ReturnInto
  <2> QED
    BY <1>0, <1>1, <2>1, PushedOther
<1>4. CASE DrainNext
  <2> DEFINE f == HandleFrame(Head(deferred))
  <2>1. Head(todo).op = "drain" /\ todo' = <<f>> \o todo
    BY <1>4 DEF DrainNext, OnTop
  <2>2. f \in FrameType /\ f \notin G /\ Head(todo) \notin G
    <3>1. Head(deferred) \in MessageType
      BY <1>4, TailType DEF DrainNext, DrainContinues, IInv, TypeOK, FenceTypes, MessageType
    <3>2. f.op = "handle"
      BY DEF HandleFrame
    <3> QED
      BY <2>1, <3>1, <3>2, FrameTyped
  <2> HIDE DEF f
  <2>3. Head(todo) \in FrameType
    BY <1>0, TailType
  <2>4. todo' = <<f, Head(todo)>> \o Tail(todo)
    BY <1>0, <2>1, <2>2, <2>3, PushTwice
  <2> QED
    BY <1>0, <2>2, <2>4, PushedOther
<1> QED
  BY <1>2, <1>3, <1>4 DEF Handlers, HandleCompletion, Continue, SimpleHandlers, Finishers

(* Who holds a completion back.                                             *)
LEMMA HeldMoves ==
  ASSUME Handlers, ~Finishers
  PROVE  held' \in {held, None}
<1>1. CASE HandleCommand \/ HandleEvent
  BY <1>1 DEF HandleCommand, HandleStaleCommand, HandleApplyDeferred,
     HandleApply, HandleRepairDropped, HandleRepair, HandleRevertJoins,
     HandleRevertDeferred, HandleRevertPolicyOff, HandleRevertNothing,
     HandleRevert, HandleDisarmIgnored, HandleDisarmDeferred,
     HandleDisarm, HandleSnapshot, HandleRefreshRejected, HandleRefresh,
     HandleResetDeferred, HandleReset, HandleEvent, HandleBaselineReturn,
     HandleEventIgnored, HandleSameIdentity, HandleIdentityQueued,
     HandleIdentityReplaced, HandleEventInWindow, HandleEventReopens, fenceVars
<1>2. CASE HandleVerifyDone \/ ApplyOutcome
  BY <1>2 DEF HandleVerifyDone, HandleCheckPassed, HandleCheckFailed, HandleVerified,
     HandleBaselineVerified, HandleUnverifiedDisconnected, HandleBaselineMissing,
     HandleBaselineUnrepaired, HandleUnverifiedReapply, HandleUnverified, ApplyOutcome,
     OutcomeBaselineFailed, OutcomeChecked, OutcomeRepaired, OutcomeVerify,
     OutcomeHdrFallback, OutcomeFailed, fenceVars
<1>3. CASE (HandleCompletion \/ Continue) /\ ~HandleVerifyDone /\ ~ApplyOutcome
  BY <1>3 DEF HandleCompletion, Continue, Finishers, HandleForeignCompletion,
     HandleCancelledApplyTouched, HandleCancelledApplyUntouched, DrainNext, DrainEnds,
     HandleResetFailedExit, HandleResetDone, HandleRefreshCancelled, HandleRefreshDone,
     HandleCancelledRecovery, HandleRestored, HandleAttemptFailed,
     HandleCancelledValidation, HandleConfirmed, ExitAfterReset, AfterRestore, fenceVars
<1> QED
  BY <1>1, <1>2, <1>3 DEF Handlers

(* What the finishers leave: the rest of the completion d, or nothing.      *)
LEMMA FinishersPush ==
  ASSUME IInv, NEW d \in ApplyDoneType, NEW h, NEW rest \in Seq(FrameType),
         AcceptApply(d, lease, h, rest), NEW op \in {"resume", "outcome"}, d.for = req.seq,
         Free(rest, AlienFinish(op, req.seq))
  PROVE  held' \in {d, h} /\ Free(todo', AlienFinish(op, req.seq))
<1> DEFINE a == Finish("resume", d, base.flight)
           b == Finish("outcome", d, base.flight)
           G == AlienFinish(op, req.seq)
<1>1. a \in FrameType /\ b \in FrameType /\ DrainFrame \in FrameType
  BY FrameTyped DEF Finish, IInv, TypeOK, SessionTypes
<1>2. a \notin G /\ b \notin G /\ DrainFrame \notin G
  BY DEF AlienFinish, Finish, DrainFrame
<1>3. \/ held' = d /\ todo' = <<DrainFrame, a>> \o rest
      \/ held' = h /\ todo' = <<b>> \o rest
  BY AcceptReturns
<1> HIDE DEF a, b, G
<1>4. /\ <<DrainFrame, a>> \in Seq(FrameType) /\ <<b>> \in Seq(FrameType)
      /\ Free(<<DrainFrame, a>>, G) /\ Free(<<b>>, G)
  BY <1>1, <1>2 DEF Free
<1>5. Free(rest, G)
  BY DEF G
<1>6. Free(<<DrainFrame, a>> \o rest, G) /\ Free(<<b>> \o rest, G)
  BY <1>4, <1>5, PushSole
<1> QED
  BY <1>3, <1>6 DEF G

(* The finishers hold and push what is of the APPLY in force.               *)
LEMMA FinishersOwn ==
  ASSUME IInv, AnswerInv, Finishers, NEW op \in {"resume", "outcome"},
         Free(Tail(todo), AlienFinish(op, req.seq))
  PROVE  /\ Free(todo', AlienFinish(op, req.seq))
         /\ held' # None => held'.for = req.seq
         /\ req' = req
<1>0. todo \in Seq(FrameType) /\ todo # <<>> /\ Tail(todo) \in Seq(FrameType)
  <2>1. todo # <<>>
    BY DEF Finishers, HandleApplyDone, AfterReset, ResumeFinish, Handling, OnTop
  <2> QED
    BY <2>1, TailType DEF IInv, TypeOK, FenceTypes
<1>1. CASE HandleApplyDone
  <2>1. Msg \in ApplyDoneType /\ Handling("ApplyDone") /\ Msg.gen = gen /\ req' = req
        /\ AcceptApply(Msg, lease, held, Tail(todo))
    BY <1>1, ApplyCompletionTop DEF IInv, ApplyCompletion, HandleApplyDone, StaleGeneration
  <2>2. Msg.for = req.seq
    <3>1. HandleOnTop
      BY <2>1 DEF HandleOnTop, OnTop, Handling
    <3>2. Msg \in MessageType /\ Msg \notin AlienDones(req.seq, gen)
      BY <3>1, TopAllowed DEF AnswerInv, NoneOf
    <3>3. gen \in Nat /\ Msg.kind = "ApplyDone"
      BY <2>1 DEF Handling, Msg, IInv, TypeOK, DispatchTypes
    <3> QED
      BY <2>1, <3>2, <3>3, FreshOwn
  <2>3. held' \in {Msg, held} /\ Free(todo', AlienFinish(op, req.seq))
    BY <1>0, <2>1, <2>2, FinishersPush
  <2> QED
    BY <2>1, <2>2, <2>3 DEF AnswerInv, FinishInv
<1>2. CASE AfterReset
  <2> DEFINE exit == <<ExitFrame>> \o Tail(todo)
  <2>1. exit \in Seq(FrameType) /\ Free(exit, AlienFinish(op, req.seq))
    <3>1. ExitFrame \in FrameType /\ ExitFrame \notin AlienFinish(op, req.seq)
      BY FrameTyped DEF ExitFrame, AlienFinish
    <3>2. <<ExitFrame>> \in Seq(FrameType) /\ Free(<<ExitFrame>>, AlienFinish(op, req.seq))
      BY <3>1 DEF Free
    <3>3. Free(exit, AlienFinish(op, req.seq))
      BY <1>0, <3>2, PushSole
    <3>4. exit \in Seq(FrameType)
      BY <1>0, <3>1, PushTyped
    <3> QED
      BY <3>3, <3>4
  <2>2. CASE held # None /\ AcceptApply(held, lease, None, exit)
    <3>1. held \in ApplyDoneType /\ held.for = req.seq
      BY <2>2 DEF IInv, TypeOK, FenceTypes, AnswerInv, FinishInv
    <3> HIDE DEF exit
    <3>2. held' \in {held, None} /\ Free(todo', AlienFinish(op, req.seq))
      BY <2>1, <2>2, <3>1, FinishersPush
    <3> QED
      BY <1>2, <3>1, <3>2 DEF AfterReset
  <2>3. CASE todo' = exit /\ held' = held
    BY <1>2, <2>1, <2>3 DEF AfterReset, AnswerInv, FinishInv
  <2> QED
    BY <1>2, <2>2, <2>3 DEF AfterReset, ExitFrame
<1>3. CASE ResumeFinish
  <2>1. req' = req /\ (held' = held \/ held' = None)
    BY <1>3 DEF ResumeFinish, sessionVars
  <2>2. CASE todo' = Tail(todo)
    BY <2>1, <2>2 DEF AnswerInv, FinishInv
  <2>3. CASE todo' # Tail(todo)
    <3> DEFINE f == Finish("outcome", Head(todo).done, Head(todo).baseline)
    <3>1. ~FenceUp /\ todo' = <<f>> \o Tail(todo)
      BY <1>3, <2>3 DEF ResumeFinish, Return, ReturnInto, Finish, FenceUp
    <3>2. Head(todo) \in FrameType /\ Head(todo).op = "resume" /\ Done \in ApplyDoneType
          /\ Head(todo).baseline \in BOOLEAN
      BY <1>0, <1>3, TailType, OutcomeOnTopType DEF ResumeFinish, OnTop
    <3>3. Head(todo) \notin AlienFinish("resume", req.seq)
      BY <1>0, <3>1, TailSole DEF AnswerInv, FinishInv
    <3>4. Done.for = req.seq
      BY <3>2, <3>3 DEF AlienFinish, Done
    <3>5. f \in FrameType /\ f \notin AlienFinish(op, req.seq)
      BY <3>2, <3>4, FrameTyped DEF Finish, Done, AlienFinish
    <3> HIDE DEF f
    <3>6. <<f>> \in Seq(FrameType) /\ Free(<<f>>, AlienFinish(op, req.seq))
      BY <3>5 DEF Free
    <3>7. Free(todo', AlienFinish(op, req.seq))
      BY <1>0, <3>1, <3>6, PushSole
    <3> QED
      BY <2>1, <3>7 DEF AnswerInv, FinishInv
  <2> QED
    BY <2>2, <2>3
<1> QED
  BY <1>1, <1>2, <1>3 DEF Finishers

(* Every handler keeps what is held, and what still has to be finished.     *)
LEMMA HandlersFinish ==
  ASSUME IInv, OutcomeInv, AnswerInv, Handlers
  PROVE  FinishInv'
<1>0. /\ todo \in Seq(FrameType) /\ todo # <<>> /\ Tail(todo) \in Seq(FrameType)
      /\ FenceUp \in BOOLEAN /\ FenceUp' \in BOOLEAN
  BY HandlersTop, TailType DEF IInv, TypeOK, FenceTypes, FenceUp, WorkerActive
<1>1. CASE HandleApply
  <2>1. held' = None /\ todo' = Tail(todo)
    BY <1>1 DEF HandleApply, Return
  <2>2. FenceUp'
    <3>1. worker' = [kind |-> "Apply", gen |-> gen + 1] /\ gen \in Nat
      BY <1>1 DEF HandleApply, StartWorker, ApplyGeneration, IInv, TypeOK, DispatchTypes
    <3>2. worker' \in [kind : WorkerKinds, gen : Nat]
      BY <3>1 DEF WorkerKinds
    <3> QED
      BY <3>2, NoneAssumption DEF FenceUp, WorkerActive
  <2>3. Clean(todo')
    BY <1>0, <2>1, CleanTail DEF OutcomeInv
  <2>4. Free(todo', AlienFinish("outcome", req'.seq))
    BY <2>3 DEF Clean, Free, AlienFinish
  <2> QED
    BY <2>1, <2>2, <2>4 DEF FinishInv
<1>2. CASE ~HandleApply
  <2>1. req'.seq = req.seq
    BY <1>2, RequestKept
  <2>2. \A op \in {"resume", "outcome"} :
           Free(Tail(todo), AlienFinish(op, req.seq)) => Free(todo', AlienFinish(op, req.seq))
    <3> SUFFICES ASSUME NEW op \in {"resume", "outcome"},
                        Free(Tail(todo), AlienFinish(op, req.seq))
                 PROVE  Free(todo', AlienFinish(op, req.seq))
      OBVIOUS
    <3>1. CASE Finishers
      BY <3>1, FinishersOwn
    <3>2. CASE ~Finishers
      <4>1. \A f \in AlienFinish(op, req.seq) : f.op \in {"resume", "outcome"}
        BY DEF AlienFinish
      <4> QED
        BY <3>2, <4>1, OthersPush
    <3> QED
      BY <3>1, <3>2
  <2>3. Free(todo', AlienFinish("outcome", req.seq))
    <3>1. Free(todo, AlienFinish("outcome", req.seq))
      BY DEF AnswerInv, FinishInv
    <3>2. Free(Tail(todo), AlienFinish("outcome", req.seq))
      BY <1>0, <3>1, TailSole
    <3> QED
      BY <2>2, <3>2
  <2>4. held' # None => held'.for = req.seq
    <3>1. CASE Finishers
      <4>1. Free(Tail(todo), AlienFinish("outcome", req.seq))
        BY <1>0, TailSole DEF AnswerInv, FinishInv
      <4> QED
        BY <3>1, <4>1, FinishersOwn
    <3>2. CASE ~Finishers
      <4>1. held' \in {held, None}
        BY <3>2, HeldMoves
      <4> QED
        BY <4>1 DEF AnswerInv, FinishInv
    <3> QED
      BY <3>1, <3>2
  <2>5. FenceUp' \/ Free(todo', AlienFinish("resume", req.seq))
    <3>1. CASE ~FenceUp
      <4>1. Free(todo, AlienFinish("resume", req.seq))
        BY <3>1 DEF AnswerInv, FinishInv
      <4>2. Free(Tail(todo), AlienFinish("resume", req.seq))
        BY <1>0, <4>1, TailSole
      <4> QED
        BY <2>2, <4>2
    <3>2. CASE FenceUp /\ ~FenceUp'
      <4>1. Head(todo) \in Frames(Completions)
        BY <3>2, FenceLowered, CompletionTop
      <4>2. Free(todo, OtherFrames)
        BY <1>0, <4>1, TailSole DEF AnswerInv, LastInv
      <4>3. Free(Tail(todo), OtherFrames)
        BY <1>0, <4>2, TailSole
      <4>4. Free(Tail(todo), AlienFinish("resume", req.seq))
        BY <4>3 DEF Free, OtherFrames, AlienFinish
      <4> QED
        BY <2>2, <4>4
    <3> QED
      BY <1>0, <3>1, <3>2
  <2> QED
    BY <2>1, <2>3, <2>4, <2>5 DEF FinishInv
<1> QED
  BY <1>1, <1>2

(* A completion ends its batch.                                             *)
LEMMA HandlersLast ==
  ASSUME IInv, LastInv, Handlers, UNCHANGED mailbox
  PROVE  LastInv'
<1>0. /\ todo \in Seq(FrameType) /\ todo # <<>> /\ Tail(todo) \in Seq(FrameType)
  BY HandlersTop, TailType DEF IInv, TypeOK, FenceTypes
<1>1. PICK s \in Seq(FrameType) :
        /\ todo' = s \o Tail(todo)
        /\ \A i \in DOMAIN s : s[i].op = "handle" => ~IsCompletion(s[i].msg)
  BY HandlersCall DEF Calls
<1>2. Free(s, Frames(Completions))
  <2> SUFFICES ASSUME NEW i \in DOMAIN s, NEW m \in Completions, s[i] = HandleFrame(m)
               PROVE  FALSE
    BY DEF Free, Frames
  <2> QED
    BY <1>1 DEF HandleFrame, Completions
<1>3. CASE Free(Tail(todo), Frames(Completions))
  BY <1>0, <1>1, <1>2, <1>3, PushSole DEF LastInv
<1>4. CASE ~Free(Tail(todo), Frames(Completions))
  <2>1. /\ Sole(todo, Frames(Completions)) /\ Free(todo, OtherFrames)
        /\ Head(todo) \notin Frames(Completions)
    BY <1>0, <1>4, TailSole DEF LastInv
  <2>2. Sole(Tail(todo), Frames(Completions)) /\ Free(Tail(todo), OtherFrames)
        /\ Head(todo) \notin OtherFrames
    BY <1>0, <2>1, TailSole
  <2>3. ~HandleCompletion
    BY <2>1, CompletionTop
  <2>4. Head(todo).op = "handle"
    BY <1>0, <2>2, TailType DEF OtherFrames
  <2>5. ~Continue
    BY <2>4 DEF Continue, DrainNext, DrainEnds, ResumeFinish, ApplyOutcome,
       OutcomeBaselineFailed, OutcomeChecked, OutcomeRepaired, OutcomeVerify,
       OutcomeHdrFallback, OutcomeFailed, OutcomeFails, AfterReset, ExitAfterReset,
       AfterRestore, OnTop
  <2>6. todo' = Tail(todo)
    <3>1. CASE HandleCommand
      BY <3>1 DEF HandleCommand, HandleStaleCommand, HandleApplyDeferred,
         HandleApply, HandleRepairDropped, HandleRepair, HandleRevertJoins,
         HandleRevertDeferred, HandleRevertPolicyOff, HandleRevertNothing,
         HandleRevert, HandleDisarmIgnored, HandleDisarmDeferred,
         HandleDisarm, HandleSnapshot, HandleRefreshRejected, HandleRefresh,
         HandleResetDeferred, HandleReset, Return
    <3>2. CASE HandleEvent
      BY <3>2 DEF HandleEvent, HandleBaselineReturn, HandleEventIgnored,
         HandleSameIdentity, HandleIdentityQueued, HandleIdentityReplaced,
         HandleEventInWindow, HandleEventReopens, Return
    <3> QED
      BY <2>3, <2>5, <3>1, <3>2 DEF Handlers
  <2> QED
    BY <2>2, <2>6 DEF LastInv
<1> QED
  BY <1>3, <1>4

(* What there was none of when it would have been fresh, there is none of   *)
(* once it is stale.                                                        *)
LEMMA AlienLater ==
  ASSUME IInv, IInv', Onward
  PROVE  /\ \A q : Free(q, AlienTasks(req.seq, gen)) => Free(q, AlienTasks(req'.seq, gen'))
         /\ \A q : Free(q, AlienDones(req.seq, gen)) => Free(q, AlienDones(req'.seq, gen'))
         /\ \A q : Free(q, Frames(AlienDones(req.seq, gen)))
                     => Free(q, Frames(AlienDones(req'.seq, gen')))
         /\ \A q : Free(q, AlienTimers(req.seq, gen)) => Free(q, AlienTimers(req'.seq, gen'))
<1>1. gen \in Nat /\ gen' \in Nat
  BY DEF IInv, TypeOK, DispatchTypes
<1>2. /\ AlienTasks(req'.seq, gen') \subseteq AlienTasks(req.seq, gen)
      /\ AlienDones(req'.seq, gen') \subseteq AlienDones(req.seq, gen)
      /\ AlienTimers(req'.seq, gen') \subseteq AlienTimers(req.seq, gen)
  BY <1>1, AlienLess DEF Onward
<1>3. Frames(AlienDones(req'.seq, gen')) \subseteq Frames(AlienDones(req.seq, gen))
  BY <1>2, FramesPart
<1> QED
  BY <1>2, <1>3, FreePart

(* Every handler keeps the answers.                                         *)
LEMMA HandlersAnswer ==
  ASSUME IInv, IInv', OutcomeInv, AnswerInv, Handle
  PROVE  AnswerInv'
<1>0. Handlers /\ UNCHANGED mailbox /\ TypeOK
  BY DEF Handle, hostUnchanged, hostVars, IInv
<1>1. OwnWork
  BY <1>0, HandlersOwn
<1>2. LastInv' /\ FinishInv'
  BY <1>0, HandlersLast, HandlersFinish DEF AnswerInv
<1>3. /\ Free(tasks, AlienTasks(req'.seq, gen'))
      /\ Free(mailbox, AlienDones(req'.seq, gen'))
      /\ Free(todo, Frames(AlienDones(req'.seq, gen')))
      /\ Free(timers, AlienTimers(req'.seq, gen'))
  BY <1>1, AlienLater DEF OwnWork, AnswerInv, NoneOf
<1>4. /\ tasks \in Seq(TaskType) /\ timers \in Seq([gen : Nat, for : Nat])
      /\ todo \in Seq(FrameType) /\ todo # <<>> /\ Tail(todo) \in Seq(FrameType)
  BY <1>0, HandlersTop, TailType DEF IInv, TypeOK, DispatchTypes, FenceTypes
<1>5. PICK r \in Nat, h \in Nat : r = req'.seq /\ h = gen'
  BY DEF IInv, TypeOK, DispatchTypes, SessionTypes
<1>6. Free(tasks', AlienTasks(r, h))
  BY <1>1, <1>3, <1>4, <1>5, AppendSole DEF OwnWork
<1>7. Free(timers', AlienTimers(r, h))
  <2> DEFINE t == [gen |-> h, for |-> r]
  <2>1. t \notin AlienTimers(r, h)
    BY DEF AlienTimers, Alien
  <2>2. timers' = timers \/ timers' = Append(timers, t)
    BY <1>1, <1>5 DEF OwnWork
  <2> HIDE DEF t
  <2> QED
    BY <1>3, <1>4, <1>5, <2>1, <2>2, AppendSole
<1>8. Free(todo', Frames(AlienDones(r, h)))
  <2>1. PICK s \in Seq(FrameType) :
          /\ todo' = s \o Tail(todo)
          /\ \A i \in DOMAIN s : s[i].op = "handle" => ~IsCompletion(s[i].msg)
    BY <1>0, HandlersCall DEF Calls
  <2>2. Free(s, Frames(AlienDones(r, h)))
    <3> SUFFICES ASSUME NEW i \in DOMAIN s, NEW m \in AlienDones(r, h), s[i] = HandleFrame(m)
                 PROVE  FALSE
      BY DEF Free, Frames
    <3> QED
      BY <2>1 DEF HandleFrame, AlienDones, IsCompletion
  <2>3. Free(Tail(todo), Frames(AlienDones(r, h)))
    BY <1>3, <1>4, <1>5, TailSole
  <2> QED
    BY <1>4, <2>1, <2>2, <2>3, PushSole
<1> QED
  BY <1>0, <1>2, <1>3, <1>5, <1>6, <1>7, <1>8 DEF AnswerInv, NoneOf

-----------------------------------------------------------------------------
(* The other steps.                                                         *)

(* They leave the fence, and what is held, as they are or raise it.         *)
LEMMA FinishStays ==
  ASSUME FinishInv, UNCHANGED <<req, held, todo>>, FenceUp => FenceUp'
  PROVE  FinishInv'
BY DEF FinishInv

(* A batch leaves nothing to finish.                                        *)
LEMMA FinishNone ==
  ASSUME FinishInv, UNCHANGED <<req, held>>, Free(todo', OtherFrames)
  PROVE  FinishInv'
<1>1. \A s : \A op \in {"resume", "outcome"} : Free(todo', AlienFinish(op, s))
  BY DEF Free, OtherFrames, AlienFinish
<1> QED
  BY <1>1 DEF FinishInv

(* The worker reports for the APPLY its task was for.                      *)
LEMMA WorkerAnswer ==
  ASSUME IInv, AnswerInv, WorkerThread
  PROVE  AnswerInv'
<1>0. tasks \in Seq(TaskType) /\ mailbox \in Seq(MessageType)
  BY DEF IInv, TypeOK, DispatchTypes, HostTypes
<1>1. /\ UNCHANGED <<req, staging, worker, held, todo, gen, timers>>
      /\ \/ UNCHANGED <<tasks, mailbox>>
         \/ \E m \in MessageType :
              /\ tasks # <<>> /\ tasks' = Tail(tasks) /\ mailbox' = Append(mailbox, m)
              /\ <<Head(tasks).op, m.kind>> \in Reports
              /\ m.gen = Head(tasks).gen
              /\ m.kind \in {"ApplyDone", "VerifyDone"} => m.for = Head(tasks).for
  BY WorkerMoves
<1>2. LastInv' /\ FinishInv'
  BY <1>1, FinishStays DEF AnswerInv, LastInv, FenceUp, WorkerActive
<1> DEFINE T == AlienTasks(req.seq, gen)
           M == AlienDones(req.seq, gen)
<1>3. NoneOf(T, M)
  BY DEF AnswerInv
<1>4. Free(tasks', T) /\ Free(mailbox', M)
  <2>1. CASE UNCHANGED <<tasks, mailbox>>
    BY <1>3, <2>1 DEF NoneOf
  <2>2. ASSUME NEW m \in MessageType,
               tasks # <<>> /\ tasks' = Tail(tasks) /\ mailbox' = Append(mailbox, m),
               <<Head(tasks).op, m.kind>> \in Reports,
               m.gen = Head(tasks).gen,
               m.kind \in {"ApplyDone", "VerifyDone"} => m.for = Head(tasks).for
        PROVE  Free(tasks', T) /\ Free(mailbox', M)
    <3>1. Head(tasks) \in TaskType /\ Head(tasks) \notin T /\ Free(tasks', T)
      BY <1>0, <1>3, <2>2, TailSole, TailType DEF NoneOf
    <3>2. m \notin M
      BY <2>2, <3>1 DEF AlienTasks, AlienDones, Alien, Reports
    <3> HIDE DEF T, M
    <3>3. Free(mailbox', M)
      BY <1>0, <1>3, <2>2, <3>2, AppendSole DEF NoneOf
    <3> QED
      BY <3>1, <3>3
  <2> QED
    BY <1>1, <2>1, <2>2
<1> QED
  BY <1>1, <1>2, <1>3, <1>4 DEF AnswerInv, NoneOf

(* At most one message of a batch is a completion.                          *)
LEMMA ReceiveLast ==
  ASSUME IInv, Receive
  PROVE  LastInv' /\ Free(todo', OtherFrames)
<1> DEFINE m == Head(mailbox)
           rest == Tail(mailbox)
<1>1. Free(todo', OtherFrames)
  <2>1. \A f \in OtherFrames : Free(todo', {f})
    BY ReceiveMoves DEF OtherFrames
  <2> QED
    BY <2>1 DEF Free
<1>2. CASE m \notin Completions
  <2>1. \A k \in Completions : IsCompletion(k)
    BY DEF Completions
  <2>2. Free(todo', Frames(Completions))
    BY <1>2, <2>1, ReceiveMoves
  <2> QED
    BY <1>1, <2>2 DEF LastInv
<1>3. CASE m \in Completions
  <2>1. mailbox # <<>> /\ mailbox \in Seq(MessageType) /\ rest \in Seq(MessageType)
    BY TailType DEF IInv, TypeOK, HostTypes, Receive
  <2>2. PICK n \in 0..Len(rest) :
          /\ IsPrefixLength(n, m, rest)
          /\ todo' = [i \in 1..(n + 1) |-> HandleFrame(IF i <= n THEN rest[i] ELSE m)]
    BY DEF Receive
  <2>3. \A i \in 1..n : rest[i] \notin Completions
    <3> SUFFICES ASSUME NEW i \in 1..n PROVE ~IsCompletion(rest[i])
      BY DEF Completions
    <3>1. IsCompletion(m)
      BY <1>3 DEF Completions
    <3>2. Overtakes(m, rest[i])
      BY <2>2, <3>1 DEF IsPrefixLength
    <3> QED
      BY <3>1, <3>2 DEF Overtakes, IsCompletion
  <2> HIDE DEF m, rest
  <2>4. n \in Nat
    BY <2>1, <2>2
  <2>5. /\ DOMAIN todo' = 1..(n + 1)
        /\ \A i \in 1..n : todo'[i] = HandleFrame(rest[i])
        /\ todo'[n + 1] = HandleFrame(m)
    BY <2>2, <2>4
  <2>6. \A i \in 1..n : todo'[i] \notin Frames(Completions)
    BY <2>3, <2>5, FrameOf
  <2>7. todo'[n + 1] \in Frames(Completions)
    BY <1>3, <2>5, FrameOf
  <2>8. n + 1 \in DOMAIN todo' /\ \A j \in DOMAIN todo' : j # n + 1 => j \in 1..n
    BY <2>4, <2>5
  <2>9. Sole(todo', Frames(Completions))
    BY <2>6, <2>7, <2>8 DEF Sole
  <2> QED
    BY <1>1, <2>9 DEF LastInv
<1> QED
  BY <1>1, <1>2, <1>3

(* process_queue takes what is already there.                               *)
LEMMA ReceiveAnswer ==
  ASSUME IInv, AnswerInv, Receive
  PROVE  AnswerInv'
<1>1. UNCHANGED <<req, staging, worker, held, gen, tasks, timers>>
  BY ReceiveMoves
<1>2. /\ Free(mailbox', AlienDones(req.seq, gen))
      /\ Free(todo', Frames(AlienDones(req.seq, gen)))
  BY ReceiveMoves DEF AnswerInv, NoneOf
<1>3. LastInv' /\ FinishInv'
  BY <1>1, ReceiveLast, FinishNone DEF AnswerInv
<1> QED
  BY <1>1, <1>2, <1>3 DEF AnswerInv, NoneOf

(* The disconnect of a connection checks the session of the request.        *)
LEMMA DisconnectAnswer ==
  ASSUME IInv, IInv', AnswerInv, Disconnect
  PROVE  AnswerInv'
<1> DEFINE f == HandleFrame([kind |-> "Revert", seq |-> 0, epoch |-> 0,
                             fromDisconnect |-> TRUE])
<1>1. /\ UNCHANGED <<req, staging, worker, held, tasks>> /\ gen' \in {gen, gen + 1}
      /\ timers' = timers \/ timers' = Append(timers, [gen |-> gen', for |-> req.seq])
      /\ mailbox' \in Filtered(mailbox, NotOfRetired)
      /\ todo = <<>> /\ (todo' = <<>> \/ todo' = <<f>>)
  BY DEF Disconnect, DisconnectKeeps, DisconnectWaits, DisconnectChecks, DisconnectReverts,
     RetireConnection, DispatchCheck, Idle, dispatchVars, fenceVars
<1>2. gen \in Nat /\ gen' \in Nat /\ req.seq \in Nat /\ timers \in Seq([gen : Nat, for : Nat])
  BY DEF IInv, TypeOK, DispatchTypes, SessionTypes
<1>3. Onward
  BY <1>1, <1>2 DEF Onward
<1>4. f.op = "handle" /\ f \notin Frames(Completions)
      /\ \A s, g : f \notin Frames(AlienDones(s, g))
  <2>1. f.op = "handle" /\ f.msg.kind = "Revert"
    BY DEF HandleFrame
  <2>2. \A m : IsCompletion(m) => m.kind # "Revert"
    BY DEF IsCompletion
  <2>3. \A m : f = HandleFrame(m) => m.kind = "Revert"
    BY <2>1 DEF HandleFrame
  <2> QED
    BY <2>1, <2>2, <2>3 DEF Frames, Completions, AlienDones
<1> HIDE DEF f
<1>5. /\ Free(todo', OtherFrames) /\ Free(todo', Frames(Completions))
      /\ \A s, g : Free(todo', Frames(AlienDones(s, g)))
  BY <1>1, <1>4 DEF Free, OtherFrames
<1>6. Free(mailbox', AlienDones(req'.seq, gen'))
  <2>1. Free(mailbox, AlienDones(req.seq, gen))
    BY DEF AnswerInv, NoneOf
  <2>2. Free(mailbox, AlienDones(req'.seq, gen'))
    BY <1>3, <2>1, AlienLater
  <2> QED
    BY <1>1, <2>2, RetireKeeps
<1>7. Free(tasks', AlienTasks(req'.seq, gen'))
  BY <1>1, <1>3, AlienLater DEF AnswerInv, NoneOf
<1>8. Free(timers', AlienTimers(req'.seq, gen'))
  <2>1. PICK r \in Nat, h \in Nat : r = req.seq /\ r = req'.seq /\ h = gen'
    BY <1>1, <1>2
  <2> DEFINE t == [gen |-> h, for |-> r]
  <2>2. t \notin AlienTimers(r, h)
    BY DEF AlienTimers, Alien
  <2>3. timers' = timers \/ timers' = Append(timers, t)
    BY <1>1, <2>1
  <2>4. Free(timers, AlienTimers(r, h))
    BY <1>3, <2>1, AlienLater DEF AnswerInv
  <2> HIDE DEF t
  <2> QED
    BY <1>2, <2>1, <2>2, <2>3, <2>4, AppendSole
<1>9. FinishInv'
  BY <1>1, <1>5, FinishNone DEF AnswerInv
<1> QED
  BY <1>5, <1>6, <1>7, <1>8, <1>9 DEF AnswerInv, NoneOf, LastInv

(* The client, Windows and time bring no completion.                        *)
LEMMA PipeAnswer ==
  ASSUME IInv, IInv', AnswerInv, PipeStep \/ PassOfTime
  PROVE  AnswerInv'
<1>1. /\ UNCHANGED <<req, staging, worker, held, todo, tasks, timers>>
      /\ gen' \in {gen, gen + 1}
      /\ mailbox' = mailbox \/ \E m : mailbox' = Append(mailbox, m) /\ ~IsCompletion(m)
  BY PipeMoves
<1>2. gen \in Nat /\ mailbox \in Seq(MessageType)
  BY DEF IInv, TypeOK, DispatchTypes, HostTypes
<1>3. Onward
  BY <1>1, <1>2 DEF Onward
<1>4. LastInv' /\ FinishInv'
  BY <1>1, FinishStays DEF AnswerInv, LastInv, FenceUp, WorkerActive
<1>5. PICK r, h : r = req'.seq /\ h = gen'
  OBVIOUS
<1>6. /\ Free(tasks, AlienTasks(r, h)) /\ Free(mailbox, AlienDones(r, h))
      /\ Free(todo, Frames(AlienDones(r, h))) /\ Free(timers, AlienTimers(r, h))
  BY <1>3, <1>5, AlienLater DEF AnswerInv, NoneOf
<1>7. Free(mailbox', AlienDones(r, h))
  <2>1. CASE mailbox' = mailbox
    BY <1>6, <2>1
  <2>2. ASSUME NEW m, mailbox' = Append(mailbox, m), ~IsCompletion(m)
        PROVE  Free(mailbox', AlienDones(r, h))
    <3>1. m \notin AlienDones(r, h)
      BY <2>2 DEF AlienDones, IsCompletion
    <3> QED
      BY <1>2, <1>6, <2>2, <3>1, AppendSole
  <2> QED
    BY <1>1, <2>1, <2>2
<1> QED
  BY <1>1, <1>4, <1>5, <1>6, <1>7 DEF AnswerInv, NoneOf

(* A check that is due is dispatched for the APPLY it was set for.          *)
LEMMA TimerAnswer ==
  ASSUME IInv, AnswerInv, TimerThread
  PROVE  AnswerInv'
<1> DEFINE h == Head(timers)
           t == [op |-> "verify", gen |-> h.gen, purpose |-> "TransientDisconnect",
                 for |-> h.for]
<1>1. /\ UNCHANGED <<req, staging, worker, held, todo, gen, mailbox>>
      /\ timers # <<>> /\ timers' = Tail(timers)
      /\ tasks' = tasks \/ tasks' = Append(tasks, t)
  BY DEF TimerThread, workerUnchanged, sessionVars, fenceVars
<1>2. /\ timers \in Seq([gen : Nat, for : Nat]) /\ tasks \in Seq(TaskType)
      /\ h \in [gen : Nat, for : Nat]
  <2>1. timers \in Seq([gen : Nat, for : Nat]) /\ tasks \in Seq(TaskType)
    BY DEF IInv, TypeOK, DispatchTypes
  <2> QED
    BY <1>1, <2>1, TailType
<1>3. h \notin AlienTimers(req.seq, gen) /\ Free(timers', AlienTimers(req.seq, gen))
  BY <1>1, <1>2, TailSole DEF AnswerInv
<1>4. t \notin AlienTasks(req.seq, gen)
  <2>1. t.gen = h.gen /\ t.for = h.for
    OBVIOUS
  <2> HIDE DEF t, h
  <2> QED
    BY <1>2, <1>3, <2>1 DEF AlienTimers, AlienTasks, Alien
<1> HIDE DEF t, h
<1>5. Free(tasks', AlienTasks(req.seq, gen))
  BY <1>1, <1>2, <1>4, AppendSole DEF AnswerInv, NoneOf
<1>6. LastInv' /\ FinishInv'
  BY <1>1, FinishStays DEF AnswerInv, LastInv, FenceUp, WorkerActive
<1> QED
  BY <1>1, <1>3, <1>5, <1>6 DEF AnswerInv, NoneOf

(* The event loop tries the restore again, for no APPLY.                    *)
LEMMA TickAnswer ==
  ASSUME IInv, AnswerInv, Tick
  PROVE  AnswerInv'
<1>1. /\ UNCHANGED <<req, staging, held, todo, gen, timers, mailbox>> /\ todo = <<>>
      /\ tasks' = Append(tasks, RecoverTask(gen))
  BY DEF Tick, HandleTick, TickAllowed, StartRecovery, StartWorker, exitVars,
     hostUnchanged, hostVars
<1>2. tasks \in Seq(TaskType)
  BY DEF IInv, TypeOK, DispatchTypes
<1>3. RecoverTask(gen) \notin AlienTasks(req.seq, gen)
  BY DEF RecoverTask, AlienTasks
<1>4. Free(tasks', AlienTasks(req.seq, gen))
  BY <1>1, <1>2, <1>3, AppendSole DEF AnswerInv, NoneOf
<1>5. Free(todo', OtherFrames)
  BY <1>1 DEF Free
<1>6. LastInv' /\ FinishInv'
  BY <1>1, <1>5, FinishNone DEF AnswerInv, LastInv
<1> QED
  BY <1>1, <1>4, <1>6 DEF AnswerInv, NoneOf

-----------------------------------------------------------------------------
(* Every step keeps the invariant.                                          *)
LEMMA NextAnswer ==
  ASSUME IInv, OutcomeInv, AnswerInv, [Next]_vars
  PROVE  AnswerInv'
<1>1. IInv'
  BY NextTyped
<1>2. CASE Handle
  BY <1>1, <1>2, HandlersAnswer
<1>3. CASE WorkerThread
  BY <1>3, WorkerAnswer
<1>4. CASE Receive
  BY <1>4, ReceiveAnswer
<1>5. CASE Disconnect
  BY <1>1, <1>5, DisconnectAnswer
<1>6. CASE TimerThread
  BY <1>6, TimerAnswer
<1>7. CASE Tick
  BY <1>7, TickAnswer
<1>8. CASE PipeStep \/ PassOfTime
  BY <1>1, <1>8, PipeAnswer
<1> QED
  BY <1>2, <1>3, <1>4, <1>5, <1>6, <1>7, <1>8
     DEF Next, Host, Client, Environment, PipeStep, PassOfTime

(* A helper that has just started satisfies it.                             *)
LEMMA InitAnswer == Init => AnswerInv
<1> SUFFICES ASSUME Init PROVE AnswerInv
  OBVIOUS
<1>1. todo = <<>> /\ tasks = <<>> /\ timers = <<>> /\ held = None
  BY DEF Init
<1>2. \A G : Free(<<>>, G)
  BY DEF Free
<1>3. \A s, g : Free(mailbox, AlienDones(s, g))
  BY DEF Init, Free, AlienDones
<1> QED
  BY <1>1, <1>2, <1>3 DEF AnswerInv, NoneOf, LastInv, FinishInv

\* The APPLY that the completion on the stack was done for.
AnsweredFor == IF todo[1].op = "outcome" THEN todo[1].done.for ELSE todo[1].msg.for

(* Only these handlers answer the client.                                   *)
LEMMA RepliesMove ==
  ASSUME IInv, [Next]_vars, replies' # replies
  PROVE  Handle /\ (OutcomeFailed \/ HandleVerified \/ HandleUnverified)
<1>1. ~Receive /\ ~Disconnect /\ ~WorkerThread /\ ~TimerThread /\ ~Tick
  <2>1. ~WorkerThread
    BY WorkerMoves
  <2> QED
    BY <2>1 DEF Receive, Disconnect, DisconnectKeeps, DisconnectWaits, DisconnectChecks,
       DisconnectReverts, RetireConnection, TimerThread, workerUnchanged, Tick, HandleTick
<1>2. ~PipeStep /\ ~PassOfTime
  BY PipeMoves
<1>3. Handle
  BY <1>1, <1>2 DEF Next, Host, Client, Environment, PipeStep, PassOfTime
<1>4. ~HandleCommand /\ ~HandleEvent
  BY DEF HandleCommand, HandleStaleCommand, HandleApplyDeferred,
     HandleApply, HandleRepairDropped, HandleRepair, HandleRevertJoins,
     HandleRevertDeferred, HandleRevertPolicyOff, HandleRevertNothing,
     HandleRevert, HandleDisarmIgnored, HandleDisarmDeferred,
     HandleDisarm, HandleSnapshot, HandleRefreshRejected, HandleRefresh,
     HandleResetDeferred, HandleReset, HandleEvent, HandleBaselineReturn,
     HandleEventIgnored, HandleSameIdentity, HandleIdentityQueued,
     HandleIdentityReplaced, HandleEventInWindow, HandleEventReopens
<1>5. HandleVerifyDone => HandleVerified \/ HandleUnverified
  BY DEF HandleVerifyDone, HandleCheckPassed, HandleCheckFailed,
     HandleBaselineVerified, HandleUnverifiedDisconnected, HandleBaselineMissing,
     HandleBaselineUnrepaired, HandleUnverifiedReapply
<1>6. ApplyOutcome => OutcomeFailed
  BY DEF ApplyOutcome, OutcomeBaselineFailed, OutcomeChecked, OutcomeRepaired,
     OutcomeVerify, OutcomeHdrFallback
<1>7. ~ApplyCompletion /\ ~RestoreCompletion
  BY DEF ApplyCompletion, RestoreCompletion,
     HandleForeignCompletion, HandleApplyDone, HandleCancelledApplyUntouched,
     HandleCancelledApplyTouched, DrainNext, DrainEnds, ResumeFinish, AfterReset,
     HandleResetFailedExit, HandleResetDone, HandleRefreshCancelled, HandleRefreshDone,
     HandleCancelledRecovery, HandleRestored, HandleAttemptFailed,
     HandleCancelledValidation, HandleConfirmed, ExitAfterReset, AfterRestore
<1> QED
  BY <1>3, <1>4, <1>5, <1>6, <1>7
     DEF Handle, Handlers, HandleCompletion, Continue, ApplyCompletion, RestoreCompletion

(* A handler that answers acts on work done for the APPLY in force.         *)
LEMMA AnswerStep ==
  ASSUME IInv, AnswerInv, [Next]_vars, replies' # replies
  PROVE  req.seq = AnsweredFor
<1>0. todo \in Seq(FrameType) /\ gen \in Nat
  BY DEF IInv, TypeOK, FenceTypes, DispatchTypes
<1>1. CASE OutcomeFailed
  <2>1. todo # <<>> /\ Head(todo).op = "outcome"
    BY <1>1 DEF OutcomeFailed, OutcomeFails, OnTop
  <2>2. Head(todo) \in FrameType /\ Head(todo) = todo[1]
    BY <1>0, <2>1, TailType
  <2>3. Head(todo) \notin AlienFinish("outcome", req.seq)
    BY <1>0, <2>1, TailSole DEF AnswerInv, FinishInv
  <2> QED
    BY <2>1, <2>2, <2>3 DEF AlienFinish, AnsweredFor
<1>2. CASE HandleVerified \/ HandleUnverified
  <2>1. Handling("VerifyDone") /\ Msg.gen = gen
    BY <1>2 DEF HandleVerified, HandleUnverified, Verified, StaleGeneration
  <2>2. HandleOnTop /\ todo # <<>> /\ Head(todo) = todo[1]
    BY <1>0, <2>1 DEF HandleOnTop, Handling, OnTop
  <2>3. Msg \in MessageType /\ Msg \notin AlienDones(req.seq, gen)
    BY <2>2, TopAllowed DEF AnswerInv, NoneOf
  <2>4. Msg.for = req.seq
    <3>1. Msg.kind = "VerifyDone"
      BY <2>1 DEF Handling, Msg
    <3> QED
      BY <1>0, <2>1, <2>3, <3>1, FreshOwn
  <2> QED
    BY <2>1, <2>2, <2>4 DEF AnsweredFor, Handling, OnTop, Msg
<1> QED
  BY <1>1, <1>2, RepliesMove

(* An APPLY is answered by work that was done for it, and never by work of  *)
(* a predecessor: in every behaviour, RESET requests included.              *)
THEOREM AnsweredByOwnWorkHolds == Spec => AnsweredByOwnWork
<1>1. Init => OutcomeInv
  BY DEF Init, OutcomeInv, Clean
<1>2. IInv /\ OutcomeInv /\ AnswerInv /\ [Next]_vars
        => [replies' # replies =>
              req.seq = IF todo[1].op = "outcome" THEN todo[1].done.for
                        ELSE todo[1].msg.for]_vars
  BY AnswerStep DEF AnsweredFor
<1> QED
  BY <1>1, <1>2, InitAnswer, NextAnswer, NextClean, SpecTyped, PTL
     DEF Spec, AnsweredByOwnWork

-----------------------------------------------------------------------------
(* Work that is reported behind a staged-state reset.                       *)

\* Work of one kind and the staged-state reset are dispatched, run and reported
\* in the same order, the reset first: OrderInv is this for the mutations.
Ordered(T, M) ==
  /\ Behind(tasks, T, ResetTasks)
  /\ Behind(mailbox, M, ResetDones)
  /\ \/ Free(tasks, ResetTasks)
     \/ Free(mailbox, M) /\ Free(todo, Frames(M))
  /\ Free(mailbox, ResetDones) \/ Free(todo, Frames(M))

\* A check that is not cancelled reports behind the reset under way.
VerdictInv == Ordered(FreshTasks(gen), FreshDones(gen))

(* The order holds where one of the two kinds is absent.                    *)
LEMMA OrderedFree ==
  ASSUME NEW T, NEW M
  PROVE  NoneOf(T, M) \/ NoneOf(ResetTasks, ResetDones) => Ordered(T, M)
BY DEF NoneOf, Ordered, Behind, Free

(* Work dispatched while none of its kind is in flight is the last task.    *)
LEMMA OrderedLast ==
  ASSUME IInv, NEW T, NEW M, NEW t \in T, tasks' = Append(tasks, t), t \notin ResetTasks,
         Free(tasks, T), Free(mailbox', M), Free(todo', Frames(M))
  PROVE  Ordered(T, M)'
<1>1. tasks \in Seq(TaskType)
  BY DEF IInv, TypeOK, DispatchTypes
<1>2. /\ DOMAIN tasks' = 1..(Len(tasks) + 1) /\ DOMAIN tasks = 1..Len(tasks)
      /\ Len(tasks) \in Nat
      /\ \A i \in DOMAIN tasks : tasks'[i] = tasks[i]
      /\ tasks'[Len(tasks) + 1] = t
  BY <1>1
<1>3. \A i \in DOMAIN tasks' : tasks'[i] \in T => i = Len(tasks) + 1
  BY <1>2 DEF Free
<1>4. \A j \in DOMAIN tasks' : tasks'[j] \in ResetTasks => j < Len(tasks) + 1
  BY <1>2
<1>5. Behind(tasks', T, ResetTasks)
  BY <1>3, <1>4 DEF Behind
<1>6. Behind(mailbox', M, ResetDones)
  BY DEF Behind, Free
<1> QED
  BY <1>5, <1>6 DEF Ordered

(* A task of another kind leaves the order alone.                           *)
LEMMA OrderedOther ==
  ASSUME IInv, NEW T, NEW M, Ordered(T, M), UNCHANGED mailbox,
         tasks' = tasks \/ \E t \in TaskType : /\ tasks' = Append(tasks, t)
                                               /\ t \notin T /\ t \notin ResetTasks,
         Free(todo, Frames(M)) => Free(todo', Frames(M))
  PROVE  Ordered(T, M)'
<1>1. /\ Behind(tasks', T, ResetTasks)
      /\ Free(tasks, ResetTasks) => Free(tasks', ResetTasks)
  <2>1. CASE tasks' = tasks
    BY <2>1 DEF Ordered
  <2>2. ASSUME NEW t \in TaskType, tasks' = Append(tasks, t), t \notin T, t \notin ResetTasks
        PROVE  /\ Behind(tasks', T, ResetTasks)
               /\ Free(tasks, ResetTasks) => Free(tasks', ResetTasks)
    <3>1. tasks \in Seq(TaskType)
      BY DEF IInv, TypeOK, DispatchTypes
    <3> QED
      BY <2>2, <3>1, BehindMoves, AppendSole DEF Ordered
  <2> QED
    BY <2>1, <2>2
<1>2. PICK r : r = mailbox
  OBVIOUS
<1> QED
  BY <1>1, <1>2 DEF Ordered

(* A message that is no completion leaves the order alone.                  *)
LEMMA OrderedMessage ==
  ASSUME IInv, NEW T, NEW M, Work(T, M), Ordered(T, M), UNCHANGED <<tasks, todo>>,
         mailbox' = mailbox \/
           \E m \in MessageType : mailbox' = Append(mailbox, m) /\ ~IsCompletion(m)
  PROVE  Ordered(T, M)'
<1>1. CASE mailbox' = mailbox
  BY <1>1 DEF Ordered
<1>2. ASSUME NEW m \in MessageType, mailbox' = Append(mailbox, m), ~IsCompletion(m)
      PROVE  Ordered(T, M)'
  <2>1. mailbox \in Seq(MessageType)
    BY DEF IInv, TypeOK, HostTypes
  <2>2. m \notin M /\ m \notin ResetDones
    BY <1>2, ResetWork DEF Work
  <2>3. /\ Behind(mailbox', M, ResetDones)
        /\ Free(mailbox, M) => Free(mailbox', M)
        /\ Free(mailbox, ResetDones) => Free(mailbox', ResetDones)
    BY <1>2, <2>1, <2>2, BehindMoves, AppendSole DEF Ordered
  <2> QED
    BY <2>3 DEF Ordered
<1> QED
  BY <1>1, <1>2

(* The worker thread reports what it runs in the order it was dispatched.   *)
LEMMA OrderedWorker ==
  ASSUME IInv, NEW T, NEW M, Work(T, M), M \cap ResetDones = {}, Ordered(T, M),
         WorkerThread
  PROVE  Ordered(T, M)'
<1>0. tasks \in Seq(TaskType) /\ mailbox \in Seq(MessageType) /\ todo' = todo
  BY WorkerMoves DEF IInv, TypeOK, DispatchTypes, HostTypes
<1>1. CASE UNCHANGED <<tasks, mailbox>>
  BY <1>0, <1>1 DEF Ordered
<1>2. ASSUME NEW m \in MessageType, tasks # <<>>, tasks' = Tail(tasks),
             mailbox' = Append(mailbox, m), <<Head(tasks).op, m.kind>> \in Reports,
             m.gen = Head(tasks).gen
      PROVE  Ordered(T, M)'
  <2>1. /\ Head(tasks) \in T <=> m \in M
        /\ Head(tasks) \in ResetTasks <=> m \in ResetDones
    <3>1. Head(tasks) \in TaskType
      BY <1>0, <1>2, TailType
    <3> HIDE DEF Reports
    <3> QED
      BY <1>2, <3>1, ResetWork DEF Work
  <2>2. ~(m \in M /\ m \in ResetDones)
    OBVIOUS
  <2>3. /\ Free(tasks, ResetTasks) => Head(tasks) \notin ResetTasks /\ Free(tasks', ResetTasks)
        /\ Behind(tasks', T, ResetTasks)
        /\ Head(tasks) \in T => Free(tasks', ResetTasks)
    BY <1>0, <1>2, TailSole, BehindMoves DEF Ordered
  <2>4. /\ m \notin M /\ Free(mailbox, M) => Free(mailbox', M)
        /\ m \notin ResetDones /\ Free(mailbox, ResetDones) => Free(mailbox', ResetDones)
    BY <1>0, <1>2, AppendSole
  <2>5. Behind(mailbox', M, ResetDones)
    <3>1. m \notin ResetDones => Behind(mailbox', M, ResetDones)
      BY <1>0, <1>2, BehindMoves DEF Ordered
    <3>2. m \in ResetDones => Free(mailbox, M) /\ m \notin M
      BY <2>1, <2>2, <2>3 DEF Ordered
    <3>3. m \notin M /\ Free(mailbox, M) => Behind(mailbox', M, ResetDones)
      BY <1>0, <1>2, BehindMoves DEF Ordered
    <3> QED
      BY <3>1, <3>2, <3>3
  <2>6. Free(tasks', ResetTasks) \/ (Free(mailbox', M) /\ Free(todo', Frames(M)))
    BY <1>0, <2>1, <2>3, <2>4 DEF Ordered
  <2>7. Free(mailbox', ResetDones) \/ Free(todo', Frames(M))
    BY <1>0, <2>1, <2>3, <2>4 DEF Ordered
  <2> QED
    BY <2>3, <2>5, <2>6, <2>7 DEF Ordered
<1> QED
  BY <1>1, <1>2, WorkerMoves

(* process_queue takes the mailbox from its head.                           *)
LEMMA OrderedReceive ==
  ASSUME IInv, NEW T, NEW M, Work(T, M), Ordered(T, M), Receive
  PROVE  Ordered(T, M)'
<1>1. /\ UNCHANGED tasks /\ todo = <<>> /\ mailbox # <<>> /\ mailbox \in Seq(MessageType)
      /\ \A G : Free(mailbox, G) => Free(mailbox', G) /\ Free(todo', Frames(G))
  BY ReceiveMoves DEF IInv, TypeOK, HostTypes
<1>2. Behind(mailbox', M, ResetDones) /\ Behind(tasks', T, ResetTasks)
  BY <1>1, ReceiveMoves DEF Ordered
<1>3. Free(tasks', ResetTasks) \/ (Free(mailbox', M) /\ Free(todo', Frames(M)))
  BY <1>1 DEF Ordered
<1>4. Free(mailbox', ResetDones) \/ Free(todo', Frames(M))
  <2>1. CASE Head(mailbox) \in M
    <3>1. Free(Tail(mailbox), ResetDones)
      BY <1>1, <2>1, BehindMoves DEF Ordered
    <3> QED
      BY <3>1, ReceiveMoves
  <2>2. CASE Head(mailbox) \notin M
    BY <2>2, ReceiveMoves DEF Work
  <2> QED
    BY <2>1, <2>2
<1> QED
  BY <1>2, <1>3, <1>4 DEF Ordered

-----------------------------------------------------------------------------
(* The verdict of a check that is not cancelled.                            *)

(* Checks are one kind of work, and no reset.                               *)
LEMMA FreshWork ==
  \A g : /\ Work(FreshTasks(g), FreshDones(g))
         /\ FreshDones(g) \cap ResetDones = {}
         /\ FreshTasks(g) \cap ResetTasks = {}
         /\ FreshTasks(g) \cap MutationTasks = {}
         /\ MutationTasks \cap ResetTasks = {}
<1>1. \A g : /\ FreshDones(g) \cap ResetDones = {}
             /\ FreshTasks(g) \cap ResetTasks = {}
             /\ FreshTasks(g) \cap MutationTasks = {}
             /\ MutationTasks \cap ResetTasks = {}
  BY DEF FreshDones, ResetDones, IsResetDone, FreshTasks, ResetTasks, IsResetTask,
     MutationTasks, IsMutationTask
<1> QED
  BY <1>1, MutationWork

(* While a fresh verdict is handled no reset is under way.                  *)
LEMMA VerdictUnbarred ==
  ASSUME IInv, MutationInv, VerdictInv, FreshVerdict
  PROVE  ~staging.resetting
<1> USE DEF MutationInv
<1>0. todo # <<>> /\ todo \in Seq(FrameType) /\ Head(todo).op = "handle" /\ HandleOnTop
  BY DEF IInv, TypeOK, FenceTypes, FreshVerdict, HandleOnTop, OnTop
<1>1. Head(todo) = HandleFrame(Msg) /\ Msg \in MessageType
  BY <1>0, HandledTop
<1>2. ~Free(todo, Frames(FreshDones(gen)))
  <2>1. Head(todo) \in Frames(FreshDones(gen))
    BY VerdictAlone
  <2> QED
    BY <1>0, <2>1, TailSole
<1>3. Free(tasks, ResetTasks) /\ Free(mailbox, ResetDones)
  BY <1>2 DEF VerdictInv, Ordered
<1>4. Free(todo, Frames(ResetDones))
  <2>1. Tail(todo) = <<>>
    BY <1>0, ShapeTop DEF FreshVerdict, IsCompletion
  <2>2. todo = <<Head(todo)>>
    BY <1>0, <2>1, OnlyOne
  <2>3. Msg \notin ResetDones
    BY DEF FreshVerdict, ResetDones, IsResetDone
  <2>4. Head(todo) \notin Frames(ResetDones)
    BY <1>1, <2>3, FrameOf
  <2> QED
    BY <2>2, <2>4 DEF Free
<1>5. ~OneOf(ResetTasks, ResetDones)
  <2>1. \A q, G : Free(q, G) => ~Sole(q, G)
    BY DEF Free, Sole
  <2> QED
    BY <1>3, <1>4, <2>1 DEF OneOf
<1> QED
  BY <1>5 DEF ResetInv

(* While a reset is under way handlers dispatch mutations only.             *)
LEMMA BarredTasks ==
  ASSUME IInv, MutationInv, Effects, staging.resetting
  PROVE  tasks' = tasks \/ \E t \in MutationTasks : tasks' = Append(tasks, t)
<1> USE DEF MutationInv
<1>1. CASE Skips \/ Defers \/ Cancels \/ Judges \/ Resets \/ Ends
  BY <1>1 DEF Skips, Defers, Cancels, Judges, Resets, Ends
<1>2. CASE AfterReset \/ DrainEnds \/ DrainNext \/ ResumeFinish \/ HandleApplyDone
  BY <1>2 DEF AfterReset, DrainEnds, DrainNext, ResumeFinish, HandleApplyDone, dispatchVars
<1>3. CASE Starts
  BY <1>3 DEF Starts
<1>4. CASE Retires \/ HandleRestored
  <2>1. HandleOnTop /\ IsMutationDone(Msg)
    BY <1>4 DEF Retires, HandleRestored, Handling, HandleOnTop, OnTop, IsMutationDone, Msg
  <2> QED
    BY <2>1, NoResetBehind
<1>5. CASE Concludes
  BY <1>5 DEF Concludes, StackInv, FenceUp
<1>6. CASE HandleBaselineReturn
  BY <1>6 DEF HandleBaselineReturn, BaselineAdmissible, FenceUp
<1> QED
  BY <1>1, <1>2, <1>3, <1>4, <1>5, <1>6 DEF Effects

(* A reset is dispatched while no check is in flight.                       *)
LEMMA BarrierRaised ==
  ASSUME IInv, IInv', MutationInv, Handle, Effects, ~staging.resetting, staging'.resetting
  PROVE  gen' = gen /\ CheckNone(gen) /\ NotAdded(FreshTasks(gen))
<1> USE DEF MutationInv
<1>1. CASE Skips \/ Defers \/ Cancels \/ Starts \/ Judges \/ Resets \/ Ends
  BY <1>1 DEF Skips, Defers, Cancels, Starts, Judges, Resets, Ends
<1>2. CASE AfterReset \/ DrainEnds \/ DrainNext \/ ResumeFinish \/ HandleRestored
             \/ HandleBaselineReturn
  BY <1>2 DEF AfterReset, DrainEnds, DrainNext, ResumeFinish, HandleRestored,
     HandleBaselineReturn
<1>3. CASE HandleApplyDone
  BY <1>3, StagingUpdates DEF HandleApplyDone, IInv, TypeOK, FenceTypes
<1>4. ResetTask(gen) \notin FreshTasks(gen)
  BY DEF ResetTask, FreshTasks
<1>5. CASE Retires
  <2>1. worker # None
    BY <1>5, OwnedTop, HandledTop, HandlersTop DEF Retires, Handle
  <2>2. CheckNone(gen)
    BY <2>1 DEF CheckInv, CheckAlone
  <2>3. gen' = gen /\ NotAdded(FreshTasks(gen))
    BY <1>4, <1>5 DEF Retires, NotAdded
  <2> QED
    BY <2>2, <2>3
<1>6. CASE Concludes
  <2>1. ~Free(todo, FinishFrames)
    <3>1. todo # <<>> /\ todo \in Seq(FrameType) /\ Head(todo).op = "outcome"
      BY <1>6 DEF Concludes, OnTop, IInv, TypeOK, FenceTypes
    <3>2. Head(todo) \in FinishFrames
      BY <3>1, TailType DEF FinishFrames
    <3> QED
      BY <3>1, <3>2, TailSole
  <2>2. CheckNone(gen)
    BY <2>1 DEF CheckInv, CheckAlone
  <2>3. gen' = gen /\ NotAdded(FreshTasks(gen))
    BY <1>4, <1>6 DEF Concludes, NotAdded
  <2> QED
    BY <2>2, <2>3
<1> QED
  BY <1>1, <1>2, <1>3, <1>5, <1>6 DEF Effects

(* Handlers keep the order of checks and resets.                            *)
LEMMA HandlersVerdict ==
  ASSUME IInv, IInv', MutationInv, ResetInv', VerdictInv, Handle, Effects
  PROVE  VerdictInv'
<1> USE DEF MutationInv
<1>0. Calls /\ todo # <<>> /\ UNCHANGED mailbox
  BY HandlersCall, HandlersTop DEF Handle, hostUnchanged, hostVars
<1>1. PICK g \in Nat : gen' = g
  BY DEF IInv, TypeOK, DispatchTypes
<1>2. gen \in Nat /\ gen <= g
  BY <1>1, AddedNow DEF IInv, TypeOK, DispatchTypes
<1> DEFINE T == FreshTasks(g)
           M == FreshDones(g)
<1>3. Work(T, M)
  BY FreshWork
<1>4. SUFFICES Ordered(T, M)'
  BY <1>1 DEF VerdictInv
<1>5. CASE ~staging'.resetting
  <2>1. NoneOf(ResetTasks, ResetDones)'
    BY <1>5 DEF ResetInv
  <2> QED
    BY <2>1 DEF NoneOf, Ordered, Behind, Free
<1>6. ASSUME NoneOf(T, M)' PROVE Ordered(T, M)'
  BY <1>6 DEF NoneOf, Ordered, Behind, Free
<1>7. CASE staging'.resetting /\ ~staging.resetting
  <2>1. gen' = gen /\ CheckNone(gen) /\ NotAdded(FreshTasks(gen))
    BY <1>7, BarrierRaised
  <2>2. NoneOf(T, M) /\ NotAdded(T)
    BY <1>1, <2>1 DEF CheckNone
  <2>3. NoneOf(T, M)'
    BY <1>0, <1>3, <2>2, CallsFlow, PoppedWork
  <2> QED
    BY <1>6, <2>3
<1>8. CASE staging'.resetting /\ staging.resetting
  <2>1. tasks' = tasks \/ \E t \in MutationTasks : tasks' = Append(tasks, t)
    BY <1>8, BarredTasks
  <2>2. tasks' = tasks \/ \E t \in TaskType : /\ tasks' = Append(tasks, t)
                                              /\ t \notin T /\ t \notin ResetTasks
    BY <2>1, FreshWork DEF MutationTasks
  <2>3. CASE gen < g
    <3>1. Popped(T, M)
      BY <1>0, <2>3, CheckMoves DEF CheckPopped
    <3>2. NotAdded(T)
      BY <2>2 DEF NotAdded
    <3>3. NoneOf(T, M)'
      BY <1>0, <1>3, <3>1, <3>2, CallsFlow
    <3> QED
      BY <1>6, <3>3
  <2>4. CASE gen = g
    <3>1. Ordered(T, M)
      BY <2>4 DEF VerdictInv
    <3>2. Free(todo, Frames(M)) => Free(todo', Frames(M))
      <4>1. Free(todo, Frames(M)) => Free(Tail(todo), Frames(M))
        BY <1>0, TailSole DEF IInv, TypeOK, FenceTypes
      <4> QED
        BY <1>0, <1>3, <4>1, CallsFree
    <3> HIDE DEF T, M
    <3> QED
      BY <1>0, <2>2, <3>1, <3>2, OrderedOther
  <2> QED
    BY <1>2, <2>3, <2>4
<1> QED
  BY <1>5, <1>7, <1>8 DEF IInv, TypeOK, RecoveryTypes, StagingType

(* So do the other steps.                                                   *)
LEMMA QuietVerdict ==
  ASSUME NoReset, IInv, IInv', MutationInv, VerdictInv,
         WorkerThread \/ Aside \/ Receive \/ SendStop \/ Disconnect
  PROVE  VerdictInv'
<1> USE DEF MutationInv
<1>1. PICK g \in Nat : g = gen
  BY DEF IInv, TypeOK, DispatchTypes
<1> DEFINE T == FreshTasks(g)
           M == FreshDones(g)
<1>2. Work(T, M) /\ M \cap ResetDones = {}
  BY FreshWork
<1>3. Ordered(T, M)
  BY <1>1 DEF VerdictInv
<1>4. ASSUME NEW h \in Nat, gen' = h, gen < h, Quiet PROVE VerdictInv'
  <2>1. NoneOf(FreshTasks(h), FreshDones(h))'
    BY <1>1, <1>4, LaterFlow
  <2>2. Ordered(FreshTasks(h), FreshDones(h))'
    BY <2>1 DEF NoneOf, Ordered, Behind, Free
  <2> QED
    BY <1>4, <2>2 DEF VerdictInv
<1>5. ASSUME gen' = gen, Ordered(T, M)' PROVE VerdictInv'
  BY <1>1, <1>5 DEF VerdictInv
<1> HIDE DEF T, M
<1>6. CASE WorkerThread
  BY <1>2, <1>3, <1>5, <1>6, OrderedWorker, WorkerMoves
<1>7. CASE Receive
  BY <1>2, <1>3, <1>5, <1>7, OrderedReceive, ReceiveMoves
<1>8. CASE Aside
  <2>1. UNCHANGED <<tasks, todo, gen>>
    BY <1>8, AsideMoves
  <2>2. mailbox' = mailbox \/
          \E m \in MessageType : mailbox' = Append(mailbox, m) /\ ~IsCompletion(m)
    BY <1>8, AsideMoves
  <2> QED
    BY <1>2, <1>3, <1>5, <2>1, <2>2, OrderedMessage
<1>9. CASE SendStop
  <2>1. gen' = gen + 1 /\ Quiet
    BY <1>9 DEF SendStop, Quiet, PipeStep
  <2> QED
    BY <1>1, <1>4, <2>1
<1>10. CASE Disconnect
  <2>1. Quiet /\ UNCHANGED tasks /\ mailbox' \in Filtered(mailbox, NotOfRetired) /\ todo = <<>>
    BY <1>10, DisconnectMoves DEF Quiet
  <2>2. gen' = gen \/ gen' = gen + 1
    BY <1>10, DisconnectMoves
  <2>3. CASE gen' = gen + 1
    BY <1>1, <1>4, <2>1, <2>3
  <2>4. CASE gen' = gen
    <3>1. /\ Behind(mailbox', M, ResetDones)
          /\ Free(mailbox, M) => Free(mailbox', M)
          /\ Free(mailbox, ResetDones) => Free(mailbox', ResetDones)
      BY <1>3, <2>1, RetireKeeps DEF Ordered
    <3>2. Free(todo', Frames(M))
      <4>1. todo' = <<>> \/ \E m \in MessageType : m.kind = "Revert" /\ todo' = <<HandleFrame(m)>>
        BY <1>10, DisconnectMoves
      <4>2. CASE todo' = <<>>
        BY <4>2 DEF Free
      <4>3. ASSUME NEW m \in MessageType, m.kind = "Revert", todo' = <<HandleFrame(m)>>
            PROVE  Free(todo', Frames(M))
        <5>1. m \notin M
          BY <1>2, <4>3 DEF Work, IsCompletion
        <5>2. HandleFrame(m) \notin Frames(M)
          BY <5>1, FrameOf
        <5> QED
          BY <4>3, <5>2 DEF Free
      <4> QED
        BY <4>1, <4>2, <4>3
    <3>3. Ordered(T, M)'
      BY <1>3, <2>1, <3>1, <3>2 DEF Ordered
    <3> QED
      BY <1>5, <2>4, <3>3
  <2> QED
    BY <2>2, <2>3, <2>4
<1> QED
  BY <1>6, <1>7, <1>8, <1>9, <1>10

(* The timer thread and the tick dispatch behind the reset.                 *)
LEMMA DispatchVerdict ==
  ASSUME IInv, IInv', MutationInv, VerdictInv, TimerThread \/ Tick
  PROVE  VerdictInv'
<1> USE DEF MutationInv
<1>1. PICK g \in Nat : g = gen /\ gen' = g
  BY DEF IInv, TypeOK, DispatchTypes, TimerThread, workerUnchanged, Tick, HandleTick
<1> DEFINE T == FreshTasks(g)
           M == FreshDones(g)
<1>2. Work(T, M)
  BY FreshWork
<1>3. Ordered(T, M) /\ UNCHANGED <<mailbox, todo>>
  BY <1>1, <1>2, TaskFlow DEF VerdictInv
<1>4. SUFFICES Ordered(T, M)'
  BY <1>1 DEF VerdictInv
<1>5. CASE Tick
  <2>1. tasks' = Append(tasks, RecoverTask(gen))
    BY <1>2, <1>5, TaskFlow
  <2>2. RecoverTask(gen) \in TaskType /\ RecoverTask(gen) \notin T
        /\ RecoverTask(gen) \notin ResetTasks
    BY <1>1, TaskTyped DEF RecoverTask, FreshTasks, ResetTasks, IsResetTask
  <2> HIDE DEF T, M
  <2> QED
    BY <1>3, <2>1, <2>2, OrderedOther
<1>6. CASE TimerThread
  <2> DEFINE h == Head(timers)
             t == [op |-> "verify", gen |-> h.gen, purpose |-> "TransientDisconnect",
                   for |-> h.for]
  <2>1. /\ timers # <<>>
        /\ \/ h.gen # gen /\ tasks' = tasks
           \/ h.gen = gen /\ tasks' = Append(tasks, t)
    BY <1>6 DEF TimerThread, Cancelled
  <2>2. CASE tasks' = tasks
    BY <1>3, <2>2 DEF Ordered
  <2>3. CASE h.gen = gen /\ tasks' = Append(tasks, t)
    <3>1. timers \in Seq([gen : Nat, for : Nat]) /\ h \in [gen : Nat, for : Nat]
      BY <2>1, TailType DEF IInv, TypeOK, DispatchTypes
    <3>2. h \in FreshTimers(g)
      BY <1>1, <2>3, <3>1 DEF FreshTimers
    <3>3. ~Free(timers, FreshTimers(g))
      BY <2>1, <3>1, <3>2, TailSole
    <3>4. NoneOf(T, M)
      BY <1>1, <3>3 DEF CheckInv, CheckNone, CheckOne
    <3>5. t \in T /\ t \notin ResetTasks
      BY <1>1, <2>3, <3>1 DEF FreshTasks, TaskType, Purposes, ResetTasks, IsResetTask
    <3> HIDE DEF T, M, t
    <3> QED
      BY <1>3, <2>3, <3>4, <3>5, OrderedLast DEF NoneOf
  <2> QED
    BY <2>1, <2>2, <2>3
<1> QED
  BY <1>5, <1>6

(* Every step keeps the order of checks and resets.                         *)
LEMMA NextVerdict ==
  ASSUME NoReset, IInv, MutationInv, VerdictInv, [Next]_vars
  PROVE  VerdictInv'
<1>1. IInv' /\ ResetInv'
  BY NextTyped, NextMutation DEF MutationInv
<1>2. CASE Handle
  <2>1. HandleOnTop => Msg.kind # "Reset"
    <3>1. ASSUME HandleOnTop PROVE Msg.kind # "Reset"
      BY <3>1, TopAllowed DEF MutationInv, PendingInv, Unheard
    <3> QED
      BY <3>1
  <2>2. Effects
    BY <1>2, <2>1, HandlersEffects DEF Handle
  <2> QED
    BY <1>1, <1>2, <2>2, HandlersVerdict
<1>3. CASE TimerThread \/ Tick
  BY <1>1, <1>3, DispatchVerdict
<1>4. CASE WorkerThread \/ Receive \/ Disconnect \/ SendStop \/ Aside
  BY <1>1, <1>4, QuietVerdict
<1> QED
  BY <1>2, <1>3, <1>4 DEF Next, Host, Client, Environment, PipeStep, Aside

(* A helper that has just started has dispatched nothing.                   *)
LEMMA InitVerdict == Init => VerdictInv
BY DEF Init, VerdictInv, Ordered, Behind, Free, FreshDones, ResetDones, IsResetDone

(* Every handler of a helper that nobody asks for a RESET is one of the     *)
(* kinds of step, and nothing is held at the end of a reset.                *)
LEMMA HandleEffects ==
  ASSUME IInv, MutationInv, Handle
  PROVE  Effects /\ (OnTop("afterReset") => held = None)
<1>1. HandleOnTop => Msg.kind # "Reset"
  BY TopAllowed DEF MutationInv, PendingInv, Unheard
<1>2. OnTop("afterReset") => /\ todo # <<>> /\ ~OnTop("resume") /\ ~OnTop("drain")
                             /\ ~HandleOnTop
  BY DEF OnTop, HandleOnTop
<1> QED
  BY <1>1, <1>2, HandlersEffects, NothingHeld DEF Handle, MutationInv

-----------------------------------------------------------------------------
(* Which commands wait behind the fence.                                    *)

\* Commands of a connection to come.
Early(b) == {m \in DeferrableType : m.epoch > b}

EarlyInv ==
  /\ Free(mailbox, Early(bound))
  /\ Free(todo, Frames(Early(bound)))
  /\ Free(deferred, Early(bound))

\* The queue holds one command at most, and none while the one taken out of it
\* is handled.
SoleInv == Len(deferred) <= 1 /\ (Drained(todo) => deferred = <<>>)

(* What clients and Windows add to the mailbox.                             *)
LEMMA AsideMessage ==
  ASSUME IInv, Aside
  PROVE  /\ sent <= sent'
         /\ \/ mailbox' = mailbox
            \/ \E m \in MessageType :
                 /\ mailbox' = Append(mailbox, m) /\ bound' = bound
                 /\ m \in DeferrableType => m.epoch = bound
                 /\ IsSessionIntent(m) => m.seq = sent' /\ sent' = sent + 1
<1>0. sent \in Nat
  BY DEF IInv, TypeOK, HistoryTypes
<1>1. CASE UNCHANGED <<mailbox, sent>>
  BY <1>0, <1>1
<1>2. CASE FireTicket
  <2> DEFINE m == [kind |-> "Event", event |-> ticket.event, gen |-> ticket.gen,
                   epoch |-> ticket.epoch]
  <2>1. ticket \in [event : EventKinds, gen : Nat, epoch : Nat]
    BY <1>2 DEF FireTicket, IInv, TypeOK, HostTypes
  <2>2. m \in MessageType /\ m.kind = "Event"
    BY <2>1 DEF MessageType
  <2>3. mailbox' = Append(mailbox, m) /\ UNCHANGED <<bound, sent>>
    BY <1>2 DEF FireTicket, budgetVars
  <2> HIDE DEF m
  <2>4. m \notin DeferrableType /\ ~IsSessionIntent(m)
    BY <2>2 DEF DeferrableType, IsSessionIntent
  <2> QED
    BY <1>0, <2>2, <2>3, <2>4
<1>3. CASE \E kind \in Commands : Send(kind)
  <2>1. PICK kind \in Commands : Send(kind)
    BY <1>3
  <2>2. PICK m \in CommandsOf(kind) : mailbox' = Append(mailbox, m)
    BY <2>1 DEF Send
  <2>3. m \in MessageType
    BY <2>1, <2>2, CommandTyped DEF Send
  <2>4. kind \in CommandKinds /\ kind # "Stop"
    BY <2>1, ConstantsAssumption DEF ConstantsAssumption, Send
  <2>5. m.epoch = bound /\ (IsSessionIntent(m) => m.seq = sent + 1)
    BY <2>2, <2>4 DEF CommandsOf, CommandKinds, IsSessionIntent
  <2>6. sent' = sent + 1 /\ bound' = bound
    BY <2>1 DEF Send, ClientSends
  <2> QED
    BY <1>0, <2>2, <2>3, <2>5, <2>6
<1> QED
  BY <1>1, <1>2, <1>3 DEF Aside, PipeStep, HeartbeatTimeout, Connect, PipeBreaks, Notify,
     GraceElapses, WindowExpires, QuietEnds, timeUnchanged, vars, hostVars, budgetVars

(* A later connection rules out fewer commands.                             *)
LEMMA EarlyLess ==
  ASSUME NEW b \in Nat, NEW c \in Nat, b <= c
  PROVE  Early(c) \subseteq Early(b)
<1>1. \A m \in DeferrableType : m.epoch \in Nat
  BY DEF DeferrableType
<1> QED
  BY <1>1 DEF Early

(* Commands are those of connections there have been.                       *)
LEMMA NextEarly ==
  ASSUME NoReset, IInv, MutationInv, EarlyInv, [Next]_vars
  PROVE  EarlyInv'
<1> USE DEF MutationInv
<1>0. /\ bound \in Nat /\ epoch \in Nat /\ req.epoch \in Nat /\ IInv' /\ bound' \in Nat
      /\ mailbox \in Seq(MessageType)
  BY NextTyped DEF IInv, TypeOK, HostTypes, SessionTypes
<1>1. PICK b \in Nat : b = bound
  BY <1>0
<1> DEFINE G == Early(b)
<1>2. Free(mailbox, G) /\ Free(todo, Frames(G)) /\ Free(deferred, G)
  BY <1>1 DEF EarlyInv
<1>3. \A m \in G : m \in DeferrableType /\ m.epoch > b
  BY DEF Early
<1>4. \A m \in G : ~IsCompletion(m)
  BY <1>3 DEF DeferrableType, IsCompletion
<1> HIDE DEF G
<1>5. ASSUME Free(mailbox', G), Free(todo', Frames(G)), Free(deferred', G), b <= bound'
      PROVE  EarlyInv'
  <2>1. PICK c \in Nat : c = bound'
    BY <1>0
  <2>2. Early(c) \subseteq G
    BY <1>5, <2>1, EarlyLess DEF G
  <2>3. Frames(Early(c)) \subseteq Frames(G)
    BY <2>2, FramesPart
  <2> QED
    BY <1>5, <2>1, <2>2, <2>3, FreePart DEF EarlyInv
<1>6. CASE Handle
  <2>1. UNCHANGED <<mailbox, bound>>
    BY <1>6 DEF Handle, hostUnchanged, hostVars
  <2> DEFINE c == [kind |-> "Repair", epoch |-> req.epoch]
  <2>2. c.epoch <= b /\ c.epoch \in Nat
    BY <1>0, <1>1 DEF EpochInv
  <2> HIDE DEF c
  <2>3. c \notin G
    BY <1>3, <2>2
  <2>4. Free(todo', Frames(G)) /\ Free(deferred', G)
    BY <1>0, <1>2, <1>6, <2>3, HandleEffects, HandlersQueue DEF c
  <2> QED
    BY <1>1, <1>2, <1>5, <2>1, <2>4
<1>7. CASE TimerThread \/ Tick \/ SendStop
  BY <1>1, <1>2, <1>5, <1>7 DEF TimerThread, workerUnchanged, Tick, HandleTick, hostUnchanged,
     hostVars, SendStop, ClientSends, fenceVars
<1>8. CASE WorkerThread
  <2>1. UNCHANGED <<todo, deferred, bound>> /\
          (mailbox' = mailbox \/ \E m \in MessageType : /\ mailbox' = Append(mailbox, m)
                                                        /\ \E op : <<op, m.kind>> \in Reports)
    BY <1>8, WorkerMoves
  <2>2. \A m : (\E op : <<op, m.kind>> \in Reports) => IsCompletion(m)
    BY DEF Reports, IsCompletion
  <2>3. Free(mailbox', G)
    BY <1>0, <1>2, <1>4, <2>1, <2>2, AppendSole
  <2> QED
    BY <1>1, <1>2, <1>5, <2>1, <2>3
<1>9. CASE Receive
  BY <1>1, <1>2, <1>5, <1>9, ReceiveMoves
<1>10. CASE Aside
  <2>1. UNCHANGED <<todo, deferred>> /\ b <= bound'
    BY <1>0, <1>1, <1>10, AsideMoves DEF EpochInv
  <2>2. Free(mailbox', G)
    <3>1. ASSUME NEW m \in MessageType, mailbox' = Append(mailbox, m),
                 m \in DeferrableType => m.epoch = bound
          PROVE  Free(mailbox', G)
      <4>1. m \notin G
        BY <1>1, <1>3, <3>1
      <4> QED
        BY <1>0, <1>2, <3>1, <4>1, AppendSole
    <3> QED
      BY <1>2, <1>10, <3>1, AsideMessage
  <2> QED
    BY <1>2, <1>5, <2>1, <2>2
<1>11. CASE Disconnect
  <2>1. UNCHANGED <<deferred, bound>> /\ Free(mailbox', G)
    BY <1>2, <1>11, DisconnectMoves, RetireKeeps
  <2> DEFINE r == [kind |-> "Revert", seq |-> 0, epoch |-> 0, fromDisconnect |-> TRUE]
  <2>2. todo' = todo \/ todo' = <<HandleFrame(r)>>
    BY <1>11 DEF Disconnect, DisconnectKeeps, DisconnectWaits, DisconnectChecks,
       DisconnectReverts
  <2>3. r.epoch = 0
    OBVIOUS
  <2> HIDE DEF r
  <2>4. HandleFrame(r) \notin Frames(G)
    BY <1>3, <2>3, FrameOf
  <2>5. Free(todo', Frames(G))
    BY <1>2, <2>2, <2>4 DEF Free
  <2>6. Free(deferred', G) /\ b <= bound'
    BY <1>0, <1>1, <1>2, <2>1
  <2> QED
    BY <1>5, <2>1, <2>5, <2>6
<1> QED
  BY <1>6, <1>7, <1>8, <1>9, <1>10, <1>11
     DEF Next, Host, Client, Environment, PipeStep, Aside

(* A helper that has just started has its own REVERT at most.               *)
LEMMA InitEarly == Init => EarlyInv
<1>1. SUFFICES ASSUME Init PROVE EarlyInv
  OBVIOUS
<1>2. Free(<<>>, Early(bound)) /\ Free(<<>>, Frames(Early(bound)))
  BY DEF Free
<1>3. \A m : m.epoch = 0 => m \notin Early(0)
  BY DEF Early
<1>4. Free(mailbox, Early(bound))
  BY <1>1, <1>3 DEF Init, Free
<1> QED
  BY <1>1, <1>2, <1>4 DEF Init, EarlyInv
(* Whoever waits is superseded by whoever comes, but for a RESET.           *)
LEMMA EnqueueSole ==
  ASSUME deferred \in Seq(DeferrableType), NEW c, c.kind # "Reset", Enqueue(c),
         \A i \in DOMAIN deferred : deferred[i].kind # "Reset"
  PROVE  (c.kind = "Repair" /\ deferred' = deferred) \/ deferred' = <<c>>
<1>1. CASE c.kind = "Repair" /\ Occurs(deferred, IsSessionIntent)
  BY <1>1 DEF Enqueue
<1>2. ASSUME ~(c.kind = "Repair" /\ Occurs(deferred, IsSessionIntent)),
             NEW q \in Filtered(deferred, LAMBDA d : Survives(d, c)), deferred' = Append(q, c)
      PROVE  deferred' = <<c>>
  <2> DEFINE K == {i \in DOMAIN deferred : Survives(deferred[i], c)}
             n == Cardinality(K)
  <2>1. ASSUME NEW i \in DOMAIN deferred PROVE ~Survives(deferred[i], c)
    <3>1. deferred[i] \in DeferrableType /\ deferred[i].kind # "Reset"
      OBVIOUS
    <3>2. deferred[i].kind \in {"Apply", "Repair", "Revert", "Disarm"}
      BY <3>1 DEF DeferrableType
    <3>3. CASE c.kind = "Repair"
      <4>1. ~IsSessionIntent(deferred[i])
        BY <1>2, <3>3 DEF Occurs
      <4> QED
        BY <3>2, <3>3, <4>1 DEF Survives, IsSessionIntent
    <3>4. CASE c.kind # "Repair"
      BY <3>1, <3>4 DEF Survives, IsReset
    <3> QED
      BY <3>3, <3>4
  <2>2. n = 0
    <3>1. K = {}
      BY <2>1
    <3> QED
      BY <3>1, FS_EmptySet
  <2>3. PICK f \in [1..n -> K] : q = [i \in 1..n |-> deferred[f[i]]]
    BY <1>2 DEF Filtered
  <2> HIDE DEF n, K
  <2>4. q = <<>>
    BY <2>2, <2>3
  <2> QED
    BY <1>2, <2>4
<1> QED
  BY <1>1, <1>2 DEF Enqueue

(* A queue that somebody supersedes, or that stays as it is, is short.      *)
LEMMA OneWaits ==
  ASSUME NEW S, NEW q \in Seq(S), Len(q) <= 1, NEW c, NEW r, r = q \/ r = <<c>>
  PROVE  Len(r) <= 1
<1>1. CASE r = q
  BY <1>1
<1>2. CASE r = <<c>>
  <2>1. Len(<<c>>) = 1
    OBVIOUS
  <2> QED
    BY <1>2, <2>1
<1> QED
  BY <1>1, <1>2

(* The queue of a helper that nobody asks for a RESET holds one command.    *)
LEMMA HandlersSole ==
  ASSUME IInv, IInv', MutationInv, SoleInv, Handle
  PROVE  SoleInv'
<1> USE DEF MutationInv
<1>0. /\ deferred \in Seq(DeferrableType) /\ Len(deferred) <= 1 /\ todo # <<>>
      /\ Effects /\ (OnTop("afterReset") => held = None)
  BY HandleEffects, HandlersTop DEF Handle, IInv, TypeOK, FenceTypes, SoleInv
<1>1. \A i \in DOMAIN deferred : deferred[i].kind # "Reset"
  <2>1. ASSUME NEW i \in DOMAIN deferred, deferred[i].kind = "Reset" PROVE FALSE
    <3>1. deferred[i] \in MessageType
      BY <1>0 DEF MessageType
    <3>2. deferred[i] \in Unheard(bound, req.epoch)
      BY <2>1, <3>1 DEF Unheard
    <3> QED
      BY <2>1, <3>2 DEF PendingInv, Free
  <2> QED
    BY <2>1
<1>2. CASE Defers
  <2>1. todo' = Tail(todo) /\ ~Drained(todo')
    BY <1>0, <1>2, TailTop DEF Defers
  <2>2. PICK c : c.kind # "Reset" /\ Enqueue(c)
    <3>1. CASE Msg.kind \in {"Apply", "Revert", "Disarm"} /\ Enqueue(Msg)
      BY <3>1
    <3>2. CASE Enqueue([kind |-> "Repair", epoch |-> req.epoch])
      BY <3>2
    <3> QED
      BY <1>2, <3>1, <3>2 DEF Defers
  <2>3. deferred' = deferred \/ deferred' = <<c>>
    BY <1>0, <1>1, <2>2, EnqueueSole
  <2>4. Len(deferred') <= 1
    BY <1>0, <2>3, OneWaits
  <2> QED
    BY <2>1, <2>4 DEF SoleInv
<1>3. CASE DrainNext
  <2>1. deferred # <<>> /\ deferred' = Tail(deferred)
    BY <1>3 DEF DrainNext, DrainContinues
  <2>2. Tail(deferred) \in Seq(DeferrableType) /\ Len(Tail(deferred)) = Len(deferred) - 1
    BY <1>0, <2>1
  <2>3. Len(deferred) = 1 /\ Len(deferred') = 0
    <3>1. Len(deferred) \in Nat /\ Len(deferred) # 0
      BY <1>0, <2>1
    <3> QED
      BY <1>0, <2>1, <2>2, <3>1
  <2>4. deferred' = <<>>
    BY <2>1, <2>2, <2>3
  <2> QED
    BY <2>3, <2>4 DEF SoleInv
<1>4. CASE ~Defers /\ ~DrainNext
  <2>1. deferred' = deferred
    BY <1>0, <1>4, DeferredMoves
  <2>2. \A q : Rest(q) \/ Draining(q) => ~Drained(q)
    BY DEF Rest, Draining, Drained, RestOps, DrainFrame
  <2>3. ~Drained(todo')
    BY <1>0, <1>4, <2>2, HandlersStack, TailTop DEF Handle, StackMoves
  <2> QED
    BY <1>0, <2>1, <2>3 DEF SoleInv
<1> QED
  BY <1>2, <1>3, <1>4
\* Commands that are not stale, and those that end a session.
Live(e) == {m \in DeferrableType : m.epoch \in {0, e}}
LiveEnds(e) == {m \in Live(e) : m.kind \in {"Revert", "Disarm"}}

\* No APPLY runs beside a reset, and whatever ends a session cancels the APPLY
\* it waits for.
WorkerInv ==
  /\ worker # None => worker.gen <= gen
  /\ ApplyOutstanding => ~staging.resetting
  /\ ApplyOutstanding /\ worker.gen = gen => Free(deferred, LiveEnds(epoch))

\* No live command is left behind the fence.
QueueKept ==
  \/ Free(deferred, Live(epoch))
  \/ FenceUp
  \/ ~Free(todo, {DrainFrame})
  \/ ~running /\ todo = <<>>

OutcomeAlone == OnTop("outcome") => Free(deferred, Live(epoch))

QueueInv ==
  VerdictInv /\ EarlyInv /\ SoleInv /\ WorkerInv /\ QueueKept /\ OutcomeAlone

(* Where there is nothing, there is nothing of a kind.                      *)
LEMMA EmptyFree == \A G : Free(<<>>, G)
BY DEF Free

(* A handler that finds the fence down finds no live command behind it.     *)
LEMMA QueueFree ==
  ASSUME IInv, ShapeInv, SoleInv, QueueKept, HandleOnTop, ~FenceUp
  PROVE  Free(deferred, Live(epoch))
<1>0. todo # <<>> /\ Head(todo).op = "handle" /\ todo \in Seq(FrameType)
  BY DEF HandleOnTop, OnTop, IInv, TypeOK, FenceTypes
<1>1. CASE Batch(todo)
  <2>1. \A i \in DOMAIN todo : todo[i].op = "handle"
    BY <1>1 DEF Batch
  <2>2. Free(todo, {DrainFrame})
    BY <2>1 DEF Free, DrainFrame
  <2> QED
    BY <1>0, <2>2 DEF QueueKept
<1>2. CASE Msg \in DeferrableType /\ Draining(Tail(todo))
  BY <1>0, <1>2, EmptyFree, DrainedTop DEF SoleInv
<1> QED
  BY <1>0, <1>1, <1>2, ShapeTop

(* Below what a restore leaves behind its drain there is no other drain.    *)
LEMMA RestQueue ==
  ASSUME IInv, ShapeInv, QueueKept, todo # <<>>, Head(todo).op \in RestOps
  PROVE  Free(deferred, Live(epoch)) \/ FenceUp
<1>1. todo \in Seq(FrameType) /\ Tail(todo) = <<>>
  BY ShapeTop DEF IInv, TypeOK, FenceTypes
<1>2. todo = <<Head(todo)>>
  BY <1>1, OnlyOne
<1>3. Head(todo) # DrainFrame
  BY DEF DrainFrame, RestOps
<1>4. Free(todo, {DrainFrame})
  BY <1>2, <1>3 DEF Free
<1> QED
  BY <1>4 DEF QueueKept

(* An APPLY's outcome follows a completion with nothing live behind it.     *)
LEMMA NoneWaiting ==
  ASSUME IInv, PendingInv, Free(deferred, LiveEnds(epoch)), ~HasDeferredApply
  PROVE  Free(deferred, Live(epoch))
<1>1. deferred \in Seq(DeferrableType)
  BY DEF IInv, TypeOK, FenceTypes
<1>2. ASSUME NEW i \in DOMAIN deferred, deferred[i] \in Live(epoch) PROVE FALSE
  <2> DEFINE m == deferred[i]
  <2>1. m \in DeferrableType /\ m.epoch \in {0, epoch} /\ m \in MessageType
    BY <1>1, <1>2 DEF Live, MessageType
  <2>2. m.kind \in {"Apply", "Repair", "Reset", "Revert", "Disarm"}
    BY <2>1 DEF DeferrableType
  <2>3. m.kind # "Reset"
    BY <2>1 DEF PendingInv, Free, Unheard
  <2>4. m.kind \notin {"Apply", "Repair"}
    BY <2>1 DEF HasDeferredApply, StaleConnection
  <2>5. m.kind \notin {"Revert", "Disarm"}
    BY <1>2 DEF Free, LiveEnds
  <2> QED
    BY <2>2, <2>3, <2>4, <2>5
<1> QED
  BY <1>2 DEF Free
(* A command that ends a session cancels the mutation it waits for.         *)
LEMMA WaitsCancel ==
  ASSUME Handlers, HandleOnTop, Msg.kind \in {"Revert", "Disarm"}, worker # None,
         ~staging.resetting
  PROVE  deferred' = deferred \/ gen' = gen + 1
<1>1. HandleCommand \/ HandleEventIgnored \/ HandleForeignCompletion
  BY DEF Handlers, HandleCompletion, HandleVerifyDone, HandleCheckPassed, HandleCheckFailed,
     HandleVerified, HandleBaselineVerified, HandleUnverifiedDisconnected, Unverified,
     HandleBaselineMissing, HandleBaselineUnrepaired, HandleUnverifiedReapply,
     HandleUnverified, Verified, HandleApplyDone, HandleCancelledApplyTouched,
     HandleCancelledApplyUntouched, HandleResetFailedExit, HandleResetDone,
     HandleRefreshCancelled, HandleRefreshDone, HandleCancelledRecovery, HandleRestored,
     HandleAttemptFailed, HandleCancelledValidation, HandleConfirmed, Continue, DrainNext,
     DrainEnds, ResumeFinish, ApplyOutcome, OutcomeBaselineFailed, OutcomeChecked,
     OutcomeRepaired, OutcomeVerify, OutcomeFails, OutcomeHdrFallback, OutcomeFailed,
     AfterReset, ExitAfterReset, AfterRestore, HandleEvent, HandleBaselineReturn, EventFresh,
     HandleSameIdentity, HandleIdentityQueued, HandleIdentityReplaced, RetriableEvent,
     HandleEventInWindow, HandleEventReopens, Handling, HandleOnTop, OnTop, Msg
<1>2. HandleEventIgnored \/ HandleForeignCompletion => deferred' = deferred
  BY DEF HandleEventIgnored, HandleForeignCompletion, fenceVars
<1>3. HandleCommand => deferred' = deferred \/ gen' = gen + 1
  BY DEF HandleCommand, HandleStaleCommand, HandleApplyDeferred, HandleApply,
     HandleRepairDropped, HandleRepair, HandleRevertJoins, HandleRevertDeferred,
     HandleRevertPolicyOff, HandleRevertNothing, HandleRevert, HandleDisarmIgnored,
     HandleDisarmDeferred, HandleDisarm, HandleSnapshot, HandleRefreshRejected,
     HandleRefresh, HandleResetDeferred, HandleReset, fenceVars, WorkerActive, Handling,
     RevertRuns, OnTop, Msg, StartWorker
<1> QED
  BY <1>1, <1>2, <1>3

(* A refresh rate starts no APPLY, nor does an event in the event loop.     *)
LEMMA StartsOther ==
  ASSUME Handlers, HandleOnTop,
         \/ Msg.kind = "Refresh"
         \/ Msg.kind = "Event" /\ state = "EventLoop"
  PROVE  worker' = worker \/ worker'.kind \in {"RefreshRate", "Recovery"}
<1>1. \/ HandleStaleCommand \/ HandleRefreshRejected \/ HandleRefresh \/ HandleEvent
      \/ HandleForeignCompletion
  BY DEF Handlers, HandleCompletion, HandleVerifyDone, HandleCheckPassed, HandleCheckFailed,
     HandleVerified, HandleBaselineVerified, HandleUnverifiedDisconnected, Unverified,
     HandleBaselineMissing, HandleBaselineUnrepaired, HandleUnverifiedReapply,
     HandleUnverified, Verified, HandleApplyDone, HandleCancelledApplyTouched,
     HandleCancelledApplyUntouched, HandleResetFailedExit, HandleResetDone,
     HandleRefreshCancelled, HandleRefreshDone, HandleCancelledRecovery, HandleRestored,
     HandleAttemptFailed, HandleCancelledValidation, HandleConfirmed, Continue, DrainNext,
     DrainEnds, ResumeFinish, ApplyOutcome, OutcomeBaselineFailed, OutcomeChecked,
     OutcomeRepaired, OutcomeVerify, OutcomeFails, OutcomeHdrFallback, OutcomeFailed,
     AfterReset, ExitAfterReset, AfterRestore, HandleCommand, HandleApplyDeferred,
     HandleApply, HandleRepairDropped, HandleRepair, HandleRevertJoins,
     HandleRevertDeferred, RevertRuns, HandleRevertPolicyOff, HandleRevertNothing,
     HandleRevert, HandleDisarmIgnored, HandleDisarmDeferred, HandleDisarm, HandleSnapshot,
     HandleResetDeferred, HandleReset, Handling, HandleOnTop, OnTop, Msg
<1>2. HandleStaleCommand \/ HandleRefreshRejected \/ HandleForeignCompletion
        => worker' = worker
  BY DEF HandleStaleCommand, HandleRefreshRejected, HandleForeignCompletion, fenceVars
<1>3. HandleRefresh => worker'.kind = "RefreshRate"
  BY StartedKind DEF HandleRefresh
<1>4. CASE HandleEvent
  <2>1. HandleIdentityReplaced => state # "EventLoop" /\ Msg.kind = "Event"
    BY DEF HandleIdentityReplaced, VirtualSession, EventFresh, Handling, Msg
  <2>2. HandleEventReopens => worker'.kind = "Recovery"
    BY StartedKind DEF HandleEventReopens, StartRecovery
  <2>3. HandleBaselineReturn \/ HandleEventIgnored \/ HandleSameIdentity
          \/ HandleIdentityQueued \/ HandleEventInWindow => worker' = worker
    BY DEF HandleBaselineReturn, HandleEventIgnored, HandleSameIdentity,
       HandleIdentityQueued, HandleEventInWindow, fenceVars
  <2> QED
    BY <1>4, <2>1, <2>2, <2>3 DEF HandleEvent
<1> QED
  BY <1>1, <1>2, <1>3, <1>4

(* An APPLY starts with the fence down and no live command behind it.       *)
LEMMA StartsAlone ==
  ASSUME IInv, MutationInv, QueueInv, Handlers, Starts
  PROVE  /\ worker'.gen = gen'
         /\ worker'.kind = "Apply" => ~staging.resetting /\ Free(deferred, Live(epoch))
<1> USE DEF MutationInv, QueueInv
<1>0. worker = None
  BY StartsFree
<1>1. worker'.gen = gen'
  BY DEF Starts, WorkerOf
<1>2. CASE ~FenceUp
  <2>1. ~staging.resetting
    BY <1>2, Zenon DEF FenceUp
  <2>2. HandleOnTop \/ OnTop("outcome")
    BY DEF Starts, StartsOn, FreshVerdict
  <2> QED
    BY <1>1, <1>2, <2>1, <2>2, QueueFree DEF OutcomeAlone
<1>3. CASE FenceUp
  <2>1. CASE HandleOnTop /\ Msg.kind = "Repair" /\ ~StaleConnection(Msg)
    <3>1. Drained(todo)
      BY <2>1, ShapeTop, DrainedTop DEF HandleOnTop, OnTop
    <3> QED
      BY <1>3, <3>1 DEF StackInv
  <2>2. CASE OnTop("outcome")
    BY <1>3, <2>2 DEF StackInv
  <2>3. CASE FreshVerdict
    BY <1>0, <1>3, <2>3, VerdictUnbarred DEF FenceUp, WorkerActive
  <2>4. CASE HandleOnTop /\ (Msg.kind = "Refresh" \/ (Msg.kind = "Event" /\ state = "EventLoop"))
    <3>1. worker' = worker \/ worker'.kind \in {"RefreshRate", "Recovery"}
      BY <2>4, StartsOther
    <3>2. worker' # None
      <4>1. PICK t \in MutationTasks : worker' = WorkerOf(t)
        BY DEF Starts
      <4>2. KindOf(t.op) \in WorkerKinds /\ t.gen \in Nat
        BY DEF MutationTasks, TaskType, KindOf, WorkerKinds
      <4> QED
        BY <4>1, <4>2, NoneAssumption DEF WorkerOf
    <3> QED
      BY <1>0, <1>1, <3>1, <3>2
  <2> QED
    BY <1>3, <2>1, <2>2, <2>3, <2>4 DEF Starts, StartsOn
<1> QED
  BY <1>2, <1>3
(* Handlers keep what an APPLY that runs may rely on.                       *)
LEMMA HandlersWorker ==
  ASSUME IInv, IInv', MutationInv, QueueInv, Handle, Effects
  PROVE  WorkerInv'
<1> USE DEF MutationInv, QueueInv
<1>0. /\ gen \in Nat /\ gen' \in Nat /\ gen <= gen' /\ epoch' = epoch
      /\ deferred \in Seq(DeferrableType) /\ worker \in [kind : WorkerKinds, gen : Nat] \cup {None}
  BY AddedNow DEF IInv, TypeOK, DispatchTypes, FenceTypes, Handle, hostUnchanged, hostVars
<1>1. PICK e : e = epoch /\ epoch' = e
  BY <1>0
<1> DEFINE G == LiveEnds(e)
<1>2. /\ worker # None => worker.gen <= gen
      /\ worker # None /\ worker.kind = "Apply" => ~staging.resetting
      /\ worker # None /\ worker.kind = "Apply" /\ worker.gen = gen => Free(deferred, G)
  BY <1>1 DEF WorkerInv, ApplyOutstanding, WorkerActive
<1>3. ASSUME worker' # None => worker'.gen <= gen',
             worker' # None /\ worker'.kind = "Apply" => ~staging'.resetting,
             worker' # None /\ worker'.kind = "Apply" /\ worker'.gen = gen'
               => Free(deferred', G)
      PROVE  WorkerInv'
  BY <1>1, <1>3 DEF WorkerInv, ApplyOutstanding, WorkerActive
<1> HIDE DEF G
<1>4. worker # None => worker.gen \in Nat
  BY <1>0
<1>5. ASSUME worker' = worker, ~staging'.resetting \/ staging'.resetting = staging.resetting,
             gen' = gen => (Free(deferred, G) => Free(deferred', G))
      PROVE  WorkerInv'
  BY <1>0, <1>2, <1>3, <1>4, <1>5
<1>6. CASE Skips \/ Judges \/ Ends \/ Resets \/ Concludes \/ DrainEnds \/ ResumeFinish
             \/ AfterReset \/ HandleBaselineReturn
  <2>1. worker' = worker /\ deferred' = deferred
    BY <1>6 DEF Skips, Judges, Ends, Resets, Concludes, DrainEnds, ResumeFinish, AfterReset,
       HandleBaselineReturn, fenceVars
  <2>2. CASE Concludes
    BY <2>1, <2>2, <1>3 DEF Concludes, StackInv, FenceUp, WorkerActive
  <2>3. CASE ~Concludes
    <3>1. ~staging'.resetting \/ staging'.resetting = staging.resetting
      BY <1>6, <2>3 DEF Skips, Judges, Ends, Resets, DrainEnds, ResumeFinish, AfterReset,
         HandleBaselineReturn
    <3> QED
      BY <1>5, <2>1, <3>1
  <2> QED
    BY <2>2, <2>3
<1>7. CASE Cancels \/ Retires \/ HandleApplyDone
  <2>1. worker' = None
    BY <1>7, Zenon DEF Cancels, Retires, HandleApplyDone, FenceUp, WorkerActive
  <2> QED
    BY <1>3, <2>1
<1>8. CASE Starts
  <2>1. /\ worker'.gen = gen'
        /\ worker'.kind = "Apply" => ~staging.resetting /\ Free(deferred, Live(e))
    BY <1>1, <1>8, StartsAlone DEF Handle
  <2>2. G \subseteq Live(e)
    BY DEF G, LiveEnds
  <2>3. UNCHANGED <<deferred, staging>>
    BY <1>8 DEF Starts
  <2>4. Free(deferred, Live(e)) => Free(deferred, G)
    BY <2>2, FreePart
  <2> QED
    BY <1>0, <1>3, <2>1, <2>3, <2>4
<1>9. CASE HandleRestored
  <2>1. worker' = [kind |-> "Recovery", gen |-> gen] /\ gen' = gen
    BY <1>9 DEF HandleRestored, Owns
  <2> QED
    BY <1>0, <1>3, <2>1
<1>10. CASE DrainNext
  <2>1. worker' = worker /\ staging' = staging /\ deferred' = Tail(deferred) /\ deferred # <<>>
    BY <1>10 DEF DrainNext, DrainContinues
  <2> QED
    BY <1>0, <1>5, <2>1, TailSole
<1>11. CASE Defers
  <2>1. /\ HandleOnTop /\ worker' = worker /\ staging' = staging
        /\ gen' \in {gen, gen + 1}
    BY <1>11 DEF Defers
  <2>2. CASE Msg.kind \in {"Revert", "Disarm"}
    <3>1. CASE worker # None /\ worker.kind = "Apply"
      <4>1. deferred' = deferred \/ gen' = gen + 1
        BY <1>2, <2>1, <2>2, <3>1, WaitsCancel DEF Handle
      <4> QED
        BY <1>0, <1>5, <2>1, <4>1
    <3>2. CASE ~(worker # None /\ worker.kind = "Apply")
      BY <1>0, <1>2, <1>3, <1>4, <2>1, <3>2
    <3> QED
      BY <3>1, <3>2
  <2>3. CASE Msg.kind = "Apply" /\ Enqueue(Msg)
    <3>1. Msg \notin G
      BY <2>3 DEF G, LiveEnds
    <3>2. Free(deferred, G) => Free(deferred', G)
      BY <2>3, <3>1, EnqueueFree
    <3> QED
      BY <1>5, <2>1, <3>2
  <2>4. CASE Enqueue([kind |-> "Repair", epoch |-> req.epoch])
    <3> DEFINE c == [kind |-> "Repair", epoch |-> req.epoch]
    <3>1. c \notin G
      BY DEF G, LiveEnds
    <3>2. Enqueue(c)
      BY <2>4
    <3> HIDE DEF c
    <3>3. Free(deferred, G) => Free(deferred', G)
      BY <3>1, <3>2, EnqueueFree
    <3> QED
      BY <1>5, <2>1, <3>3
  <2> QED
    BY <1>11, <2>2, <2>3, <2>4 DEF Defers
<1> QED
  BY <1>6, <1>7, <1>8, <1>9, <1>10, <1>11 DEF Effects

(* Handlers leave no live command behind the fence.                         *)
LEMMA HandlersKept ==
  ASSUME IInv, IInv', MutationInv, QueueInv, Handle, Effects
  PROVE  (QueueKept /\ OutcomeAlone)'
<1> USE DEF MutationInv, QueueInv
<1>0. /\ todo # <<>> /\ todo \in Seq(FrameType) /\ Tail(todo) \in Seq(FrameType)
      /\ epoch' = epoch /\ deferred \in Seq(DeferrableType)
  BY HandlersTop, TailType DEF Handle, hostUnchanged, hostVars, IInv, TypeOK, FenceTypes
<1>1. PICK e : e = epoch /\ epoch' = e
  BY <1>0
<1> DEFINE G == Live(e)
<1>2. /\ Free(deferred, G) \/ FenceUp \/ ~Free(todo, {DrainFrame})
      /\ OnTop("outcome") => Free(deferred, G)
      /\ HandleOnTop /\ ~FenceUp => Free(deferred, G)
      /\ Head(todo).op \in RestOps => Free(deferred, G) \/ FenceUp
  <2>1. Free(deferred, G) \/ FenceUp \/ ~Free(todo, {DrainFrame})
    BY <1>0, <1>1 DEF QueueKept
  <2>2. OnTop("outcome") => Free(deferred, G)
    BY <1>1 DEF OutcomeAlone
  <2>3. HandleOnTop /\ ~FenceUp => Free(deferred, G)
    BY <1>1, QueueFree
  <2>4. Head(todo).op \in RestOps => Free(deferred, G) \/ FenceUp
    BY <1>0, <1>1, RestQueue
  <2> QED
    BY <2>1, <2>2, <2>3, <2>4
<1>3. ASSUME \/ Free(deferred', G) \/ FenceUp' \/ ~Free(todo', {DrainFrame})
             \/ (~running' /\ todo' = <<>>),
             OnTop("outcome")' => Free(deferred', G)
      PROVE  (QueueKept /\ OutcomeAlone)'
  <2>1. DrainFrame' = DrainFrame
    BY DEF DrainFrame
  <2> QED
    BY <1>1, <1>3, <2>1, Zenon DEF QueueKept, OutcomeAlone
<1> HIDE DEF G
<1>4. FenceUp' <=> worker' # None \/ staging'.resetting
  BY DEF FenceUp, WorkerActive
<1>5. FenceUp <=> worker # None \/ staging.resetting
  BY DEF FenceUp, WorkerActive
<1>6. todo' = Tail(todo) => ~OnTop("outcome")'
  BY <1>0, TailTop
<1>7. ASSUME worker' = worker, staging'.resetting = staging.resetting
      PROVE  FenceUp' <=> FenceUp
  BY <1>7, Zenon DEF FenceUp, WorkerActive
<1>8. CASE Skips \/ Cancels \/ Judges \/ HandleBaselineReturn
  <2>1. /\ HandleOnTop /\ todo' = Tail(todo) /\ deferred' = deferred
        /\ worker' = worker /\ staging' = staging
    BY <1>8 DEF Skips, Cancels, Judges, FreshVerdict, HandleBaselineReturn, EventFresh,
       Handling, HandleOnTop, OnTop, Return, fenceVars
  <2>2. FenceUp' <=> FenceUp
    BY <1>7, <2>1
  <2> QED
    BY <1>2, <1>3, <1>6, <2>1, <2>2
<1>9. CASE Defers
  <2>1. FenceUp' /\ todo' = Tail(todo)
    BY <1>4, <1>5, <1>9 DEF Defers
  <2> QED
    BY <1>3, <1>6, <2>1
<1>10. CASE Starts
  <2>1. worker' # None /\ todo' = Tail(todo)
    <3>1. PICK t \in MutationTasks : worker' = WorkerOf(t)
      BY <1>10 DEF Starts
    <3>2. KindOf(t.op) \in WorkerKinds /\ t.gen \in Nat
      BY DEF MutationTasks, TaskType, KindOf, WorkerKinds
    <3> QED
      BY <1>10, <3>1, <3>2, NoneAssumption DEF WorkerOf, Starts
  <2> QED
    BY <1>3, <1>4, <1>6, <2>1
<1>11. CASE HandleRestored
  <2>1. worker' = [kind |-> "Recovery", gen |-> gen] /\ todo' = Tail(todo) /\ gen \in Nat
    BY <1>11 DEF HandleRestored, Owns, Return, IInv, TypeOK, DispatchTypes
  <2>2. worker' # None
    BY <2>1, NoneAssumption DEF WorkerKinds
  <2> QED
    BY <1>3, <1>4, <1>6, <2>1, <2>2
<1>12. ASSUME NEW f, todo' = <<DrainFrame>> \o Tail(todo) \/ todo' = <<DrainFrame, f>> \o Tail(todo)
       PROVE  (QueueKept /\ OutcomeAlone)'
  <2>1. Head(todo') = DrainFrame /\ ~Free(todo', {DrainFrame})
    <3>1. DrainFrame \in {DrainFrame}
      OBVIOUS
    <3>2. CASE todo' = <<DrainFrame>> \o Tail(todo)
      BY <1>0, <3>1, <3>2, PushedFrames
    <3>3. CASE todo' = <<DrainFrame, f>> \o Tail(todo)
      BY <1>0, <3>1, <3>3, PushedFrames
    <3> QED
      BY <1>12, <3>2, <3>3
  <2>2. ~OnTop("outcome")'
    BY <2>1 DEF OnTop, DrainFrame
  <2> QED
    BY <1>3, <2>1, <2>2
<1>13. CASE Retires
  <2>1. \E f : \/ todo' = <<DrainFrame>> \o Tail(todo)
               \/ todo' = <<DrainFrame, f>> \o Tail(todo)
    BY <1>13 DEF Retires
  <2> QED
    BY <1>12, <2>1
<1>14. CASE Resets
  <2>1. CASE todo' = Tail(todo) /\ ~running'
    <3>1. Tail(todo) = <<>>
      BY <1>0, <1>14, ShapeTop DEF Resets, HandleOnTop, OnTop, IsCompletion
    <3> QED
      BY <1>3, <1>6, <2>1, <3>1
  <2>2. ASSUME NEW f, todo' = <<DrainFrame, f>> \o Tail(todo)
        PROVE  (QueueKept /\ OutcomeAlone)'
    BY <1>12, <2>2
  <2> QED
    BY <1>14, <2>1, <2>2 DEF Resets
<1>15. CASE Concludes
  <2>1. Free(deferred', G)
    BY <1>2, <1>15 DEF Concludes
  <2> QED
    BY <1>3, <2>1
<1>16. CASE Ends \/ ResumeFinish
  <2>1. /\ Head(todo).op \in RestOps /\ deferred' = deferred /\ worker' = worker
        /\ staging'.resetting = staging.resetting
    BY <1>16 DEF Ends, ResumeFinish, OnTop, RestOps
  <2>2. Free(deferred', G) \/ FenceUp'
    BY <1>2, <1>7, <2>1
  <2>3. CASE Ends
    BY <1>3, <1>6, <2>2, <2>3 DEF Ends
  <2>4. CASE ResumeFinish
    <3>1. CASE FenceUp
      BY <1>3, <1>5, <1>6, <2>2, <2>4, <3>1 DEF ResumeFinish, Return, WorkerActive
    <3>2. CASE ~FenceUp
      BY <1>2, <1>3, <2>1, <3>2
    <3> QED
      BY <3>1, <3>2
  <2> QED
    BY <1>16, <2>3, <2>4
<1>17. CASE AfterReset
  <2>1. Head(todo).op = "afterReset" /\ OnTop("afterReset") /\ held = None
    BY <1>17, HandleEffects DEF AfterReset, OnTop
  <2>2. /\ deferred' = deferred /\ worker' = worker /\ staging' = staging
        /\ todo' = <<ExitFrame>> \o Tail(todo)
    BY <1>17, <2>1 DEF AfterReset, ExitFrame
  <2>3. Head(todo') = ExitFrame
    BY <1>0, <2>2, PushedFrames
  <2>4. ~OnTop("outcome")'
    BY <2>3 DEF OnTop, ExitFrame
  <2>5. Free(deferred', G) \/ FenceUp'
    BY <1>2, <1>7, <2>1, <2>2 DEF RestOps
  <2> QED
    BY <1>3, <2>4, <2>5
<1>18. CASE DrainEnds
  <2>1. /\ todo' = Tail(todo) /\ deferred' = deferred /\ worker' = worker /\ staging' = staging
        /\ FenceUp \/ deferred = <<>>
    BY <1>5, <1>18 DEF DrainEnds, DrainContinues, WorkerActive, Return, fenceVars
  <2>2. Free(deferred', G) \/ FenceUp'
    BY <1>7, <2>1, EmptyFree
  <2> QED
    BY <1>3, <1>6, <2>1, <2>2
<1>19. CASE DrainNext
  <2> DEFINE f == HandleFrame(Head(deferred))
  <2>1. todo' = <<f>> \o todo /\ Head(todo).op = "drain"
    BY <1>19 DEF DrainNext, OnTop
  <2>2. f.op = "handle"
    BY DEF HandleFrame
  <2> HIDE DEF f
  <2>3. ~Free(todo, {DrainFrame})
    <3>1. Head(todo) = DrainFrame
      BY <1>0, <2>1, ShapeTop DEF Draining
    <3>2. Free(todo, {DrainFrame}) => Head(todo) \notin {DrainFrame}
      BY <1>0, TailSole
    <3> QED
      BY <3>1, <3>2
  <2>4. Head(todo') = f /\ ~Free(todo', {DrainFrame})
    BY <1>0, <2>1, <2>3, PushedFrames
  <2>5. ~OnTop("outcome")'
    BY <2>2, <2>4 DEF OnTop
  <2> QED
    BY <1>3, <2>4, <2>5
<1>20. CASE HandleApplyDone
  <2>1. /\ Msg \in ApplyDoneType /\ AcceptApply(Msg, lease, held, Tail(todo))
        /\ worker = [kind |-> "Apply", gen |-> Msg.gen] /\ Msg.gen = gen
        /\ deferred' = deferred
    BY <1>20, ApplyCompletionTop DEF HandleApplyDone, IInv, ApplyCompletion, Owns,
       StaleGeneration
  <2> DEFINE a == Finish("resume", Msg, base.flight)
             b == Finish("outcome", Msg, base.flight)
  <2>2. \/ todo' = <<DrainFrame, a>> \o Tail(todo)
        \/ ~HasDeferredApply
    BY <1>0, <2>1, AcceptReturns
  <2> HIDE DEF a, b
  <2>3. CASE todo' = <<DrainFrame, a>> \o Tail(todo)
    BY <1>12, <2>3
  <2>4. CASE ~HasDeferredApply
    <3>1. gen \in Nat
      BY DEF IInv, TypeOK, DispatchTypes
    <3>2. worker # None /\ worker.kind = "Apply" /\ worker.gen = gen
      BY <2>1, <3>1, NoneAssumption DEF WorkerKinds
    <3>3. Free(deferred, LiveEnds(epoch))
      BY <3>2 DEF WorkerInv, ApplyOutstanding, WorkerActive
    <3>4. Free(deferred', G)
      BY <1>1, <2>1, <2>4, <3>3, NoneWaiting DEF G
    <3> QED
      BY <1>3, <3>4
  <2> QED
    BY <2>2, <2>3, <2>4
<1> QED
  BY <1>8, <1>9, <1>10, <1>11, <1>13, <1>14, <1>15, <1>16, <1>17, <1>18, <1>19, <1>20
     DEF Effects
(* A command of a connection to come is not among those that wait.          *)
LEMMA LiveLater ==
  ASSUME IInv, EpochInv, EarlyInv
  PROVE  /\ Free(deferred, Live(epoch)) => Free(deferred, Live(epoch + 1))
         /\ Free(deferred, LiveEnds(epoch)) => Free(deferred, LiveEnds(epoch + 1))
<1>1. bound \in Nat /\ epoch \in Nat /\ bound <= epoch /\ deferred \in Seq(DeferrableType)
  BY DEF IInv, TypeOK, HostTypes, FenceTypes, EpochInv
<1>2. ASSUME NEW i \in DOMAIN deferred PROVE deferred[i].epoch # epoch + 1
  <2>1. deferred[i] \in DeferrableType /\ deferred[i] \notin Early(bound)
    BY <1>1 DEF EarlyInv, Free
  <2>2. deferred[i].epoch \in Nat /\ ~(deferred[i].epoch > bound)
    BY <2>1 DEF Early, DeferrableType
  <2> QED
    BY <1>1, <2>2
<1> QED
  BY <1>2 DEF Free, Live, LiveEnds

(* The other steps leave the queue and the fence alone.                     *)
LEMMA QuietQueue ==
  ASSUME NoReset, IInv, IInv', MutationInv, QueueInv,
         WorkerThread \/ TimerThread \/ Aside \/ Receive \/ SendStop \/ Disconnect
  PROVE  (SoleInv /\ WorkerInv /\ QueueKept /\ OutcomeAlone)'
<1> USE DEF MutationInv, QueueInv
<1>0. /\ gen \in Nat /\ gen' \in Nat /\ epoch \in Nat /\ epoch' \in Nat
      /\ deferred \in Seq(DeferrableType) /\ todo' \in Seq(FrameType)
      /\ worker \in [kind : WorkerKinds, gen : Nat] \cup {None}
  BY DEF IInv, TypeOK, DispatchTypes, FenceTypes, HostTypes
<1>1. /\ UNCHANGED <<staging, worker, deferred>>
      /\ gen' = gen \/ gen' = gen + 1
      /\ epoch' = epoch \/ epoch' = epoch + 1
  <2>1. CASE WorkerThread
    BY <2>1, WorkerMoves
  <2>2. CASE TimerThread
    BY <2>2 DEF TimerThread, workerUnchanged, fenceVars
  <2>3. CASE Aside
    BY <2>3, AsideMoves
  <2>4. CASE Receive
    BY <2>4, ReceiveMoves
  <2>5. CASE SendStop
    BY <2>5 DEF SendStop, ClientSends, fenceVars
  <2>6. CASE Disconnect
    BY <2>6, DisconnectMoves
  <2> QED
    BY <2>1, <2>2, <2>3, <2>4, <2>5, <2>6
<1>2. PICK e \in Nat : e = epoch'
  BY <1>0
<1>3. /\ Free(deferred, Live(epoch)) => Free(deferred', Live(e))
      /\ Free(deferred, LiveEnds(epoch)) => Free(deferred', LiveEnds(e))
  BY <1>1, <1>2, LiveLater
<1>4. WorkerInv'
  <2>1. worker' # None => worker'.gen \in Nat /\ worker'.gen <= gen
    BY <1>0, <1>1 DEF WorkerInv
  <2>2. worker' # None /\ worker'.kind = "Apply" => ~staging'.resetting
    BY <1>1 DEF WorkerInv, ApplyOutstanding, WorkerActive
  <2>3. worker' # None /\ worker'.kind = "Apply" /\ worker'.gen = gen
          => Free(deferred, LiveEnds(epoch))
    BY <1>1 DEF WorkerInv, ApplyOutstanding, WorkerActive
  <2>4. worker' # None /\ worker'.kind = "Apply" /\ worker'.gen = gen'
          => Free(deferred', LiveEnds(e))
    BY <1>0, <1>1, <1>3, <2>1, <2>3
  <2>5. worker' # None => worker'.gen <= gen'
    BY <1>0, <1>1, <2>1
  <2> QED
    BY <1>2, <2>2, <2>4, <2>5 DEF WorkerInv, ApplyOutstanding, WorkerActive
<1>5. FenceUp' <=> FenceUp
  BY <1>1, Zenon DEF FenceUp, WorkerActive
<1>6. QueueKept' <=> \/ Free(deferred', Live(e)) \/ FenceUp'
                     \/ ~Free(todo', {DrainFrame}) \/ (~running' /\ todo' = <<>>)
  <2>1. DrainFrame' = DrainFrame
    BY DEF DrainFrame
  <2> QED
    BY <1>2, <2>1, Zenon DEF QueueKept
<1>7. CASE todo' = todo /\ (running' = running \/ ~running')
  <2>1. QueueKept'
    BY <1>3, <1>5, <1>6, <1>7 DEF QueueKept
  <2>2. OutcomeAlone'
    BY <1>2, <1>3, <1>7 DEF OutcomeAlone, OnTop
  <2> QED
    BY <1>1, <1>4, <1>7, <2>1, <2>2 DEF SoleInv
<1>8. ASSUME todo = <<>>, running, Batch(todo')
      PROVE  (SoleInv /\ WorkerInv /\ QueueKept /\ OutcomeAlone)'
  <2>1. Free(deferred, Live(epoch)) \/ FenceUp
    BY <1>8, EmptyFree DEF QueueKept
  <2>2. QueueKept'
    BY <1>3, <1>5, <1>6, <2>1
  <2>3. ~Drained(todo') /\ ~OnTop("outcome")'
    BY <1>0, <1>8, BatchTop DEF OnTop
  <2> QED
    BY <1>1, <1>4, <2>2, <2>3 DEF SoleInv, OutcomeAlone
<1>9. CASE WorkerThread
  BY <1>7, <1>9, WorkerMoves
<1>10. CASE TimerThread
  BY <1>7, <1>10 DEF TimerThread, workerUnchanged, exitVars
<1>11. CASE Aside
  BY <1>7, <1>11, AsideMoves
<1>12. CASE SendStop
  BY <1>7, <1>12 DEF SendStop, ClientSends
<1>13. CASE Receive
  <2>1. Free(mailbox, {m \in MessageType : m.kind = "Repair"})
    <3>1. {m \in MessageType : m.kind = "Repair"} \in SUBSET Unsent(bound)
      BY DEF Unsent
    <3> QED
      BY <3>1, FreePart DEF PendingInv
  <2> QED
    BY <1>8, <1>13, <2>1, ReceiveMoves
<1>14. CASE Disconnect
  <2>1. todo = <<>> /\ running
        /\ (todo' = <<>> \/ \E m \in MessageType : m.kind = "Revert" /\ todo' = <<HandleFrame(m)>>)
    BY <1>14, DisconnectMoves
  <2>2. Batch(todo')
    <3>1. CASE todo' = <<>>
      BY <3>1 DEF Batch
    <3>2. ASSUME NEW m \in MessageType, m.kind = "Revert", todo' = <<HandleFrame(m)>>
          PROVE  Batch(todo')
      <4> DEFINE f == HandleFrame(m)
      <4>1. f.op = "handle" /\ f.msg.kind # "Repair" /\ todo' = <<f>>
        BY <3>2 DEF HandleFrame
      <4> HIDE DEF f
      <4> QED
        BY <4>1 DEF Batch
    <3> QED
      BY <2>1, <3>1, <3>2
  <2> QED
    BY <1>8, <2>1, <2>2
<1> QED
  BY <1>9, <1>10, <1>11, <1>12, <1>13, <1>14

(* Every step keeps the queue.                                              *)
LEMMA NextQueue ==
  ASSUME NoReset, IInv, MutationInv, QueueInv, [Next]_vars
  PROVE  QueueInv'
<1> USE DEF QueueInv
<1>1. IInv' /\ VerdictInv' /\ EarlyInv'
  BY NextTyped, NextVerdict, NextEarly
<1>2. CASE Handle
  BY <1>1, <1>2, HandleEffects, HandlersSole, HandlersWorker, HandlersKept
<1>3. CASE WorkerThread \/ TimerThread \/ Aside \/ Receive \/ SendStop \/ Disconnect
  BY <1>1, <1>3, QuietQueue
<1>4. CASE Tick
  <2>1. /\ worker' = [kind |-> "Recovery", gen |-> gen] /\ gen' = gen /\ gen \in Nat
        /\ UNCHANGED <<todo, deferred>> /\ todo = <<>>
    BY <1>4 DEF Tick, HandleTick, StartRecovery, StartWorker, RecoverTask, IInv, TypeOK,
       DispatchTypes
  <2>2. worker' # None
    BY <2>1, NoneAssumption DEF WorkerKinds
  <2>3. FenceUp'
    BY <2>2 DEF FenceUp, WorkerActive
  <2>4. SoleInv' /\ OutcomeAlone'
    BY <2>1 DEF SoleInv, OutcomeAlone, OnTop
  <2>5. WorkerInv'
    BY <2>1 DEF WorkerInv, ApplyOutstanding
  <2> QED
    BY <1>1, <2>3, <2>4, <2>5 DEF QueueKept
<1> QED
  BY <1>2, <1>3, <1>4 DEF Next, Host, Client, Environment, PipeStep, Aside

(* A helper that has just started has nothing waiting.                      *)
LEMMA InitQueue == Init => QueueInv
<1>1. SUFFICES ASSUME Init PROVE QueueInv
  OBVIOUS
<1>2. deferred = <<>> /\ todo = <<>> /\ worker = None
  BY <1>1 DEF Init
<1>3. SoleInv /\ QueueKept
  BY <1>2, EmptyFree DEF SoleInv, QueueKept, Drained
<1>4. WorkerInv /\ OutcomeAlone
  BY <1>2 DEF WorkerInv, OutcomeAlone, ApplyOutstanding, WorkerActive, OnTop
<1> QED
  BY <1>1, <1>3, <1>4, InitVerdict, InitEarly DEF QueueInv

(* A live command queued behind the fence, or a completion held for one, is *)
(* not left behind when the fence is free: for a helper that nobody asks    *)
(* for a RESET.                                                             *)
THEOREM NothingStrandedHolds ==
  ASSUME NoReset
  PROVE  Spec => []NothingStranded
<1>1. IInv /\ MutationInv /\ QueueInv => NothingStranded
  <2>1. SUFFICES ASSUME IInv, MutationInv, QueueInv, Idle, running, ~FenceUp
                 PROVE  held = None /\ \A i \in DOMAIN deferred : StaleConnection(deferred[i])
    BY DEF NothingStranded
  <2>2. held = None
    BY <2>1, IdleStack DEF MutationInv, Idle
  <2>3. Free(deferred, Live(epoch)) /\ deferred \in Seq(DeferrableType)
    BY <2>1, EmptyFree DEF QueueInv, QueueKept, Idle, IInv, TypeOK, FenceTypes
  <2>4. ASSUME NEW i \in DOMAIN deferred PROVE StaleConnection(deferred[i])
    <3>1. deferred[i] \in DeferrableType /\ deferred[i] \notin Live(epoch)
      BY <2>3 DEF Free
    <3> QED
      BY <3>1 DEF Live, StaleConnection
  <2> QED
    BY <2>2, <2>4
<1> QED
  BY <1>1, InitMutation, NextMutation, InitQueue, NextQueue, SpecTyped, PTL DEF Spec
-----------------------------------------------------------------------------
(* The exit after a confirmed restore.                                      *)

\* What is left once the reset that delayed the exit is done.
ExitStacks ==
  {<<DrainFrame, [op |-> "afterReset"]>>, <<[op |-> "afterReset"]>>, <<ExitFrame>>}

\* A helper that will exit behind a staged-state reset has released the
\* desktop, starts no transaction, and decides as soon as the reset is done.
ExitInv ==
  staging.exitAfter =>
    /\ ~lease.armed
    /\ worker # None => worker.kind = "RefreshRate"
    /\ staging.resetting \/ (deferred = <<>> /\ todo \in ExitStacks)

\* What a confirmed restore leaves behind its drain: its staged state outlived
\* it, or nothing waits for it.
FailedFrames == {f \in FrameType : f.op = "afterRestore" /\ f.resetFailed}
DoneFrames ==
  {f \in FrameType : f.op = "afterRestore" /\ ~f.resetFailed /\ ~f.followup}

RestoredInv ==
  /\ Free(todo, FailedFrames) \/ (staging.exitAfter /\ staging.resetting)
  /\ Free(todo, DoneFrames)
       \/ (~lease.armed /\ worker = None /\ deferred = <<>> /\ ~HandleOnTop)

RetireInv == ExitInv /\ RestoredInv

\* The handlers that decide about the exit.
Exits ==
  HandleConfirmed \/ HandleResetFailedExit \/ HandleResetDone \/ ExitAfterReset
    \/ AfterRestore

(* Nothing appended.                                                        *)
LEMMA NothingBelow ==
  ASSUME NEW f, NEW g
  PROVE  <<f>> \o <<>> = <<f>> /\ <<f, g>> \o <<>> = <<f, g>>
OBVIOUS

(* No other handler does.                                                   *)
LEMMA ExitKept ==
  ASSUME TypeOK, Handlers, ~Exits
  PROVE  staging'.exitAfter = staging.exitAfter
<1>0. staging \in StagingType
  BY StagingUpdates
<1>1. CASE HandleCommand \/ HandleEvent
  BY <1>0, <1>1 DEF StagingType, HandleCommand, HandleStaleCommand, HandleApplyDeferred,
     HandleApply, HandleRepairDropped, HandleRepair, HandleRevertJoins,
     HandleRevertDeferred, HandleRevertPolicyOff, HandleRevertNothing,
     HandleRevert, HandleDisarmIgnored, HandleDisarmDeferred,
     HandleDisarm, HandleSnapshot, HandleRefreshRejected, HandleRefresh,
     HandleResetDeferred, HandleReset, BeginReset, HandleEvent, HandleBaselineReturn,
     HandleEventIgnored, HandleSameIdentity, HandleIdentityQueued,
     HandleIdentityReplaced, HandleEventInWindow, HandleEventReopens
<1>2. CASE HandleVerifyDone
  BY <1>2 DEF HandleVerifyDone, HandleCheckPassed, HandleCheckFailed, HandleVerified,
     HandleBaselineVerified, HandleUnverifiedDisconnected, HandleBaselineMissing,
     HandleBaselineUnrepaired, HandleUnverifiedReapply, HandleUnverified
<1>3. CASE ApplyOutcome
  BY <1>0, <1>3 DEF StagingType, ApplyOutcome, OutcomeBaselineFailed, OutcomeChecked,
     OutcomeRepaired, OutcomeVerify, OutcomeHdrFallback, OutcomeFailed, DropUncommitted,
     BeginReset
<1>4. CASE (HandleCompletion \/ Continue) /\ ~HandleVerifyDone /\ ~ApplyOutcome
  BY <1>0, <1>4 DEF StagingType, HandleCompletion, Continue, HandleForeignCompletion,
     HandleApplyDone, HandleCancelledApplyTouched, HandleCancelledApplyUntouched,
     DropUncommitted, BeginReset, DrainNext, DrainEnds, ResumeFinish, AfterReset,
     HandleRefreshCancelled, HandleRefreshDone, HandleCancelledRecovery, HandleRestored,
     HandleAttemptFailed, HandleCancelledValidation, Exits
<1> QED
  BY <1>1, <1>2, <1>3, <1>4 DEF Handlers

(* Only a confirmed restore delays an exit.                                 *)
LEMMA ExitRaised ==
  ASSUME TypeOK, Handlers, staging'.exitAfter, ~HandleConfirmed
  PROVE  staging.exitAfter
<1>0. staging \in StagingType
  BY StagingUpdates
<1>1. CASE ~Exits
  BY <1>1, ExitKept
<1>2. CASE Exits
  BY <1>0, <1>2 DEF StagingType, Exits, HandleResetFailedExit, HandleResetDone, ResetSettled,
     ExitAfterReset, AfterRestore
<1> QED
  BY <1>1, <1>2

\* A worker that a helper on its way out may have.
Leaving(w) == w # None => w.kind = "RefreshRate"

(* Commands behind the reset arm no lease and start a refresh rate at most. *)
LEMMA BarredCommands ==
  ASSUME IInv, MutationInv, HandleCommand, staging.resetting, ~lease.armed,
         Leaving(worker)
  PROVE  ~lease'.armed /\ Leaving(worker')
<1>0. lease \in LeaseType /\ worker \in [kind : WorkerKinds, gen : Nat] \cup {None}
  BY DEF IInv, TypeOK, RecoveryTypes, FenceTypes
<1>1. ~HandleRepair
  <2>1. SUFFICES ASSUME HandleRepair PROVE FALSE
    OBVIOUS
  <2>2. HandleOnTop /\ Msg.kind = "Repair"
    BY <2>1 DEF HandleRepair, Handling, HandleOnTop, OnTop, Msg
  <2>3. Msg \in DeferrableType /\ Draining(Tail(todo))
    BY <2>2, ShapeTop DEF MutationInv, HandleOnTop, OnTop
  <2>4. Drained(todo)
    BY <2>2, <2>3, DrainedTop DEF MutationInv
  <2> QED
    BY <2>4 DEF MutationInv, StackInv, FenceUp
<1>2. CASE HandleRefresh
  BY <1>2 DEF HandleRefresh, StartWorker, Leaving, recoveryVars
<1>3. CASE ~HandleRefresh
  BY <1>0, <1>1, <1>3
     DEF LeaseType, Leaving, HandleCommand, HandleStaleCommand, HandleApplyDeferred,
     HandleApply, HandleRepairDropped, HandleRevertJoins,
     HandleRevertDeferred, HandleRevertPolicyOff, HandleRevertNothing, RevertRuns, RevertLease,
     HandleRevert, HandleDisarmIgnored, HandleDisarmDeferred,
     HandleDisarm, HandleSnapshot, HandleRefreshRejected,
     HandleResetDeferred, HandleReset, fenceVars, recoveryVars
<1> QED
  BY <1>2, <1>3

(* The other handlers behind the reset arm no lease and start nothing.      *)
LEMMA BarredOthers ==
  ASSUME IInv, MutationInv, VerdictInv, Handlers, ~HandleCommand, staging.resetting,
         ~lease.armed, Leaving(worker)
  PROVE  ~lease'.armed /\ worker' \in {worker, None}
<1>0. lease \in LeaseType /\ worker \in [kind : WorkerKinds, gen : Nat] \cup {None}
  BY DEF IInv, TypeOK, RecoveryTypes, FenceTypes
<1>1. CASE HandleEvent
  BY <1>1 DEF HandleEvent, HandleBaselineReturn,
     HandleEventIgnored, HandleSameIdentity, HandleIdentityQueued, FenceUp,
     HandleIdentityReplaced, HandleEventInWindow, HandleEventReopens, RetriableEvent,
     BaselineAdmissible, fenceVars, recoveryVars
<1>2. CASE HandleVerifyDone
  <2>1. FreshVerdict
    BY <1>2 DEF HandleVerifyDone, HandleCheckPassed, HandleCheckFailed, HandleVerified,
       HandleBaselineVerified, HandleUnverifiedDisconnected, HandleBaselineMissing,
       HandleBaselineUnrepaired, HandleUnverifiedReapply, HandleUnverified, Verified,
       Unverified, Handling, HandleOnTop, OnTop, FreshVerdict, StaleGeneration, Msg
  <2> QED
    BY <2>1, VerdictUnbarred
<1>3. CASE ApplyOutcome
  <2>1. OnTop("outcome")
    BY <1>3 DEF ApplyOutcome, OutcomeBaselineFailed, OutcomeChecked,
       OutcomeRepaired, OutcomeVerify, OutcomeHdrFallback, OutcomeFailed, OutcomeFails
  <2> QED
    BY <2>1 DEF MutationInv, StackInv, FenceUp
<1>4. CASE HandleCompletion /\ ~HandleVerifyDone
  <2>1. \A kind \in {"ApplyDone", "RecoverDone", "ValidateDone"} : ~Handling(kind)
    <3>1. SUFFICES ASSUME NEW kind \in {"ApplyDone", "RecoverDone", "ValidateDone"},
                          Handling(kind)
                   PROVE  FALSE
      OBVIOUS
    <3>2. HandleOnTop /\ IsMutationDone(Msg) /\ KindOf(Msg.kind) # "RefreshRate"
      BY <3>1 DEF Handling, HandleOnTop, OnTop, IsMutationDone, KindOf, Msg
    <3>3. worker # None /\ worker = WorkerFor(Msg)
      BY <3>2, HandledTop, OwnedTop DEF MutationInv, HandleOnTop, OnTop
    <3> QED
      BY <3>2, <3>3 DEF Leaving, WorkerFor
  <2> QED
    BY <1>0, <1>4, <2>1 DEF LeaseType, HandleCompletion, HandleForeignCompletion,
     HandleApplyDone, HandleCancelledApplyTouched, HandleCancelledApplyUntouched,
     HandleResetFailedExit, HandleResetDone,
     HandleRefreshCancelled, HandleRefreshDone, HandleCancelledRecovery, HandleRestored,
     HandleAttemptFailed, HandleCancelledValidation, HandleConfirmed, fenceVars, recoveryVars
<1>5. CASE Continue /\ ~ApplyOutcome
  BY <1>5 DEF Continue, DrainNext, DrainEnds, ResumeFinish, AfterReset, ExitAfterReset,
     AfterRestore, fenceVars, recoveryVars
<1> QED
  BY <1>1, <1>2, <1>3, <1>4, <1>5 DEF Handlers
(* A frame that handles no message belongs to what goes on after a drain.   *)
LEMMA GoesOn ==
  ASSUME Handlers, ~HandleOnTop
  PROVE  Continue
<1>1. ~HandleCommand /\ ~HandleEvent
  BY DEF HandleCommand, HandleStaleCommand, HandleApplyDeferred,
     HandleApply, HandleRepairDropped, HandleRepair, HandleRevertJoins,
     HandleRevertDeferred, HandleRevertPolicyOff, HandleRevertNothing, RevertRuns,
     HandleRevert, HandleDisarmIgnored, HandleDisarmDeferred,
     HandleDisarm, HandleSnapshot, HandleRefreshRejected, HandleRefresh,
     HandleResetDeferred, HandleReset, HandleEvent, HandleBaselineReturn,
     HandleEventIgnored, HandleSameIdentity, HandleIdentityQueued,
     HandleIdentityReplaced, HandleEventInWindow, HandleEventReopens, RetriableEvent,
     EventFresh, Handling, HandleOnTop, OnTop
<1>2. ~HandleCompletion
  BY DEF HandleCompletion, HandleForeignCompletion, HandleApplyDone,
     HandleCancelledApplyTouched, HandleCancelledApplyUntouched, HandleVerifyDone,
     HandleCheckPassed, HandleCheckFailed, HandleVerified, HandleBaselineVerified,
     HandleUnverifiedDisconnected, HandleBaselineMissing, HandleBaselineUnrepaired,
     HandleUnverifiedReapply, HandleUnverified, Verified, Unverified,
     HandleResetFailedExit, HandleResetDone, HandleRefreshCancelled, HandleRefreshDone,
     HandleCancelledRecovery, HandleRestored, HandleAttemptFailed,
     HandleCancelledValidation, HandleConfirmed, Handling, HandleOnTop, OnTop
<1> QED
  BY <1>1, <1>2 DEF Handlers

(* A drain that finds the fence up, or nothing queued, ends.                *)
LEMMA DrainOver ==
  ASSUME Handlers, OnTop("drain"), FenceUp \/ deferred = <<>>
  PROVE  DrainEnds
<1>1. Continue
  BY GoesOn DEF HandleOnTop, OnTop
<1> QED
  BY <1>1 DEF Continue, DrainNext, DrainContinues, FenceUp, ResumeFinish, ApplyOutcome,
     OutcomeBaselineFailed, OutcomeChecked, OutcomeRepaired, OutcomeVerify,
     OutcomeHdrFallback, OutcomeFailed, OutcomeFails, AfterReset, ExitAfterReset,
     AfterRestore, OnTop

(* Where the frame that a restore left is.                                  *)
LEMMA RestoredTop ==
  ASSUME IInv, ShapeInv, NEW G, \A f \in G : f.op = "afterRestore", ~Free(todo, G)
  PROVE  \/ OnTop("afterRestore") /\ Tail(todo) = <<>>
         \/ OnTop("drain") /\ Draining(todo)
         \/ HandleOnTop /\ Drained(todo)
<1>1. ~Batch(todo)
  BY DEF Batch, Free
<1>2. CASE Rest(todo)
  <2>1. todo # <<>> /\ Tail(todo) = <<>> /\ todo \in Seq(FrameType)
    BY <1>2 DEF Rest, Free, IInv, TypeOK, FenceTypes
  <2>2. todo = <<Head(todo)>>
    BY <2>1, OnlyOne
  <2>3. PICK i \in DOMAIN todo : todo[i] \in G
    BY DEF Free
  <2>4. todo[i] = Head(todo)
    <3> DEFINE h == Head(todo)
    <3>1. todo = <<h>>
      BY <2>2
    <3> HIDE DEF h
    <3>2. DOMAIN todo = {1} /\ todo[1] = h
      BY <3>1
    <3> QED
      BY <2>3, <3>2 DEF h
  <2> QED
    BY <2>1, <2>3, <2>4 DEF OnTop
<1>3. CASE Draining(todo)
  BY <1>3 DEF Draining, DrainFrame, OnTop
<1>4. CASE Drained(todo)
  BY <1>4 DEF Drained, HandleOnTop, OnTop
<1> QED
  BY <1>1, <1>2, <1>3, <1>4 DEF ShapeInv

(* Only a confirmed restore leaves such a frame.                            *)
LEMMA RestoredPush ==
  ASSUME IInv, Handlers, ~HandleConfirmed, OnTop("afterReset") => held = None,
         NEW G, \A f \in G : f.op = "afterRestore", Free(Tail(todo), G)
  PROVE  Free(todo', G)
<1>0. todo \in Seq(FrameType) /\ todo # <<>> /\ Tail(todo) \in Seq(FrameType)
  BY HandlersTop, TailType DEF IInv, TypeOK, FenceTypes
<1>1. DrainFrame \notin G
  BY DEF DrainFrame
<1>2. CASE SimpleHandlers
  <2>1. todo' = Tail(todo) \/ todo' = <<DrainFrame>> \o Tail(todo)
    BY <1>2, SimpleReturns
  <2> QED
    BY <1>0, <1>1, <2>1, PushedOther
<1>3. CASE HandleResetDone
  <2> DEFINE f == [op |-> "afterReset"]
  <2>1. f \notin G /\ todo' = <<DrainFrame, f>> \o Tail(todo)
    BY <1>3 DEF HandleResetDone, ReturnInto
  <2> HIDE DEF f
  <2> QED
    BY <1>0, <1>1, <2>1, PushedOther
<1>4. CASE DrainNext
  <2> DEFINE f == HandleFrame(Head(deferred))
  <2>1. Head(todo).op = "drain" /\ todo' = <<f>> \o todo
    BY <1>4 DEF DrainNext, OnTop
  <2>2. f \in FrameType /\ f \notin G /\ Head(todo) \notin G
    <3>1. Head(deferred) \in MessageType
      BY <1>4, TailType DEF DrainNext, DrainContinues, IInv, TypeOK, FenceTypes, MessageType
    <3>2. f.op = "handle"
      BY DEF HandleFrame
    <3> QED
      BY <2>1, <3>1, <3>2, FrameTyped
  <2> HIDE DEF f
  <2>3. Head(todo) \in FrameType
    BY <1>0, TailType
  <2>4. todo' = <<f, Head(todo)>> \o Tail(todo)
    BY <1>0, <2>1, <2>2, <2>3, PushTwice
  <2> QED
    BY <1>0, <2>2, <2>4, PushedOther
<1>5. CASE HandleApplyDone
  <2>1. Msg \in ApplyDoneType /\ AcceptApply(Msg, lease, held, Tail(todo))
    BY <1>5, Handled, MessageKinds DEF HandleApplyDone, IInv
  <2> DEFINE f == Finish("resume", Msg, base.flight)
             g == Finish("outcome", Msg, base.flight)
  <2>2. \/ todo' = <<DrainFrame, f>> \o Tail(todo)
        \/ todo' = <<g>> \o Tail(todo)
    BY <1>0, <2>1, AcceptReturns
  <2>3. f \notin G /\ g \notin G
    BY DEF Finish
  <2> HIDE DEF f, g
  <2> QED
    BY <1>0, <1>1, <2>2, <2>3, PushedOther
<1>6. CASE AfterReset
  <2>1. todo' = <<ExitFrame>> \o Tail(todo)
    BY <1>6 DEF AfterReset, ExitFrame
  <2>2. ExitFrame \notin G
    BY DEF ExitFrame
  <2> QED
    BY <1>0, <2>1, <2>2, PushedOther
<1>7. CASE ResumeFinish
  <2> DEFINE g == [op |-> "outcome", done |-> Head(todo).done, baseline |-> Head(todo).baseline]
  <2>1. todo' = Tail(todo) \/ todo' = <<g>> \o Tail(todo)
    BY <1>7 DEF ResumeFinish, Return, ReturnInto
  <2>2. g \notin G
    OBVIOUS
  <2> HIDE DEF g
  <2> QED
    BY <1>0, <2>1, <2>2, PushedOther
<1> QED
  BY <1>2, <1>3, <1>4, <1>5, <1>6, <1>7 DEF Handlers, HandleCompletion, Continue, SimpleHandlers

(* What follows a confirmed restore waits for the reset it began, or for    *)
(* nothing.                                                                 *)
LEMMA ConfirmedRestored ==
  ASSUME IInv, IInv', MutationInv, HandleConfirmed
  PROVE  RestoredInv' /\ ExitInv'
<1>0. /\ lease \in LeaseType /\ staging \in StagingType /\ Tail(todo) = <<>>
      /\ ~staging.resetting
  <2>1. HandleOnTop /\ IsMutationDone(Msg) /\ IsCompletion(Msg)
    BY DEF HandleConfirmed, Handling, HandleOnTop, OnTop, IsMutationDone, IsCompletion, Msg
  <2> QED
    BY <2>1, ShapeTop, NoResetBehind DEF IInv, TypeOK, RecoveryTypes, MutationInv, HandleOnTop,
       OnTop
<1>1. \A i \in DOMAIN deferred : ~IsReset(deferred[i])
  <2>1. deferred \in Seq(DeferrableType) /\ Free(deferred, Unheard(bound, req.epoch))
    BY DEF IInv, TypeOK, FenceTypes, MutationInv, PendingInv
  <2>2. \A i \in DOMAIN deferred : deferred[i] \in MessageType
    BY <2>1 DEF MessageType
  <2> QED
    BY <2>1, <2>2 DEF Free, Unheard, IsReset
<1>2. ~Occurs(deferred, IsReset) /\ (~HasDeferredFollowup(deferred) => deferred = <<>>)
  <2>1. deferred \in Seq(DeferrableType)
    BY DEF IInv, TypeOK, FenceTypes
  <2>2. deferred # <<>> => 1 \in DOMAIN deferred
    BY <2>1
  <2> QED
    BY <1>1, <2>2 DEF Occurs, HasDeferredFollowup
<1> DEFINE failed == StageOutlives(staging)
           f == [op |-> "afterRestore", resetFailed |-> failed,
                 followup |-> HasDeferredFollowup(deferred)]
<1>3. todo' = <<DrainFrame, f>>
  BY <1>0, NothingBelow DEF HandleConfirmed, ReturnInto
<1>4. ~lease'.armed /\ worker' = None /\ deferred' = deferred
  BY <1>0 DEF HandleConfirmed, Released, LeaseType
<1>5. staging'.exitAfter = failed /\ (failed => staging'.resetting)
  <2>1. failed \in BOOLEAN
    BY <1>0 DEF StageOutlives, StagingType
  <2> HIDE DEF failed
  <2>2. /\ [staging EXCEPT !.prepared = failed, !.exitAfter = failed].exitAfter = failed
        /\ [staging EXCEPT !.prepared = failed, !.exitAfter = failed].resetting = FALSE
        /\ [[staging EXCEPT !.prepared = failed, !.exitAfter = failed]
             EXCEPT !.resetting = TRUE].resetting
        /\ [[staging EXCEPT !.prepared = failed, !.exitAfter = failed]
             EXCEPT !.resetting = TRUE].exitAfter = failed
    BY <1>0, <2>1 DEF StagingType
  <2>3. (failed \/ staging.resetting \/ Occurs(deferred, IsReset)) = failed
    BY <1>0, <1>2, <2>1
  <2>4. IF failed
        THEN BeginReset([staging EXCEPT !.prepared = failed, !.exitAfter = failed])
        ELSE staging' = [staging EXCEPT !.prepared = failed, !.exitAfter = failed]
    BY <2>3 DEF HandleConfirmed, failed
  <2> QED
    BY <2>2, <2>4 DEF BeginReset
<1>6. f.op = "afterRestore" /\ f.resetFailed = failed /\ f.followup = HasDeferredFollowup(deferred)
  OBVIOUS
<1> HIDE DEF failed, f
<1>7. /\ f \in FailedFrames \/ Free(todo', FailedFrames)
      /\ f \in DoneFrames \/ Free(todo', DoneFrames)
      /\ Head(todo') = DrainFrame
  <2>1. DrainFrame \notin FailedFrames /\ DrainFrame \notin DoneFrames
    BY DEF DrainFrame, FailedFrames, DoneFrames
  <2> QED
    BY <1>3, <2>1 DEF Free
<1>8. Free(todo', FailedFrames) \/ (staging'.exitAfter /\ staging'.resetting)
  BY <1>5, <1>6, <1>7 DEF FailedFrames
<1>9. Free(todo', DoneFrames) \/ (deferred' = <<>> /\ ~HandleOnTop')
  BY <1>2, <1>4, <1>6, <1>7 DEF DoneFrames, DrainFrame, HandleOnTop, OnTop
<1> QED
  BY <1>4, <1>5, <1>8, <1>9 DEF RestoredInv, ExitInv

(* Handlers keep what a restore left behind its drain.                      *)
LEMMA HandlersRestored ==
  ASSUME IInv, IInv', MutationInv, RetireInv, Handle, OnTop("afterReset") => held = None
  PROVE  RestoredInv'
<1>0. Handlers /\ ShapeInv /\ todo # <<>> /\ todo \in Seq(FrameType)
  BY HandlersTop DEF Handle, MutationInv, IInv, TypeOK, FenceTypes
<1>1. CASE HandleConfirmed
  BY <1>1, ConfirmedRestored
<1>2. ASSUME ~HandleConfirmed, NEW G, \A f \in G : f.op = "afterRestore"
      PROVE  \/ Free(todo', G)
             \/ ~Free(todo, G) /\ OnTop("drain") /\ Draining(todo)
             \/ ~Free(todo, G) /\ HandleOnTop /\ Drained(todo)
  <2>1. CASE Free(todo, G)
    <3>1. Free(Tail(todo), G)
      BY <1>0, <1>2, <2>1, TailSole
    <3> QED
      BY <1>0, <1>2, <3>1, RestoredPush
  <2>2. CASE OnTop("afterRestore") /\ Tail(todo) = <<>>
    <3>1. Free(Tail(todo), G)
      BY <2>2, EmptyFree
    <3> QED
      BY <1>0, <1>2, <3>1, RestoredPush
  <2> QED
    BY <1>0, <1>2, <2>1, <2>2, RestoredTop
<1>3. ASSUME ~HandleConfirmed
      PROVE  Free(todo', FailedFrames) \/ (staging'.exitAfter /\ staging'.resetting)
  <2>1. SUFFICES ASSUME ~Free(todo', FailedFrames)
                 PROVE  staging'.exitAfter /\ staging'.resetting
    OBVIOUS
  <2>2. /\ ~Free(todo, FailedFrames)
        /\ (OnTop("drain") /\ Draining(todo)) \/ (HandleOnTop /\ Drained(todo))
    BY <1>2, <1>3, <2>1 DEF FailedFrames
  <2>3. staging.exitAfter /\ staging.resetting
    BY <2>2 DEF RetireInv, RestoredInv
  <2>4. ~Drained(todo)
    BY <2>3 DEF MutationInv, StackInv, FenceUp
  <2>5. DrainEnds
    BY <1>0, <2>2, <2>3, <2>4, DrainOver DEF FenceUp
  <2> QED
    BY <2>3, <2>5 DEF DrainEnds
<1>4. ASSUME ~HandleConfirmed
      PROVE  Free(todo', DoneFrames)
               \/ (~lease'.armed /\ worker' = None /\ deferred' = <<>> /\ ~HandleOnTop')
  <2>1. SUFFICES ASSUME ~Free(todo', DoneFrames)
                 PROVE  ~lease'.armed /\ worker' = None /\ deferred' = <<>> /\ ~HandleOnTop'
    OBVIOUS
  <2>2. /\ ~Free(todo, DoneFrames)
        /\ (OnTop("drain") /\ Draining(todo)) \/ (HandleOnTop /\ Drained(todo))
    BY <1>2, <1>4, <2>1 DEF DoneFrames
  <2>3. ~lease.armed /\ worker = None /\ deferred = <<>> /\ ~HandleOnTop
    BY <2>2 DEF RetireInv, RestoredInv
  <2>4. DrainEnds /\ Draining(todo)
    BY <1>0, <2>2, <2>3, DrainOver
  <2>5. todo' = Tail(todo) /\ Rest(Tail(todo))
    BY <2>4 DEF DrainEnds, Return, Draining
  <2>6. ~HandleOnTop'
    BY <2>5 DEF Rest, RestOps, HandleOnTop, OnTop
  <2> QED
    BY <2>3, <2>4, <2>6 DEF DrainEnds, recoveryVars, fenceVars
<1> QED
  BY <1>1, <1>3, <1>4 DEF RestoredInv

(* Handlers keep an exit that waits for the reset.                          *)
LEMMA HandlersExit ==
  ASSUME IInv, IInv', MutationInv, VerdictInv, RetireInv, Handle,
         OnTop("afterReset") => held = None
  PROVE  ExitInv'
<1>0. /\ Handlers /\ TypeOK /\ lease \in LeaseType /\ staging \in StagingType
      /\ todo # <<>> /\ todo \in Seq(FrameType)
  BY HandlersTop DEF Handle, IInv, TypeOK, FenceTypes, RecoveryTypes
<1>1. CASE HandleConfirmed
  BY <1>1, ConfirmedRestored
<1>2. SUFFICES ASSUME staging'.exitAfter, ~HandleConfirmed
               PROVE  /\ ~lease'.armed
                      /\ Leaving(worker')
                      /\ staging'.resetting \/ (deferred' = <<>> /\ todo' \in ExitStacks)
  BY <1>1 DEF ExitInv, Leaving
<1>3. /\ staging.exitAfter /\ ~lease.armed /\ Leaving(worker)
      /\ staging.resetting \/ (deferred = <<>> /\ todo \in ExitStacks)
  BY <1>0, <1>2, ExitRaised DEF RetireInv, ExitInv, Leaving
<1>4. CASE staging.resetting
  <2>1. ~lease'.armed /\ Leaving(worker')
    <3>1. CASE HandleCommand
      BY <1>3, <1>4, <3>1, BarredCommands
    <3>2. CASE ~HandleCommand
      BY <1>0, <1>3, <1>4, <3>2, BarredOthers DEF Leaving
    <3> QED
      BY <3>1, <3>2
  <2>2. CASE staging'.resetting
    BY <2>1, <2>2
  <2>3. CASE ~staging'.resetting
    <3>1. HandleResetDone
      <4>1. ~KeepsBarrier
        BY <1>4, <2>3 DEF KeepsBarrier
      <4>2. ResetCompletes
        BY <1>0, <4>1, CommandsBarrier, VerdictsBarrier, CompletionsBarrier
           DEF Handlers, HandleCompletion, Continue, ApplyCompletion, RestoreCompletion
      <4> QED
        BY <1>0, <1>2, <4>2 DEF ResetCompletes, HandleResetFailedExit, ResetSettled, StagingType
    <3>2. HandleOnTop /\ IsCompletion(Msg)
      BY <3>1 DEF HandleResetDone, Handling, HandleOnTop, OnTop, IsCompletion, Msg
    <3>3. Tail(todo) = <<>>
      BY <3>2, ShapeTop DEF MutationInv, HandleOnTop, OnTop
    <3>4. todo' = <<DrainFrame, [op |-> "afterReset"]>>
      BY <3>1, <3>3, NothingBelow DEF HandleResetDone, ReturnInto
    <3>5. deferred' = deferred /\ ~HasDeferredFollowup(deferred)
      BY <1>0, <1>2, <3>1 DEF HandleResetDone, ResetSettled, StagingType, fenceVars
    <3>6. deferred = <<>>
      <4>1. deferred \in Seq(DeferrableType) /\ Free(deferred, Unheard(bound, req.epoch))
        BY DEF IInv, TypeOK, FenceTypes, MutationInv, PendingInv
      <4>2. \A i \in DOMAIN deferred : deferred[i] \in MessageType
        BY <4>1 DEF MessageType
      <4>3. \A i \in DOMAIN deferred : ~IsReset(deferred[i])
        BY <4>1, <4>2 DEF Free, Unheard, IsReset
      <4>4. deferred # <<>> => 1 \in DOMAIN deferred
        BY <4>1
      <4> QED
        BY <3>5, <4>3, <4>4 DEF HasDeferredFollowup
    <3> QED
      BY <2>1, <3>4, <3>5, <3>6 DEF ExitStacks
  <2> QED
    BY <2>2, <2>3
<1>5. CASE ~staging.resetting
  <2>1. deferred = <<>> /\ todo \in ExitStacks
    BY <1>3, <1>5
  <2>2. CASE todo = <<DrainFrame, [op |-> "afterReset"]>>
    <3>1. OnTop("drain") /\ Tail(todo) = <<[op |-> "afterReset"]>>
      BY <2>2 DEF OnTop, DrainFrame
    <3>2. DrainEnds
      BY <1>0, <2>1, <3>1, DrainOver
    <3> QED
      BY <1>3, <2>1, <3>1, <3>2 DEF DrainEnds, Return, ExitStacks, recoveryVars, fenceVars
  <2>3. CASE todo = <<[op |-> "afterReset"]>>
    <3>1. OnTop("afterReset") /\ Tail(todo) = <<>>
      BY <2>3 DEF OnTop
    <3>2. AfterReset
      <4>1. Continue
        BY <1>0, <3>1, GoesOn DEF HandleOnTop, OnTop
      <4> QED
        BY <3>1, <4>1 DEF Continue, DrainNext, DrainEnds, ResumeFinish, ApplyOutcome,
           OutcomeBaselineFailed, OutcomeChecked, OutcomeRepaired, OutcomeVerify,
           OutcomeHdrFallback, OutcomeFailed, OutcomeFails, ExitAfterReset,
           AfterRestore, OnTop
    <3>3. /\ todo' = <<ExitFrame>> \o Tail(todo) /\ lease' = lease /\ worker' = worker
          /\ deferred' = deferred
      BY <3>1, <3>2 DEF AfterReset, ExitFrame
    <3>4. todo' = <<ExitFrame>>
      BY <3>1, <3>3, NothingBelow
    <3> QED
      BY <1>3, <2>1, <3>3, <3>4 DEF ExitStacks
  <2>4. CASE todo = <<ExitFrame>>
    <3>1. OnTop("exitAfterReset")
      BY <2>4 DEF OnTop, ExitFrame
    <3>2. ExitAfterReset
      <4>1. Continue
        BY <1>0, <3>1, GoesOn DEF HandleOnTop, OnTop
      <4> QED
        BY <3>1, <4>1 DEF Continue, DrainNext, DrainEnds, ResumeFinish, ApplyOutcome,
           OutcomeBaselineFailed, OutcomeChecked, OutcomeRepaired, OutcomeVerify,
           OutcomeHdrFallback, OutcomeFailed, OutcomeFails, AfterReset,
           AfterRestore, OnTop
    <3>3. ~staging'.exitAfter
      BY <1>0, <1>3, <1>5, <3>2 DEF ExitAfterReset, StagingType
    <3> QED
      BY <1>2, <3>3
  <2> QED
    BY <2>1, <2>2, <2>3, <2>4 DEF ExitStacks
<1> QED
  BY <1>4, <1>5

(* The other steps leave the lease to the handlers.                         *)
LEMMA LeaseQuiet ==
  ASSUME IInv, WorkerThread \/ TimerThread \/ Aside \/ Receive \/ SendStop \/ Disconnect
  PROVE  lease' = lease
<1>1. CASE WorkerThread
  BY <1>1, WorkerMoves
<1>2. CASE TimerThread
  BY <1>2 DEF TimerThread, workerUnchanged, recoveryVars
<1>3. CASE Aside
  <2>1. CASE PipeStep
    BY <2>1 DEF PipeStep, FireTicket, HeartbeatTimeout, Connect, PipeBreaks, SendStop, Send,
       ClientSends, Notify, recoveryVars, sessionVars
  <2>2. CASE GraceElapses \/ WindowExpires \/ QuietEnds \/ UNCHANGED vars
    BY <2>2 DEF GraceElapses, WindowExpires, QuietEnds, timeUnchanged, vars, recoveryVars
  <2> QED
    BY <1>3, <2>1, <2>2 DEF Aside
<1>4. CASE Receive
  BY <1>4 DEF Receive, recoveryVars
<1>5. CASE SendStop
  BY <1>5 DEF SendStop, ClientSends, recoveryVars
<1>6. CASE Disconnect
  BY <1>6 DEF Disconnect, DisconnectKeeps, DisconnectWaits, DisconnectChecks,
     DisconnectReverts, RetireConnection, recoveryVars
<1> QED
  BY <1>1, <1>2, <1>3, <1>4, <1>5, <1>6

(* So does what the exit waits for, and a batch is no rest of a restore.    *)
LEMMA QuietRetire ==
  ASSUME NoReset, IInv, IInv', MutationInv, QueueInv, RetireInv,
         WorkerThread \/ TimerThread \/ Aside \/ Receive \/ SendStop \/ Disconnect
  PROVE  RetireInv'
<1> USE DEF MutationInv, QueueInv
<1>0. todo' \in Seq(FrameType)
  BY DEF IInv, TypeOK, FenceTypes
<1>1. UNCHANGED <<lease, staging, worker, deferred>>
  BY LeaseQuiet, WorkerMoves, AsideMoves, ReceiveMoves, DisconnectMoves
     DEF TimerThread, workerUnchanged, fenceVars, SendStop, ClientSends
<1>2. CASE todo' = todo
  BY <1>1, <1>2 DEF RetireInv, ExitInv, RestoredInv, HandleOnTop, OnTop
<1>3. ASSUME todo = <<>>, Batch(todo') PROVE RetireInv'
  <2>1. todo \notin ExitStacks
    <3>1. \A f, g : <<>> # <<f>> /\ <<>> # <<f, g>>
      OBVIOUS
    <3> QED
      BY <1>3, <3>1 DEF ExitStacks
  <2>2. ExitInv'
    BY <1>1, <2>1 DEF RetireInv, ExitInv
  <2>3. Free(todo', FailedFrames) /\ Free(todo', DoneFrames)
    BY <1>3 DEF Batch, Free, FailedFrames, DoneFrames
  <2>4. Free(todo', FailedFrames') /\ Free(todo', DoneFrames')
    BY <2>3 DEF FailedFrames, DoneFrames
  <2>5. RestoredInv'
    BY <2>4 DEF RestoredInv
  <2> QED
    BY <2>2, <2>5 DEF RetireInv
<1>4. CASE WorkerThread
  BY <1>2, <1>4, WorkerMoves
<1>5. CASE TimerThread
  BY <1>2, <1>5 DEF TimerThread, workerUnchanged
<1>6. CASE Aside
  BY <1>2, <1>6, AsideMoves
<1>7. CASE SendStop
  BY <1>2, <1>7 DEF SendStop, ClientSends
<1>8. CASE Receive
  <2>1. Free(mailbox, {m \in MessageType : m.kind = "Repair"})
    <3>1. {m \in MessageType : m.kind = "Repair"} \in SUBSET Unsent(bound)
      BY DEF Unsent
    <3> QED
      BY <3>1, FreePart DEF PendingInv
  <2> QED
    BY <1>3, <1>8, <2>1, ReceiveMoves
<1>9. CASE Disconnect
  <2>1. todo = <<>>
        /\ (todo' = <<>> \/ \E m \in MessageType : m.kind = "Revert" /\ todo' = <<HandleFrame(m)>>)
    BY <1>9, DisconnectMoves
  <2>2. Batch(todo')
    <3>1. CASE todo' = <<>>
      BY <3>1 DEF Batch
    <3>2. ASSUME NEW m \in MessageType, m.kind = "Revert", todo' = <<HandleFrame(m)>>
          PROVE  Batch(todo')
      <4> DEFINE f == HandleFrame(m)
      <4>1. f.op = "handle" /\ f.msg.kind # "Repair" /\ todo' = <<f>>
        BY <3>2 DEF HandleFrame
      <4> HIDE DEF f
      <4> QED
        BY <4>1 DEF Batch
    <3> QED
      BY <2>1, <3>1, <3>2
  <2> QED
    BY <1>3, <2>1, <2>2
<1> QED
  BY <1>4, <1>5, <1>6, <1>7, <1>8, <1>9

(* Every step keeps what the exit waits for.                                *)
LEMMA NextRetire ==
  ASSUME NoReset, IInv, MutationInv, QueueInv, RetireInv, [Next]_vars
  PROVE  RetireInv'
<1>1. IInv' /\ (Handle /\ OnTop("afterReset") => held = None)
  BY NextTyped, HandleEffects
<1>2. CASE Handle
  BY <1>1, <1>2, HandlersRestored, HandlersExit DEF RetireInv, QueueInv
<1>3. CASE WorkerThread \/ TimerThread \/ Aside \/ Receive \/ SendStop \/ Disconnect
  BY <1>1, <1>3, QuietRetire
<1>4. CASE Tick
  <2>1. /\ UNCHANGED <<lease, staging, deferred, todo>> /\ todo = <<>> /\ lease.armed
    BY <1>4 DEF Tick, HandleTick, TickAllowed, StartRecovery, StartWorker
  <2>2. ~staging'.exitAfter
    BY <2>1 DEF RetireInv, ExitInv
  <2>3. Free(todo', FailedFrames') /\ Free(todo', DoneFrames')
    BY <2>1, EmptyFree
  <2> QED
    BY <2>2, <2>3 DEF RetireInv, ExitInv, RestoredInv
<1> QED
  BY <1>2, <1>3, <1>4 DEF Next, Host, Client, Environment, PipeStep, Aside

(* A helper that has just started does not exit.                            *)
LEMMA InitRetire == Init => RetireInv
<1>1. SUFFICES ASSUME Init PROVE RetireInv
  OBVIOUS
<1>2. todo = <<>> /\ ~staging.exitAfter
  BY <1>1 DEF Init, NoStaging
<1> QED
  BY <1>2, EmptyFree DEF RetireInv, ExitInv, RestoredInv

(* The handlers that end the helper.                                        *)
Enders ==
  HandleRevertNothing \/ HandleResetFailedExit \/ ExitAfterReset \/ AfterRestore

(* No other handler does.                                                   *)
LEMMA OnlyEnders ==
  ASSUME Handlers, ~Enders
  PROVE  running' = running
<1>1. CASE HandleCommand \/ HandleEvent
  BY <1>1 DEF exitVars, HandleCommand, HandleStaleCommand, HandleApplyDeferred,
     HandleApply, HandleRepairDropped, HandleRepair, HandleRevertJoins,
     HandleRevertDeferred, HandleRevertPolicyOff, Enders,
     HandleRevert, HandleDisarmIgnored, HandleDisarmDeferred,
     HandleDisarm, HandleSnapshot, HandleRefreshRejected, HandleRefresh,
     HandleResetDeferred, HandleReset, BeginReset, HandleEvent, HandleBaselineReturn,
     HandleEventIgnored, HandleSameIdentity, HandleIdentityQueued,
     HandleIdentityReplaced, HandleEventInWindow, HandleEventReopens
<1>2. CASE HandleVerifyDone
  BY <1>2 DEF exitVars, HandleVerifyDone, HandleCheckPassed, HandleCheckFailed, HandleVerified,
     HandleBaselineVerified, HandleUnverifiedDisconnected, HandleBaselineMissing,
     HandleBaselineUnrepaired, HandleUnverifiedReapply, HandleUnverified
<1>3. CASE ApplyOutcome
  BY <1>3 DEF exitVars, ApplyOutcome, OutcomeBaselineFailed, OutcomeChecked,
     OutcomeRepaired, OutcomeVerify, OutcomeHdrFallback, OutcomeFailed, DropUncommitted,
     BeginReset
<1>4. CASE (HandleCompletion \/ Continue) /\ ~HandleVerifyDone /\ ~ApplyOutcome
  BY <1>4 DEF exitVars, HandleCompletion, Continue, HandleForeignCompletion,
     HandleApplyDone, HandleCancelledApplyTouched, HandleCancelledApplyUntouched,
     DropUncommitted, BeginReset, DrainNext, DrainEnds, ResumeFinish, AfterReset,
     HandleRefreshCancelled, HandleRefreshDone, HandleCancelledRecovery, HandleRestored,
     HandleAttemptFailed, HandleCancelledValidation, HandleConfirmed, HandleResetDone,
     Enders
<1> QED
  BY <1>1, <1>2, <1>3, <1>4 DEF Handlers

(* No other step does, but the STOP that interrupts the host loop.          *)
LEMMA EndsBy ==
  ASSUME NoReset, IInv, MutationInv, [Next]_vars, running, ~running', todo # todo'
  PROVE  Handle /\ Enders
<1>1. ~WorkerThread /\ ~TimerThread /\ ~Aside /\ ~Receive /\ ~Disconnect
  BY WorkerMoves, AsideMoves, ReceiveMoves, DisconnectMoves
     DEF MutationInv, TimerThread, workerUnchanged, exitVars
<1>2. ~Tick /\ ~SendStop
  BY DEF Tick, HandleTick, SendStop, ClientSends, exitVars
<1>3. Handle
  BY <1>1, <1>2 DEF Next, Host, Client, Environment, PipeStep, Aside
<1> QED
  BY <1>3, OnlyEnders DEF Handle

(* A REVERT with nothing to restore releases the desktop.                   *)
LEMMA RevertReleases ==
  ASSUME IInv, MutationInv, QueueInv, HandleRevertNothing
  PROVE  ~lease'.armed /\ worker' = None /\ deferred' = deferred
           /\ Free(deferred, Live(epoch))
<1>0. lease \in LeaseType
  BY DEF IInv, TypeOK, RecoveryTypes
<1>1. ~lease'.armed /\ worker' = worker /\ deferred' = deferred
  BY <1>0 DEF HandleRevertNothing, ClearRecoveryState, LeaseType
<1>2. HandleOnTop /\ ~FenceUp
  BY DEF HandleRevertNothing, RevertRuns, Handling, HandleOnTop, OnTop, FenceUp
<1>3. worker = None
  BY <1>2 DEF FenceUp, WorkerActive
<1> QED
  BY <1>1, <1>2, <1>3, QueueFree DEF QueueInv, MutationInv

(* So do the ends of a restore, and nothing waits for the fence they leave. *)
LEMMA EndsReleased ==
  ASSUME IInv, MutationInv, RetireInv, Handle, running, ~running',
         HandleResetFailedExit \/ ExitAfterReset \/ AfterRestore
  PROVE  /\ ~lease'.armed
         /\ Leaving(worker')
         /\ HandleResetFailedExit \/ deferred' = <<>>
<1>0. todo # <<>> /\ todo \in Seq(FrameType)
  BY HandlersTop DEF Handle, IInv, TypeOK, FenceTypes
<1>1. UNCHANGED <<lease, worker, deferred>>
  BY DEF HandleResetFailedExit, ExitAfterReset, AfterRestore, recoveryVars, fenceVars
<1>2. CASE HandleResetFailedExit
  BY <1>1, <1>2 DEF HandleResetFailedExit, RetireInv, ExitInv, Leaving
<1>3. CASE ExitAfterReset
  <2>1. staging.exitAfter /\ ~staging.resetting
    BY <1>3 DEF ExitAfterReset, exitVars
  <2> QED
    BY <1>1, <2>1 DEF RetireInv, ExitInv, Leaving
<1>4. CASE AfterRestore
  <2>1. /\ ~staging.exitAfter /\ OnTop("afterRestore")
        /\ ~(Head(todo).followup /\ ~Head(todo).resetFailed)
    BY <1>4 DEF AfterRestore, exitVars
  <2>2. Head(todo) \in FrameType /\ Head(todo).op = "afterRestore"
    BY <1>0, <2>1, TailType DEF OnTop
  <2>3. Head(todo).followup \in BOOLEAN /\ Head(todo).resetFailed \in BOOLEAN
    BY <2>2 DEF FrameType
  <2>4. CASE Head(todo).resetFailed
    <3>1. Head(todo) \in FailedFrames
      BY <2>2, <2>4 DEF FailedFrames
    <3>2. ~Free(todo, FailedFrames)
      BY <1>0, <3>1, TailSole
    <3> QED
      BY <2>1, <3>2 DEF RetireInv, RestoredInv
  <2>5. CASE ~Head(todo).resetFailed
    <3>1. Head(todo) \in DoneFrames
      BY <2>1, <2>2, <2>5 DEF DoneFrames
    <3>2. ~Free(todo, DoneFrames)
      BY <1>0, <3>1, TailSole
    <3> QED
      BY <1>1, <3>2 DEF RetireInv, RestoredInv, Leaving
  <2> QED
    BY <2>4, <2>5
<1> QED
  BY <1>2, <1>3, <1>4

(* The helper retires itself only with the recovery lease down, for one     *)
(* that nobody asks for a RESET.                                            *)
THEOREM RetiresReleasedHolds ==
  ASSUME NoReset
  PROVE  Spec => RetiresReleased
<1>1. IInv /\ MutationInv /\ QueueInv /\ RetireInv /\ [Next]_vars
        => [running /\ ~running' /\ todo # todo' => ~lease.armed']_vars
  <2>1. SUFFICES ASSUME IInv, MutationInv, QueueInv, RetireInv, [Next]_vars,
                        running, ~running', todo # todo'
                 PROVE  ~lease.armed'
    OBVIOUS
  <2> QED
    BY <2>1, EndsBy, RevertReleases, EndsReleased DEF Enders
<1> QED
  BY <1>1, InitMutation, NextMutation, InitQueue, NextQueue, InitRetire, NextRetire,
     SpecTyped, PTL DEF Spec, RetiresReleased

(* It leaves no live session intent behind, neither running nor queued,     *)
(* unless the staged state would not go: for a helper that nobody asks for  *)
(* a RESET.                                                                 *)
THEOREM ExitKeepsIntentHolds ==
  ASSUME NoReset
  PROVE  Spec => ExitKeepsIntent
<1>1. ASSUME IInv, MutationInv, QueueInv, RetireInv, [Next]_vars,
             running, ~running', todo # todo', ~IsResetFrame(todo[1])
      PROVE  /\ worker' = None \/ worker'.kind = "RefreshRate"
             /\ ~\E i \in DOMAIN deferred' :
                   IsSessionIntent(deferred'[i]) /\ ~StaleConnection(deferred'[i])
  <2>1. Handle /\ Enders
    BY <1>1, EndsBy
  <2>2. CASE HandleRevertNothing
    <3>1. /\ worker' = None /\ deferred' = deferred /\ Free(deferred, Live(epoch))
          /\ deferred \in Seq(DeferrableType)
      BY <1>1, <2>2, RevertReleases DEF IInv, TypeOK, FenceTypes
    <3>2. ASSUME NEW i \in DOMAIN deferred PROVE StaleConnection(deferred[i])
      <4>1. deferred[i] \in DeferrableType /\ deferred[i] \notin Live(epoch)
        BY <3>1 DEF Free
      <4> QED
        BY <4>1 DEF Live, StaleConnection
    <3> QED
      BY <3>1, <3>2
  <2>3. CASE ~HandleRevertNothing
    <3>1. ~HandleResetFailedExit
      <4>1. SUFFICES ASSUME HandleResetFailedExit PROVE FALSE
        OBVIOUS
      <4>2. todo \in Seq(FrameType) /\ todo # <<>>
        BY <1>1, <2>1, HandlersTop DEF Handle, IInv, TypeOK, FenceTypes
      <4>3. todo[1].op = "handle" /\ todo[1].msg.kind = "ResetDone"
        BY <4>1, <4>2 DEF HandleResetFailedExit, Handling, OnTop, Msg
      <4> QED
        BY <1>1, <4>3 DEF IsResetFrame, IsResetDone
    <3>2. Leaving(worker') /\ deferred' = <<>>
      BY <1>1, <2>1, <2>3, <3>1, EndsReleased DEF Enders
    <3> QED
      BY <3>2 DEF Leaving
  <2> QED
    BY <2>2, <2>3
<1>2. IInv /\ MutationInv /\ QueueInv /\ RetireInv /\ [Next]_vars
        => [running /\ ~running' /\ todo # todo' /\ ~IsResetFrame(todo[1]) =>
              /\ worker' = None \/ worker'.kind = "RefreshRate"
              /\ ~\E i \in DOMAIN deferred' :
                    IsSessionIntent(deferred'[i]) /\ ~StaleConnection(deferred'[i])]_vars
  BY <1>1
<1> QED
  BY <1>2, InitMutation, NextMutation, InitQueue, NextQueue, InitRetire, NextRetire,
     SpecTyped, PTL DEF Spec, ExitKeepsIntent

-----------------------------------------------------------------------------
(* The order of the client's intents.                                       *)

\* Session intents of the client, and those before and from a given one on.
Intents == {m \in DeferrableType : IsSessionIntent(m) /\ m.seq # 0}
Older(n) == {m \in Intents : m.seq < n}
Newer(n) == {m \in Intents : m.seq >= n}
LiveOlder(e, n) == {m \in Older(n) : m.epoch \in {0, e}}

\* No intent overtakes another on its way through the mailbox and the stack,
\* and what the mailbox holds is newer than any accepted intent.
OrderedIntents(n) ==
  /\ Behind(mailbox, Newer(n), Older(n))
  /\ Behind(todo, Frames(Newer(n)), Frames(Older(n)))
  /\ Free(todo, Frames(Newer(n))) \/ Free(mailbox, Older(n))

\* Of the live intents only the newest waits, or was taken out of the queue.
IntentInv ==
  /\ newest <= sent
  /\ \A n \in Nat : OrderedIntents(n)
  /\ Free(mailbox, Older(newest))
  /\ Free(mailbox, Newer(sent + 1)) /\ Free(todo, Frames(Newer(sent + 1)))
  /\ Free(todo, Frames(LiveOlder(epoch, newest)))
  /\ Free(deferred, LiveOlder(epoch, newest)) /\ Free(deferred, Newer(newest + 1))

(* The sets of intents.                                                     *)
LEMMA IntentSets ==
  ASSUME NEW n \in Nat, NEW k \in Nat, n <= k, NEW e
  PROVE  /\ Older(n) \subseteq Older(k) /\ Newer(k) \subseteq Newer(n)
         /\ LiveOlder(e, n) \subseteq LiveOlder(e, k)
         /\ LiveOlder(e, n) \subseteq Older(n)
         /\ LiveOlder(e, n) \subseteq Live(e)
         /\ Intents \subseteq DeferrableType
         /\ Older(n) \subseteq Intents /\ Newer(n) \subseteq Intents
         /\ \A m \in Intents : m.seq \in Nat /\ ~IsCompletion(m) /\ IsSessionIntent(m)
         /\ \A m \in Intents : (m \in Older(n) <=> m.seq < n) /\ (m \in Newer(n) <=> m.seq >= n)
<1>1. \A m \in Intents : m.seq \in Nat /\ ~IsCompletion(m) /\ IsSessionIntent(m)
  BY DEF Intents, DeferrableType, IsSessionIntent, IsCompletion
<1>2. Intents \subseteq DeferrableType
  BY DEF Intents
<1> HIDE DEF Intents
<1>3. \A m \in Intents : (m \in Older(n) <=> m.seq < n) /\ (m \in Newer(n) <=> m.seq >= n)
  BY DEF Older, Newer
<1>4. /\ Older(n) \subseteq Older(k) /\ Newer(k) \subseteq Newer(n)
      /\ Older(n) \subseteq Intents /\ Newer(n) \subseteq Intents
  BY <1>1 DEF Older, Newer
<1>5. /\ LiveOlder(e, n) \subseteq Older(n)
      /\ LiveOlder(e, n) \subseteq LiveOlder(e, k)
      /\ LiveOlder(e, n) \subseteq Live(e)
  BY <1>2, <1>4 DEF LiveOlder, Live
<1> QED
  BY <1>1, <1>2, <1>3, <1>4, <1>5

(* And those of an intent that follows another.                             *)
LEMMA LaterSets ==
  ASSUME NEW k \in Nat, NEW l \in Nat, k <= l, NEW e
  PROVE  /\ LiveOlder(e, l) \in SUBSET Live(e)
         /\ Newer(l + 1) \in SUBSET Newer(k + 1)
<1>1. k + 1 \in Nat /\ l + 1 \in Nat /\ k + 1 <= l + 1
  OBVIOUS
<1> QED
  BY <1>1, IntentSets

(* An intent of a connection to come is not among those that wait.          *)
LEMMA LaterIntents ==
  ASSUME NEW b \in Nat, NEW e \in Nat, b <= e, NEW n \in Nat, NEW q,
         Free(q, Early(b)), Free(q, LiveOlder(e, n))
  PROVE  Free(q, LiveOlder(e + 1, n))
<1>1. ASSUME NEW m \in LiveOlder(e + 1, n) PROVE m \in Early(b) \/ m \in LiveOlder(e, n)
  <2>1. m \in Older(n) /\ m \in DeferrableType /\ m.epoch \in {0, e + 1}
    BY DEF LiveOlder, Older, Intents
  <2>2. m.epoch = e + 1 => m.epoch > b
    OBVIOUS
  <2> QED
    BY <2>1, <2>2 DEF LiveOlder, Early
<1> QED
  BY <1>1 DEF Free

(* The same for the frames of intents.                                      *)
LEMMA LaterFrames ==
  ASSUME NEW b \in Nat, NEW e \in Nat, b <= e, NEW n \in Nat, NEW q,
         Free(q, Frames(Early(b))), Free(q, Frames(LiveOlder(e, n)))
  PROVE  Free(q, Frames(LiveOlder(e + 1, n)))
<1>1. ASSUME NEW m \in LiveOlder(e + 1, n) PROVE m \in Early(b) \/ m \in LiveOlder(e, n)
  <2>1. m \in Older(n) /\ m \in DeferrableType /\ m.epoch \in {0, e + 1}
    BY DEF LiveOlder, Older, Intents
  <2>2. m.epoch = e + 1 => m.epoch > b
    OBVIOUS
  <2> QED
    BY <2>1, <2>2 DEF LiveOlder, Early
<1>2. Frames(LiveOlder(e + 1, n)) \subseteq Frames(Early(b)) \cup Frames(LiveOlder(e, n))
  BY <1>1 DEF Frames
<1> QED
  BY <1>2 DEF Free

(* process_queue hands over intents in their order.                         *)
LEMMA ReceiveOrder ==
  ASSUME IInv, Receive, NEW G, NEW R, \A m \in G : ~IsCompletion(m),
         \A m \in R : ~IsCompletion(m), Behind(mailbox, G, R)
  PROVE  /\ Behind(todo', Frames(G), Frames(R))
         /\ Free(todo', Frames(G)) \/ Free(mailbox', R)
<1>1. mailbox # <<>> /\ mailbox \in Seq(MessageType)
  BY DEF IInv, TypeOK, HostTypes, Receive
<1> DEFINE m == Head(mailbox)
           rest == Tail(mailbox)
<1>2. PICK n \in 0..Len(rest) :
        /\ IsPrefixLength(n, m, rest)
        /\ todo' = [i \in 1..(n + 1) |-> HandleFrame(IF i <= n THEN rest[i] ELSE m)]
        /\ mailbox' = SubSeq(rest, n + 1, Len(rest))
  BY DEF Receive
<1>3. n # 0 => IsCompletion(m)
  BY <1>2 DEF IsPrefixLength
<1>4. /\ rest \in Seq(MessageType) /\ Len(rest) = Len(mailbox) - 1 /\ Len(mailbox) \in Nat
      /\ DOMAIN rest = 1..Len(rest) /\ DOMAIN mailbox = 1..Len(mailbox)
      /\ \A i \in DOMAIN rest : rest[i] = mailbox[i + 1]
      /\ m = mailbox[1]
  BY <1>1
<1> HIDE DEF m, rest
<1>5. n \in Nat /\ n <= Len(rest) /\ Len(rest) \in Nat
  BY <1>2, <1>4
<1>6. /\ DOMAIN todo' = 1..(n + 1)
      /\ \A i \in 1..n : todo'[i] = HandleFrame(mailbox[i + 1])
      /\ todo'[n + 1] = HandleFrame(m)
  <2>1. /\ DOMAIN todo' = 1..(n + 1)
        /\ \A i \in 1..n : todo'[i] = HandleFrame(rest[i])
        /\ todo'[n + 1] = HandleFrame(m)
    BY <1>2, <1>5
  <2>2. \A i \in 1..n : rest[i] = mailbox[i + 1]
    BY <1>4, <1>5
  <2> QED
    BY <2>1, <2>2
<1>7. /\ DOMAIN mailbox' = 1..(Len(rest) - n)
      /\ \A j \in DOMAIN mailbox' : mailbox'[j] = mailbox[j + n + 1]
  <2>1. /\ DOMAIN mailbox' = 1..(Len(rest) - n)
        /\ \A j \in 1..(Len(rest) - n) : mailbox'[j] = rest[j + n]
    BY <1>2, <1>4, <1>5
  <2>2. \A j \in 1..(Len(rest) - n) : rest[j + n] = mailbox[j + n + 1]
    <3>1. ASSUME NEW j \in 1..(Len(rest) - n) PROVE rest[j + n] = mailbox[j + n + 1]
      <4>1. j + n \in 1..Len(rest) /\ j \in Nat
        BY <1>5
      <4>2. rest[j + n] = mailbox[(j + n) + 1]
        BY <1>4, <4>1
      <4> QED
        BY <4>2
    <3> QED
      BY <3>1
  <2> QED
    BY <2>1, <2>2
<1>8. ASSUME NEW i \in DOMAIN todo', NEW H, \A k \in H : ~IsCompletion(k), todo'[i] \in Frames(H)
      PROVE  \/ i <= n /\ mailbox[i + 1] \in H
             \/ n = 0 /\ i = 1 /\ mailbox[1] \in H
  <2>1. CASE i <= n
    BY <1>5, <1>6, <1>8, <2>1, FrameOf
  <2>2. CASE i = n + 1
    BY <1>3, <1>4, <1>5, <1>6, <1>8, <2>2, FrameOf
  <2> QED
    BY <1>5, <1>6, <2>1, <2>2
<1>9. Behind(todo', Frames(G), Frames(R))
  <2> SUFFICES ASSUME NEW i \in DOMAIN todo', NEW j \in DOMAIN todo',
                      todo'[i] \in Frames(G), todo'[j] \in Frames(R)
               PROVE  j < i
    BY DEF Behind
  <2>1. \/ i <= n /\ mailbox[i + 1] \in G
        \/ n = 0 /\ i = 1 /\ mailbox[1] \in G
    BY <1>8
  <2>2. \/ j <= n /\ mailbox[j + 1] \in R
        \/ n = 0 /\ j = 1 /\ mailbox[1] \in R
    BY <1>8
  <2>3. i \in 1..(n + 1) /\ j \in 1..(n + 1)
    BY <1>6
  <2> QED
    BY <1>4, <1>5, <2>1, <2>2, <2>3 DEF Behind
<1>10. Free(todo', Frames(G)) \/ Free(mailbox', R)
  <2> SUFFICES ASSUME NEW i \in DOMAIN todo', todo'[i] \in Frames(G),
                      NEW j \in DOMAIN mailbox', mailbox'[j] \in R
               PROVE  FALSE
    BY DEF Free
  <2>1. \/ i <= n /\ mailbox[i + 1] \in G
        \/ n = 0 /\ i = 1 /\ mailbox[1] \in G
    BY <1>8
  <2>2. mailbox[j + n + 1] \in R /\ j \in 1..(Len(rest) - n) /\ i \in 1..(n + 1)
    BY <1>6, <1>7
  <2> QED
    BY <1>4, <1>5, <2>1, <2>2 DEF Behind
<1> QED
  BY <1>9, <1>10

(* What handlers that accept an intent have in common.                      *)
Accepts ==
  \/ HandleApplyDeferred \/ HandleApply \/ HandleRevertDeferred \/ HandleRevertPolicyOff
  \/ HandleRevertNothing \/ HandleRevert \/ HandleDisarmDeferred \/ HandleDisarm

(* Such a handler pops its message, and queues nothing else.                *)
LEMMA AcceptedIntent ==
  ASSUME Accepts
  PROVE  /\ HandleOnTop /\ Msg.kind \in {"Apply", "Revert", "Disarm"} /\ ~StaleConnection(Msg)
         /\ Accept(Msg) /\ todo' = Tail(todo)
         /\ Enqueue(Msg) \/ (~FenceUp /\ deferred' = deferred)
BY DEF Accepts, HandleApplyDeferred, HandleApply, HandleRevertDeferred, HandleRevertPolicyOff,
   HandleRevertNothing, HandleRevert, HandleDisarmDeferred, HandleDisarm, RevertRuns, Return,
   Handling, HandleOnTop, OnTop, Msg, FenceUp, WorkerActive

(* The others leave the newest intent, and queue no other.                  *)
LEMMA NoneAccepted ==
  ASSUME Handlers, ~Accepts
  PROVE  /\ newest' = newest
         /\ \/ deferred' = deferred \/ DrainNext
            \/ \E c : c.kind \in {"Repair", "Reset"} /\ Enqueue(c)
<1>1. CASE HandleCommand
  <2>1. CASE HandleResetDeferred
    <3>1. Msg.kind = "Reset" /\ Enqueue(Msg) /\ newest' = newest
      BY <2>1 DEF HandleResetDeferred, Handling, OnTop, Msg
    <3> QED
      BY <3>1
  <2>2. CASE ~HandleResetDeferred
    BY <1>1, <2>2 DEF fenceVars, HandleCommand, HandleStaleCommand, HandleRepairDropped,
       HandleRepair, HandleRevertJoins, HandleDisarmIgnored, HandleSnapshot,
       HandleRefreshRejected, HandleRefresh, HandleReset, BeginReset, Accepts, StartWorker
  <2> QED
    BY <2>1, <2>2
<1>2. CASE HandleEvent
  <2>1. CASE HandleIdentityQueued
    <3> DEFINE c == [kind |-> "Repair", epoch |-> req.epoch]
    <3>1. c.kind = "Repair" /\ Enqueue(c) /\ newest' = newest
      BY <2>1 DEF HandleIdentityQueued
    <3> HIDE DEF c
    <3> QED
      BY <3>1
  <2>2. CASE ~HandleIdentityQueued
    BY <1>2, <2>2 DEF fenceVars, HandleEvent, HandleBaselineReturn, HandleEventIgnored,
       HandleSameIdentity, HandleIdentityReplaced, HandleEventInWindow, HandleEventReopens
  <2> QED
    BY <2>1, <2>2
<1>3. CASE HandleVerifyDone
  BY <1>3 DEF fenceVars, HandleVerifyDone, HandleCheckPassed, HandleCheckFailed, HandleVerified,
     HandleBaselineVerified, HandleUnverifiedDisconnected, HandleBaselineMissing,
     HandleBaselineUnrepaired, HandleUnverifiedReapply, HandleUnverified
<1>4. CASE ApplyOutcome
  BY <1>4 DEF fenceVars, ApplyOutcome, OutcomeBaselineFailed, OutcomeChecked,
     OutcomeRepaired, OutcomeVerify, OutcomeHdrFallback, OutcomeFailed, DropUncommitted,
     BeginReset
<1>5. CASE (HandleCompletion \/ Continue) /\ ~HandleVerifyDone /\ ~ApplyOutcome
  BY <1>5 DEF fenceVars, HandleCompletion, Continue, HandleForeignCompletion,
     HandleApplyDone, HandleCancelledApplyTouched, HandleCancelledApplyUntouched,
     DropUncommitted, BeginReset, DrainNext, DrainEnds, ResumeFinish, AfterReset,
     HandleRefreshCancelled, HandleRefreshDone, HandleCancelledRecovery, HandleRestored,
     HandleAttemptFailed, HandleCancelledValidation, HandleConfirmed, HandleResetDone,
     HandleResetFailedExit, ExitAfterReset, AfterRestore
<1> QED
  BY <1>1, <1>2, <1>3, <1>4, <1>5 DEF Handlers

(* One element pushed on a stack that has none of either kind.              *)
LEMMA PushOrder ==
  ASSUME NEW S, NEW q \in Seq(S), NEW f, NEW A, NEW B, Free(q, A), Free(q, B),
         ~(f \in A /\ f \in B)
  PROVE  Behind(<<f>> \o q, A, B)
<1> DEFINE r == <<f>> \o q
<1>1. /\ DOMAIN r = 1..(Len(q) + 1) /\ Len(q) \in Nat /\ DOMAIN q = 1..Len(q)
      /\ r[1] = f
      /\ \A i \in DOMAIN r : i = 1 \/ (i - 1 \in DOMAIN q /\ r[i] = q[i - 1])
  OBVIOUS
<1> HIDE DEF r
<1>2. ASSUME NEW i \in DOMAIN r, NEW C, Free(q, C), r[i] \in C
      PROVE  i = 1 /\ f \in C
  BY <1>1, <1>2 DEF Free
<1>3. Behind(r, A, B)
  BY <1>2 DEF Behind
<1> QED
  BY <1>3 DEF r

(* A handler leaves the order of what it has not taken as it was.           *)
LEMMA StackOrder ==
  ASSUME IInv, IInv', ShapeInv, Handlers, OnTop("afterReset") => held = None,
         NEW G, NEW R, \A m \in G : m \notin R, Behind(todo, Frames(G), Frames(R))
  PROVE  /\ Behind(todo', Frames(G), Frames(R))
         /\ Free(todo, Frames(G)) =>
              Free(todo', Frames(G)) \/ (DrainNext /\ Head(deferred) \in G)
<1>0. todo \in Seq(FrameType) /\ todo' \in Seq(FrameType) /\ todo # <<>> /\ StackMoves
  BY HandlersTop, HandlersStack DEF IInv, TypeOK, FenceTypes
<1>1. CASE todo' = Tail(todo)
  BY <1>0, <1>1, BehindMoves, TailSole
<1>2. CASE Rest(todo') \/ Draining(todo')
  <2>1. Free(todo', Frames(G))
    <3>1. PICK q \in Seq(FrameType) : q = todo'
      BY <1>0
    <3>2. Rest(q) \/ Draining(q)
      BY <1>2, <3>1
    <3> QED
      BY <3>1, <3>2, RestFree
  <2> QED
    BY <2>1 DEF Behind, Free
<1>3. CASE DrainNext /\ todo' = <<HandleFrame(Head(deferred))>> \o todo
  <2> DEFINE f == HandleFrame(Head(deferred))
  <2>1. Draining(todo)
    BY <1>0, <1>3, ShapeTop DEF DrainNext, OnTop
  <2>2. Free(todo, Frames(G)) /\ Free(todo, Frames(R))
    BY <1>0, <2>1, RestFree
  <2>7. f \in FrameType
    <3>1. Head(deferred) \in MessageType
      BY <1>3, TailType DEF DrainNext, DrainContinues, IInv, TypeOK, FenceTypes, MessageType
    <3> QED
      BY <3>1, FrameTyped
  <2>3. (f \in Frames(G) <=> Head(deferred) \in G) /\ (f \in Frames(R) <=> Head(deferred) \in R)
    BY FrameOf
  <2>4. todo' = <<f>> \o todo
    BY <1>3
  <2> HIDE DEF f
  <2>5. Behind(todo', Frames(G), Frames(R))
    BY <1>0, <2>2, <2>3, <2>4, PushOrder
  <2>6. Head(deferred) \notin G => Free(todo', Frames(G))
    <3> SUFFICES ASSUME Head(deferred) \notin G PROVE Free(<<f>> \o todo, Frames(G))
      BY <2>4
    <3>1. Free(<<f>>, Frames(G))
      BY <2>3 DEF Free
    <3>2. <<f>> \in Seq(FrameType)
      BY <2>7
    <3> QED
      BY <1>0, <2>2, <3>1, <3>2, PushSole
  <2> QED
    BY <1>3, <2>5, <2>6
<1> QED
  BY <1>0, <1>1, <1>2, <1>3 DEF StackMoves

(* A handler that accepts an intent found it newer than any before.         *)
LEMMA AcceptsIntent ==
  ASSUME IInv, IInv', MutationInv, QueueInv, IntentInv, Handle, Accepts,
         NEW e \in Nat, NEW k \in Nat, NEW l \in Nat, e = epoch, k = newest, l = newest'
  PROVE  /\ k <= l /\ l <= sent
         /\ Free(mailbox, Older(l))
         /\ Free(todo', Frames(LiveOlder(e, l)))
         /\ Free(deferred', LiveOlder(e, l)) /\ Free(deferred', Newer(l + 1))
<1>0. /\ HandleOnTop /\ Msg.kind \in {"Apply", "Revert", "Disarm"} /\ ~StaleConnection(Msg)
      /\ Accept(Msg) /\ todo' = Tail(todo)
      /\ Enqueue(Msg) \/ (~FenceUp /\ deferred' = deferred)
  BY AcceptedIntent
<1>1. /\ todo \in Seq(FrameType) /\ todo # <<>> /\ deferred \in Seq(DeferrableType)
      /\ sent \in Nat
  BY <1>0, ConstantsAssumption
     DEF HandleOnTop, OnTop, IInv, TypeOK, FenceTypes, HistoryTypes, ConstantsAssumption
<1> DEFINE m == Msg
           n == Msg.seq
<1>2. m \in DeferrableType /\ IsSessionIntent(m) /\ n \in Nat /\ m.epoch \in {0, e}
  <2>1. m \in MessageType
    BY <1>0, HandledTop
  <2>2. m \in DeferrableType
    BY <1>0, <2>1, MessageKinds
  <2> QED
    BY <1>0, <2>2 DEF DeferrableType, IsSessionIntent, StaleConnection
<1>3. Head(todo) = HandleFrame(m)
  BY <1>0, HandledTop
<1>4. n # 0 => m \in Intents
  BY <1>2 DEF Intents
<1>5. n # 0 => k <= n /\ n <= sent
  <2>1. m \notin LiveOlder(e, k) /\ m \notin Newer(sent + 1)
    <3>1. Head(todo) \notin Frames(LiveOlder(e, k)) /\ Head(todo) \notin Frames(Newer(sent + 1))
      BY <1>1, TailSole DEF IntentInv
    <3> QED
      BY <1>3, <3>1, FrameOf
  <2> QED
    BY <1>1, <1>2, <1>4, <2>1 DEF LiveOlder, Older, Newer
<1>6. l = IF n > k THEN n ELSE k
  BY <1>0 DEF Accept
<1> HIDE DEF n
<1>7. /\ k <= sent /\ k <= l
      /\ n # 0 => l = n
      /\ n = 0 => l = k
  BY <1>1, <1>2, <1>5, <1>6 DEF IntentInv
<1>8. k <= l /\ l <= sent
  BY <1>5, <1>7
<1>9. Free(mailbox, Older(l)) /\ Free(todo', Frames(LiveOlder(e, l)))
  <2>1. CASE n = 0
    BY <1>0, <1>1, <1>7, <2>1, TailSole DEF IntentInv
  <2>2. CASE n # 0
    <3>1. m \in Newer(n) /\ OrderedIntents(n)
      BY <1>2, <1>4, <2>2 DEF Newer, n, IntentInv
    <3>2. Head(todo) \in Frames(Newer(n))
      BY <1>3, <3>1, FrameOf
    <3>3. Free(mailbox, Older(n))
      BY <1>1, <3>1, <3>2, TailSole DEF OrderedIntents
    <3>4. Free(Tail(todo), Frames(Older(n)))
      BY <1>1, <3>1, <3>2, BehindMoves DEF OrderedIntents
    <3>5. Frames(LiveOlder(e, n)) \in SUBSET Frames(Older(n))
      <4>1. LiveOlder(e, n) \subseteq Older(n)
        BY DEF LiveOlder
      <4> QED
        BY <4>1, FramesPart
    <3> QED
      BY <1>0, <1>7, <2>2, <3>3, <3>4, <3>5, FreePart
  <2> QED
    BY <2>1, <2>2
<1>10. Free(deferred', LiveOlder(e, l)) /\ Free(deferred', Newer(l + 1))
  <2>1. CASE ~FenceUp /\ deferred' = deferred
    <3>1. Free(deferred, Live(e)) /\ Free(deferred, Newer(k + 1))
      BY <1>0, <2>1, QueueFree DEF QueueInv, MutationInv, IntentInv
    <3>2. LiveOlder(e, l) \in SUBSET Live(e) /\ Newer(l + 1) \in SUBSET Newer(k + 1)
      BY <1>7, LaterSets
    <3> QED
      BY <2>1, <3>1, <3>2, FreePart
  <2>2. CASE Enqueue(Msg)
    <3>1. \A i \in DOMAIN deferred : deferred[i].kind # "Reset"
      <4>1. ASSUME NEW i \in DOMAIN deferred, deferred[i].kind = "Reset" PROVE FALSE
        <5>1. deferred[i] \in MessageType
          BY <1>1 DEF MessageType
        <5>2. deferred[i] \in Unheard(bound, req.epoch)
          BY <4>1, <5>1 DEF Unheard
        <5> QED
          BY <4>1, <5>2 DEF MutationInv, PendingInv, Free
      <4> QED
        BY <4>1
    <3>2. deferred' = <<m>>
      BY <1>0, <1>1, <2>2, <3>1, EnqueueSole
    <3>3. m \notin LiveOlder(e, l) /\ m \notin Newer(l + 1)
      BY <1>2, <1>7 DEF LiveOlder, Older, Newer, Intents, n
    <3> HIDE DEF m
    <3> QED
      BY <3>2, <3>3 DEF Free
  <2> QED
    BY <1>0, <2>1, <2>2
<1> QED
  BY <1>8, <1>9, <1>10
(* The command that waits is taken out of the queue.                        *)
LEMMA DrainedHead ==
  ASSUME IInv, DrainNext, NEW G, Free(deferred, G)
  PROVE  Head(deferred) \notin G
<1>1. deferred \in Seq(DeferrableType) /\ deferred # <<>>
  BY DEF DrainNext, DrainContinues, IInv, TypeOK, FenceTypes
<1> QED
  BY <1>1, TailSole

(* A handler keeps the order of the intents.                                *)
LEMMA HandlersIntent ==
  ASSUME IInv, IInv', MutationInv, QueueInv, IntentInv, Handle
  PROVE  IntentInv'
<1>0. /\ Handlers /\ Effects /\ (OnTop("afterReset") => held = None)
      /\ UNCHANGED <<mailbox, sent, epoch>> /\ ShapeInv
  BY HandleEffects DEF Handle, hostUnchanged, hostVars, MutationInv
<1>1. epoch \in Nat /\ newest \in Nat /\ newest' \in Nat /\ sent \in Nat /\ req.epoch \in Nat
  BY ConstantsAssumption
     DEF IInv, TypeOK, HistoryTypes, HostTypes, SessionTypes, ConstantsAssumption
<1>2. PICK e \in Nat : e = epoch
  BY <1>1
<1>3. PICK k \in Nat : k = newest
  BY <1>1
<1>4. PICK l \in Nat : l = newest'
  BY <1>1
<1>5. PICK s \in Nat : s = sent
  BY <1>1
<1>6. /\ k <= s /\ Free(mailbox, Older(k)) /\ Free(mailbox, Newer(s + 1))
      /\ Free(todo, Frames(Newer(s + 1))) /\ Free(todo, Frames(LiveOlder(e, k)))
      /\ Free(deferred, LiveOlder(e, k)) /\ Free(deferred, Newer(k + 1))
  BY <1>2, <1>3, <1>5 DEF IntentInv
<1>7. \A n \in Nat : OrderedIntents(n)
  BY DEF IntentInv
<1>8. /\ k <= l /\ l <= s /\ Free(mailbox, Older(l)) /\ Free(todo', Frames(LiveOlder(e, l)))
      /\ Free(deferred', LiveOlder(e, l)) /\ Free(deferred', Newer(l + 1))
  <2>1. CASE Accepts
    BY <1>2, <1>3, <1>4, <1>5, <2>1, AcceptsIntent
  <2>2. CASE ~Accepts
    <3>1. k = l
      BY <1>0, <1>3, <1>4, <2>2, NoneAccepted
    <3> DEFINE c == [kind |-> "Repair", epoch |-> req.epoch]
               G == LiveOlder(e, k)
    <3>2. c \notin G
      <4>1. c.kind = "Repair"
        OBVIOUS
      <4> HIDE DEF c
      <4> QED
        BY <4>1 DEF LiveOlder, Older, Intents, IsSessionIntent
    <3>3. Free(todo, Frames(G)) /\ Free(deferred, G)
      BY <1>6
    <3> HIDE DEF G
    <3>4. Free(todo', Frames(G)) /\ Free(deferred', G)
      BY <1>0, <3>2, <3>3, HandlersQueue DEF c
    <3>5. Free(deferred', Newer(k + 1))
      <4>1. CASE deferred' = deferred
        BY <1>6, <4>1
      <4>2. CASE DrainNext
        <5>1. deferred \in Seq(DeferrableType) /\ deferred # <<>> /\ deferred' = Tail(deferred)
          BY <4>2 DEF DrainNext, DrainContinues, IInv, TypeOK, FenceTypes
        <5> QED
          BY <1>6, <5>1, TailSole
      <4>3. ASSUME NEW d, d.kind \in {"Repair", "Reset"}, Enqueue(d)
            PROVE  Free(deferred', Newer(k + 1))
        <5>1. d \notin Newer(k + 1)
          BY <4>3 DEF Newer, Intents, IsSessionIntent
        <5> QED
          BY <1>6, <4>3, <5>1, EnqueueFree
      <4> QED
        BY <1>0, <2>2, <4>1, <4>2, <4>3, NoneAccepted
    <3> QED
      BY <1>6, <3>1, <3>4, <3>5 DEF G
  <2> QED
    BY <2>1, <2>2
<1>9. ASSUME NEW n \in Nat
      PROVE  /\ Behind(todo', Frames(Newer(n)), Frames(Older(n)))
             /\ Free(todo, Frames(Newer(n))) =>
                  Free(todo', Frames(Newer(n))) \/ (DrainNext /\ Head(deferred) \in Newer(n))
  <2>1. \A m \in Newer(n) : m \notin Older(n)
    BY DEF Newer, Older, Intents, DeferrableType, IsSessionIntent
  <2>2. Behind(todo, Frames(Newer(n)), Frames(Older(n)))
    BY <1>7 DEF OrderedIntents
  <2> QED
    BY <1>0, <2>1, <2>2, StackOrder
<1>10. Free(todo', Frames(Newer(s + 1)))
  <2>1. s + 1 \in Nat /\ k + 1 \in Nat /\ k + 1 <= s + 1
    BY <1>6
  <2>2. Newer(s + 1) \subseteq Newer(k + 1)
    BY <2>1, IntentSets
  <2>3. DrainNext => Head(deferred) \notin Newer(s + 1)
    BY <1>6, <2>2, DrainedHead
  <2> QED
    BY <1>6, <1>9, <2>1, <2>3
<1>11. ASSUME NEW n \in Nat PROVE OrderedIntents(n)'
  <2>1. CASE Free(mailbox, Older(n))
    BY <1>0, <1>7, <1>9, <2>1 DEF OrderedIntents
  <2>2. CASE Free(todo, Frames(Newer(n))) /\ ~(DrainNext /\ Head(deferred) \in Newer(n))
    BY <1>0, <1>7, <1>9, <2>2 DEF OrderedIntents
  <2>3. CASE DrainNext /\ Head(deferred) \in Newer(n)
    <3>1. Head(deferred) \notin Newer(k + 1)
      BY <1>6, <2>3, DrainedHead
    <3>2. n <= k
      <4>1. PICK m : m = Head(deferred)
        OBVIOUS
      <4>2. m \in Intents /\ m.seq >= n /\ ~(m.seq >= k + 1)
        BY <2>3, <3>1, <4>1 DEF Newer
      <4>3. m.seq \in Nat
        BY <4>2, IntentSets
      <4> QED
        BY <4>2, <4>3
    <3>3. Older(n) \in SUBSET Older(k)
      BY <3>2, IntentSets
    <3>4. Free(mailbox, Older(n))
      BY <1>6, <3>3, FreePart
    <3> QED
      BY <1>0, <1>7, <1>9, <3>4 DEF OrderedIntents
  <2> QED
    BY <1>7, <2>1, <2>2, <2>3 DEF OrderedIntents
<1>12. sent' = s /\ epoch' = e /\ newest' = l /\ mailbox' = mailbox
  BY <1>0, <1>2, <1>4, <1>5
<1> QED
  BY <1>6, <1>8, <1>10, <1>11, <1>12 DEF IntentInv
(* What a step that neither accepts nor queues an intent has to keep.       *)
LEMMA IntentKept ==
  ASSUME IInv, IInv', MutationInv, EarlyInv, IntentInv, newest' = newest, deferred' = deferred,
         sent <= sent', \A n \in Nat : OrderedIntents(n)',
         Free(mailbox', Older(newest)), Free(mailbox', Newer(sent' + 1)),
         Free(todo', Frames(Newer(sent + 1))), Free(todo', Frames(LiveOlder(epoch, newest))),
         epoch' = epoch \/ (epoch' = epoch + 1 /\ todo' = todo)
  PROVE  IntentInv'
<1>1. /\ epoch \in Nat /\ bound \in Nat /\ newest \in Nat /\ sent \in Nat /\ sent' \in Nat
      /\ bound <= epoch
  BY ConstantsAssumption
     DEF IInv, TypeOK, HistoryTypes, HostTypes, ConstantsAssumption, MutationInv, EpochInv
<1>2. PICK e \in Nat : e = epoch
  BY <1>1
<1>3. PICK k \in Nat : k = newest
  BY <1>1
<1>4. PICK b \in Nat : b = bound /\ b <= e
  BY <1>1, <1>2
<1>5. PICK s \in Nat : s = sent
  BY <1>1
<1>6. PICK t \in Nat : t = sent' /\ s <= t
  BY <1>1, <1>5
<1>7. k <= t
  BY <1>1, <1>3, <1>5, <1>6 DEF IntentInv
<1>8. Free(todo', Frames(Newer(t + 1)))
  <2>1. Newer(t + 1) \in SUBSET Newer(s + 1)
    BY <1>6, LaterSets
  <2>2. Frames(Newer(t + 1)) \in SUBSET Frames(Newer(s + 1))
    BY <2>1, FramesPart
  <2> QED
    BY <1>5, <2>2, FreePart
<1>9. /\ Free(todo', Frames(LiveOlder(e, k))) /\ Free(deferred, LiveOlder(e, k))
      /\ Free(deferred, Newer(k + 1)) /\ Free(mailbox', Older(k))
      /\ Free(mailbox', Newer(t + 1))
  BY <1>2, <1>3, <1>6 DEF IntentInv
<1>10. CASE epoch' = epoch
  <2>1. sent' = t /\ epoch' = e /\ newest' = k /\ deferred' = deferred
    BY <1>2, <1>3, <1>6, <1>10
  <2> QED
    BY <1>7, <1>8, <1>9, <2>1 DEF IntentInv
<1>11. CASE epoch' = epoch + 1 /\ todo' = todo
  <2>1. Free(todo, Frames(Early(b))) /\ Free(deferred, Early(b))
    BY <1>4 DEF EarlyInv
  <2>2. Free(todo, Frames(LiveOlder(e + 1, k))) /\ Free(deferred, LiveOlder(e + 1, k))
    BY <1>4, <1>9, <1>11, <2>1, LaterFrames, LaterIntents
  <2>3. sent' = t /\ epoch' = e + 1 /\ newest' = k /\ deferred' = deferred /\ todo' = todo
    BY <1>2, <1>3, <1>6, <1>11
  <2> QED
    BY <1>7, <1>8, <1>9, <2>2, <2>3 DEF IntentInv
<1> QED
  BY <1>10, <1>11

(* What the steps outside the handlers send.                                *)
LEMMA QuietSends ==
  ASSUME NoReset, IInv, MutationInv,
         WorkerThread \/ TimerThread \/ Aside \/ SendStop \/ Tick
  PROVE  /\ UNCHANGED <<deferred, todo, newest>>
         /\ epoch' = epoch \/ epoch' = epoch + 1
         /\ sent <= sent'
         /\ \/ mailbox' = mailbox
            \/ \E m \in MessageType :
                 /\ mailbox' = Append(mailbox, m)
                 /\ m \in Intents => m.seq = sent' /\ sent' = sent + 1
<1>0. sent \in Nat /\ EpochInv
  BY ConstantsAssumption DEF IInv, TypeOK, HistoryTypes, ConstantsAssumption, MutationInv
<1>1. CASE TimerThread \/ Tick \/ SendStop
  <2>1. /\ newest' = newest /\ UNCHANGED <<deferred, todo, mailbox, epoch>>
        /\ sent' = sent \/ sent' = sent + 1
    BY <1>1 DEF TimerThread, workerUnchanged, Tick, HandleTick, hostUnchanged, hostVars,
       SendStop, ClientSends, fenceVars, budgetVars, machineVars
  <2> QED
    BY <1>0, <2>1
<1>2. CASE WorkerThread
  <2>1. /\ UNCHANGED <<todo, deferred, epoch, newest>>
        /\ \/ mailbox' = mailbox
           \/ \E m \in MessageType :
                mailbox' = Append(mailbox, m) /\ \E op : <<op, m.kind>> \in Reports
    BY <1>2, WorkerMoves
  <2>2. \A m : (\E op : <<op, m.kind>> \in Reports) => m \notin Intents
    BY DEF Reports, Intents, IsSessionIntent
  <2>3. sent' = sent
    BY <1>2 DEF WorkerThread, ApplyWorker, ApplyRefused, ApplyArms, ApplyAbortsAtBoundary,
       ApplyTouches, ApplyCompletes, VerifyRuns, ResetRuns, RefreshRuns, RecoveryWorker,
       RecoveryAborts, RecoveryBegins, RecoveryMarks, RecoveryCompletes, ValidationRuns,
       workerUnchanged, budgetVars
  <2>4. CASE mailbox' # mailbox
    <3>1. PICK m \in MessageType :
            mailbox' = Append(mailbox, m) /\ \E op : <<op, m.kind>> \in Reports
      BY <2>1, <2>4
    <3>2. m \notin Intents
      BY <2>2, <3>1
    <3> QED
      BY <1>0, <2>1, <2>3, <3>1, <3>2
  <2> QED
    BY <1>0, <2>1, <2>3, <2>4
<1>3. CASE Aside
  <2>1. UNCHANGED <<deferred, todo>> /\ (epoch' = epoch \/ epoch' = epoch + 1)
    BY <1>0, <1>3, AsideMoves
  <2>2. newest' = newest
    BY <1>3 DEF Aside, PipeStep, FireTicket, HeartbeatTimeout, Connect, PipeBreaks, Send,
       ClientSends, GraceElapses, WindowExpires, QuietEnds, Notify, timeUnchanged, vars
  <2>3. \A m \in Intents : IsSessionIntent(m)
    BY DEF Intents
  <2> QED
    BY <1>3, <2>1, <2>2, <2>3, AsideMessage
<1> QED
  BY <1>1, <1>2, <1>3

(* The client's next intent is newer than what waits.                       *)
LEMMA AppendIntent ==
  ASSUME IInv, IntentInv, NEW m \in MessageType, mailbox' = Append(mailbox, m), todo' = todo,
         NEW t \in Nat, sent <= t, m \in Intents => m.seq = t /\ t = sent + 1
  PROVE  /\ \A n \in Nat : OrderedIntents(n)'
         /\ Free(mailbox', Older(newest)) /\ Free(mailbox', Newer(t + 1))
<1>1. mailbox \in Seq(MessageType) /\ newest \in Nat /\ sent \in Nat
  BY ConstantsAssumption DEF IInv, TypeOK, HistoryTypes, HostTypes, ConstantsAssumption
<1>2. PICK s \in Nat : s = sent
  BY <1>1
<1>3. PICK k \in Nat : k = newest
  BY <1>1
<1>4. /\ k <= s /\ s <= t /\ Free(mailbox, Older(k)) /\ Free(mailbox, Newer(s + 1))
      /\ Free(todo, Frames(Newer(s + 1)))
  BY <1>2, <1>3 DEF IntentInv
<1>5. \A n \in Nat : m \in Newer(n) \/ m \in Older(n) => m \in Intents /\ m.seq = s + 1 /\ t = s + 1
  BY <1>2 DEF Newer, Older
<1>6. m \notin Older(k) /\ m \notin Newer(t + 1)
  <2>1. m \in Older(k) => m.seq < k
    BY DEF Older
  <2>2. m \in Newer(t + 1) => m.seq >= t + 1
    BY DEF Newer
  <2>3. t + 1 \in Nat
    OBVIOUS
  <2> QED
    BY <1>4, <1>5, <2>1, <2>2, <2>3
<1>7. Free(mailbox, Newer(t + 1))
  <2>1. s + 1 \in Nat /\ t + 1 \in Nat /\ s + 1 <= t + 1
    BY <1>4
  <2>2. Newer(t + 1) \in SUBSET Newer(s + 1)
    BY <2>1, IntentSets
  <2> QED
    BY <1>4, <2>2, FreePart
<1>8. ASSUME NEW n \in Nat PROVE OrderedIntents(n)'
  <2>1. OrderedIntents(n)
    BY DEF IntentInv
  <2>2. CASE n <= s + 1
    <3>1. m \notin Older(n)
      <4>1. m \in Older(n) => m.seq < n
        BY DEF Older
      <4> QED
        BY <1>5, <2>2, <4>1
    <3>2. Behind(mailbox', Newer(n), Older(n))
      BY <1>1, <2>1, <3>1, BehindMoves DEF OrderedIntents
    <3>3. Free(mailbox, Older(n)) => Free(mailbox', Older(n))
      BY <1>1, <3>1, AppendSole
    <3> QED
      BY <2>1, <3>2, <3>3 DEF OrderedIntents
  <2>3. CASE s + 1 <= n
    <3>1. Newer(n) \in SUBSET Newer(s + 1)
      <4>1. s + 1 \in Nat
        OBVIOUS
      <4> QED
        BY <2>3, <4>1, IntentSets
    <3>2. Free(mailbox, Newer(n)) /\ Free(todo, Frames(Newer(n)))
      <4>1. Frames(Newer(n)) \in SUBSET Frames(Newer(s + 1))
        BY <3>1, FramesPart
      <4> QED
        BY <1>4, <3>1, <4>1, FreePart
    <3>3. m \notin Older(n) \/ m \notin Newer(n)
      BY DEF Older, Newer, Intents, DeferrableType, IsSessionIntent
    <3>4. Behind(mailbox', Newer(n), Older(n))
      BY <1>1, <2>1, <3>2, <3>3, BehindMoves DEF OrderedIntents
    <3> QED
      BY <2>1, <3>2, <3>4 DEF OrderedIntents
  <2> QED
    BY <2>2, <2>3
<1> QED
  BY <1>1, <1>3, <1>4, <1>6, <1>7, <1>8, AppendSole

(* Steps outside the handlers keep the order of the intents.                *)
LEMMA QuietIntent ==
  ASSUME NoReset, IInv, IInv', MutationInv, EarlyInv, IntentInv,
         WorkerThread \/ TimerThread \/ Aside \/ Receive \/ SendStop \/ Disconnect \/ Tick
  PROVE  IntentInv'
<1>0. /\ newest \in Nat /\ sent \in Nat /\ sent' \in Nat /\ mailbox \in Seq(MessageType)
      /\ EpochInv
  BY ConstantsAssumption
     DEF IInv, TypeOK, HistoryTypes, HostTypes, ConstantsAssumption, MutationInv
<1>1. PICK k \in Nat : k = newest
  BY <1>0
<1>2. PICK s \in Nat : s = sent
  BY <1>0
<1>3. PICK t \in Nat : t = sent'
  BY <1>0
<1>4. /\ Free(mailbox, Older(k)) /\ Free(mailbox, Newer(s + 1))
      /\ Free(todo, Frames(Newer(s + 1))) /\ Free(todo, Frames(LiveOlder(epoch, newest)))
      /\ \A n \in Nat : OrderedIntents(n)
  BY <1>1, <1>2 DEF IntentInv
<1>5. ASSUME s <= t, newest' = newest, UNCHANGED <<deferred, todo>>,
             epoch' = epoch \/ epoch' = epoch + 1,
             \/ mailbox' = mailbox
             \/ \E m \in MessageType : /\ mailbox' = Append(mailbox, m)
                                       /\ m \in Intents => m.seq = t /\ t = s + 1
      PROVE  IntentInv'
  <2>1. /\ \A n \in Nat : OrderedIntents(n)'
        /\ Free(mailbox', Older(k)) /\ Free(mailbox', Newer(t + 1))
    <3>1. CASE mailbox' = mailbox
      <4>1. Newer(t + 1) \in SUBSET Newer(s + 1)
        BY <1>5, LaterSets
      <4>2. Free(mailbox, Newer(t + 1))
        BY <1>4, <4>1, FreePart
      <4> QED
        BY <1>4, <1>5, <3>1, <4>2 DEF OrderedIntents
    <3>2. CASE mailbox' # mailbox
      <4>1. PICK m \in MessageType : /\ mailbox' = Append(mailbox, m)
                                     /\ m \in Intents => m.seq = t /\ t = s + 1
        BY <1>5, <3>2
      <4>2. todo' = todo /\ sent <= t /\ (m \in Intents => m.seq = t /\ t = sent + 1)
        BY <1>2, <1>5, <4>1
      <4> QED
        BY <1>1, <4>1, <4>2, AppendIntent
    <3> QED
      BY <3>1, <3>2
  <2> QED
    BY <1>1, <1>2, <1>3, <1>4, <1>5, <2>1, IntentKept
<1>6. CASE WorkerThread \/ TimerThread \/ Aside \/ SendStop \/ Tick
  <2>1. s <= t
    BY <1>2, <1>3, <1>6, QuietSends
  <2>2. \/ mailbox' = mailbox
        \/ \E m \in MessageType : /\ mailbox' = Append(mailbox, m)
                                  /\ m \in Intents => m.seq = t /\ t = s + 1
    BY <1>2, <1>3, <1>6, QuietSends
  <2> QED
    BY <1>5, <1>6, <2>1, <2>2, QuietSends
<1>7. CASE Receive
  <2>1. /\ UNCHANGED <<deferred, epoch>>
        /\ \A G : Free(mailbox, G) => Free(mailbox', G) /\ Free(todo', Frames(G))
        /\ \A G, R : Behind(mailbox, G, R) => Behind(mailbox', G, R)
    BY <1>7, ReceiveMoves
  <2>2. UNCHANGED <<newest, sent>>
    BY <1>7 DEF Receive, budgetVars
  <2>3. ASSUME NEW n \in Nat PROVE OrderedIntents(n)'
    <3>1. Behind(mailbox, Newer(n), Older(n))
      BY <1>4 DEF OrderedIntents
    <3>2. \A m \in Intents : ~IsCompletion(m)
      BY DEF Intents, IsSessionIntent, IsCompletion
    <3>3. (\A m \in Newer(n) : ~IsCompletion(m)) /\ (\A m \in Older(n) : ~IsCompletion(m))
      BY <3>2 DEF Newer, Older
    <3>4. /\ Behind(todo', Frames(Newer(n)), Frames(Older(n)))
          /\ Free(todo', Frames(Newer(n))) \/ Free(mailbox', Older(n))
      BY <1>7, <3>1, <3>3, ReceiveOrder
    <3> QED
      BY <2>1, <3>1, <3>4 DEF OrderedIntents
  <2>4. LiveOlder(epoch, newest) \in SUBSET Older(k)
    BY <1>1 DEF LiveOlder
  <2>5. Free(todo', Frames(LiveOlder(epoch, newest)))
    BY <1>4, <2>1, <2>4, FreePart
  <2>6. /\ Free(mailbox', Older(newest)) /\ Free(mailbox', Newer(sent' + 1))
        /\ Free(todo', Frames(Newer(sent + 1)))
    BY <1>1, <1>2, <1>4, <2>1, <2>2
  <2> QED
    BY <1>0, <2>1, <2>2, <2>3, <2>5, <2>6, IntentKept
<1>8. CASE Disconnect
  <2>1. /\ UNCHANGED <<deferred, epoch>>
        /\ \A G : Free(mailbox, G) => Free(mailbox', G)
        /\ \A G, R : Behind(mailbox, G, R) => Behind(mailbox', G, R)
    BY <1>8, DisconnectMoves, RetireKeeps
  <2>2. UNCHANGED <<newest, sent>>
    BY <1>8 DEF Disconnect, DisconnectKeeps, DisconnectWaits, DisconnectChecks,
       DisconnectReverts, RetireConnection, budgetVars
  <2> DEFINE r == [kind |-> "Revert", seq |-> 0, epoch |-> 0, fromDisconnect |-> TRUE]
  <2>3. todo' = <<>> \/ todo' = <<HandleFrame(r)>>
    BY <1>8, DisconnectMoves DEF Disconnect, DisconnectKeeps, DisconnectWaits,
       DisconnectChecks, DisconnectReverts
  <2>4. r \notin Intents
    BY DEF Intents
  <2> HIDE DEF r
  <2>5. \A G \in SUBSET Intents : HandleFrame(r) \notin Frames(G)
    BY <2>4, FrameOf
  <2>6. \A G \in SUBSET Intents : Free(todo', Frames(G))
    BY <2>3, <2>5 DEF Free
  <2>7. \A n : Newer(n) \in SUBSET Intents /\ Older(n) \in SUBSET Intents
    BY DEF Newer, Older
  <2>8. ASSUME NEW n \in Nat PROVE OrderedIntents(n)'
    <3>1. Free(todo', Frames(Newer(n)))
      BY <2>6, <2>7
    <3> QED
      BY <1>4, <2>1, <3>1 DEF OrderedIntents, Behind, Free
  <2>9. Free(todo', Frames(LiveOlder(epoch, newest)))
    <3>1. LiveOlder(epoch, newest) \in SUBSET Intents
      BY DEF LiveOlder, Older
    <3> QED
      BY <2>6, <3>1
  <2>10. /\ Free(mailbox', Older(newest)) /\ Free(mailbox', Newer(sent' + 1))
         /\ Free(todo', Frames(Newer(sent + 1)))
    BY <1>1, <1>2, <1>4, <2>1, <2>2, <2>6, <2>7
  <2> QED
    BY <1>0, <2>1, <2>2, <2>8, <2>9, <2>10, IntentKept
<1> QED
  BY <1>6, <1>7, <1>8
(* Every step keeps the order of the intents.                               *)
LEMMA NextIntent ==
  ASSUME NoReset, IInv, MutationInv, QueueInv, IntentInv, [Next]_vars
  PROVE  IntentInv'
<1>1. IInv' /\ EarlyInv
  BY NextTyped DEF QueueInv
<1>2. CASE Handle
  BY <1>1, <1>2, HandlersIntent
<1>3. CASE ~Handle
  BY <1>1, <1>3, QuietIntent DEF Next, Host, Client, Environment, PipeStep, Aside
<1> QED
  BY <1>2, <1>3

(* A helper that has just started has its own REVERT at most.               *)
LEMMA InitIntent == Init => IntentInv
<1>1. SUFFICES ASSUME Init PROVE IntentInv
  OBVIOUS
<1> DEFINE r == [kind |-> "Revert", seq |-> 0, epoch |-> 0, fromDisconnect |-> FALSE]
<1>2. /\ newest = 0 /\ sent = 0 /\ deferred = <<>> /\ todo = <<>>
      /\ mailbox = <<>> \/ mailbox = <<r>>
  BY <1>1 DEF Init
<1>3. r \notin Intents
  BY DEF Intents
<1> HIDE DEF r
<1>4. ASSUME NEW G \in SUBSET Intents PROVE Free(mailbox, G)
  BY <1>2, <1>3 DEF Free
<1>5. /\ \A G : Free(todo, G) /\ Free(deferred, G)
      /\ \A n : Newer(n) \in SUBSET Intents /\ Older(n) \in SUBSET Intents
  BY <1>2, EmptyFree DEF Newer, Older
<1>6. ASSUME NEW n \in Nat PROVE OrderedIntents(n)
  <2>1. Free(mailbox, Newer(n)) /\ Free(todo, Frames(Newer(n)))
    BY <1>4, <1>5
  <2> QED
    BY <2>1 DEF OrderedIntents, Behind, Free
<1>7. newest <= sent
  BY <1>2
<1> QED
  BY <1>4, <1>5, <1>6, <1>7 DEF IntentInv

(* The client's newest word wins: no APPLY, REVERT or DISARM of a live      *)
(* connection runs after a newer one was accepted, for a helper that nobody *)
(* asks for a RESET.                                                        *)
THEOREM IntentOrderHolds ==
  ASSUME NoReset
  PROVE  Spec => []IntentOrder
<1>1. IInv /\ MutationInv /\ QueueInv /\ IntentInv => IntentOrder
  <2> SUFFICES ASSUME IInv, IntentInv, NEW c \in {"Apply", "Revert", "Disarm"},
                      Handling(c), ~StaleConnection(Msg), Msg.seq # 0
               PROVE  Msg.seq >= newest
    BY DEF IntentOrder
  <2>1. HandleOnTop /\ Msg.kind = c
    BY DEF Handling, HandleOnTop, OnTop, Msg
  <2>2. Msg \in MessageType /\ Msg \notin LiveOlder(epoch, newest)
    BY <2>1, TopAllowed DEF IntentInv
  <2>3. Msg \in Intents /\ Msg.epoch \in {0, epoch}
    BY <2>1, <2>2, MessageKinds DEF Intents, IsSessionIntent, StaleConnection, DeferrableType
  <2>4. Msg.seq \in Nat /\ newest \in Nat
    BY <2>3, IntentSets, ConstantsAssumption
       DEF IInv, TypeOK, HistoryTypes, ConstantsAssumption
  <2> QED
    BY <2>2, <2>3, <2>4 DEF LiveOlder, Older
<1> QED
  BY <1>1, InitMutation, NextMutation, InitQueue, NextQueue, InitIntent, NextIntent, SpecTyped,
     PTL DEF Spec

-----------------------------------------------------------------------------
(* An APPLY is answered once.                                               *)

\* The intent with a number, which is in one place at most while it waits, and
\* nowhere once it has been handled.
Copies(n) == {m \in Intents : m.seq = n}
Absent(n) ==
  /\ Free(mailbox, Copies(n))
  /\ Free(todo, Frames(Copies(n)))
  /\ Free(deferred, Copies(n))
Passed(n) == n <= sent /\ Absent(n)
Once(n) ==
  /\ \/ Free(mailbox, Copies(n))
     \/ Sole(mailbox, Copies(n)) /\ Free(todo, Frames(Copies(n))) /\ Free(deferred, Copies(n))
  /\ \/ Free(todo, Frames(Copies(n)))
     \/ Sole(todo, Frames(Copies(n))) /\ Free(deferred, Copies(n))

(* No handler puts into the queue what it was not given.                    *)
LEMMA DeferredFree ==
  ASSUME IInv, Effects, NEW G, Free(deferred, G), HandleOnTop => Msg \notin G,
         [kind |-> "Repair", epoch |-> req.epoch] \notin G
  PROVE  Free(deferred', G)
<1>0. deferred \in Seq(DeferrableType)
  BY DEF IInv, TypeOK, FenceTypes
<1>1. CASE Defers
  <2>1. CASE Enqueue(Msg)
    BY <1>1, <2>1, EnqueueFree DEF Defers
  <2>2. CASE Enqueue([kind |-> "Repair", epoch |-> req.epoch])
    <3> DEFINE c == [kind |-> "Repair", epoch |-> req.epoch]
    <3>1. c \notin G /\ Enqueue(c)
      BY <2>2
    <3> HIDE DEF c
    <3> QED
      BY <3>1, EnqueueFree
  <2> QED
    BY <1>1, <2>1, <2>2 DEF Defers
<1>2. CASE DrainNext
  BY <1>0, <1>2, TailSole DEF DrainNext, DrainContinues
<1>3. CASE deferred' = deferred
  BY <1>3
<1> QED
  BY <1>1, <1>2, <1>3, DeferredMoves

(* Such an intent is no completion and no repair.                           *)
LEMMA CopyKinds ==
  ASSUME NEW n
  PROVE  /\ \A m \in Copies(n) : ~IsCompletion(m)
         /\ \A e : [kind |-> "Repair", epoch |-> e] \notin Copies(n)
         /\ Copies(n) \subseteq Intents
<1>1. \A m \in Copies(n) : IsSessionIntent(m)
  BY DEF Copies, Intents
<1>2. \A m \in Copies(n) : ~IsCompletion(m)
  BY <1>1 DEF IsSessionIntent, IsCompletion
<1>3. \A e : ~IsSessionIntent([kind |-> "Repair", epoch |-> e])
  BY DEF IsSessionIntent
<1> QED
  BY <1>1, <1>2, <1>3 DEF Copies

(* A handler moves it along, if at all.                                     *)
LEMMA HandlersOnce ==
  ASSUME IInv, IInv', MutationInv, SoleInv, Handle, NEW n, Once(n)
  PROVE  Once(n)'
<1>0. /\ Handlers /\ Effects /\ (OnTop("afterReset") => held = None) /\ ShapeInv
      /\ mailbox' = mailbox
  BY HandleEffects DEF Handle, hostUnchanged, hostVars, MutationInv
<1>1. /\ deferred \in Seq(DeferrableType) /\ Len(deferred) <= 1
      /\ todo \in Seq(FrameType) /\ todo' \in Seq(FrameType) /\ todo # <<>> /\ StackMoves
  BY <1>0, HandlersTop, HandlersStack DEF IInv, TypeOK, FenceTypes, SoleInv
<1> DEFINE C == Copies(n)
           r == [kind |-> "Repair", epoch |-> req.epoch]
<1>2. r \notin C
  BY CopyKinds
<1>3. /\ Free(mailbox, C) \/ (Sole(mailbox, C) /\ Free(todo, Frames(C)) /\ Free(deferred, C))
      /\ Free(todo, Frames(C)) \/ (Sole(todo, Frames(C)) /\ Free(deferred, C))
  BY DEF Once
<1> SUFFICES
      /\ Free(mailbox, C) \/ (Sole(mailbox, C) /\ Free(todo', Frames(C)) /\ Free(deferred', C))
      /\ Free(todo', Frames(C)) \/ (Sole(todo', Frames(C)) /\ Free(deferred', C))
  BY <1>0 DEF Once
<1> HIDE DEF C
<1>4. CASE Free(todo, Frames(C)) /\ Free(deferred, C)
  BY <1>0, <1>2, <1>3, <1>4, HandlersQueue DEF r
<1>5. CASE Free(todo, Frames(C)) /\ ~Free(deferred, C)
  <2>1. Free(mailbox, C)
    BY <1>3, <1>5
  <2>2. \A m \in C : m \notin {}
    OBVIOUS
  <2>3. Behind(todo, Frames(C), Frames({}))
    BY <1>5 DEF Behind, Free
  <2>4. Free(todo', Frames(C)) \/ (DrainNext /\ Head(deferred) \in C)
    BY <1>0, <1>5, <2>2, <2>3, StackOrder
  <2>5. CASE DrainNext /\ Head(deferred) \in C
    <3>1. deferred # <<>> /\ deferred' = Tail(deferred)
      BY <2>5 DEF DrainNext, DrainContinues
    <3>2. deferred' = <<>>
      BY <1>1, <3>1
    <3>3. Free(deferred', C)
      BY <3>2, EmptyFree
    <3> DEFINE f == HandleFrame(Head(deferred))
    <3>4. todo' = <<f>> \o todo
      BY <2>5 DEF DrainNext
    <3>5. f \in Frames(C)
      BY <2>5, FrameOf
    <3> HIDE DEF f
    <3>6. Sole(todo', Frames(C))
      BY <1>1, <1>5, <3>4, <3>5 DEF Sole, Free
    <3> QED
      BY <2>1, <3>3, <3>6
  <2> QED
    BY <2>1, <2>4, <2>5
<1>6. CASE Sole(todo, Frames(C)) /\ Free(deferred, C) /\ Free(mailbox, C)
  <2>1. CASE Head(todo) \in Frames(C)
    <3>1. Head(todo).op = "handle"
      BY <2>1, FrameOf
    <3>2. ~DrainNext
      BY <3>1 DEF DrainNext, OnTop
    <3>3. CASE todo' = Tail(todo)
      BY <1>1, <1>6, <2>1, <3>3, TailSole
    <3>4. CASE Rest(todo') \/ Draining(todo')
      BY <1>1, <1>6, <3>4, RestFree
    <3> QED
      BY <1>1, <1>6, <3>2, <3>3, <3>4 DEF StackMoves
  <2>2. CASE Head(todo) \notin Frames(C)
    <3>1. HandleOnTop => Msg \notin C
      BY <2>2, HandledTop, FrameOf
    <3>2. Free(deferred', C)
      BY <1>0, <1>2, <1>6, <3>1, DeferredFree DEF r
    <3>3. CASE todo' = Tail(todo)
      BY <1>1, <1>6, <2>2, <3>2, <3>3, TailSole
    <3>4. CASE Rest(todo') \/ Draining(todo')
      BY <1>1, <1>6, <3>4, RestFree
    <3>5. ~DrainNext
      <4>1. Draining(todo) => Free(todo, Frames(C))
        BY <1>1, RestFree
      <4>2. ~Free(todo, Frames(C))
        BY <1>6 DEF Sole, Free
      <4> QED
        BY <1>0, <1>1, <4>1, <4>2, ShapeTop DEF DrainNext, OnTop
    <3> QED
      BY <1>1, <1>6, <3>2, <3>3, <3>4, <3>5 DEF StackMoves
  <2> QED
    BY <2>1, <2>2
<1>7. ~Free(todo, Frames(C)) => Free(mailbox, C)
  BY <1>3
<1> QED
  BY <1>3, <1>4, <1>5, <1>6, <1>7

(* process_queue hands it over, or leaves it where it is.                   *)
LEMMA ReceiveOnce ==
  ASSUME IInv, Receive, NEW M, \A m \in M : ~IsCompletion(m), Sole(mailbox, M)
  PROVE  \/ Sole(mailbox', M) /\ Free(todo', Frames(M))
         \/ Free(mailbox', M) /\ Sole(todo', Frames(M))
<1>1. mailbox # <<>> /\ mailbox \in Seq(MessageType)
  BY DEF IInv, TypeOK, HostTypes, Receive
<1> DEFINE m == Head(mailbox)
           rest == Tail(mailbox)
<1>2. PICK n \in 0..Len(rest) :
        /\ IsPrefixLength(n, m, rest)
        /\ todo' = [i \in 1..(n + 1) |-> HandleFrame(IF i <= n THEN rest[i] ELSE m)]
        /\ mailbox' = SubSeq(rest, n + 1, Len(rest))
  BY DEF Receive
<1>3. n # 0 => m \notin M
  BY <1>2 DEF IsPrefixLength
<1>4. /\ rest \in Seq(MessageType) /\ Len(rest) \in Nat /\ n \in Nat /\ n <= Len(rest)
      /\ DOMAIN rest = 1..Len(rest)
  BY <1>1
<1>5. /\ Sole(mailbox, M) /\ m \notin M => Sole(rest, M)
      /\ Sole(mailbox, M) /\ m \in M => Free(rest, M)
  BY <1>1, TailSole
<1> HIDE DEF m, rest
<1>6. /\ DOMAIN todo' = 1..(n + 1)
      /\ \A i \in 1..n : todo'[i] = HandleFrame(rest[i])
      /\ todo'[n + 1] = HandleFrame(m)
  BY <1>2, <1>4
<1>7. /\ \A i \in 1..n : todo'[i] \in Frames(M) <=> rest[i] \in M
      /\ todo'[n + 1] \in Frames(M) <=> m \in M
  BY <1>6, FrameOf
<1>8. /\ DOMAIN mailbox' = 1..(Len(rest) - n)
      /\ \A j \in DOMAIN mailbox' : mailbox'[j] = rest[j + n]
  BY <1>2, <1>4
<1>9. CASE m \in M
  <2>1. n = 0 /\ Free(rest, M)
    BY <1>3, <1>5, <1>9
  <2>2. Free(mailbox', M)
    BY <1>4, <1>8, <2>1 DEF Free
  <2>3. Sole(todo', Frames(M))
    BY <1>6, <1>7, <1>9, <2>1 DEF Sole
  <2> QED
    BY <2>2, <2>3
<1>10. CASE m \notin M
  <2>1. PICK p \in 1..Len(rest) : rest[p] \in M /\ \A j \in DOMAIN rest : j # p => rest[j] \notin M
    BY <1>4, <1>5, <1>10 DEF Sole
  <2>2. CASE p <= n
    <3>1. Free(mailbox', M)
      BY <1>4, <1>8, <2>1, <2>2 DEF Free
    <3>2. p \in 1..n /\ p \in DOMAIN todo' /\ todo'[p] \in Frames(M)
      BY <1>4, <1>6, <1>7, <2>1, <2>2
    <3>3. ASSUME NEW j \in DOMAIN todo', j # p PROVE todo'[j] \notin Frames(M)
      <4>1. CASE j = n + 1
        BY <1>7, <1>10, <4>1
      <4>2. CASE j # n + 1
        <5>1. j \in 1..n /\ j \in DOMAIN rest
          BY <1>4, <1>6, <4>2
        <5> QED
          BY <1>7, <2>1, <3>3, <5>1
      <4> QED
        BY <4>1, <4>2
    <3> QED
      BY <3>1, <3>2, <3>3 DEF Sole
  <2>3. CASE p > n
    <3>1. \A i \in 1..n : rest[i] \notin M
      BY <1>4, <2>1, <2>3
    <3>2. Free(todo', Frames(M))
      BY <1>4, <1>6, <1>7, <1>10, <3>1 DEF Free
    <3>3. p - n \in DOMAIN mailbox' /\ mailbox'[p - n] \in M
      BY <1>4, <1>8, <2>1, <2>3
    <3>4. ASSUME NEW j \in DOMAIN mailbox', j # p - n PROVE mailbox'[j] \notin M
      BY <1>4, <1>8, <2>1, <3>4
    <3> QED
      BY <3>2, <3>3, <3>4 DEF Sole
  <2> QED
    BY <1>4, <2>2, <2>3
<1> QED
  BY <1>9, <1>10

(* A connection that retires takes it along, or leaves it.                  *)
LEMMA RetireOnce ==
  ASSUME IInv, mailbox' \in Filtered(mailbox, NotOfRetired), NEW M, Sole(mailbox, M)
  PROVE  Sole(mailbox', M) \/ Free(mailbox', M)
<1>1. mailbox \in Seq(MessageType)
  BY DEF IInv, TypeOK, HostTypes
<1> DEFINE K == {i \in DOMAIN mailbox : NotOfRetired(mailbox[i])}
           n == Cardinality(K)
<1>2. PICK f \in [1..n -> K] :
        /\ mailbox' = [i \in 1..n |-> mailbox[f[i]]]
        /\ \A i, j \in 1..n : i < j => f[i] < f[j]
  BY DEF Filtered
<1>3. PICK p \in DOMAIN mailbox :
        mailbox[p] \in M /\ \A j \in DOMAIN mailbox : j # p => mailbox[j] \notin M
  BY DEF Sole
<1>4. K \subseteq Nat
  BY <1>1
<1>5. \A i \in 1..n : f[i] \in DOMAIN mailbox /\ f[i] \in Nat
  BY <1>2, <1>4
<1> HIDE DEF n, K
<1>6. DOMAIN mailbox' = 1..n /\ \A i \in 1..n : mailbox'[i] = mailbox[f[i]]
  BY <1>2
<1>7. ASSUME NEW i \in 1..n, NEW j \in 1..n, mailbox'[i] \in M, mailbox'[j] \in M
      PROVE  i = j
  <2>1. f[i] = p /\ f[j] = p
    BY <1>3, <1>5, <1>6, <1>7
  <2>2. ~(i < j) /\ ~(j < i)
    BY <1>2, <1>5, <2>1
  <2> QED
    BY <2>2
<1> QED
  BY <1>6, <1>7 DEF Sole, Free

(* Steps outside the handlers do not make a second copy, nor bring one back.*)
LEMMA QuietOnce ==
  ASSUME NoReset, IInv, IInv', MutationInv, IntentInv, NEW n \in Nat, Once(n),
         WorkerThread \/ TimerThread \/ Aside \/ Receive \/ SendStop \/ Disconnect \/ Tick
  PROVE  Once(n)' /\ (Passed(n) => Passed(n)')
<1>0. /\ newest \in Nat /\ sent \in Nat /\ sent' \in Nat /\ mailbox \in Seq(MessageType)
  BY ConstantsAssumption DEF IInv, TypeOK, HistoryTypes, HostTypes, ConstantsAssumption
<1>1. PICK k \in Nat : k = newest
  BY <1>0
<1>2. PICK s \in Nat : s = sent
  BY <1>0
<1>3. PICK t \in Nat : t = sent'
  BY <1>0
<1> DEFINE C == Copies(n)
<1>4. /\ \A m \in C : ~IsCompletion(m)
      /\ C \subseteq Intents
      /\ \A m \in Intents : m \in C <=> m.seq = n
  BY CopyKinds DEF Copies
<1>5. /\ Free(mailbox, C) \/ (Sole(mailbox, C) /\ Free(todo, Frames(C)) /\ Free(deferred, C))
      /\ Free(todo, Frames(C)) \/ (Sole(todo, Frames(C)) /\ Free(deferred, C))
  BY DEF Once
<1>6. Passed(n) <=> n <= s /\ Free(mailbox, C) /\ Free(todo, Frames(C)) /\ Free(deferred, C)
  BY <1>2 DEF Passed, Absent
<1>7. n = s + 1 => Free(mailbox, C) /\ Free(todo, Frames(C)) /\ Free(deferred, C)
  <2> SUFFICES ASSUME n = s + 1 PROVE Free(mailbox, C) /\ Free(todo, Frames(C)) /\ Free(deferred, C)
    OBVIOUS
  <2>1. C \in SUBSET Newer(n)
    BY <1>4 DEF Newer
  <2>2. k <= s /\ Free(mailbox, Newer(s + 1)) /\ Free(todo, Frames(Newer(s + 1)))
        /\ Free(deferred, Newer(k + 1))
    BY <1>1, <1>2 DEF IntentInv
  <2>3. Newer(s + 1) \in SUBSET Newer(k + 1)
    BY <2>2, LaterSets
  <2>4. Frames(C) \in SUBSET Frames(Newer(n))
    BY <2>1, FramesPart
  <2> QED
    BY <2>1, <2>2, <2>3, <2>4, FreePart
<1> SUFFICES
      /\ Free(mailbox', C) \/ (Sole(mailbox', C) /\ Free(todo', Frames(C)) /\ Free(deferred', C))
      /\ Free(todo', Frames(C)) \/ (Sole(todo', Frames(C)) /\ Free(deferred', C))
      /\ n <= s /\ Free(mailbox, C) /\ Free(todo, Frames(C)) /\ Free(deferred, C) =>
           n <= t /\ Free(mailbox', C) /\ Free(todo', Frames(C)) /\ Free(deferred', C)
  BY <1>3, <1>6 DEF Once, Passed, Absent
<1> HIDE DEF C
<1>8. CASE WorkerThread \/ TimerThread \/ Aside \/ SendStop \/ Tick
  <2>1. UNCHANGED <<deferred, todo>> /\ s <= t
    BY <1>2, <1>3, <1>8, QuietSends
  <2>2. CASE mailbox' = mailbox
    BY <1>5, <2>1, <2>2
  <2>3. CASE mailbox' # mailbox
    <3>1. PICK m \in MessageType : /\ mailbox' = Append(mailbox, m)
                                   /\ m \in Intents => m.seq = t /\ t = s + 1
      BY <1>2, <1>3, <1>8, <2>3, QuietSends
    <3>2. CASE m \in C
      <4>1. n = s + 1
        BY <1>4, <3>1, <3>2
      <4>2. Sole(mailbox', C)
        BY <1>0, <1>7, <3>1, <3>2, <4>1, AppendSole
      <4>3. ~(n <= s)
        BY <4>1
      <4> QED
        BY <1>7, <2>1, <4>1, <4>2, <4>3
    <3>3. CASE m \notin C
      <4>1. /\ Free(mailbox, C) => Free(mailbox', C)
            /\ Sole(mailbox, C) => Sole(mailbox', C)
        BY <1>0, <3>1, <3>3, AppendSole
      <4>2. n <= s => n <= t
        BY <2>1
      <4> QED
        BY <1>5, <2>1, <4>1, <4>2
    <3> QED
      BY <3>2, <3>3
  <2> QED
    BY <2>2, <2>3
<1>9. CASE Receive
  <2>1. /\ deferred' = deferred /\ todo = <<>>
        /\ Free(mailbox, C) => Free(mailbox', C) /\ Free(todo', Frames(C))
    BY <1>9, ReceiveMoves
  <2>2. sent' = sent
    BY <1>9 DEF Receive, budgetVars
  <2>3. Sole(mailbox, C) => \/ Sole(mailbox', C) /\ Free(todo', Frames(C))
                            \/ Free(mailbox', C) /\ Sole(todo', Frames(C))
    BY <1>4, <1>9, ReceiveOnce
  <2>4. s = t
    BY <1>2, <1>3, <2>2
  <2> QED
    BY <1>5, <2>1, <2>3, <2>4
<1>10. CASE Disconnect
  <2>1. /\ deferred' = deferred /\ todo = <<>>
        /\ mailbox' \in Filtered(mailbox, NotOfRetired)
    BY <1>10, DisconnectMoves
  <2>2. /\ Free(mailbox, C) => Free(mailbox', C)
        /\ Sole(mailbox, C) => Sole(mailbox', C) \/ Free(mailbox', C)
    BY <2>1, RetireKeeps, RetireOnce
  <2>3. sent' = sent
    BY <1>10 DEF Disconnect, DisconnectKeeps, DisconnectWaits, DisconnectChecks,
       DisconnectReverts, RetireConnection, budgetVars
  <2> DEFINE r == [kind |-> "Revert", seq |-> 0, epoch |-> 0, fromDisconnect |-> TRUE]
  <2>4. todo' = <<>> \/ todo' = <<HandleFrame(r)>>
    BY <1>10, <2>1 DEF Disconnect, DisconnectKeeps, DisconnectWaits, DisconnectChecks,
       DisconnectReverts
  <2>5. r \notin C
    <3>1. r \notin Intents
      BY DEF Intents
    <3> QED
      BY <1>4, <3>1
  <2> HIDE DEF r
  <2>6. HandleFrame(r) \notin Frames(C)
    BY <2>5, FrameOf
  <2>7. Free(todo', Frames(C))
    BY <2>4, <2>6 DEF Free
  <2>8. s = t
    BY <1>2, <1>3, <2>3
  <2> QED
    BY <1>5, <2>1, <2>2, <2>7, <2>8
<1> QED
  BY <1>8, <1>9, <1>10

(* No frame of a kind on the stack, none on top.                            *)
LEMMA FinishTop ==
  ASSUME IInv, todo # <<>>
  PROVE  /\ Free(todo, ResumeFrames) => ~OnTop("resume")
         /\ Free(todo, FinishFrames) => ~OnTop("resume") /\ ~OnTop("outcome")
<1>1. todo \in Seq(FrameType) /\ Head(todo) \in FrameType /\ Head(todo) = todo[1]
      /\ 1 \in DOMAIN todo
  BY TailType DEF IInv, TypeOK, FenceTypes
<1> QED
  BY <1>1 DEF Free, OnTop, ResumeFrames, FinishFrames

(* A handler pushes what remains of an APPLY when the APPLY completes, when a*)
(* completion was held, or from a resumed completion.                       *)
LEMMA FinishPush ==
  ASSUME IInv, Handlers, ~HandleApplyDone, OnTop("afterReset") => held = None,
         NEW G, ResumeFrames \subseteq G, G \subseteq FinishFrames,
         Free(todo, G)
  PROVE  Free(todo', G)
<1>0. todo \in Seq(FrameType) /\ todo # <<>> /\ Tail(todo) \in Seq(FrameType)
      /\ Free(Tail(todo), G)
  <2>1. todo \in Seq(FrameType) /\ todo # <<>>
    BY HandlersTop DEF IInv, TypeOK, FenceTypes
  <2> QED
    BY <2>1, TailType, TailSole
<1>1. DrainFrame \notin G /\ \A f \in G : f.op \in {"resume", "outcome"}
  BY DEF DrainFrame, FinishFrames
<1>2. CASE SimpleHandlers
  <2>1. todo' = Tail(todo) \/ todo' = <<DrainFrame>> \o Tail(todo)
    BY <1>2, SimpleReturns
  <2> QED
    BY <1>0, <1>1, <2>1, PushedOther
<1>3. CASE HandleResetDone
  <2> DEFINE f == [op |-> "afterReset"]
  <2>1. todo' = <<DrainFrame, f>> \o Tail(todo)
    BY <1>3 DEF HandleResetDone, ReturnInto
  <2>2. f \notin G
    BY <1>1
  <2> HIDE DEF f
  <2> QED
    BY <1>0, <1>1, <2>1, <2>2, PushedOther
<1>4. CASE HandleConfirmed
  <2> DEFINE f == [op |-> "afterRestore", resetFailed |-> StageOutlives(staging),
                   followup |-> HasDeferredFollowup(deferred)]
  <2>1. todo' = <<DrainFrame, f>> \o Tail(todo)
    BY <1>4 DEF HandleConfirmed, ReturnInto
  <2>2. f \notin G
    <3>1. f.op = "afterRestore"
      OBVIOUS
    <3> QED
      BY <1>1, <3>1
  <2> HIDE DEF f
  <2> QED
    BY <1>0, <1>1, <2>1, <2>2, PushedOther
<1>5. CASE DrainNext
  <2> DEFINE f == HandleFrame(Head(deferred))
  <2>1. Head(todo).op = "drain" /\ todo' = <<f>> \o todo
    BY <1>5 DEF DrainNext, OnTop
  <2>2. f \in FrameType /\ f \notin G /\ Head(todo) \notin G
    <3>1. Head(deferred) \in MessageType
      BY <1>5, TailType DEF DrainNext, DrainContinues, IInv, TypeOK, FenceTypes, MessageType
    <3>2. f.op = "handle"
      BY DEF HandleFrame
    <3> QED
      BY <1>1, <2>1, <3>1, <3>2, FrameTyped
  <2> HIDE DEF f
  <2>3. Head(todo) \in FrameType
    BY <1>0, TailType
  <2>4. todo' = <<f, Head(todo)>> \o Tail(todo)
    BY <1>0, <2>1, <2>2, <2>3, PushTwice
  <2> QED
    BY <1>0, <2>2, <2>4, PushedOther
<1>6. CASE AfterReset
  <2>1. todo' = <<ExitFrame>> \o Tail(todo)
    BY <1>6 DEF AfterReset, ExitFrame
  <2>2. ExitFrame \notin G
    BY <1>1 DEF ExitFrame
  <2> QED
    BY <1>0, <2>1, <2>2, PushedOther
<1>7. ~ResumeFinish
  <2>1. ResumeFrames \in SUBSET G
    OBVIOUS
  <2> QED
    BY <1>0, <2>1, FreePart, FinishTop DEF ResumeFinish
<1> QED
  BY <1>2, <1>3, <1>4, <1>5, <1>6, <1>7 DEF Handlers, HandleCompletion, Continue, SimpleHandlers

\* While an APPLY that completed waits to go on, nothing ends its session.
ResumeInv ==
  \/ Free(todo, ResumeFrames)
  \/ Free(deferred, LiveEnds(epoch)) /\ Free(todo, Frames(LiveEnds(epoch)))

(* The handlers keep it so.                                                 *)
LEMMA HandlersResume ==
  ASSUME IInv, IInv', MutationInv, QueueInv, ResumeInv, Handle
  PROVE  ResumeInv'
<1>0. /\ Handlers /\ Effects /\ (OnTop("afterReset") => held = None) /\ ShapeInv
      /\ epoch' = epoch
  BY HandleEffects DEF Handle, hostUnchanged, hostVars, MutationInv
<1> DEFINE E == LiveEnds(epoch)
<1>1. \A e : [kind |-> "Repair", epoch |-> e] \notin E
  BY DEF LiveEnds
<1> SUFFICES Free(todo', ResumeFrames) \/ (Free(deferred', E) /\ Free(todo', Frames(E)))
  BY <1>0 DEF ResumeInv
<1>2. CASE HandleApplyDone
  <2>1. /\ HandleOnTop /\ Msg.kind = "ApplyDone" /\ Owns("Apply", Msg) /\ Msg.gen = gen
        /\ deferred' = deferred /\ AcceptApply(Msg, lease, held, Tail(todo))
    BY <1>2 DEF HandleApplyDone, Handling, HandleOnTop, OnTop, Msg, StaleGeneration
  <2>2. worker.kind = "Apply" /\ worker.gen = gen /\ WorkerActive
    BY <2>1, NoneAssumption DEF Owns, WorkerActive, IInv, TypeOK, DispatchTypes, WorkerKinds
  <2>3. Free(deferred, E)
    BY <2>2 DEF QueueInv, WorkerInv, ApplyOutstanding
  <2>4. Tail(todo) = <<>> /\ todo # <<>>
    <3>1. todo # <<>> /\ Head(todo).op = "handle" /\ IsCompletion(Msg)
      BY <2>1 DEF HandleOnTop, OnTop, IsCompletion
    <3> QED
      BY <1>0, <3>1, ShapeTop
  <2>5. Free(todo', Frames(E))
    <3>1. Msg \in ApplyDoneType
      BY <1>2, Handled, MessageKinds DEF HandleApplyDone, IInv
    <3> DEFINE f == Finish("resume", Msg, base.flight)
               g == Finish("outcome", Msg, base.flight)
    <3>2. \/ todo' = <<DrainFrame, f>> \o Tail(todo)
          \/ todo' = <<g>> \o Tail(todo)
      <4>1. Tail(todo) \in Seq(FrameType)
        BY <2>4, TailType DEF IInv, TypeOK, FenceTypes
      <4> QED
        BY <2>1, <3>1, <4>1, AcceptReturns
    <3>3. \A h \in Frames(E) : h.op = "handle"
      BY DEF Frames, HandleFrame
    <3>4. DrainFrame.op = "drain" /\ f.op = "resume" /\ g.op = "outcome"
      BY DEF DrainFrame, Finish
    <3>5. DrainFrame \notin Frames(E) /\ f \notin Frames(E) /\ g \notin Frames(E)
      BY <3>3, <3>4
    <3> HIDE DEF f, g
    <3>6. Free(Tail(todo), Frames(E))
      BY <2>4, EmptyFree
    <3> QED
      BY <2>4, <3>2, <3>5, <3>6, PushedOther
  <2> QED
    BY <2>1, <2>3, <2>5
<1>3. CASE ~HandleApplyDone /\ Free(todo, ResumeFrames)
  <2>1. ResumeFrames \subseteq FinishFrames
    BY DEF ResumeFrames, FinishFrames
  <2>2. ~HandleApplyDone /\ Free(todo, ResumeFrames) /\ ResumeFrames \subseteq ResumeFrames
    BY <1>3
  <2> QED
    BY <1>0, <2>1, <2>2, FinishPush
<1>4. CASE Free(deferred, E) /\ Free(todo, Frames(E))
  BY <1>0, <1>1, <1>4, HandlersQueue
<1> QED
  BY <1>2, <1>3, <1>4 DEF ResumeInv

(* So do the other steps.                                                   *)
LEMMA QuietResume ==
  ASSUME NoReset, IInv, MutationInv, QueueInv, ResumeInv,
         WorkerThread \/ TimerThread \/ Aside \/ Receive \/ SendStop \/ Disconnect \/ Tick
  PROVE  ResumeInv'
<1>1. CASE WorkerThread \/ TimerThread \/ Aside \/ SendStop \/ Tick
  <2>1. UNCHANGED <<deferred, todo>> /\ (epoch' = epoch \/ epoch' = epoch + 1)
    BY <1>1, QuietSends
  <2>2. CASE epoch' = epoch
    BY <2>1, <2>2 DEF ResumeInv
  <2>3. CASE epoch' = epoch + 1
    <3>1. Free(deferred, LiveEnds(epoch)) => Free(deferred, LiveEnds(epoch + 1))
      BY LiveLater DEF MutationInv, QueueInv
    <3>2. Free(todo, Frames(LiveEnds(epoch))) => Free(todo, Frames(LiveEnds(epoch + 1)))
      <4> SUFFICES ASSUME Free(todo, Frames(LiveEnds(epoch))), NEW i \in DOMAIN todo,
                          todo[i] \in Frames(LiveEnds(epoch + 1))
                   PROVE  FALSE
        BY DEF Free
      <4>1. PICK m \in LiveEnds(epoch + 1) : todo[i] = HandleFrame(m)
        BY DEF Frames
      <4>2. m \notin LiveEnds(epoch) /\ m \notin Early(bound)
        BY <4>1, FrameOf DEF Free, QueueInv, EarlyInv
      <4>3. bound \in Nat /\ epoch \in Nat /\ bound <= epoch
        BY DEF IInv, TypeOK, HostTypes, MutationInv, EpochInv
      <4>4. m \in DeferrableType /\ m.epoch = epoch + 1
        BY <4>1, <4>2 DEF LiveEnds, Live
      <4> QED
        BY <4>2, <4>3, <4>4 DEF Early
    <3> QED
      BY <2>1, <2>3, <3>1, <3>2 DEF ResumeInv
  <2> QED
    BY <2>1, <2>2, <2>3
<1>2. \A f \in ResumeFrames : f.op = "resume"
  BY DEF ResumeFrames
<1>3. CASE Receive
  <2>1. \A f \in FrameType : f.op # "handle" => Free(todo', {f})
    BY <1>3, ReceiveMoves
  <2>2. Free(todo', ResumeFrames)
    BY <1>2, <2>1 DEF Free, ResumeFrames
  <2> QED
    BY <2>2 DEF ResumeInv
<1>4. CASE Disconnect
  <2>1. todo' = <<>> \/ \E m \in MessageType : m.kind = "Revert" /\ todo' = <<HandleFrame(m)>>
    BY <1>4, DisconnectMoves
  <2>2. \A m : HandleFrame(m) \notin ResumeFrames
    BY <1>2 DEF HandleFrame
  <2>3. Free(todo', ResumeFrames)
    BY <2>1, <2>2 DEF Free
  <2> QED
    BY <2>3 DEF ResumeInv
<1> QED
  BY <1>1, <1>3, <1>4

-----------------------------------------------------------------------------
(* After a DISARM nothing is published before the next APPLY.               *)

ClosedStates == {"Waiting", "Recovery", "RecoveryValidation", "EventLoop"}

\* No APPLY is under way, none goes on, no delayed check and no repair starts one.
Closed ==
  /\ state \in ClosedStates
  /\ ~settle.requested /\ ~settle.recent
  /\ ~ApplyOutstanding
  /\ Free(todo, FinishFrames)
  /\ Free(deferred, LiveRepairs(epoch))
  /\ Free(todo, Frames(LiveRepairs(epoch)))

\* The handlers that do nothing for a session that is over.
Sessions ==
  \/ HandleApply \/ HandleRepair \/ HandleVerifyDone \/ ApplyOutcome \/ ResumeFinish
  \/ HandleApplyDone \/ HandleCancelledApplyTouched \/ HandleCancelledApplyUntouched
  \/ HandleBaselineReturn \/ HandleSameIdentity \/ HandleIdentityQueued
  \/ HandleIdentityReplaced

(* A session that is over runs none of them but an APPLY.                   *)
LEMMA ClosedSessions ==
  ASSUME IInv, MutationInv, Closed, Sessions
  PROVE  HandleApply
<1>0. ~OnTop("resume") /\ ~OnTop("outcome")
  BY FinishTop DEF Closed, OnTop
<1>1. ~VirtualSession
  BY DEF Closed, ClosedStates, VirtualSession
<1>2. CASE HandleRepair
  <2>1. /\ HandleOnTop /\ Msg.kind = "Repair" /\ ~StaleConnection(Msg)
    BY <1>2 DEF HandleRepair, Handling, HandleOnTop, OnTop, Msg
  <2>2. Msg \in MessageType /\ Msg \notin LiveRepairs(epoch)
    BY <2>1, TopAllowed DEF Closed
  <2> QED
    BY <2>1, <2>2 DEF LiveRepairs, StaleConnection
<1>3. CASE HandleVerifyDone
  <2>1. FreshVerdict
    BY <1>3 DEF HandleVerifyDone, HandleCheckPassed, HandleCheckFailed, HandleVerified,
       HandleBaselineVerified, HandleUnverifiedDisconnected, HandleBaselineMissing,
       HandleBaselineUnrepaired, HandleUnverifiedReapply, HandleUnverified, Unverified,
       Verified, StaleGeneration, FreshVerdict, HandleOnTop, OnTop, Handling, Msg
  <2>2. state = "Verification"
    BY <2>1, VerdictAlone DEF MutationInv, CheckAlone
  <2> QED
    BY <2>2 DEF Closed, ClosedStates
<1>4. ~ApplyOutcome /\ ~ResumeFinish
  BY <1>0 DEF ApplyOutcome, OutcomeBaselineFailed, OutcomeChecked, OutcomeRepaired,
     OutcomeVerify, OutcomeHdrFallback, OutcomeFailed, OutcomeFails, ResumeFinish
<1>5. ~(HandleApplyDone \/ HandleCancelledApplyTouched \/ HandleCancelledApplyUntouched)
  <2>1. ASSUME Handling("ApplyDone"), Owns("Apply", Msg) PROVE FALSE
    <3>1. Msg.gen \in Nat
      BY <2>1, Handled, MessageKinds DEF IInv, ApplyDoneType
    <3>2. worker # None /\ worker.kind = "Apply"
      BY <2>1, <3>1, NoneAssumption DEF Owns, WorkerKinds
    <3> QED
      BY <3>2 DEF Closed, ApplyOutstanding, WorkerActive
  <2> QED
    BY <2>1 DEF HandleApplyDone, HandleCancelledApplyTouched, HandleCancelledApplyUntouched
<1>6. ~(HandleBaselineReturn \/ HandleSameIdentity \/ HandleIdentityQueued
          \/ HandleIdentityReplaced)
  BY <1>1 DEF HandleBaselineReturn, HandleSameIdentity, HandleIdentityQueued,
     HandleIdentityReplaced
<1> QED
  BY <1>2, <1>3, <1>4, <1>5, <1>6 DEF Sessions

(* The others leave it over, and publish nothing.                           *)
LEMMA ClosedStays ==
  ASSUME IInv, Handlers, ~Sessions, state \in ClosedStates, ~settle.requested,
         ~settle.recent, ~ApplyOutstanding
  PROVE  /\ state' \in ClosedStates /\ ~settle'.requested /\ ~settle'.recent
         /\ ~ApplyOutstanding' /\ replies' = replies
<1> USE DEF sessionVars, fenceVars, ClosedStates, ApplyOutstanding, WorkerActive
<1>1. /\ settle \in SettlementType
      /\ ~ResetSettlement(settle).requested /\ ~ResetSettlement(settle).recent
      /\ ~NoSettlement.requested /\ ~NoSettlement.recent
  BY DEF IInv, TypeOK, SessionTypes, ResetSettlement, NoSettlement
<1>2. CASE HandleCommand
  BY <1>1, <1>2 DEF HandleCommand, Sessions, HandleStaleCommand, HandleApplyDeferred,
     HandleRepairDropped, HandleRevertJoins, HandleRevertDeferred, RevertSettlement,
     HandleRevertPolicyOff, HandleRevertNothing, ClearRecoveryState, HandleRevert,
     StartRecovery, StartWorker, HandleDisarmIgnored, HandleDisarmDeferred, HandleDisarm,
     HandleSnapshot, HandleRefreshRejected, HandleRefresh, HandleResetDeferred, HandleReset
<1>3. CASE HandleEvent
  BY <1>3 DEF HandleEvent, Sessions, HandleEventIgnored, HandleEventInWindow,
     HandleEventReopens, StartRecovery, StartWorker
<1>4. CASE HandleRestored
  <2>1. worker = [kind |-> "Recovery", gen |-> Msg.gen]
    BY <1>4 DEF HandleRestored, Owns
  <2>2. worker'.kind = "Recovery"
    BY <1>4, <2>1 DEF HandleRestored
  <2> QED
    BY <1>4, <2>2 DEF HandleRestored
<1>5. CASE HandleRefreshDone
  BY <1>5 DEF HandleRefreshDone, SettlementOver
<1>6. CASE HandleCompletion /\ ~HandleRestored /\ ~HandleRefreshDone
  BY <1>6 DEF HandleCompletion, Sessions, HandleForeignCompletion, HandleResetFailedExit,
     HandleResetDone, HandleRefreshCancelled, HandleCancelledRecovery, HandleAttemptFailed,
     HandleCancelledValidation, HandleConfirmed
<1>7. CASE Continue
  BY <1>7 DEF Continue, Sessions, DrainNext, DrainEnds, AfterReset, ExitAfterReset, AfterRestore
<1> QED
  BY <1>2, <1>3, <1>4, <1>5, <1>6, <1>7 DEF Handlers

(* Only a display event queues a repair.                                    *)
LEMMA RepairQueued ==
  ASSUME Handlers, ~HandleIdentityQueued
  PROVE  \/ deferred' = deferred \/ DrainNext
         \/ \E c : c.kind # "Repair" /\ Enqueue(c)
<1>1. CASE \/ HandleApplyDeferred \/ HandleRevertDeferred \/ HandleDisarmDeferred
           \/ HandleResetDeferred
  <2>1. Msg.kind # "Repair" /\ Enqueue(Msg)
    BY <1>1 DEF HandleApplyDeferred, HandleRevertDeferred, HandleDisarmDeferred,
       HandleResetDeferred, Handling, Msg
  <2> QED
    BY <2>1
<1>2. CASE ~(\/ HandleApplyDeferred \/ HandleRevertDeferred \/ HandleDisarmDeferred
             \/ HandleResetDeferred)
  <2>1. CASE HandleCommand
    BY <1>2, <2>1 DEF fenceVars, HandleCommand, HandleStaleCommand, HandleApply,
       HandleRepairDropped, HandleRepair, HandleRevertJoins, HandleRevertPolicyOff,
       HandleRevertNothing, HandleRevert, HandleDisarmIgnored, HandleDisarm, HandleSnapshot,
       HandleRefreshRejected, HandleRefresh, HandleReset
  <2>2. CASE HandleEvent
    BY <2>2 DEF fenceVars, HandleEvent, HandleBaselineReturn, HandleEventIgnored,
       HandleSameIdentity, HandleIdentityReplaced, HandleEventInWindow, HandleEventReopens
  <2>3. CASE HandleCompletion \/ Continue
    <3>1. Handlers /\ ~HandleCommand /\ ~HandleEvent => (deferred' = deferred \/ DrainNext)
      BY DEF fenceVars, Handlers, HandleCompletion, Continue, HandleForeignCompletion,
         HandleApplyDone, HandleCancelledApplyTouched, HandleCancelledApplyUntouched,
         DrainEnds, ResumeFinish, AfterReset, HandleRefreshCancelled, HandleRefreshDone,
         HandleCancelledRecovery, HandleRestored, HandleAttemptFailed,
         HandleCancelledValidation, HandleConfirmed, HandleResetDone, HandleResetFailedExit,
         ExitAfterReset, AfterRestore, HandleVerifyDone, HandleCheckPassed, HandleCheckFailed,
         HandleVerified, HandleBaselineVerified, HandleUnverifiedDisconnected,
         HandleBaselineMissing, HandleBaselineUnrepaired, HandleUnverifiedReapply,
         HandleUnverified, ApplyOutcome, OutcomeBaselineFailed, OutcomeChecked,
         OutcomeRepaired, OutcomeVerify, OutcomeHdrFallback, OutcomeFailed
    <3> QED
      BY <2>1, <2>2, <3>1
  <2> QED
    BY <2>1, <2>2, <2>3 DEF Handlers
<1> QED
  BY <1>1, <1>2

(* A session that is over stays so until the next APPLY.                    *)
LEMMA HandlersClosed ==
  ASSUME IInv, IInv', MutationInv, Closed, Handle, ~HandleApply
  PROVE  Closed' /\ replies' = replies
<1>0. /\ Handlers /\ Effects /\ (OnTop("afterReset") => held = None) /\ ShapeInv
      /\ epoch' = epoch
  BY HandleEffects DEF Handle, hostUnchanged, hostVars, MutationInv
<1>1. ~Sessions
  BY ClosedSessions
<1>2. /\ state' \in ClosedStates /\ ~settle'.requested /\ ~settle'.recent
      /\ ~ApplyOutstanding' /\ replies' = replies
  BY <1>0, <1>1, ClosedStays DEF Closed
<1> DEFINE R == LiveRepairs(epoch)
<1>3. Free(deferred, R) /\ Free(todo, Frames(R)) /\ Free(todo, FinishFrames)
  BY DEF Closed
<1>4. Free(todo', FinishFrames)
  <2>1. ResumeFrames \subseteq FinishFrames /\ FinishFrames \subseteq FinishFrames
    BY DEF ResumeFrames, FinishFrames
  <2>2. ~HandleApplyDone
    BY <1>1 DEF Sessions
  <2> QED
    BY <1>0, <1>3, <2>1, <2>2, FinishPush
<1>5. Free(todo', Frames(R))
  <2>1. \A m \in R : m \notin {}
    OBVIOUS
  <2>2. Behind(todo, Frames(R), Frames({}))
    BY <1>3 DEF Behind, Free
  <2>3. Free(todo', Frames(R)) \/ (DrainNext /\ Head(deferred) \in R)
    BY <1>0, <1>3, <2>1, <2>2, StackOrder
  <2> QED
    BY <1>3, <2>3, DrainedHead
<1>6. Free(deferred', R)
  <2>1. ~HandleIdentityQueued
    BY <1>1 DEF Sessions
  <2>2. CASE deferred' = deferred
    BY <1>3, <2>2
  <2>3. CASE DrainNext
    <3>1. deferred \in Seq(DeferrableType)
      BY DEF IInv, TypeOK, FenceTypes
    <3> QED
      BY <1>3, <2>3, <3>1, TailSole DEF DrainNext, DrainContinues
  <2>4. CASE \E c : c.kind # "Repair" /\ Enqueue(c)
    <3>1. PICK c : c.kind # "Repair" /\ Enqueue(c)
      BY <2>4
    <3>2. c \notin R
      BY <3>1 DEF LiveRepairs
    <3> QED
      BY <1>3, <3>1, <3>2, EnqueueFree
  <2> QED
    BY <1>0, <2>1, <2>2, <2>3, <2>4, RepairQueued
<1> QED
  BY <1>0, <1>2, <1>4, <1>5, <1>6 DEF Closed

(* A DISARM ends the session.                                               *)
LEMMA DisarmCloses ==
  ASSUME IInv, MutationInv, QueueInv, ResumeInv, Handle, HandleDisarm
  PROVE  Closed'
<1>0. /\ ShapeInv /\ todo \in Seq(FrameType) /\ deferred \in Seq(DeferrableType)
      /\ epoch' = epoch
  BY DEF Handle, hostUnchanged, hostVars, MutationInv, IInv, TypeOK, FenceTypes
<1>1. /\ HandleOnTop /\ Msg.kind = "Disarm" /\ ~StaleConnection(Msg) /\ ~FenceUp
      /\ todo # <<>> /\ todo' = Tail(todo) /\ UNCHANGED <<worker, deferred>>
      /\ state' = "Waiting" /\ settle' = NoSettlement
  BY DEF HandleDisarm, Handling, HandleOnTop, OnTop, Msg, FenceUp, Return, ClearRecoveryState
<1>2. ~ApplyOutstanding'
  BY <1>1 DEF ApplyOutstanding, WorkerActive, FenceUp
<1>3. Free(deferred', LiveRepairs(epoch))
  <2>1. Free(deferred, Live(epoch))
    BY <1>1, QueueFree DEF MutationInv, QueueInv
  <2>2. \A m \in DeferrableType : m \in LiveRepairs(epoch) => m \in Live(epoch)
    BY DEF Live, LiveRepairs
  <2> QED
    BY <1>0, <1>1, <2>1, <2>2 DEF Free
<1>4. Batch(Tail(todo)) \/ Draining(Tail(todo))
  BY <1>0, <1>1, ShapeTop DEF HandleOnTop, OnTop
<1>5. Tail(todo) \in Seq(FrameType)
  BY <1>0, <1>1
<1>6. Free(todo', Frames(LiveRepairs(epoch)))
  <2>1. CASE Batch(Tail(todo))
    <3>1. \A f \in Frames(LiveRepairs(epoch)) : f.msg.kind = "Repair"
      BY DEF Frames, HandleFrame, LiveRepairs
    <3> QED
      BY <1>1, <2>1, <3>1 DEF Batch, Free
  <2>2. CASE Draining(Tail(todo))
    BY <1>1, <1>5, <2>2, RestFree
  <2> QED
    BY <1>4, <2>1, <2>2
<1>7. Free(todo', FinishFrames)
  <2>1. CASE Batch(Tail(todo))
    BY <1>1, <1>5, <2>1, BatchTop
  <2>2. CASE Draining(Tail(todo))
    <3>1. Msg \in LiveEnds(epoch)
      <4>1. Msg \in MessageType
        BY <1>1, HandledTop
      <4> QED
        BY <1>1, <4>1, MessageKinds DEF LiveEnds, Live, StaleConnection, DeferrableType
    <3>2. ~Free(todo, Frames(LiveEnds(epoch)))
      BY <1>1, <3>1, TopAllowed
    <3>3. Free(Tail(todo), ResumeFrames)
      BY <1>0, <1>1, <3>2, TailSole DEF ResumeInv
    <3>4. Free(Tail(todo), {f \in FrameType : f.op = "outcome"})
      <4> DEFINE q == Tail(todo)
                 O == {f \in FrameType : f.op = "outcome"}
      <4> HIDE DEF q
      <4>1. q \in Seq(FrameType) /\ q # <<>> /\ Head(q).op = "drain" /\ Rest(Tail(q))
            /\ (Tail(q) # <<>> => Head(Tail(q)).op # "outcome")
        BY <1>5, <2>2 DEF Draining, DrainFrame, q
      <4>2. Free(Tail(q), O)
        <5> DEFINE t == Tail(q)
        <5>1. t \in Seq(FrameType) /\ (t # <<>> => Tail(t) = <<>> /\ Head(t) \notin O)
          BY <4>1 DEF Rest
        <5> HIDE DEF t
        <5>2. t # <<>> => t = <<Head(t)>>
          BY <5>1, OnlyOne
        <5>3. Free(t, O)
          BY <5>1, <5>2 DEF Free
        <5> QED
          BY <5>3 DEF t
      <4>3. \A k \in DOMAIN q : k = 1 \/ (k - 1 \in DOMAIN Tail(q) /\ q[k] = Tail(q)[k - 1])
        BY <4>1
      <4>4. q[1] \notin O
        BY <4>1
      <4>5. Free(q, O)
        BY <4>2, <4>3, <4>4 DEF Free
      <4> QED
        BY <4>5 DEF q
    <3> QED
      BY <1>1, <3>3, <3>4 DEF Free, FinishFrames, ResumeFrames
  <2> QED
    BY <1>4, <2>1, <2>2
<1> QED
  BY <1>0, <1>1, <1>2, <1>3, <1>6, <1>7 DEF Closed, ClosedStates, NoSettlement

(* Outside the handlers nothing wakes it.                                   *)
LEMMA QuietClosed ==
  ASSUME NoReset, IInv, MutationInv, QueueInv, Closed,
         WorkerThread \/ TimerThread \/ Aside \/ Receive \/ SendStop \/ Disconnect \/ Tick
  PROVE  Closed'
<1>0. /\ EpochInv /\ PendingInv /\ epoch \in Nat /\ epoch' \in Nat
      /\ Free(deferred, LiveRepairs(epoch)) /\ Free(todo, Frames(LiveRepairs(epoch)))
      /\ Free(todo, FinishFrames)
      /\ state \in ClosedStates /\ ~settle.requested /\ ~settle.recent /\ ~ApplyOutstanding
  <2>1. epoch \in Nat /\ epoch + 1 \in Nat
    BY DEF IInv, TypeOK, HostTypes
  <2>2. epoch' = epoch \/ epoch' = epoch + 1
    <3>1. CASE Receive
      BY <3>1, ReceiveMoves
    <3>2. CASE Disconnect
      BY <3>2, DisconnectMoves
    <3> QED
      BY <3>1, <3>2, QuietSends
  <2> QED
    BY <2>1, <2>2 DEF MutationInv, Closed
<1>1. CASE WorkerThread \/ TimerThread \/ Aside \/ SendStop \/ Tick
  <2>1. UNCHANGED <<deferred, todo>> /\ (epoch' = epoch \/ epoch' = epoch + 1)
    BY <1>1, QuietSends
  <2>2. Free(deferred', LiveRepairs(epoch')) /\ Free(todo', Frames(LiveRepairs(epoch')))
    <3>1. CASE epoch' = epoch
      BY <1>0, <2>1, <3>1
    <3>2. CASE epoch' = epoch + 1
      <4>1. req.epoch < epoch + 1 /\ epoch + 1 \in Nat
        BY <1>0 DEF EpochInv, IInv, TypeOK, HostTypes, SessionTypes
      <4>2. Free(deferred, LiveRepairs(epoch + 1)) /\ Free(todo, Frames(LiveRepairs(epoch + 1)))
        BY <1>0, <4>1, DeadLater
      <4> QED
        BY <2>1, <3>2, <4>2
    <3> QED
      BY <2>1, <3>1, <3>2
  <2>3. /\ state' \in ClosedStates /\ ~settle'.requested /\ ~settle'.recent
        /\ ~ApplyOutstanding'
    <3>1. CASE WorkerThread
      BY <1>0, <3>1, WorkerMoves DEF ApplyOutstanding, WorkerActive
    <3>2. CASE TimerThread
      BY <1>0, <3>2 DEF TimerThread, workerUnchanged, sessionVars, fenceVars,
         ApplyOutstanding, WorkerActive
    <3>3. CASE SendStop
      BY <1>0, <3>3 DEF SendStop, ClientSends, sessionVars, fenceVars, ApplyOutstanding,
         WorkerActive
    <3>4. CASE Tick
      BY <1>0, <3>4 DEF Tick, HandleTick, StartRecovery, StartWorker, ApplyOutstanding,
         ClosedStates
    <3>5. CASE Aside
      <4>1. state' = state /\ worker' = worker /\ settle'.requested = settle.requested
        BY <1>0, <3>5, AsideMoves
      <4>2. settle' = settle \/ settle' = [settle EXCEPT !.recent = FALSE]
        BY <3>5 DEF Aside, PipeStep, FireTicket, HeartbeatTimeout, Connect, PipeBreaks, Send,
           ClientSends, GraceElapses, WindowExpires, QuietEnds, Notify, timeUnchanged,
           sessionVars, vars
      <4>3. ~settle'.recent
        BY <1>0, <4>2 DEF IInv, TypeOK, SessionTypes, SettlementType
      <4> QED
        BY <1>0, <4>1, <4>3 DEF ApplyOutstanding, WorkerActive
    <3> QED
      BY <1>1, <3>1, <3>2, <3>3, <3>4, <3>5
  <2>4. PICK e \in Nat : e = epoch'
    BY <1>0
  <2> QED
    BY <1>0, <2>1, <2>2, <2>3, <2>4 DEF Closed
<1>2. CASE Receive \/ Disconnect
  <2>1. UNCHANGED <<deferred, worker, epoch>>
    BY <1>2, ReceiveMoves, DisconnectMoves
  <2>2. UNCHANGED <<state, settle>>
    BY <1>0, <1>2 DEF Receive, sessionVars, Disconnect, DisconnectKeeps, DisconnectWaits,
       DisconnectChecks, DisconnectReverts, MayDefer
  <2>3. Batch(todo')
    <3>1. CASE Receive
      <4>1. {m \in MessageType : m.kind = "Repair"} \in SUBSET Unsent(bound)
        BY DEF Unsent
      <4> QED
        BY <1>0, <3>1, <4>1, FreePart, ReceiveMoves DEF PendingInv
    <3>2. CASE Disconnect
      <4>1. CASE todo' = <<>>
        BY <4>1 DEF Batch
      <4>2. ASSUME NEW m \in MessageType, m.kind = "Revert", todo' = <<HandleFrame(m)>>
            PROVE  Batch(todo')
        <5> DEFINE f == HandleFrame(m)
        <5>1. f.op = "handle" /\ f.msg.kind # "Repair" /\ todo' = <<f>>
          BY <4>2 DEF HandleFrame
        <5> HIDE DEF f
        <5> QED
          BY <5>1 DEF Batch
      <4> QED
        BY <3>2, <4>1, <4>2, DisconnectMoves
    <3> QED
      BY <1>2, <3>1, <3>2
  <2>4. Free(todo', Frames(LiveRepairs(epoch)))
    <3>1. \A f \in Frames(LiveRepairs(epoch)) : f.msg.kind = "Repair"
      BY DEF Frames, HandleFrame, LiveRepairs
    <3> QED
      BY <2>3, <3>1 DEF Batch, Free
  <2>5. Free(todo', FinishFrames)
    BY <2>3 DEF Batch, Free, FinishFrames
  <2> QED
    BY <1>0, <2>1, <2>2, <2>4, <2>5 DEF Closed, ApplyOutstanding, WorkerActive
<1> QED
  BY <1>1, <1>2

-----------------------------------------------------------------------------
(* The results published for an APPLY.                                      *)

Unanswered == [apply |-> 0, verify |-> 0]

Latched == sess.applySent /\ sess.verifySent

OnceInv ==
  /\ \A n \in Nat : Once(n)
  /\ req.seq # 0 => Passed(req.seq)
  /\ \A c \in DOMAIN replies : replies[c] # Unanswered => Passed(c)
  /\ req.seq \in DOMAIN replies => replies[req.seq] = Unanswered \/ Latched \/ Closed
  /\ AnsweredOnce

(* The numbers of the APPLYs that are answered.                             *)
LEMMA ReplyNumbers ==
  ASSUME IInv
  PROVE  DOMAIN replies \subseteq Nat \ {0}
BY ConstantsAssumption DEF IInv, TypeOK, HistoryTypes, ConstantsAssumption

(* What has been handled does not come back.                                *)
LEMMA HandlersPassed ==
  ASSUME IInv, IInv', MutationInv, Handle, NEW n, Passed(n)
  PROVE  Passed(n)'
<1>0. /\ Effects /\ (OnTop("afterReset") => held = None) /\ ShapeInv
      /\ UNCHANGED <<mailbox, sent>>
  BY HandleEffects DEF Handle, hostUnchanged, hostVars, MutationInv
<1>1. [kind |-> "Repair", epoch |-> req.epoch] \notin Copies(n)
  BY CopyKinds
<1>2. Free(mailbox, Copies(n)) /\ Free(todo, Frames(Copies(n))) /\ Free(deferred, Copies(n))
  BY DEF Passed, Absent
<1>3. Free(todo', Frames(Copies(n))) /\ Free(deferred', Copies(n))
  BY <1>0, <1>1, <1>2, HandlersQueue
<1> QED
  BY <1>0, <1>2, <1>3 DEF Passed, Absent

(* Publishing answers the current APPLY, at most once each way.             *)
LEMMA PublishOnce ==
  ASSUME IInv, Publish(sess)
  PROVE  /\ DOMAIN replies' = DOMAIN replies
         /\ \A c \in DOMAIN replies : c # req.seq => replies'[c] = replies[c]
         /\ req.seq \notin DOMAIN replies \/ Latched => replies' = replies
         /\ req.seq \in DOMAIN replies /\ replies[req.seq] = Unanswered =>
              replies'[req.seq].apply <= 1 /\ replies'[req.seq].verify <= 1
<1> DEFINE n == req.seq
           R == [apply : 0..2, verify : 0..2]
           a == IF sess.applySent THEN replies[n].apply ELSE Capped(replies[n].apply)
           v == IF sess.verifySent THEN replies[n].verify ELSE Capped(replies[n].verify)
<1>1. replies \in [1..MaxSends -> R] /\ DOMAIN replies = 1..MaxSends
  BY DEF IInv, TypeOK, HistoryTypes
<1>2. CASE n \notin DOMAIN replies
  <2>1. replies' = replies
    BY <1>1, <1>2 DEF Publish
  <2> QED
    BY <1>2, <2>1
<1>3. CASE n \in DOMAIN replies
  <2>1. replies[n] \in R
    BY <1>1, <1>3
  <2>2. replies' = [replies EXCEPT ![n].apply = a, ![n].verify = v]
    BY <1>3 DEF Publish
  <2>3. Latched => a = replies[n].apply /\ v = replies[n].verify
    BY DEF Latched
  <2>4. replies[n] = Unanswered => a \in 0..1 /\ v \in 0..1
    BY DEF Capped, Unanswered
  <2> HIDE DEF n, R, a, v
  <2>5. /\ DOMAIN replies' = DOMAIN replies
        /\ \A c \in DOMAIN replies : c # n => replies'[c] = replies[c]
        /\ replies'[n] = [replies[n] EXCEPT !.apply = a, !.verify = v]
    BY <1>1, <1>3, <2>2
  <2>6. replies'[n] = [apply |-> a, verify |-> v]
    BY <2>1, <2>5 DEF R
  <2>7. Latched => replies' = replies
    <3> SUFFICES ASSUME Latched PROVE replies' = replies
      OBVIOUS
    <3>1. replies'[n] = replies[n]
      BY <2>1, <2>3, <2>6 DEF R
    <3>2. \A c \in DOMAIN replies : replies'[c] = replies[c]
      BY <2>5, <3>1
    <3> DEFINE r == replies
               t == replies'
    <3>3. r = [c \in DOMAIN r |-> r[c]] /\ t = [c \in DOMAIN t |-> t[c]]
      BY <1>1, <2>2
    <3> QED
      BY <2>5, <3>2, <3>3
  <2>8. n = req.seq
    BY DEF n
  <2>9. replies[n] = Unanswered => replies'[n].apply <= 1 /\ replies'[n].verify <= 1
    BY <2>4, <2>6
  <2> QED
    BY <1>3, <2>5, <2>7, <2>8, <2>9
<1> QED
  BY <1>2, <1>3

(* A step that answers publishes the session's results, and latches them.   *)
LEMMA AnswerLatched ==
  ASSUME IInv, OutcomeFailed \/ HandleVerified \/ HandleUnverified, replies' # replies
  PROVE  Publish(sess) /\ Latched' /\ Sessions /\ ~HandleApply /\ ~HandleDisarm
<1>1. sess \in SessionType
  BY DEF IInv, TypeOK, SessionTypes
<1>2. /\ Publish(sess)
      /\ sess' = Published(sess) \/ sess' = [Published(sess) EXCEPT !.verified = TRUE]
  BY DEF OutcomeFailed, HandleVerified, HandleUnverified
<1>3. Latched'
  BY <1>1, <1>2 DEF Latched, Published, SessionType
<1>4. Sessions
  BY DEF Sessions, HandleVerifyDone, ApplyOutcome
<1>5. ~HandleApply /\ ~HandleDisarm
  BY DEF HandleApply, HandleDisarm
<1> QED
  BY <1>2, <1>3, <1>4, <1>5

(* The latches are released by an APPLY or a DISARM only.                   *)
LEMMA LatchedStays ==
  ASSUME IInv, Handlers, ~HandleApply, ~HandleDisarm, Latched
  PROVE  Latched'
<1> USE DEF Latched, sessionVars
<1>0. sess \in SessionType
  BY DEF IInv, TypeOK, SessionTypes
<1> USE DEF SessionType
<1>1. CASE HandleCommand
  BY <1>0, <1>1 DEF HandleCommand, HandleStaleCommand, HandleApplyDeferred,
     HandleRepairDropped, HandleRepair, HandleRevertJoins, HandleRevertDeferred,
     HandleRevertPolicyOff, HandleRevertNothing, HandleRevert, HandleDisarmIgnored,
     HandleDisarmDeferred, HandleSnapshot, HandleRefreshRejected, HandleRefresh,
     HandleResetDeferred, HandleReset
<1>2. CASE HandleEvent
  BY <1>0, <1>2 DEF HandleEvent, HandleBaselineReturn, HandleEventIgnored,
     HandleSameIdentity, HandleIdentityQueued, HandleIdentityReplaced,
     HandleEventInWindow, HandleEventReopens
<1>3. CASE HandleVerifyDone
  BY <1>0, <1>3 DEF HandleVerifyDone, HandleCheckPassed, HandleCheckFailed, HandleVerified,
     HandleBaselineVerified, HandleUnverifiedDisconnected, HandleBaselineMissing,
     HandleBaselineUnrepaired, HandleUnverifiedReapply, HandleUnverified, Published
<1>4. CASE ApplyOutcome
  BY <1>0, <1>4 DEF ApplyOutcome, OutcomeBaselineFailed, OutcomeChecked, OutcomeRepaired,
     OutcomeVerify, OutcomeHdrFallback, OutcomeFailed, Published
<1>5. CASE (HandleCompletion \/ Continue) /\ ~HandleVerifyDone /\ ~ApplyOutcome
  BY <1>0, <1>5 DEF HandleCompletion, Continue, HandleForeignCompletion,
     HandleApplyDone, HandleCancelledApplyTouched, HandleCancelledApplyUntouched,
     DrainNext, DrainEnds, ResumeFinish, AfterReset, HandleRefreshCancelled,
     HandleRefreshDone, HandleCancelledRecovery, HandleRestored, HandleAttemptFailed,
     HandleCancelledValidation, HandleConfirmed, HandleResetDone, HandleResetFailedExit,
     ExitAfterReset, AfterRestore
<1> QED
  BY <1>1, <1>2, <1>3, <1>4, <1>5 DEF Handlers

(* An APPLY that starts has not been answered, and does not start again.    *)
LEMMA ApplyStarts ==
  ASSUME IInv, IInv', MutationInv, IntentInv, OnceInv, Handle, HandleApply
  PROVE  /\ req'.seq # 0 => Passed(req.seq)'
         /\ replies' = replies
         /\ req'.seq \in DOMAIN replies => replies[req'.seq] = Unanswered
<1>1. /\ HandleOnTop /\ Msg.kind = "Apply" /\ replies' = replies /\ todo' = Tail(todo)
      /\ UNCHANGED <<deferred, mailbox, sent>> /\ req'.seq = Msg.seq /\ todo # <<>>
  BY DEF HandleApply, Handling, HandleOnTop, OnTop, Msg, Return, Handle, hostUnchanged, hostVars
<1>2. /\ Msg \in MessageType /\ Head(todo) = HandleFrame(Msg)
      /\ Msg \in DeferrableType /\ Msg.seq \in Nat
  <2>1. Msg \in MessageType /\ Head(todo) = HandleFrame(Msg)
    BY <1>1, HandledTop
  <2> QED
    BY <1>1, <2>1, MessageKinds DEF DeferrableType
<1>3. PICK n \in Nat : n = Msg.seq
  BY <1>2
<1>4. ASSUME n # 0 PROVE Msg \in Copies(n) /\ Msg \in Intents
  BY <1>1, <1>2, <1>3, <1>4 DEF Copies, Intents, IsSessionIntent
<1>5. ASSUME n # 0 PROVE ~Free(todo, Frames(Copies(n)))
  BY <1>1, <1>2, <1>4, <1>5, TopAllowed
<1>6. ASSUME n # 0 PROVE Passed(n)'
  <2> DEFINE C == Copies(n)
  <2>1. Sole(todo, Frames(C)) /\ Free(deferred, C) /\ Free(mailbox, C)
    BY <1>3, <1>5, <1>6 DEF OnceInv, Once
  <2>2. Head(todo) \in Frames(C)
    BY <1>2, <1>4, <1>6, FrameOf
  <2>3. todo \in Seq(FrameType)
    BY DEF IInv, TypeOK, FenceTypes
  <2>4. Free(Tail(todo), Frames(C))
    BY <1>1, <2>1, <2>2, <2>3, TailSole
  <2>5. n <= sent
    <3>1. PICK s \in Nat : s = sent
      BY ConstantsAssumption DEF IInv, TypeOK, HistoryTypes, ConstantsAssumption
    <3>2. Msg \notin Newer(s + 1)
      BY <1>1, <3>1, TopAllowed DEF IntentInv
    <3>3. ~(n >= s + 1)
      BY <1>3, <1>4, <1>6, <3>2 DEF Newer
    <3> QED
      BY <3>1, <3>3
  <2> QED
    BY <1>1, <2>1, <2>4, <2>5 DEF Passed, Absent
<1>7. req'.seq # 0 => Passed(req.seq)'
  BY <1>1, <1>3, <1>6 DEF Passed, Absent, Copies
<1>8. req'.seq \in DOMAIN replies => replies[req'.seq] = Unanswered
  <2> SUFFICES ASSUME req'.seq \in DOMAIN replies, replies[req'.seq] # Unanswered PROVE FALSE
    OBVIOUS
  <2>1. n # 0 /\ n \in DOMAIN replies /\ replies[n] # Unanswered
    BY <1>1, <1>3, ReplyNumbers
  <2>2. Free(todo, Frames(Copies(n)))
    BY <2>1 DEF OnceInv, Passed, Absent
  <2> QED
    BY <1>5, <2>1, <2>2
<1> QED
  BY <1>1, <1>7, <1>8

(* The handlers.                                                            *)
LEMMA HandlersOnceInv ==
  ASSUME IInv, IInv', MutationInv, QueueInv, IntentInv, ResumeInv, OnceInv, Handle
  PROVE  OnceInv'
<1>0. /\ Handlers /\ DOMAIN replies' = DOMAIN replies /\ DOMAIN replies \subseteq Nat \ {0}
  <2>1. DOMAIN replies' = DOMAIN replies
    BY DEF IInv, TypeOK, HistoryTypes
  <2> QED
    BY <2>1, ReplyNumbers DEF Handle
<1>1. ASSUME NEW n \in Nat PROVE Once(n)'
  BY HandlersOnce DEF OnceInv, QueueInv
<1>2. ASSUME NEW n \in Nat, Passed(n) PROVE Passed(n)'
  BY <1>2, HandlersPassed
<1>3. CASE HandleApply
  <2>1. /\ req'.seq # 0 => Passed(req.seq)'
        /\ replies' = replies
        /\ req'.seq \in DOMAIN replies => replies[req'.seq] = Unanswered
    BY <1>3, ApplyStarts
  <2>2. \A c \in DOMAIN replies' : replies'[c] # Unanswered => Passed(c)'
    BY <1>0, <1>2, <2>1 DEF OnceInv
  <2>3. AnsweredOnce'
    BY <2>1 DEF OnceInv, AnsweredOnce
  <2>4. Unanswered' = Unanswered
    BY DEF Unanswered
  <2> QED
    BY <1>1, <2>1, <2>2, <2>3, <2>4 DEF OnceInv
<1>4. CASE ~HandleApply
  <2>1. req'.seq = req.seq /\ req.seq \in Nat
    BY <1>0, <1>4, RequestKept DEF IInv, TypeOK, SessionTypes
  <2>2. PICK n \in Nat : n = req.seq
    BY <2>1
  <2>3. n # 0 => Passed(n) /\ Passed(n)'
    BY <1>2, <2>2 DEF OnceInv
  <2>4. req'.seq # 0 => Passed(req.seq)'
    BY <2>1, <2>2, <2>3 DEF Passed, Absent, Copies
  <2>5. Unanswered' = Unanswered
    BY DEF Unanswered
  <2>6. CASE replies' = replies
    <3>1. \A c \in DOMAIN replies' : replies'[c] # Unanswered => Passed(c)'
      BY <1>0, <1>2, <2>6 DEF OnceInv
    <3>2. AnsweredOnce'
      BY <2>6 DEF OnceInv, AnsweredOnce
    <3>3. req.seq \in DOMAIN replies => replies[req.seq] = Unanswered \/ Latched' \/ Closed'
      <4>1. Closed => Closed'
        BY <1>4, HandlersClosed
      <4>2. HandleDisarm => Closed'
        BY DisarmCloses
      <4>3. Latched => Latched' \/ HandleDisarm
        BY <1>0, <1>4, LatchedStays
      <4> QED
        BY <4>1, <4>2, <4>3 DEF OnceInv
    <3> QED
      BY <1>1, <2>1, <2>4, <2>5, <2>6, <3>1, <3>2, <3>3 DEF OnceInv
  <2>7. CASE replies' # replies
    <3>1. OutcomeFailed \/ HandleVerified \/ HandleUnverified
      BY <2>7, RepliesMove DEF Next, Host
    <3>2. Publish(sess) /\ Latched' /\ Sessions
      BY <2>7, <3>1, AnswerLatched
    <3>3. ~Closed
      BY <1>4, <3>2, ClosedSessions
    <3>4. /\ \A c \in DOMAIN replies : c # n => replies'[c] = replies[c]
          /\ n \in DOMAIN replies /\ ~Latched
          /\ replies[n] = Unanswered => replies'[n].apply <= 1 /\ replies'[n].verify <= 1
      BY <2>2, <2>7, <3>2, PublishOnce
    <3>5. replies[n] = Unanswered
      BY <2>2, <3>3, <3>4 DEF OnceInv
    <3>6. \A c \in DOMAIN replies' : replies'[c] # Unanswered => Passed(c)'
      <4> SUFFICES ASSUME NEW c \in DOMAIN replies, replies'[c] # Unanswered PROVE Passed(c)'
        BY <1>0
      <4>1. c \in Nat /\ c # 0
        BY <1>0
      <4>2. CASE c = n
        BY <2>3, <4>1, <4>2
      <4>3. CASE c # n
        BY <1>2, <3>4, <4>1, <4>3 DEF OnceInv
      <4> QED
        BY <4>2, <4>3
    <3>7. AnsweredOnce'
      <4>1. ASSUME NEW c \in DOMAIN replies PROVE replies'[c].apply <= 1 /\ replies'[c].verify <= 1
        BY <3>4, <3>5 DEF OnceInv, AnsweredOnce
      <4> QED
        BY <1>0, <4>1 DEF AnsweredOnce
    <3> QED
      BY <1>1, <2>4, <2>5, <3>2, <3>6, <3>7 DEF OnceInv
  <2> QED
    BY <2>6, <2>7
<1> QED
  BY <1>3, <1>4

(* Outside the handlers the request and the latches stay.                   *)
LEMMA QuietSession ==
  ASSUME IInv, EpochInv, NoReset,
         WorkerThread \/ TimerThread \/ Aside \/ Receive \/ SendStop \/ Disconnect \/ Tick
  PROVE  /\ req' = req
         /\ sess'.applySent = sess.applySent /\ sess'.verifySent = sess.verifySent
<1>0. sess \in SessionType
  BY DEF IInv, TypeOK, SessionTypes
<1>1. CASE WorkerThread
  BY <1>1, WorkerMoves
<1>2. CASE TimerThread \/ Receive \/ SendStop \/ Tick
  BY <1>2 DEF TimerThread, workerUnchanged, sessionVars, Receive, SendStop, ClientSends, Tick,
     HandleTick
<1>3. CASE Aside
  BY <1>3 DEF Aside, PipeStep, FireTicket, HeartbeatTimeout, Connect, PipeBreaks, Send,
     ClientSends, GraceElapses, WindowExpires, QuietEnds, Notify, timeUnchanged, sessionVars,
     vars
<1>4. CASE Disconnect
  BY <1>0, <1>4 DEF Disconnect, DisconnectKeeps, DisconnectWaits, DisconnectChecks,
     DisconnectReverts, RetireConnection, Prepared, SessionType
<1> QED
  BY <1>1, <1>2, <1>3, <1>4

(* The invariants of the answers are inductive.                             *)
LEMMA NextOnce ==
  ASSUME NoReset, IInv, MutationInv, QueueInv, IntentInv, ResumeInv, OnceInv, [Next]_vars
  PROVE  (ResumeInv /\ OnceInv)'
<1>0. IInv'
  BY NextTyped
<1>1. CASE Handle
  BY <1>0, <1>1, HandlersResume, HandlersOnceInv
<1>2. CASE ~Handle
  <2>1. WorkerThread \/ TimerThread \/ Aside \/ Receive \/ SendStop \/ Disconnect \/ Tick
    BY <1>2 DEF Next, Host, Client, Environment, PipeStep, Aside
  <2>2. ResumeInv'
    BY <2>1, QuietResume
  <2>3. replies' = replies
    BY <1>2, RepliesMove
  <2>4. /\ req' = req
        /\ sess'.applySent = sess.applySent /\ sess'.verifySent = sess.verifySent
    BY <2>1, QuietSession DEF MutationInv
  <2>5. ASSUME NEW n \in Nat PROVE Once(n)' /\ (Passed(n) => Passed(n)')
    BY <1>0, <2>1, QuietOnce DEF OnceInv
  <2>6. DOMAIN replies \subseteq Nat
    BY ReplyNumbers
  <2>7. \A c \in DOMAIN replies' : replies'[c] # Unanswered => Passed(c)'
    BY <2>3, <2>5, <2>6 DEF OnceInv
  <2>8. req'.seq # 0 => Passed(req.seq)'
    <3>1. PICK n \in Nat : n = req.seq
      BY DEF IInv, TypeOK, SessionTypes
    <3>2. n # 0 => Passed(n)'
      BY <2>5, <3>1 DEF OnceInv
    <3> QED
      BY <2>4, <3>1, <3>2 DEF Passed, Absent, Copies
  <2>9. Closed => Closed'
    BY <2>1, QuietClosed
  <2>10. Latched => Latched'
    BY <2>4 DEF Latched
  <2>11. AnsweredOnce' /\ Unanswered' = Unanswered
    BY <2>3 DEF OnceInv, AnsweredOnce, Unanswered
  <2> QED
    BY <2>2, <2>3, <2>4, <2>5, <2>7, <2>8, <2>9, <2>10, <2>11 DEF OnceInv
<1> QED
  BY <1>1, <1>2

(* They hold at the start: nothing was sent or answered.                    *)
LEMMA InitOnce == Init => ResumeInv /\ OnceInv
<1> SUFFICES ASSUME Init PROVE ResumeInv /\ OnceInv
  OBVIOUS
<1> DEFINE r == [kind |-> "Revert", seq |-> 0, epoch |-> 0, fromDisconnect |-> FALSE]
<1>1. /\ deferred = <<>> /\ todo = <<>> /\ req.seq = 0
      /\ mailbox = <<>> \/ mailbox = <<r>>
      /\ replies = [c \in 1..MaxSends |-> Unanswered]
  BY DEF Init, NoRequest, Unanswered
<1>2. ASSUME NEW n \in Nat PROVE Once(n)
  <2>1. r \notin Intents
    BY DEF Intents
  <2> HIDE DEF r
  <2>2. r \notin Copies(n)
    BY <2>1, CopyKinds
  <2>3. Free(mailbox, Copies(n))
    BY <1>1, <2>2 DEF Free
  <2> QED
    BY <1>1, <2>3, EmptyFree DEF Once
<1>3. \A c \in DOMAIN replies : replies[c] = Unanswered /\ c # 0
  BY <1>1, ConstantsAssumption DEF ConstantsAssumption
<1>4. AnsweredOnce
  BY <1>3 DEF AnsweredOnce, Unanswered
<1> QED
  BY <1>1, <1>2, <1>3, <1>4, EmptyFree DEF ResumeInv, OnceInv

(* Each APPLY is answered at most once, for a helper that nobody asks for a *)
(* RESET: it is not handled twice, and once a DISARM has released the       *)
(* latches nothing is left that could publish for it again.                 *)
THEOREM AnsweredOnceHolds ==
  ASSUME NoReset
  PROVE  Spec => []AnsweredOnce
<1>1. OnceInv => AnsweredOnce
  BY DEF OnceInv
<1> QED
  BY <1>1, InitMutation, NextMutation, InitQueue, NextQueue, InitIntent, NextIntent, InitOnce,
     NextOnce, SpecTyped, PTL DEF Spec
=============================================================================
