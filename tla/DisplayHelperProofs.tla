------------------------ MODULE DisplayHelperProofs ------------------------
(* The display helper for every set of requests, commands and events, and   *)
(* for every bound: the types of its state, with one lemma per group of     *)
(* actions (the commands, the completion of an APPLY, its outcome, the      *)
(* verdicts, the restores, the events, the threads, the host loop); its     *)
(* restores run under the lease; the rest of an APPLY completion runs with  *)
(* the mutation fence down; and at most one staged-state reset is in        *)
(* flight, of which the state machine knows, with what moves work of any    *)
(* kind from its dispatch to the handler of its completion.                 *)
EXTENDS HelperProperties, TLAPS, FiniteSetTheorems

(* A settlement nobody asked for has dispatched no check: what lets the     *)
(* disconnect branch dispatch the first one without looking at the index.   *)
SettlementIdle == ~settle.requested => settle.next = 0

IInv == TypeOK /\ SettlementIdle

-----------------------------------------------------------------------------
(* Sequences.                                                               *)

(* What is left of a queue, and its first element, keep their types.        *)
LEMMA TailType ==
  ASSUME NEW S, NEW q \in Seq(S), q # <<>>
  PROVE  Tail(q) \in Seq(S) /\ Head(q) \in S
OBVIOUS

(* A queue keeps its type when an element is appended.                      *)
LEMMA AppendType ==
  ASSUME NEW S, NEW q \in Seq(S), NEW a \in S
  PROVE  Append(q, a) \in Seq(S)
OBVIOUS

(* A queue from which elements were dropped keeps its type.                 *)
LEMMA FilteredType ==
  ASSUME NEW S, NEW q \in Seq(S), NEW K \in SUBSET DOMAIN q, NEW n \in Nat,
         NEW f \in [1..n -> K]
  PROVE  [i \in 1..n |-> q[f[i]]] \in Seq(S)
<1>1. \A i \in 1..n : q[f[i]] \in S
  <2> TAKE i \in 1..n
  <2>1. f[i] \in DOMAIN q
    OBVIOUS
  <2>2. DOMAIN q = 1..Len(q)
    OBVIOUS
  <2> QED
    BY <2>1, <2>2
<1> QED
  BY <1>1

-----------------------------------------------------------------------------
(* What is on top of the stack.                                             *)

(* Every frame a handler pushes is one of the call stack's.                 *)
LEMMA FrameTyped ==
  /\ DrainFrame \in FrameType
  /\ [op |-> "afterReset"] \in FrameType
  /\ [op |-> "exitAfterReset"] \in FrameType
  /\ \A m \in MessageType : HandleFrame(m) \in FrameType
  /\ \A d \in ApplyDoneType, b \in BOOLEAN :
        /\ [op |-> "resume", done |-> d, baseline |-> b] \in FrameType
        /\ [op |-> "outcome", done |-> d, baseline |-> b] \in FrameType
  /\ \A b, c \in BOOLEAN :
        [op |-> "afterRestore", resetFailed |-> b, followup |-> c] \in FrameType
BY DEF FrameType, DrainFrame, HandleFrame

(* The call stack keeps its type when one or two frames are pushed.         *)
LEMMA PushTyped ==
  ASSUME NEW S, NEW q \in Seq(S), NEW a \in S, NEW b \in S
  PROVE  <<a>> \o q \in Seq(S) /\ <<a, b>> \o q \in Seq(S)
<1>1. <<a>> \in Seq(S) /\ <<a, b>> \in Seq(S)
  OBVIOUS
<1> QED
  BY <1>1

(* The message being handled is one the mailbox can carry.                  *)
LEMMA MessageOnTop ==
  ASSUME todo \in Seq(FrameType), todo # <<>>, Head(todo).op = "handle"
  PROVE  Msg \in MessageType
<1>1. Head(todo) \in FrameType
  BY TailType
<1> QED
  BY <1>1 DEF FrameType, Msg

(* An APPLY completion being finished is one a worker reported.             *)
LEMMA OutcomeOnTopType ==
  ASSUME todo \in Seq(FrameType), todo # <<>>, Head(todo).op \in {"resume", "outcome"}
  PROVE  Done \in ApplyDoneType /\ Head(todo).baseline \in BOOLEAN
<1>1. Head(todo) \in FrameType
  BY TailType
<1> QED
  BY <1>1 DEF FrameType, Done

(* A message of each kind has the fields its handler reads.                 *)
LEMMA MessageKinds ==
  ASSUME NEW m \in MessageType
  PROVE  /\ m.kind = "Apply" =>
              m \in [kind : {"Apply"}, seq : Nat, epoch : Nat, req : Requests]
         /\ m.kind = "Revert" =>
              m \in [kind : {"Revert"}, seq : Nat, epoch : Nat,
                     fromDisconnect : BOOLEAN]
         /\ m.kind = "Disarm" =>
              m \in [kind : {"Disarm"}, seq : Nat, epoch : Nat, force : BOOLEAN]
         /\ m.kind \in {"Apply", "Repair", "Reset", "Revert", "Disarm"} =>
              m \in DeferrableType
         /\ m.kind = "ApplyDone" => m \in ApplyDoneType
         /\ m.kind \in {"ResetDone", "ValidateDone"} =>
              m.gen \in Nat /\ m.ok \in BOOLEAN
         /\ m.kind = "RecoverDone" =>
              m.gen \in Nat /\ m.reset \in {"none", "ok", "failed"}
         /\ m.kind = "Refresh" => m.inScope \in BOOLEAN
BY DEF MessageType, DeferrableType, ApplyDoneType

(* What a handler finds on the stack, and what it leaves below.             *)
LEMMA Handled ==
  ASSUME TypeOK, NEW kind, Handling(kind)
  PROVE  Msg \in MessageType /\ Msg.kind = kind /\ Tail(todo) \in Seq(FrameType)
<1>1. todo \in Seq(FrameType) /\ todo # <<>> /\ Head(todo).op = "handle"
  BY DEF TypeOK, FenceTypes, Handling
<1> QED
  BY <1>1, MessageOnTop, TailType DEF Handling, Msg

(* Every task a dispatch_* function queues is one the worker knows.         *)
LEMMA TaskTyped ==
  ASSUME NEW g \in Nat
  PROVE  /\ \A b \in BOOLEAN : RefreshTask(g, b) \in TaskType
         /\ RecoverTask(g) \in TaskType
         /\ ValidateTask(g) \in TaskType
         /\ ResetTask(g) \in TaskType
         /\ req.seq \in Nat => \A b \in BOOLEAN : ApplyTask(g, b) \in TaskType
         /\ req.seq \in Nat => \A p \in Purposes : VerifyTask(g, p) \in TaskType
BY DEF RefreshTask, RecoverTask, ValidateTask, ResetTask, ApplyTask, VerifyTask, TaskType

(* Starting a display mutation keeps the fence and the worker's queue typed.*)
LEMMA StartWorkerTyped ==
  ASSUME DispatchTypes, NEW kind \in WorkerKinds, NEW t \in TaskType, StartWorker(kind, t)
  PROVE  /\ worker' \in [kind : WorkerKinds, gen : Nat] \cup {None}
         /\ tasks' \in Seq(TaskType)
<1>1. t.gen \in Nat
  BY DEF TaskType
<1> QED
  BY <1>1 DEF StartWorker, DispatchTypes

(* The positions kept by a filter can be counted.                           *)
LEMMA KeptCount ==
  ASSUME NEW S, NEW q \in Seq(S), NEW K \in SUBSET DOMAIN q
  PROVE  Cardinality(K) \in Nat
<1>1. DOMAIN q = 1..Len(q) /\ Len(q) \in Nat
  OBVIOUS
<1>2. IsFiniteSet(1..Len(q))
  BY <1>1, FS_Interval
<1> QED
  BY <1>1, <1>2, FS_Subset, FS_CardinalityType

(* The same for a handler that may start a mutation, or queue other work.   *)
LEMMA DispatchedTyped ==
  ASSUME DispatchTypes, FenceTypes,
         \/ UNCHANGED <<worker, tasks>>
         \/ \E kind \in WorkerKinds, t \in TaskType : StartWorker(kind, t)
         \/ UNCHANGED worker /\ \E t \in TaskType : tasks' = Append(tasks, t)
  PROVE  /\ worker' \in [kind : WorkerKinds, gen : Nat] \cup {None}
         /\ tasks' \in Seq(TaskType)
<1>1. CASE UNCHANGED <<worker, tasks>>
  BY <1>1 DEF DispatchTypes, FenceTypes
<1>2. CASE \E kind \in WorkerKinds, t \in TaskType : StartWorker(kind, t)
  BY <1>2, StartWorkerTyped
<1>3. CASE UNCHANGED worker /\ \E t \in TaskType : tasks' = Append(tasks, t)
  BY <1>3 DEF DispatchTypes, FenceTypes
<1> QED
  BY <1>1, <1>2, <1>3

(* enqueue_deferred_mutation_command keeps the deferred queue typed.        *)
LEMMA EnqueueTyped ==
  ASSUME deferred \in Seq(DeferrableType), NEW c \in DeferrableType, Enqueue(c)
  PROVE  deferred' \in Seq(DeferrableType)
<1>1. CASE UNCHANGED deferred
  BY <1>1
<1>2. ASSUME NEW q \in Filtered(deferred, LAMBDA d : Survives(d, c)),
             deferred' = Append(q, c)
      PROVE  deferred' \in Seq(DeferrableType)
  <2> DEFINE K == {i \in DOMAIN deferred : Survives(deferred[i], c)}
             n == Cardinality(K)
  <2>1. n \in Nat
    BY KeptCount
  <2>2. PICK f \in [1..n -> K] : q = [i \in 1..n |-> deferred[f[i]]]
    BY <1>2 DEF Filtered
  <2>3. q \in Seq(DeferrableType)
    <3> HIDE DEF n, K
    <3>1. K \in SUBSET DOMAIN deferred
      BY DEF K
    <3> QED  BY <2>1, <2>2, <3>1, FilteredType
  <2> QED
    BY <1>2, <2>3
<1> QED
  BY <1>1, <1>2 DEF Enqueue

(* Dropping what a retired connection sent keeps the mailbox typed.         *)
LEMMA RetiredTyped ==
  ASSUME mailbox \in Seq(MessageType), mailbox' \in Filtered(mailbox, NotOfRetired)
  PROVE  mailbox' \in Seq(MessageType)
<1> DEFINE K == {i \in DOMAIN mailbox : NotOfRetired(mailbox[i])}
           n == Cardinality(K)
<1>1. n \in Nat
  BY KeptCount
<1>2. PICK f \in [1..n -> K] : mailbox' = [i \in 1..n |-> mailbox[f[i]]]
  BY DEF Filtered
<1> HIDE DEF n, K
<1>3. K \in SUBSET DOMAIN mailbox
  BY DEF K
<1> QED
  BY <1>1, <1>2, <1>3, FilteredType

(* The values the members are reset to are of their types.                  *)
LEMMA Defaults ==
  /\ NewSession \in SessionType
  /\ NoSession \in SessionType
  /\ NoSettlement \in SettlementType
  /\ NoSettlement.next = 0
  /\ NoBase \in [avail : BOOLEAN, flight : BOOLEAN]
<1>1. /\ Repairs \in 0..Repairs /\ Discoveries \in 0..Discoveries
      /\ 0 \in 0..Repairs /\ 0 \in 0..Discoveries /\ 0 \in 0..SettleChecks
  BY DEF Discoveries, Repairs, SettleChecks
<1>2. NewSession \in SessionType
  BY <1>1 DEF NewSession, SessionType
<1> QED
  BY <1>1, <1>2 DEF NoSession, SessionType, NoSettlement, SettlementType, NoBase

(* What the handlers make of the session's flags and budgets.              *)
LEMMA SessionUpdates ==
  ASSUME sess \in SessionType
  PROVE  /\ [sess EXCEPT !.reapply = FALSE] \in SessionType
         /\ [sess EXCEPT !.verified = TRUE] \in SessionType
         /\ [sess EXCEPT !.hdrTried = TRUE] \in SessionType
         /\ Published(sess) \in SessionType
         /\ [Published(sess) EXCEPT !.verified = TRUE] \in SessionType
         /\ [sess EXCEPT !.discoveries = 0, !.repairs = 0] \in SessionType
         /\ [sess EXCEPT !.reapply = FALSE, !.discoveries = 0, !.repairs = 0]
              \in SessionType
         /\ [sess EXCEPT !.applySent = FALSE, !.verifySent = FALSE,
                         !.verified = FALSE, !.reapply = FALSE] \in SessionType
         /\ [NoSession EXCEPT !.hdrTried = sess.hdrTried] \in SessionType
<1>1. 0 \in 0..Repairs /\ 0 \in 0..Discoveries
  BY DEF Discoveries, Repairs
<1> QED
  BY <1>1, Defaults DEF SessionType, Published

(* The repair budgets are lowered only where the code tested them first.    *)
LEMMA BudgetUpdates ==
  ASSUME sess \in SessionType
  PROVE  /\ sess.repairs > 0 =>
              [sess EXCEPT !.repairs = @ - 1, !.reapply = TRUE] \in SessionType
         /\ sess.discoveries > 0 =>
              [sess EXCEPT !.discoveries = @ - 1] \in SessionType
         /\ sess.discoveries > 0 /\ sess.repairs > 0 =>
              [sess EXCEPT !.discoveries = @ - 1, !.repairs = @ - 1,
                           !.reapply = TRUE] \in SessionType
<1>1. sess.repairs > 0 => sess.repairs - 1 \in 0..Repairs
  BY DEF SessionType, Repairs
<1>2. sess.discoveries > 0 => sess.discoveries - 1 \in 0..Discoveries
  BY DEF SessionType, Discoveries
<1> QED
  BY <1>1, <1>2 DEF SessionType

(* A settlement nobody asked for is at its first check.                    *)
SettlementOK(s) == s \in SettlementType /\ (~s.requested => s.next = 0)

(* Every assignment to the settlement keeps its type and SettlementIdle.    *)
LEMMA SettlementUpdates ==
  ASSUME SettlementOK(settle)
  PROVE  /\ SettlementOK(NoSettlement)
         /\ SettlementOK(ResetSettlement(settle))
         /\ SettlementOK([NoSettlement EXCEPT !.recent = TRUE])
         /\ SettlementOK([settle EXCEPT !.recent = FALSE])
         /\ SettlementOK([settle EXCEPT !.requested = TRUE])
         /\ SettlementOK([settle EXCEPT !.repairing = FALSE])
         /\ SettlementOK([settle EXCEPT !.pending = FALSE, !.repairing = TRUE])
BY Defaults DEF SettlementOK, SettlementType, ResetSettlement

(* dispatch_transient_disconnect_verification keeps the index in range.     *)
LEMMA CheckTyped ==
  ASSUME NEW s, SettlementOK(s), s.pending \/ (s.requested /\ s.next < SettleChecks),
         NEW g \in Nat, state \in States, req.seq \in Nat,
         timers \in Seq([gen : Nat, for : Nat]), DispatchCheck(s, g)
  PROVE  /\ SettlementOK(settle')
         /\ state' \in States
         /\ timers' \in Seq([gen : Nat, for : Nat])
<1>1. CASE s.pending
  BY <1>1 DEF DispatchCheck
<1>2. CASE ~s.pending
  <2>1. s.next + 1 \in 0..SettleChecks
    BY <1>2 DEF SettlementOK, SettlementType, SettleChecks
  <2>2. /\ settle' = [s EXCEPT !.pending = TRUE, !.next = s.next + 1]
        /\ s.requested
        /\ state' = "Verification"
        /\ timers' = Append(timers, [gen |-> g, for |-> req.seq])
    BY <1>2 DEF DispatchCheck
  <2>3. SettlementOK(settle')
    BY <2>1, <2>2 DEF SettlementOK, SettlementType
  <2> QED
    BY <2>2, <2>3 DEF States
<1> QED
  BY <1>1, <1>2

-----------------------------------------------------------------------------
(* The commands.                                                            *)

(* What the command handlers read of their message.                         *)
LEMMA CommandMessage ==
  ASSUME TypeOK, HandleCommand
  PROVE  /\ Tail(todo) \in Seq(FrameType)
         /\ Handling("Apply") =>
              Msg.req \in RequestType /\ Msg.seq \in Nat /\ Msg.epoch \in Nat
         /\ Handling("Revert") \/ Handling("Disarm") => Msg.seq \in Nat
         /\ Handling("Refresh") => Msg.inScope \in BOOLEAN
         /\ Handling("Apply") \/ Handling("Revert") \/ Handling("Disarm")
              \/ Handling("Reset") => Msg \in DeferrableType
<1>1. \E kind \in {"Apply", "Repair", "Revert", "Disarm", "Reset", "Snapshot",
                   "Refresh"} : Handling(kind)
  BY DEF HandleCommand, HandleStaleCommand, HandleApplyDeferred, HandleApply,
         HandleRepairDropped, HandleRepair, HandleRevertJoins,
         HandleRevertDeferred, HandleRevertPolicyOff, HandleRevertNothing,
         HandleRevert, RevertRuns, HandleDisarmIgnored, HandleDisarmDeferred,
         HandleDisarm, HandleSnapshot, HandleRefreshRejected, HandleRefresh,
         HandleResetDeferred, HandleReset
<1>2. Tail(todo) \in Seq(FrameType)
  BY <1>1, Handled
<1>3. Handling("Apply") =>
        Msg.req \in RequestType /\ Msg.seq \in Nat /\ Msg.epoch \in Nat
  BY Handled, MessageKinds, ConstantsAssumption DEF ConstantsAssumption
<1> QED
  BY <1>2, <1>3, Handled, MessageKinds

(* The command handlers, on the session's variables.                        *)
LEMMA CommandsSession ==
  ASSUME IInv, HandleCommand
  PROVE  (SessionTypes /\ SettlementIdle)'
<1> USE CommandMessage
    DEF IInv, TypeOK, SettlementIdle, SessionTypes, sessionVars, HandleCommand,
        HandleStaleCommand, HandleApplyDeferred, HandleRepairDropped,
        HandleRepair, HandleRevertJoins, HandleRevertDeferred,
        HandleRevertPolicyOff, HandleRevertNothing, HandleRevert, RevertRuns,
        HandleDisarmIgnored, HandleDisarmDeferred, HandleDisarm, HandleSnapshot,
        HandleRefreshRejected, HandleRefresh, HandleResetDeferred, HandleReset,
        ClearRecoveryState, StartRecovery
<1>1. SettlementOK(settle)
  BY DEF SettlementOK
<1>2. req' \in [virt : Layouts, hdr : BOOLEAN, rod : BOOLEAN, seq : Nat, epoch : Nat]
  <2>1. CASE HandleApply
    BY <2>1 DEF HandleApply, RequestType
  <2>2. CASE ~HandleApply
    BY <2>2
  <2> QED
    BY <2>1, <2>2
<1>3. state' \in States
  <2>1. state' \in {state, "InProgress", "Waiting", "Recovery"}
    BY DEF HandleApply
  <2> QED
    BY <2>1 DEF States
<1>4. base' \in [avail : BOOLEAN, flight : BOOLEAN]
  <2>1. CASE HandleApply
    BY <2>1, Defaults DEF HandleApply, NoBase
  <2>2. CASE ~HandleApply
    BY <2>2, Defaults
  <2> QED
    BY <2>1, <2>2
<1>5. sess' \in SessionType
  BY Defaults, SessionUpdates, BudgetUpdates DEF HandleApply, RepairBudget
<1>6. SettlementOK(settle')
  BY <1>1, SettlementUpdates DEF HandleApply, RevertSettlement
<1> QED
  BY <1>2, <1>3, <1>4, <1>5, <1>6 DEF SettlementOK

(* The command handlers, on the recovery's variables.                       *)
LEMMA CommandsRecovery ==
  ASSUME IInv, HandleCommand
  PROVE  RecoveryTypes'
<1> USE CommandMessage
    DEF IInv, TypeOK, RecoveryTypes, recoveryVars, LeaseType, RestoreType, StagingType
<1>1. CASE HandleApply
  BY <1>1 DEF HandleApply, RequestType
<1>2. CASE HandleRepair \/ HandleRevertDeferred \/ HandleRevertPolicyOff
             \/ HandleRevertNothing \/ HandleRevert
  BY <1>2 DEF HandleRepair, HandleRevertDeferred, HandleRevertPolicyOff,
              HandleRevertNothing, HandleRevert, RevertRuns, RevertLease,
              ClearRecoveryState
<1>3. CASE HandleApplyDeferred \/ HandleDisarmDeferred \/ HandleDisarm \/ HandleReset
  BY <1>3 DEF HandleApplyDeferred, HandleDisarmDeferred, HandleDisarm,
              HandleReset, BeginReset, ClearRecoveryState
<1>4. CASE HandleStaleCommand \/ HandleRepairDropped \/ HandleRevertJoins
             \/ HandleDisarmIgnored \/ HandleSnapshot \/ HandleRefreshRejected
             \/ HandleRefresh \/ HandleResetDeferred
  BY <1>4 DEF HandleStaleCommand, HandleRepairDropped, HandleRevertJoins,
              HandleDisarmIgnored, HandleSnapshot, HandleRefreshRejected,
              HandleRefresh, HandleResetDeferred
<1> QED
  BY <1>1, <1>2, <1>3, <1>4 DEF HandleCommand

(* The command handlers, on the fence, the queues and the threads.          *)
LEMMA CommandsFence ==
  ASSUME IInv, HandleCommand, UNCHANGED phase
  PROVE  (FenceTypes /\ DispatchTypes)'
<1> USE CommandMessage
    DEF IInv, TypeOK, FenceTypes, fenceVars, HandleCommand, HandleStaleCommand,
        HandleApplyDeferred, HandleRepairDropped, HandleRevertJoins,
        HandleRevertDeferred, HandleRevertPolicyOff, HandleRevertNothing,
        RevertRuns, HandleDisarmIgnored, HandleDisarmDeferred, HandleDisarm,
        HandleSnapshot, HandleRefreshRejected, HandleResetDeferred,
        ClearRecoveryState
<1>1. todo' \in Seq(FrameType)
  BY DEF HandleApply, HandleRepair, HandleRevert, HandleRefresh, HandleReset, Return
<1>2. held' \in ApplyDoneType \cup {None}
  BY DEF HandleApply, HandleRepair, HandleRevert, HandleRefresh, HandleReset
<1>3. deferred' \in Seq(DeferrableType)
  <2>1. CASE Msg \in DeferrableType /\ Enqueue(Msg)
    BY <2>1, EnqueueTyped
  <2>2. CASE UNCHANGED deferred
    BY <2>2
  <2> QED
    BY <2>1, <2>2 DEF HandleApply, HandleRepair, HandleRevert, HandleRefresh, HandleReset
<1>4. gen' \in Nat /\ gen + 1 \in Nat
  <2>1. gen' \in {gen, gen + 1, gen + 1 + 1}
    BY DEF dispatchVars, ExitCallback, ApplyGeneration, HandleApply, HandleRepair,
           HandleRevert, HandleRefresh, HandleReset
  <2> QED
    BY <2>1 DEF DispatchTypes
<1>5. req.seq \in Nat /\ gen \in Nat
  BY DEF SessionTypes, DispatchTypes
<1>6. \/ UNCHANGED <<worker, tasks>>
      \/ \E kind \in WorkerKinds, t \in TaskType : StartWorker(kind, t)
      \/ UNCHANGED worker /\ tasks' = Append(tasks, ResetTask(gen))
  <2>1. CASE HandleApply
    <3>1. [op |-> "apply", gen |-> gen + 1, repair |-> FALSE, for |-> Msg.seq]
            \in TaskType
      BY <1>4, <2>1 DEF TaskType, HandleApply
    <3> QED
      BY <2>1, <3>1 DEF HandleApply, ApplyGeneration, WorkerKinds
  <2>2. CASE HandleRepair
    BY <2>2, <1>5, TaskTyped DEF HandleRepair, WorkerKinds
  <2>3. CASE HandleRevert
    BY <2>3, <1>4, TaskTyped DEF HandleRevert, StartRecovery, WorkerKinds
  <2>4. CASE HandleRefresh
    BY <2>4, <1>5, TaskTyped DEF HandleRefresh, WorkerKinds
  <2>5. CASE HandleReset
    BY <2>5 DEF HandleReset, BeginReset
  <2> QED
    BY <2>1, <2>2, <2>3, <2>4, <2>5 DEF dispatchVars
<1>7. /\ worker' \in [kind : WorkerKinds, gen : Nat] \cup {None}
      /\ tasks' \in Seq(TaskType)
  <2>1. CASE UNCHANGED <<worker, tasks>>
    BY <2>1 DEF DispatchTypes
  <2>2. CASE \E kind \in WorkerKinds, t \in TaskType : StartWorker(kind, t)
    BY <2>2, StartWorkerTyped
  <2>3. CASE UNCHANGED worker /\ tasks' = Append(tasks, ResetTask(gen))
    BY <2>3, <1>5, TaskTyped DEF DispatchTypes
  <2> QED
    BY <1>6, <2>1, <2>2, <2>3
<1>8. timers' = timers
  BY DEF dispatchVars, HandleApply, HandleRepair, HandleRevert, HandleRefresh,
         HandleReset
<1> QED
  BY <1>1, <1>2, <1>3, <1>4, <1>7, <1>8 DEF DispatchTypes

(* The command handlers, on the host's variables.                           *)
LEMMA CommandsHost ==
  ASSUME IInv, HandleCommand, UNCHANGED hostVars
  PROVE  HostTypes'
<1> USE DEF IInv, TypeOK, HostTypes, hostVars, exitVars, HandleCommand,
        HandleStaleCommand, HandleApplyDeferred, HandleApply,
        HandleRepairDropped, HandleRepair, HandleRevertJoins,
        HandleRevertDeferred, HandleRevertPolicyOff, HandleRevertNothing,
        HandleRevert, RevertRuns, HandleDisarmIgnored, HandleDisarmDeferred,
        HandleDisarm, HandleSnapshot, HandleRefreshRejected, HandleRefresh,
        HandleResetDeferred, HandleReset, ClearRecoveryState
<1>1. heartbeat' \in BOOLEAN
  OBVIOUS
<1>2. running' \in BOOLEAN /\ origin' \in {origin, 0}
  BY DEF ExitCallback
<1> QED
  BY <1>1, <1>2

(* The command handlers, on the history variables.                          *)
LEMMA CommandsHistory ==
  ASSUME IInv, HandleCommand, UNCHANGED <<sent, posted>>
  PROVE  HistoryTypes'
<1> USE CommandMessage
    DEF IInv, TypeOK, HistoryTypes, machineVars, HandleCommand,
        HandleStaleCommand, HandleApplyDeferred, HandleApply,
        HandleRepairDropped, HandleRepair, HandleRevertJoins,
        HandleRevertDeferred, HandleRevertPolicyOff, HandleRevertNothing,
        HandleRevert, RevertRuns, HandleDisarmIgnored, HandleDisarmDeferred,
        HandleDisarm, HandleSnapshot, HandleRefreshRejected, HandleRefresh,
        HandleResetDeferred, HandleReset, ClearRecoveryState
<1>1. (tiers \in BOOLEAN /\ taskExists \in BOOLEAN /\ debt \in BOOLEAN)'
  OBVIOUS
<1>2. newest' \in Nat
  BY DEF Accept
<1>3. UNCHANGED <<replies, retries>>
  OBVIOUS
<1> QED
  BY <1>1, <1>2, <1>3

-----------------------------------------------------------------------------
(* The completion of an APPLY, and the drain it starts.                     *)

(* accept_apply_result keeps what it assigns typed.                         *)
LEMMA AcceptTyped ==
  ASSUME IInv, NEW d \in ApplyDoneType, NEW h \in ApplyDoneType \cup {None},
         NEW rest \in Seq(FrameType), AcceptApply(d, lease, h, rest)
  PROVE  /\ base' \in [avail : BOOLEAN, flight : BOOLEAN]
         /\ lease' \in LeaseType
         /\ restore' \in RestoreType
         /\ held' \in ApplyDoneType \cup {None}
         /\ todo' \in Seq(FrameType)
<1> USE DEF IInv, TypeOK, AcceptApply
<1>1. base \in [avail : BOOLEAN, flight : BOOLEAN] /\ req.rod \in BOOLEAN
  BY DEF SessionTypes
<1>2. d.armed \in BOOLEAN /\ d.touched \in BOOLEAN
  BY DEF ApplyDoneType
<1>3. base' \in [avail : BOOLEAN, flight : BOOLEAN]
  BY <1>1
<1>4. lease' \in LeaseType
  BY <1>2 DEF LeaseType, Remembered, RecoveryTypes
<1>5. restore' \in RestoreType
  BY <1>1 DEF RestoreType, CurrentPolicy, RecoveryTypes
<1>6. todo' \in Seq(FrameType)
  <2>1. base.flight \in BOOLEAN
    BY <1>1
  <2>2. /\ [op |-> "resume", done |-> d, baseline |-> base.flight] \in FrameType
        /\ [op |-> "outcome", done |-> d, baseline |-> base.flight] \in FrameType
        /\ DrainFrame \in FrameType
    BY <2>1, FrameTyped
  <2> QED
    BY <2>2, PushTyped
<1> QED
  BY <1>3, <1>4, <1>5, <1>6

ApplyCompletion ==
  \/ HandleForeignCompletion \/ HandleApplyDone \/ HandleCancelledApplyTouched
  \/ HandleCancelledApplyUntouched \/ DrainNext \/ DrainEnds \/ ResumeFinish
  \/ AfterReset

(* What the completion of an APPLY finds on the stack.                      *)
LEMMA ApplyCompletionTop ==
  ASSUME TypeOK, ApplyCompletion
  PROVE  /\ Tail(todo) \in Seq(FrameType)
         /\ todo \in Seq(FrameType)
         /\ Handling("ApplyDone") => Msg \in ApplyDoneType
<1>1. todo \in Seq(FrameType)
  BY DEF TypeOK, FenceTypes
<1>2. todo # <<>>
  BY DEF ApplyCompletion, HandleForeignCompletion, HandleApplyDone,
         HandleCancelledApplyTouched, HandleCancelledApplyUntouched, DrainNext,
         DrainEnds, ResumeFinish, AfterReset, Handling, OnTop
<1> QED
  BY <1>1, <1>2, TailType, Handled, MessageKinds

(* The two handlers that accept the result of an APPLY.                     *)
LEMMA AcceptingTyped ==
  ASSUME IInv, HandleApplyDone \/ AfterReset
  PROVE  /\ base' \in [avail : BOOLEAN, flight : BOOLEAN]
         /\ lease' \in LeaseType
         /\ restore' \in RestoreType
         /\ held' \in ApplyDoneType \cup {None}
         /\ todo' \in Seq(FrameType)
<1> USE DEF IInv, TypeOK
<1> ApplyCompletion
  BY DEF ApplyCompletion
<1> USE ApplyCompletionTop
<1>1. CASE HandleApplyDone
  BY <1>1, AcceptTyped DEF HandleApplyDone, FenceTypes
<1>2. CASE AfterReset
  <2> DEFINE exit == <<[op |-> "exitAfterReset"]>> \o Tail(todo)
  <2>1. exit \in Seq(FrameType)
    BY FrameTyped, PushTyped
  <2>2. CASE held # None /\ AcceptApply(held, lease, None, exit)
    <3>1. held \in ApplyDoneType
      BY <2>2 DEF FenceTypes
    <3> HIDE DEF exit
    <3> QED
      BY <2>1, <2>2, <3>1, AcceptTyped
  <2>3. CASE todo' = exit /\ UNCHANGED <<held, base, lease, restore>>
    BY <2>1, <2>3 DEF FenceTypes, SessionTypes, RecoveryTypes
  <2> QED
    BY <1>2, <2>2, <2>3 DEF AfterReset
<1> QED
  BY <1>1, <1>2

(* The completion of an APPLY, on the fence and the deferred queue.         *)
LEMMA ApplyCompletionFence ==
  ASSUME IInv, ApplyCompletion
  PROVE  FenceTypes'
<1> USE ApplyCompletionTop DEF IInv, TypeOK, FenceTypes, fenceVars
<1>1. CASE HandleForeignCompletion \/ DrainEnds
  BY <1>1 DEF HandleForeignCompletion, DrainEnds, Return
<1>2. CASE HandleApplyDone
  BY <1>2, AcceptingTyped DEF HandleApplyDone
<1>3. CASE HandleCancelledApplyTouched \/ HandleCancelledApplyUntouched
  BY <1>3, FrameTyped, PushTyped
     DEF HandleCancelledApplyTouched, HandleCancelledApplyUntouched, ReturnInto
<1>4. CASE DrainNext
  <2>1. deferred # <<>>
    BY <1>4 DEF DrainNext, DrainContinues
  <2>2. Tail(deferred) \in Seq(DeferrableType) /\ Head(deferred) \in DeferrableType
    BY <2>1, TailType
  <2>3. HandleFrame(Head(deferred)) \in FrameType
    BY <2>2, FrameTyped DEF MessageType
  <2> QED
    BY <1>4, <2>2, <2>3, PushTyped DEF DrainNext
<1>5. CASE ResumeFinish
  <2>1. Done \in ApplyDoneType /\ Head(todo).baseline \in BOOLEAN
    BY <1>5, OutcomeOnTopType DEF ResumeFinish, OnTop
  <2>2. [op |-> "outcome", done |-> Done, baseline |-> Head(todo).baseline] \in FrameType
    BY <2>1, FrameTyped
  <2> QED
    BY <1>5, <2>2, PushTyped DEF ResumeFinish, Done, Return, ReturnInto
<1>6. CASE AfterReset
  BY <1>6, AcceptingTyped DEF AfterReset
<1> QED
  BY <1>1, <1>2, <1>3, <1>4, <1>5, <1>6 DEF ApplyCompletion

(* The completion of an APPLY keeps every type.                             *)
LEMMA ApplyCompletionTyped ==
  ASSUME IInv, ApplyCompletion, UNCHANGED hostUnchanged
  PROVE  IInv'
<1> USE DEF IInv, TypeOK, hostUnchanged
<1>1. FenceTypes'
  BY ApplyCompletionFence
<1>2. (SessionTypes /\ SettlementIdle)'
  <2>1. UNCHANGED <<state, req, sess, settle>>
    BY DEF ApplyCompletion, HandleForeignCompletion, HandleApplyDone,
           HandleCancelledApplyTouched, HandleCancelledApplyUntouched, DrainNext,
           DrainEnds, ResumeFinish, AfterReset, sessionVars
  <2>2. UNCHANGED base \/ HandleApplyDone \/ AfterReset
    BY DEF ApplyCompletion, HandleForeignCompletion, HandleCancelledApplyTouched,
           HandleCancelledApplyUntouched, DrainNext, DrainEnds, ResumeFinish,
           sessionVars
  <2> QED
    BY <2>1, <2>2, AcceptingTyped DEF SessionTypes, SettlementIdle
<1>3. RecoveryTypes'
  <2> USE DEF RecoveryTypes, recoveryVars
  <2>1. CASE HandleForeignCompletion \/ DrainNext \/ DrainEnds \/ ResumeFinish
    BY <2>1 DEF HandleForeignCompletion, DrainNext, DrainEnds, ResumeFinish
  <2>2. CASE HandleApplyDone \/ AfterReset
    <3>1. Handling("ApplyDone") => Msg.staged \in BOOLEAN
      BY ApplyCompletionTop DEF ApplyDoneType
    <3> QED
      BY <2>2, <3>1, AcceptingTyped DEF HandleApplyDone, AfterReset, StagingType
  <2>3. CASE HandleCancelledApplyTouched \/ HandleCancelledApplyUntouched
    <3>1. Msg.staged \in BOOLEAN /\ Msg.armed \in BOOLEAN
      BY <2>3, ApplyCompletionTop
         DEF ApplyDoneType, HandleCancelledApplyTouched, HandleCancelledApplyUntouched
    <3>2. Remembered(lease, Msg) \in LeaseType
      BY <3>1 DEF Remembered, LeaseType
    <3>3. [staging EXCEPT !.prepared = @ \/ Msg.staged] \in StagingType
      BY <3>1 DEF StagingType
    <3>4. restore' \in RestoreType
      BY <2>3 DEF HandleCancelledApplyTouched, HandleCancelledApplyUntouched,
                  CurrentPolicy, RestoreType, SessionTypes
    <3>5. lease' \in LeaseType
      BY <2>3, <3>2 DEF HandleCancelledApplyTouched, HandleCancelledApplyUntouched,
                        RetainLease, DropUncommitted, LeaseType
    <3>6. staging' \in StagingType
      BY <2>3, <3>3 DEF HandleCancelledApplyTouched, HandleCancelledApplyUntouched,
                        DropUncommitted, BeginReset, StagingType
    <3> QED
      BY <2>3, <3>4, <3>5, <3>6
         DEF HandleCancelledApplyTouched, HandleCancelledApplyUntouched
  <2> QED
    BY <2>1, <2>2, <2>3 DEF ApplyCompletion
<1>4. DispatchTypes'
  <2>1. UNCHANGED <<gen, timers, phase>>
    BY DEF ApplyCompletion, HandleForeignCompletion, HandleApplyDone,
           HandleCancelledApplyTouched, HandleCancelledApplyUntouched, DrainNext,
           DrainEnds, ResumeFinish, AfterReset, dispatchVars
  <2>2. tasks' = tasks \/ tasks' = Append(tasks, ResetTask(gen))
    BY DEF ApplyCompletion, HandleForeignCompletion, HandleApplyDone,
           HandleCancelledApplyTouched, HandleCancelledApplyUntouched, DrainNext,
           DrainEnds, ResumeFinish, AfterReset, dispatchVars, DropUncommitted,
           BeginReset
  <2>3. tasks' \in Seq(TaskType)
    <3>1. gen \in Nat /\ tasks \in Seq(TaskType)
      BY DEF DispatchTypes
    <3> QED
      BY <2>2, <3>1, TaskTyped
  <2> QED
    BY <2>1, <2>3 DEF DispatchTypes
<1>5. HostTypes'
  BY DEF ApplyCompletion, HandleForeignCompletion, HandleApplyDone,
         HandleCancelledApplyTouched, HandleCancelledApplyUntouched, DrainNext,
         DrainEnds, ResumeFinish, AfterReset, HostTypes, exitVars, hostVars
<1>6. HistoryTypes'
  BY DEF ApplyCompletion, HandleForeignCompletion, HandleApplyDone,
         HandleCancelledApplyTouched, HandleCancelledApplyUntouched, DrainNext,
         DrainEnds, ResumeFinish, AfterReset, HistoryTypes, machineVars, DropUncommitted
<1> QED
  BY <1>1, <1>2, <1>3, <1>4, <1>5, <1>6

-----------------------------------------------------------------------------
(* The outcome of an accepted APPLY.                                        *)

(* A result is counted for the APPLY it answers, at most twice.             *)
LEMMA PublishTyped ==
  ASSUME HistoryTypes, NEW s, Publish(s)
  PROVE  replies' \in [1..MaxSends -> [apply : 0..2, verify : 0..2]]
<1>1. \A n \in 0..2 : Capped(n) \in 0..2
  BY DEF Capped
<1> DEFINE R == [apply : 0..2, verify : 0..2]
           a == IF s.applySent THEN replies[req.seq].apply
                ELSE Capped(replies[req.seq].apply)
           v == IF s.verifySent THEN replies[req.seq].verify
                ELSE Capped(replies[req.seq].verify)
<1>2. replies \in [1..MaxSends -> R]
  BY DEF HistoryTypes
<1>3. CASE req.seq \in 1..MaxSends
  <2>1. replies[req.seq] \in R /\ a \in 0..2 /\ v \in 0..2
    BY <1>1, <1>2, <1>3
  <2>2. replies' = [replies EXCEPT ![req.seq].apply = a, ![req.seq].verify = v]
    <3>1. DOMAIN replies = 1..MaxSends
      BY <1>2
    <3> QED
      BY <1>3, <3>1 DEF Publish
  <2>3. \A x \in R : [x EXCEPT !.apply = a, !.verify = v] \in R
    BY <2>1
  <2>4. [replies[req.seq] EXCEPT !.apply = a, !.verify = v] \in R
    BY <2>1, <2>3
  <2> HIDE DEF R, a, v
  <2>5. replies' \in [1..MaxSends -> R]
    BY <1>2, <2>1, <2>2, <2>4
  <2> QED
    BY <2>5 DEF R
<1>4. CASE req.seq \notin 1..MaxSends
  BY <1>2, <1>4 DEF Publish
<1> QED
  BY <1>3, <1>4

(* What finish_apply_completed finds on the stack.                          *)
LEMMA OutcomeTop ==
  ASSUME TypeOK, ApplyOutcome
  PROVE  /\ Tail(todo) \in Seq(FrameType)
         /\ <<DrainFrame>> \o Tail(todo) \in Seq(FrameType)
<1>1. todo \in Seq(FrameType)
  BY DEF TypeOK, FenceTypes
<1>2. todo # <<>>
  BY DEF ApplyOutcome, OutcomeBaselineFailed, OutcomeChecked, OutcomeRepaired,
         OutcomeVerify, OutcomeHdrFallback, OutcomeFailed, OutcomeFails, OnTop
<1> QED
  BY <1>1, <1>2, TailType, FrameTyped, PushTyped

(* finish_apply_completed keeps every type.                                 *)
LEMMA OutcomeTyped ==
  ASSUME IInv, ApplyOutcome, UNCHANGED hostUnchanged
  PROVE  IInv'
<1> USE OutcomeTop
    DEF IInv, TypeOK, hostUnchanged, ApplyOutcome, OutcomeBaselineFailed,
        OutcomeChecked, OutcomeRepaired, OutcomeVerify, OutcomeHdrFallback,
        OutcomeFailed
<1>1. SettlementOK(settle)
  BY DEF SettlementOK, SessionTypes, SettlementIdle
<1>2. gen \in Nat /\ req.seq \in Nat
  BY DEF SessionTypes, DispatchTypes
<1>3. CASE OutcomeChecked
  <2>1. SettlementOK([settle EXCEPT !.repairing = FALSE])
    BY <1>1, SettlementUpdates
  <2>2. [settle EXCEPT !.repairing = FALSE].pending
          \/ ([settle EXCEPT !.repairing = FALSE].requested
                /\ [settle EXCEPT !.repairing = FALSE].next < SettleChecks)
    BY <1>1, <1>3 DEF ChecksDecide, CheckDue, SettlementOK, SettlementType
  <2>3. /\ SettlementOK(settle')
        /\ state' \in States
        /\ timers' \in Seq([gen : Nat, for : Nat])
    BY <1>2, <1>3, <2>1, <2>2, CheckTyped DEF SessionTypes, DispatchTypes
  <2> QED
    BY <1>3, <2>3
       DEF SettlementOK, SessionTypes, SettlementIdle, RecoveryTypes, FenceTypes,
           DispatchTypes, HostTypes, HistoryTypes, recoveryVars, fenceVars,
           exitVars, hostVars, machineVars, Return
<1>4. ASSUME ~OutcomeChecked
      PROVE  (SessionTypes /\ SettlementIdle)'
  <2>1. state' \in States
    <3>1. state' \in {SteadyState, "Verification", "InProgress", "Waiting"}
      BY <1>4
    <3> QED
      BY <3>1 DEF SteadyState, States
  <2>2. req' \in [virt : Layouts, hdr : BOOLEAN, rod : BOOLEAN, seq : Nat, epoch : Nat]
    BY <1>4 DEF SessionTypes
  <2>3. sess' \in SessionType
    BY <1>4, SessionUpdates DEF SessionTypes
  <2>4. SettlementOK(settle')
    BY <1>1, <1>4, SettlementUpdates DEF SettlementOver
  <2>5. base' = base
    BY <1>4
  <2> QED
    BY <2>1, <2>2, <2>3, <2>4, <2>5 DEF SettlementOK, SessionTypes, SettlementIdle
<1>5. ASSUME ~OutcomeChecked
      PROVE  RecoveryTypes'
  <2> USE DEF RecoveryTypes, recoveryVars
  <2>1. CASE OutcomeRepaired
    BY <2>1 DEF LeaseType, RestoreType, CurrentPolicy, SessionTypes
  <2>2. CASE OutcomeFailed
    BY <2>2 DEF LeaseType, StagingType, DropUncommitted, BeginReset
  <2> QED
    BY <1>5, <2>1, <2>2
<1>6. ASSUME ~OutcomeChecked
      PROVE  (FenceTypes /\ DispatchTypes)'
  <2>1. UNCHANGED <<deferred, held, gen, timers, phase>>
    BY <1>6 DEF fenceVars, dispatchVars
  <2>2. todo' \in Seq(FrameType)
    BY <1>6 DEF Return, ReturnInto
  <2>3. \/ UNCHANGED <<worker, tasks>>
        \/ \E kind \in WorkerKinds, t \in TaskType : StartWorker(kind, t)
        \/ UNCHANGED worker /\ \E t \in TaskType : tasks' = Append(tasks, t)
    <3>1. CASE OutcomeHdrFallback
      BY <3>1, <1>2, TaskTyped DEF WorkerKinds
    <3>2. CASE OutcomeVerify
      BY <3>2, <1>2, TaskTyped DEF Purposes, fenceVars
    <3>3. CASE OutcomeFailed
      BY <3>3, <1>2, TaskTyped DEF fenceVars, DropUncommitted, BeginReset
    <3>4. CASE OutcomeBaselineFailed \/ OutcomeRepaired
      BY <3>4 DEF fenceVars, dispatchVars
    <3> QED
      BY <1>6, <3>1, <3>2, <3>3, <3>4
  <2>4. /\ worker' \in [kind : WorkerKinds, gen : Nat] \cup {None}
        /\ tasks' \in Seq(TaskType)
    <3>1. CASE UNCHANGED <<worker, tasks>>
      BY <3>1 DEF DispatchTypes, FenceTypes
    <3>2. CASE \E kind \in WorkerKinds, t \in TaskType : StartWorker(kind, t)
      BY <3>2, StartWorkerTyped
    <3>3. CASE UNCHANGED worker /\ \E t \in TaskType : tasks' = Append(tasks, t)
      BY <3>3 DEF DispatchTypes, FenceTypes
    <3> QED
      BY <2>3, <3>1, <3>2, <3>3
  <2> QED
    BY <2>1, <2>2, <2>4 DEF DispatchTypes, FenceTypes
<1>7. HostTypes'
  BY DEF HostTypes, hostVars, exitVars
<1>8. HistoryTypes'
  <2>1. (tiers \in BOOLEAN /\ taskExists \in BOOLEAN /\ debt \in BOOLEAN)'
    BY DEF HistoryTypes, machineVars, DropUncommitted
  <2>2. UNCHANGED <<newest, retries>>
    OBVIOUS
  <2>3. replies' \in [1..MaxSends -> [apply : 0..2, verify : 0..2]]
    BY PublishTyped DEF HistoryTypes
  <2> QED
    BY <2>1, <2>2, <2>3 DEF HistoryTypes
<1> QED
  BY <1>3, <1>4, <1>5, <1>6, <1>7, <1>8

-----------------------------------------------------------------------------
(* The verdict of a verification.                                           *)

(* What a verdict's handler leaves on the stack.                            *)
LEMMA VerifyDoneTop ==
  ASSUME TypeOK, HandleVerifyDone
  PROVE  Tail(todo) \in Seq(FrameType)
<1>1. Handling("VerifyDone")
  BY DEF HandleVerifyDone, HandleCheckPassed, HandleCheckFailed, HandleVerified,
         HandleBaselineVerified, HandleUnverifiedDisconnected,
         HandleBaselineMissing, HandleBaselineUnrepaired, HandleUnverifiedReapply,
         HandleUnverified, Unverified, Verified
<1> QED
  BY <1>1, Handled

(* The next check of a disconnected session, dispatched when it is due.    *)
LEMMA DueCheckTyped ==
  ASSUME IInv, CheckDue(settle), NEW g \in Nat, DispatchCheck(settle, g)
  PROVE  /\ SettlementOK(settle')
         /\ state' \in States
         /\ timers' \in Seq([gen : Nat, for : Nat])
<1>1. SettlementOK(settle)
  BY DEF IInv, TypeOK, SettlementOK, SessionTypes, SettlementIdle
<1>2. /\ state \in States /\ req.seq \in Nat
      /\ timers \in Seq([gen : Nat, for : Nat])
  BY DEF IInv, TypeOK, SessionTypes, DispatchTypes
<1> QED
  BY <1>1, <1>2, CheckTyped DEF CheckDue

(* The verdict of a verification keeps every type.                          *)
LEMMA VerifyDoneTyped ==
  ASSUME IInv, HandleVerifyDone, UNCHANGED hostUnchanged
  PROVE  IInv'
<1> USE VerifyDoneTop
    DEF IInv, TypeOK, hostUnchanged, HandleVerifyDone, HandleCheckPassed,
        HandleCheckFailed, HandleVerified, HandleBaselineVerified,
        HandleUnverifiedDisconnected, HandleBaselineMissing,
        HandleBaselineUnrepaired, HandleUnverifiedReapply, HandleUnverified
<1>1. SettlementOK(settle)
  BY DEF SettlementOK, SessionTypes, SettlementIdle
<1>2. gen \in Nat /\ gen + 1 \in Nat /\ req.seq \in Nat
  BY DEF SessionTypes, DispatchTypes
<1>3. \/ /\ SettlementOK(settle')
         /\ state' \in States
         /\ timers' \in Seq([gen : Nat, for : Nat])
      \/ /\ settle' \in {settle, ResetSettlement(settle),
                         [settle EXCEPT !.pending = FALSE, !.repairing = TRUE]}
         /\ state' \in {SteadyState, "InProgress", "Waiting"}
         /\ timers' = timers
  <2>1. CASE (HandleVerified \/ HandleUnverifiedDisconnected)
             /\ CheckDue(settle) /\ DispatchCheck(settle, gen)
    BY <1>2, <2>1, DueCheckTyped
  <2>2. CASE HandleVerified /\ ~(CheckDue(settle) /\ DispatchCheck(settle, gen))
    BY <2>2 DEF SettlementOver
  <2>3. CASE HandleUnverifiedDisconnected
             /\ ~(CheckDue(settle) /\ DispatchCheck(settle, gen))
    BY <2>3
  <2>4. CASE ~HandleVerified /\ ~HandleUnverifiedDisconnected
    BY <2>4 DEF dispatchVars
  <2> QED
    BY <2>1, <2>2, <2>3, <2>4
<1>4. SettlementOK(settle') /\ state' \in States
  BY <1>1, <1>3, SettlementUpdates DEF States, SteadyState
<1>5. timers' \in Seq([gen : Nat, for : Nat])
  BY <1>3 DEF DispatchTypes
<1>6. (SessionTypes /\ SettlementIdle)'
  <2>1. UNCHANGED req
    OBVIOUS
  <2>2. sess' \in SessionType
    BY SessionUpdates DEF SessionTypes
  <2>3. base' \in {base, [base EXCEPT !.flight = TRUE]}
    OBVIOUS
  <2> QED
    BY <1>4, <2>1, <2>2, <2>3 DEF SettlementOK, SessionTypes, SettlementIdle
<1>7. RecoveryTypes'
  <2> USE DEF RecoveryTypes, recoveryVars
  <2>1. CASE HandleCheckPassed \/ HandleVerified
    BY <2>1 DEF LeaseType, RestoreType, CurrentPolicy, SessionTypes
  <2>2. CASE ~HandleCheckPassed /\ ~HandleVerified
    BY <2>2
  <2> QED
    BY <2>1, <2>2
<1>8. (FenceTypes /\ DispatchTypes)'
  <2>1. UNCHANGED <<deferred, held, phase>> /\ todo' = Tail(todo)
    BY DEF fenceVars, Return
  <2>2. gen' \in {gen, gen + 1}
    BY DEF dispatchVars
  <2>3. \/ UNCHANGED <<worker, tasks>>
        \/ \E b \in BOOLEAN, g \in {gen, gen + 1} : StartWorker("Apply", ApplyTask(g, b))
    BY DEF fenceVars, dispatchVars, DispatchCheck
  <2>4. /\ worker' \in [kind : WorkerKinds, gen : Nat] \cup {None}
        /\ tasks' \in Seq(TaskType)
    <3>1. CASE UNCHANGED <<worker, tasks>>
      BY <3>1 DEF DispatchTypes, FenceTypes
    <3>2. ASSUME NEW b \in BOOLEAN, NEW g \in {gen, gen + 1},
                 StartWorker("Apply", ApplyTask(g, b))
          PROVE  /\ worker' \in [kind : WorkerKinds, gen : Nat] \cup {None}
                 /\ tasks' \in Seq(TaskType)
      <4>1. ApplyTask(g, b) \in TaskType
        BY <1>2, TaskTyped
      <4>2. "Apply" \in WorkerKinds
        BY DEF WorkerKinds
      <4> QED
        BY <3>2, <4>1, <4>2, StartWorkerTyped
    <3> QED
      BY <2>3, <3>1, <3>2
  <2> QED
    BY <1>2, <1>5, <2>1, <2>2, <2>4 DEF DispatchTypes, FenceTypes
<1>9. HostTypes'
  BY DEF HostTypes, hostVars, exitVars
<1>10. HistoryTypes'
  <2>1. UNCHANGED <<tiers, taskExists, debt, newest, retries>>
    BY DEF machineVars
  <2>2. replies' \in [1..MaxSends -> [apply : 0..2, verify : 0..2]]
    BY PublishTyped DEF HistoryTypes
  <2> QED
    BY <2>1, <2>2 DEF HistoryTypes
<1> QED
  BY <1>6, <1>7, <1>8, <1>9, <1>10

-----------------------------------------------------------------------------
(* Resets, refresh rates and restores.                                      *)

RestoreCompletion ==
  \/ HandleResetFailedExit \/ HandleResetDone \/ HandleRefreshCancelled
  \/ HandleRefreshDone \/ HandleCancelledRecovery \/ HandleRestored
  \/ HandleAttemptFailed \/ HandleCancelledValidation \/ HandleConfirmed
  \/ ExitAfterReset \/ AfterRestore

(* What the completions of a reset and a restore find on the stack.         *)
LEMMA RestoreCompletionTop ==
  ASSUME TypeOK, RestoreCompletion
  PROVE  /\ Tail(todo) \in Seq(FrameType)
         /\ Handling("ResetDone") => Msg.ok \in BOOLEAN
         /\ Handling("RecoverDone") => Msg.reset \in {"none", "ok", "failed"}
<1>1. todo \in Seq(FrameType)
  BY DEF TypeOK, FenceTypes
<1>2. todo # <<>>
  BY DEF RestoreCompletion, HandleResetFailedExit, HandleResetDone,
         HandleRefreshCancelled, HandleRefreshDone, HandleCancelledRecovery,
         HandleRestored, HandleAttemptFailed, HandleCancelledValidation,
         HandleConfirmed, ExitAfterReset, AfterRestore, Handling, OnTop
<1> QED
  BY <1>1, <1>2, TailType, Handled, MessageKinds

(* The completions of resets and restores keep every type.                  *)
LEMMA RestoreCompletionTyped ==
  ASSUME IInv, RestoreCompletion, UNCHANGED hostUnchanged
  PROVE  IInv'
<1> USE RestoreCompletionTop
    DEF IInv, TypeOK, hostUnchanged, RestoreCompletion, HandleResetFailedExit,
        HandleResetDone, HandleRefreshCancelled, HandleRefreshDone,
        HandleCancelledRecovery, HandleRestored, HandleAttemptFailed,
        HandleCancelledValidation, HandleConfirmed, ExitAfterReset, AfterRestore
<1>1. SettlementOK(settle)
  BY DEF SettlementOK, SessionTypes, SettlementIdle
<1>2. gen \in Nat /\ gen + 1 \in Nat
  BY DEF DispatchTypes
<1>3. /\ SettlementOK(settle')
      /\ state' \in States
      /\ timers' \in Seq([gen : Nat, for : Nat])
  <2>1. CASE HandleRefreshDone
    <3>1. \E g \in {gen, gen + 1} :
            IF settle.requested /\ CheckDue(settle)
            THEN DispatchCheck(settle, g)
            ELSE SettlementOver /\ UNCHANGED <<state, timers>>
      BY <2>1
    <3>2. CASE \E g \in {gen, gen + 1} : CheckDue(settle) /\ DispatchCheck(settle, g)
      BY <1>2, <3>2, DueCheckTyped
    <3>3. CASE SettlementOver /\ UNCHANGED <<state, timers>>
      BY <1>1, <3>3, SettlementUpdates
         DEF SettlementOver, SessionTypes, DispatchTypes
    <3> QED
      BY <3>1, <3>2, <3>3
  <2>2. CASE ~HandleRefreshDone
    <3>1. /\ UNCHANGED <<settle, timers>>
          /\ state' \in {state, "RecoveryValidation", "EventLoop", "Waiting"}
      BY <2>2 DEF sessionVars, dispatchVars
    <3> QED
      BY <1>1, <3>1 DEF SessionTypes, DispatchTypes, States
  <2> QED
    BY <2>1, <2>2
<1>4. (SessionTypes /\ SettlementIdle)'
  <2>1. UNCHANGED <<req, base>>
    BY DEF sessionVars
  <2>2. sess' \in SessionType
    BY SessionUpdates DEF SessionTypes, sessionVars
  <2> QED
    BY <1>3, <2>1, <2>2 DEF SettlementOK, SessionTypes, SettlementIdle
<1>5. RecoveryTypes'
  <2> USE DEF RecoveryTypes, recoveryVars
  <2>1. lease' \in LeaseType /\ attempted' \in BOOLEAN
    BY DEF LeaseType, RetainLease, Released
  <2>2. restore' \in RestoreType
    BY DEF RestoreType
  <2>3. staging' \in StagingType
    BY DEF StagingType, ResetSettled, BeginReset, StageOutlives
  <2> QED
    BY <2>1, <2>2, <2>3
<1>6. FenceTypes'
  <2> USE DEF FenceTypes, fenceVars
  <2>1. UNCHANGED <<deferred, held>>
    OBVIOUS
  <2>2. worker' \in [kind : WorkerKinds, gen : Nat] \cup {None}
    <3>1. CASE HandleRestored
      <4>1. worker' = [kind |-> "Recovery", gen |-> gen]
        BY <3>1 DEF Owns
      <4> QED
        BY <1>2, <4>1 DEF WorkerKinds
    <3>2. CASE ~HandleRestored
      BY <3>2
    <3> QED
      BY <3>1, <3>2
  <2>3. todo' \in Seq(FrameType)
    <3>1. CASE HandleConfirmed
      <4> DEFINE after == [op |-> "afterRestore", resetFailed |-> StageOutlives(staging),
                           followup |-> HasDeferredFollowup(deferred)]
      <4>1. after \in FrameType
        BY FrameTyped DEF StageOutlives, HasDeferredFollowup, RecoveryTypes, StagingType
      <4>2. todo' = <<DrainFrame, after>> \o Tail(todo)
        BY <3>1 DEF ReturnInto
      <4> HIDE DEF after
      <4> QED
        BY <4>1, <4>2, FrameTyped, PushTyped
    <3>2. CASE HandleResetDone
      BY <3>2, FrameTyped, PushTyped DEF ReturnInto
    <3>3. CASE ~HandleConfirmed /\ ~HandleResetDone
      BY <3>3, FrameTyped, PushTyped DEF ReturnInto, Return
    <3> QED
      BY <3>1, <3>2, <3>3
  <2> QED
    BY <2>1, <2>2, <2>3
<1>7. DispatchTypes'
  <2>1. gen' \in {gen, gen + 1}
    BY DEF dispatchVars, ExitCallback
  <2>2. \/ tasks' = tasks
        \/ tasks' = Append(tasks, ValidateTask(gen))
        \/ tasks' = Append(tasks, ResetTask(gen))
    BY DEF dispatchVars, BeginReset
  <2>3. tasks' \in Seq(TaskType)
    <3>1. /\ ValidateTask(gen) \in TaskType
          /\ ResetTask(gen) \in TaskType
          /\ tasks \in Seq(TaskType)
      BY <1>2, TaskTyped DEF DispatchTypes
    <3>2. /\ Append(tasks, ValidateTask(gen)) \in Seq(TaskType)
          /\ Append(tasks, ResetTask(gen)) \in Seq(TaskType)
      BY <3>1, AppendType
    <3> QED
      BY <2>2, <3>1, <3>2
  <2> QED
    BY <1>2, <1>3, <2>1, <2>3 DEF DispatchTypes
<1>8. HostTypes'
  <2>1. heartbeat' \in BOOLEAN
    BY DEF HostTypes
  <2>2. running' \in BOOLEAN /\ origin' \in {origin, 0}
    BY DEF HostTypes, exitVars, ExitCallback
  <2> QED
    BY <2>1, <2>2 DEF HostTypes, hostVars
<1>9. HistoryTypes'
  BY DEF HistoryTypes, machineVars
<1> QED
  BY <1>4, <1>5, <1>6, <1>7, <1>8, <1>9

-----------------------------------------------------------------------------
(* Display events and the tick.                                             *)

(* What the display-event handler leaves on the stack.                      *)
LEMMA EventTop ==
  ASSUME TypeOK, HandleEvent
  PROVE  Tail(todo) \in Seq(FrameType)
<1>1. Handling("Event")
  BY DEF HandleEvent, HandleBaselineReturn, HandleEventIgnored, HandleSameIdentity,
         HandleIdentityQueued, HandleIdentityReplaced, HandleEventInWindow,
         HandleEventReopens, RetriableEvent, EventFresh
<1> QED
  BY <1>1, Handled

EventOrTick == HandleEvent \/ HandleTick

(* Display events and the periodic tick keep every type.                    *)
LEMMA EventOrTickTyped ==
  ASSUME IInv, EventOrTick, UNCHANGED hostUnchanged
  PROVE  IInv'
<1> USE EventTop
    DEF IInv, TypeOK, hostUnchanged, EventOrTick, HandleEvent, HandleBaselineReturn,
        HandleEventIgnored, HandleSameIdentity, HandleIdentityQueued,
        HandleIdentityReplaced, HandleEventInWindow, HandleEventReopens,
        RetriableEvent, HandleTick
<1>1. gen \in Nat /\ gen + 1 \in Nat /\ req.seq \in Nat /\ req.epoch \in Nat
  BY DEF SessionTypes, DispatchTypes
<1>2. (SessionTypes /\ SettlementIdle)'
  <2>1. state' \in {state, "Verification", "InProgress", "Recovery"}
    BY DEF sessionVars, StartRecovery
  <2>2. UNCHANGED <<req, settle>>
    BY DEF sessionVars
  <2>3. base' \in {base, [base EXCEPT !.avail = FALSE]}
    BY DEF sessionVars
  <2>4. sess' \in SessionType
    BY SessionUpdates, BudgetUpdates DEF SessionTypes, sessionVars, MayDiscover
  <2> QED
    BY <2>1, <2>2, <2>3, <2>4 DEF SessionTypes, SettlementIdle, States
<1>3. RecoveryTypes'
  BY DEF RecoveryTypes, recoveryVars, RestoreType
<1>4. (FenceTypes /\ DispatchTypes)'
  <2>1. UNCHANGED <<held, timers, phase>> /\ gen' \in {gen, gen + 1}
    BY DEF fenceVars, dispatchVars
  <2>2. todo' \in Seq(FrameType)
    BY DEF FenceTypes, Return
  <2>3. deferred' \in Seq(DeferrableType)
    <3>1. [kind |-> "Repair", epoch |-> req.epoch] \in DeferrableType
      BY <1>1 DEF DeferrableType
    <3>2. UNCHANGED deferred \/ Enqueue([kind |-> "Repair", epoch |-> req.epoch])
      BY DEF fenceVars
    <3> QED
      BY <3>1, <3>2, EnqueueTyped DEF FenceTypes
  <2>4. \/ UNCHANGED <<worker, tasks>>
        \/ \E kind \in WorkerKinds, t \in TaskType : StartWorker(kind, t)
        \/ UNCHANGED worker /\ \E t \in TaskType : tasks' = Append(tasks, t)
    <3>1. CASE HandleTick \/ HandleEventReopens
      BY <3>1, <1>1, TaskTyped DEF StartRecovery, WorkerKinds
    <3>2. CASE HandleIdentityReplaced
      BY <3>2, <1>1, TaskTyped DEF WorkerKinds
    <3>3. CASE HandleBaselineReturn
      BY <3>3, <1>1, TaskTyped DEF Purposes, fenceVars
    <3>4. CASE HandleEventIgnored \/ HandleSameIdentity \/ HandleIdentityQueued
                 \/ HandleEventInWindow
      BY <3>4 DEF fenceVars, dispatchVars
    <3> QED
      BY <3>1, <3>2, <3>3, <3>4
  <2>5. /\ worker' \in [kind : WorkerKinds, gen : Nat] \cup {None}
        /\ tasks' \in Seq(TaskType)
    BY <2>4, DispatchedTyped
  <2> QED
    BY <1>1, <2>1, <2>2, <2>3, <2>5 DEF DispatchTypes, FenceTypes
<1>5. HostTypes'
  BY DEF HostTypes, hostVars, exitVars
<1>6. HistoryTypes'
  <2>1. UNCHANGED <<tiers, taskExists, debt, newest, replies, sent, posted>>
    BY DEF machineVars
  <2>2. retries' \in 0..MaxRetries
    <3>1. retries' = retries \/ (retries < MaxRetries /\ retries' = retries + 1)
      OBVIOUS
    <3> QED
      BY <3>1, ConstantsAssumption DEF ConstantsAssumption, HistoryTypes
  <2> QED
    BY <2>1, <2>2 DEF HistoryTypes
<1> QED
  BY <1>2, <1>3, <1>4, <1>5, <1>6

-----------------------------------------------------------------------------
(* The dispatcher's threads.                                                *)

(* The worker thread keeps every type.                                      *)
LEMMA WorkerTyped ==
  ASSUME IInv, WorkerThread
  PROVE  IInv'
<1> USE DEF IInv, TypeOK, WorkerThread, ApplyWorker, ApplyRefused, ApplyArms,
        ApplyAbortsAtBoundary, ApplyTouches, ApplyCompletes, VerifyRuns, ResetRuns,
        RefreshRuns, RecoveryWorker, RecoveryAborts, RecoveryBegins, RecoveryMarks,
        RecoveryCompletes, ValidationRuns
<1>1. tasks # <<>> /\ tasks \in Seq(TaskType)
  BY DEF At, DispatchTypes
<1>2. Tail(tasks) \in Seq(TaskType) /\ Task \in TaskType
  BY <1>1, TailType DEF Task
<1>3. mailbox' = mailbox \/ \E m \in MessageType : mailbox' = Append(mailbox, m)
  <2>1. CASE ApplyRefused \/ ApplyAbortsAtBoundary \/ ApplyCompletes
    <3>1. Task.gen \in Nat /\ Task.for \in Nat /\ phase.armed \in BOOLEAN
      BY <1>2, <2>1 DEF TaskType, At, DispatchTypes
    <3>2. \A st \in Statuses, t, a, s \in BOOLEAN : ApplyDone(st, t, a, s) \in MessageType
      BY <3>1 DEF ApplyDone, MessageType, ApplyDoneType
    <3> QED
      BY <2>1, <3>1, <3>2 DEF Complete, Statuses
  <2>2. CASE VerifyRuns
    <3>1. Task.gen \in Nat /\ Task.for \in Nat /\ Task.purpose \in Purposes
      BY <1>2, <2>2 DEF TaskType, At
    <3>2. \A ok \in BOOLEAN :
            [kind |-> "VerifyDone", gen |-> Task.gen, for |-> Task.for,
             purpose |-> Task.purpose, ok |-> ok] \in MessageType
      BY <3>1 DEF MessageType
    <3> QED
      BY <2>2, <3>2 DEF Complete
  <2>3. CASE ResetRuns \/ ValidationRuns
    <3>1. Task.gen \in Nat
      BY <1>2 DEF TaskType
    <3>2. \A ok \in BOOLEAN :
            /\ [kind |-> "ResetDone", gen |-> Task.gen, ok |-> ok] \in MessageType
            /\ [kind |-> "ValidateDone", gen |-> Task.gen, ok |-> ok] \in MessageType
      BY <3>1 DEF MessageType
    <3> QED
      BY <2>3, <3>2 DEF Complete
  <2>4. CASE RefreshRuns
    <3>1. Task.gen \in Nat /\ Task.inScope \in BOOLEAN
      BY <1>2, <2>4 DEF TaskType, At
    <3>2. \A ok \in BOOLEAN :
            [kind |-> "RefreshDone", gen |-> Task.gen, ok |-> ok,
             inScope |-> Task.inScope] \in MessageType
      BY <3>1 DEF MessageType
    <3> QED
      BY <2>4, <3>2 DEF Complete
  <2>5. CASE RecoveryAborts \/ RecoveryCompletes
    <3>1. Task.gen \in Nat
      BY <1>2 DEF TaskType
    <3>2. \A ok, t \in BOOLEAN, r \in {"none", "ok", "failed"} :
            RecoverDone(ok, t, r) \in MessageType
      BY <3>1 DEF MessageType, RecoverDone
    <3> QED
      BY <2>5, <3>2 DEF Complete
  <2>6. CASE ApplyArms \/ ApplyTouches \/ RecoveryBegins \/ RecoveryMarks
    BY <2>6
  <2> QED
    BY <2>1, <2>2, <2>3, <2>4, <2>5, <2>6
<1>4. (SessionTypes /\ SettlementIdle)'
  BY DEF workerUnchanged, SessionTypes, SettlementIdle, sessionVars
<1>5. RecoveryTypes'
  BY DEF workerUnchanged, RecoveryTypes, recoveryVars
<1>6. FenceTypes'
  BY DEF workerUnchanged, FenceTypes, fenceVars
<1>7. DispatchTypes'
  <2>1. UNCHANGED <<gen, timers>> /\ tasks' \in {tasks, Tail(tasks)}
    BY DEF workerUnchanged, Complete
  <2>2. phase' \in [at : {"start", "boundary", "touched"}, armed : BOOLEAN]
    <3>1. CASE ApplyArms
      BY <3>1
    <3>2. CASE ApplyTouches \/ RecoveryBegins \/ RecoveryMarks
      BY <3>2 DEF DispatchTypes
    <3>3. CASE phase' = AtStart
      BY <3>3 DEF AtStart
    <3> QED
      BY <3>1, <3>2, <3>3 DEF Complete
  <2> QED
    BY <1>2, <2>1, <2>2 DEF DispatchTypes
<1>8. HostTypes'
  <2>1. UNCHANGED <<epoch, bound, origin, link, running, ticket, heartbeat>>
    BY DEF workerUnchanged, exitVars
  <2> QED
    BY <1>3, <2>1 DEF HostTypes
<1>9. HistoryTypes'
  <2>1. (taskExists \in BOOLEAN /\ debt \in BOOLEAN)'
    BY DEF HistoryTypes
  <2>2. UNCHANGED <<tiers, newest, replies, budgetVars>>
    BY DEF workerUnchanged
  <2> QED
    BY <2>1, <2>2 DEF HistoryTypes, budgetVars
<1> QED
  BY <1>4, <1>5, <1>6, <1>7, <1>8, <1>9

(* The timer thread keeps every type.                                       *)
LEMMA TimerTyped ==
  ASSUME IInv, TimerThread
  PROVE  IInv'
<1> USE DEF IInv, TypeOK, TimerThread, workerUnchanged
<1>1. /\ Tail(timers) \in Seq([gen : Nat, for : Nat])
      /\ Head(timers) \in [gen : Nat, for : Nat]
  BY TailType DEF DispatchTypes
<1>2. [op |-> "verify", gen |-> Head(timers).gen, purpose |-> "TransientDisconnect",
       for |-> Head(timers).for] \in TaskType
  BY <1>1 DEF TaskType, Purposes
<1>3. DispatchTypes'
  BY <1>1, <1>2 DEF DispatchTypes
<1> QED
  BY <1>3 DEF SessionTypes, SettlementIdle, sessionVars, RecoveryTypes, recoveryVars,
              FenceTypes, fenceVars, HostTypes, exitVars, HistoryTypes, budgetVars

-----------------------------------------------------------------------------
(* The host loop.                                                           *)

(* process_queue's delivery keeps every type.                               *)
LEMMA ReceiveTyped ==
  ASSUME IInv, Receive
  PROVE  IInv'
<1> USE DEF IInv, TypeOK
<1> DEFINE m == Head(mailbox)
           rest == Tail(mailbox)
<1>1. rest \in Seq(MessageType) /\ m \in MessageType
  BY TailType DEF Receive, HostTypes
<1>2. PICK n \in 0..Len(rest) :
        /\ todo' = [i \in 1..(n + 1) |-> HandleFrame(IF i <= n THEN rest[i] ELSE m)]
        /\ mailbox' = SubSeq(rest, n + 1, Len(rest))
  BY DEF Receive
<1>3. todo' \in Seq(FrameType)
  <2>1. \A i \in 1..(n + 1) :
          HandleFrame(IF i <= n THEN rest[i] ELSE m) \in FrameType
    BY <1>1, FrameTyped
  <2> HIDE DEF m, rest
  <2>2. n + 1 \in Nat
    BY <1>1
  <2> QED
    BY <1>2, <2>1, <2>2
<1>4. mailbox' \in Seq(MessageType)
  <2> HIDE DEF m, rest
  <2> QED
    BY <1>1, <1>2
<1> USE DEF Receive
<1>5. (SessionTypes /\ SettlementIdle)' /\ RecoveryTypes'
  BY DEF SessionTypes, SettlementIdle, sessionVars, RecoveryTypes, recoveryVars
<1>6. FenceTypes' /\ DispatchTypes'
  BY <1>3 DEF FenceTypes, fenceVars, DispatchTypes, dispatchVars
<1>7. HostTypes'
  BY <1>4 DEF HostTypes, Links, exitVars
<1>8. HistoryTypes'
  BY DEF HistoryTypes, machineVars, budgetVars
<1> QED
  BY <1>5, <1>6, <1>7, <1>8

(* Actions that move only the pipe, the mailbox and the ticket.            *)
PipeStep ==
  \/ FireTicket \/ HeartbeatTimeout \/ Connect \/ PipeBreaks
  \/ SendStop \/ (\E kind \in Commands : Send(kind))
  \/ \E event \in Events : Notify(event)

(* What the client sends is a message of the mailbox.                       *)
LEMMA CommandTyped ==
  ASSUME IInv, NEW kind \in Commands, kind # "Stop", NEW c \in CommandsOf(kind)
  PROVE  c \in MessageType
<1>1. bound \in Nat /\ sent + 1 \in Nat
  BY ConstantsAssumption DEF IInv, TypeOK, HostTypes, HistoryTypes, ConstantsAssumption
<1>2. kind \in CommandKinds
  BY ConstantsAssumption DEF ConstantsAssumption
<1>3. CASE kind \in {"Apply", "Revert"}
  BY <1>1, <1>3 DEF CommandsOf, MessageType, DeferrableType
<1>4. CASE kind \in {"Disarm", "ForceDisarm"}
  <2>1. c \in [kind : {"Disarm"}, seq : Nat, epoch : Nat, force : BOOLEAN]
    BY <1>1, <1>4 DEF CommandsOf
  <2> QED
    BY <2>1 DEF MessageType, DeferrableType
<1>5. CASE kind \in {"Refresh", "Reset", "Snapshot"}
  BY <1>1, <1>5 DEF CommandsOf, MessageType, DeferrableType
<1> QED
  BY <1>2, <1>3, <1>4, <1>5 DEF CommandKinds

(* The pipe thread and the client keep every type.                          *)
LEMMA PipeTyped ==
  ASSUME IInv, PipeStep
  PROVE  IInv'
<1> USE DEF IInv, TypeOK, PipeStep, FireTicket, HeartbeatTimeout, Connect,
        PipeBreaks, SendStop, Send, ClientSends, Notify
<1>1. (SessionTypes /\ SettlementIdle)' /\ RecoveryTypes' /\ FenceTypes'
  BY DEF SessionTypes, SettlementIdle, sessionVars, RecoveryTypes, recoveryVars,
         FenceTypes, fenceVars
<1>2. DispatchTypes'
  <2>1. UNCHANGED <<tasks, timers, phase>> /\ gen' \in {gen, gen + 1}
    BY DEF dispatchVars
  <2> QED
    BY <2>1 DEF DispatchTypes
<1>3. mailbox' \in Seq(MessageType)
  <2>1. CASE FireTicket
    <3>1. ticket \in [event : EventKinds, gen : Nat, epoch : Nat]
      BY <2>1 DEF HostTypes
    <3>2. [kind |-> "Event", event |-> ticket.event, gen |-> ticket.gen,
           epoch |-> ticket.epoch] \in MessageType
      BY <3>1 DEF MessageType
    <3> QED
      BY <2>1, <3>2 DEF HostTypes
  <2>2. CASE \E kind \in Commands : Send(kind)
    BY <2>2, CommandTyped DEF HostTypes
  <2>3. CASE ~FireTicket /\ ~\E kind \in Commands : Send(kind)
    BY <2>3 DEF HostTypes
  <2> QED
    BY <2>1, <2>2, <2>3
<1>4. ticket' \in [event : EventKinds, gen : Nat, epoch : Nat] \cup {None}
  <2>1. ASSUME NEW event \in Events, Notify(event)
        PROVE  ticket' \in [event : EventKinds, gen : Nat, epoch : Nat] \cup {None}
    BY <2>1, ConstantsAssumption
       DEF HostTypes, DispatchTypes, Merge, ConstantsAssumption
  <2> QED
    BY <2>1 DEF HostTypes
<1>5. HostTypes'
  <2>1. /\ epoch' \in {epoch, epoch + 1}
        /\ bound' \in {bound, epoch + 1}
        /\ origin' \in {origin, bound}
    BY DEF exitVars
  <2>2. (link \in Links /\ running \in BOOLEAN /\ heartbeat \in BOOLEAN)'
    BY DEF HostTypes, exitVars, Links
  <2> QED
    BY <1>3, <1>4, <2>1, <2>2 DEF HostTypes
<1>6. HistoryTypes'
  <2>1. UNCHANGED <<tiers, taskExists, debt, newest, replies, retries>>
    BY DEF machineVars, budgetVars
  <2>2. /\ sent' = sent \/ (sent < MaxSends /\ sent' = sent + 1)
        /\ posted' = posted \/ (posted < MaxEvents /\ posted' = posted + 1)
    BY DEF budgetVars
  <2> QED
    BY <2>1, <2>2, ConstantsAssumption DEF ConstantsAssumption, HistoryTypes
<1> QED
  BY <1>1, <1>2, <1>5, <1>6

(* The disconnect branch of the host loop keeps every type.                 *)
LEMMA DisconnectTyped ==
  ASSUME IInv, Disconnect
  PROVE  IInv'
<1> USE DEF IInv, TypeOK, Disconnect, DisconnectKeeps, DisconnectWaits,
        DisconnectChecks, DisconnectReverts, RetireConnection
<1>1. SettlementOK(settle)
  BY DEF SettlementOK, SessionTypes, SettlementIdle
<1>2. gen' \in Nat
  <2>1. gen' \in {gen, gen + 1}
    BY DEF dispatchVars
  <2> QED
    BY <2>1 DEF DispatchTypes
<1>3. /\ SettlementOK(settle')
      /\ state' \in States
      /\ timers' \in Seq([gen : Nat, for : Nat])
  <2>1. CASE DisconnectChecks
    <3> DEFINE s == [settle EXCEPT !.requested = TRUE]
    <3>1. SettlementOK(s)
      BY <1>1, SettlementUpdates
    <3>2. s.requested /\ s.next < SettleChecks
      BY <1>1, <2>1 DEF SettlementOK, SettlementType, SettleChecks
    <3>3. DispatchCheck(s, gen')
      BY <2>1
    <3>4. /\ state \in States /\ req.seq \in Nat
          /\ timers \in Seq([gen : Nat, for : Nat])
      BY DEF SessionTypes, DispatchTypes
    <3> HIDE DEF s
    <3> QED
      BY <1>2, <3>1, <3>2, <3>3, <3>4, CheckTyped
  <2>2. CASE DisconnectKeeps \/ DisconnectWaits \/ DisconnectReverts
    BY <1>1, <2>2, SettlementUpdates DEF SessionTypes, DispatchTypes, dispatchVars
  <2> QED
    BY <2>1, <2>2
<1>4. (SessionTypes /\ SettlementIdle)'
  <2>1. sess' \in SessionType
    BY SessionUpdates DEF SessionTypes, Prepared
  <2> QED
    BY <1>3, <2>1 DEF SettlementOK, SessionTypes, SettlementIdle
<1>5. RecoveryTypes'
  BY DEF RecoveryTypes, recoveryVars
<1>6. FenceTypes'
  <2>1. [kind |-> "Revert", seq |-> 0, epoch |-> 0, fromDisconnect |-> TRUE]
          \in MessageType
    BY DEF MessageType, DeferrableType
  <2>2. <<HandleFrame([kind |-> "Revert", seq |-> 0, epoch |-> 0,
                       fromDisconnect |-> TRUE])>> \in Seq(FrameType)
    BY <2>1, FrameTyped
  <2>3. todo' \in Seq(FrameType)
    BY <2>2 DEF FenceTypes
  <2> QED
    BY <2>3 DEF FenceTypes, fenceVars
<1>7. DispatchTypes'
  BY <1>2, <1>3 DEF DispatchTypes, dispatchVars
<1>8. HostTypes'
  <2>1. mailbox' \in Seq(MessageType)
    BY RetiredTyped DEF HostTypes
  <2>2. /\ UNCHANGED <<epoch, bound, running, ticket>>
        /\ origin' \in {origin, bound}
        /\ link' = "listening"
        /\ heartbeat' = FALSE
    OBVIOUS
  <2> QED
    BY <2>1, <2>2 DEF HostTypes, Links
<1>9. HistoryTypes'
  BY DEF HistoryTypes, machineVars, budgetVars
<1> QED
  BY <1>4, <1>5, <1>6, <1>7, <1>8, <1>9

(* The passage of time keeps every type.                                    *)
LEMMA TimeTyped ==
  ASSUME IInv, GraceElapses \/ WindowExpires \/ QuietEnds
  PROVE  IInv'
<1> USE DEF IInv, TypeOK, GraceElapses, WindowExpires, QuietEnds, timeUnchanged
<1>1. SettlementOK(settle')
  BY SettlementUpdates DEF SettlementOK, SessionTypes, SettlementIdle
<1>2. (SessionTypes /\ SettlementIdle)'
  BY <1>1 DEF SettlementOK, SessionTypes, SettlementIdle
<1>3. RecoveryTypes'
  BY DEF RecoveryTypes, RestoreType
<1> QED
  BY <1>2, <1>3 DEF FenceTypes, fenceVars, DispatchTypes, dispatchVars, HostTypes,
     hostVars, exitVars, HistoryTypes, machineVars, budgetVars

-----------------------------------------------------------------------------
(* The theorems.                                                            *)

(* The helper starts with every variable in its type.                       *)
LEMMA InitTyped == Init => IInv
<1> SUFFICES ASSUME Init PROVE IInv
  OBVIOUS
<1> USE DEF Init
<1>1. SessionTypes /\ SettlementIdle
  BY Defaults DEF SessionTypes, SettlementIdle, States, NoRequest, Layouts
<1>2. RecoveryTypes
  BY DEF RecoveryTypes, LeaseType, NoLease, RestoreType, NoRestore, StagingType,
         NoStaging
<1>3. FenceTypes /\ DispatchTypes
  BY DEF FenceTypes, DispatchTypes, AtStart
<1>4. HostTypes
  <2>1. [kind |-> "Revert", seq |-> 0, epoch |-> 0, fromDisconnect |-> FALSE]
          \in MessageType
    BY DEF MessageType, DeferrableType
  <2>2. mailbox \in Seq(MessageType)
    <3>1. <<[kind |-> "Revert", seq |-> 0, epoch |-> 0, fromDisconnect |-> FALSE]>>
            \in Seq(MessageType) /\ <<>> \in Seq(MessageType)
      BY <2>1
    <3> QED
      BY <3>1
  <2>3. link \in Links
    BY DEF Links
  <2> QED
    BY <2>2, <2>3 DEF HostTypes
<1>5. HistoryTypes
  <2>1. /\ 0 \in 0..MaxSends /\ 0 \in 0..MaxEvents /\ 0 \in 0..MaxRetries
        /\ taskExists \in BOOLEAN
    BY ConstantsAssumption DEF ConstantsAssumption
  <2>2. replies \in [1..MaxSends -> [apply : 0..2, verify : 0..2]]
    OBVIOUS
  <2> QED
    BY <2>1, <2>2 DEF HistoryTypes
<1> QED
  BY <1>1, <1>2, <1>3, <1>4, <1>5 DEF IInv, TypeOK

(* Every handler of the main thread keeps every type.                       *)
LEMMA HandlersTyped ==
  ASSUME IInv, Handlers, UNCHANGED hostUnchanged
  PROVE  IInv'
<1>1. CASE HandleCommand
  <2>1. UNCHANGED <<phase, hostVars, sent, posted>>
    BY DEF hostUnchanged
  <2> QED
    BY <1>1, <2>1, CommandsSession, CommandsRecovery, CommandsFence, CommandsHost,
       CommandsHistory DEF IInv, TypeOK
<1>2. CASE ~HandleCommand
  BY <1>2, ApplyCompletionTyped, OutcomeTyped, VerifyDoneTyped,
     RestoreCompletionTyped, EventOrTickTyped
     DEF Handlers, HandleCompletion, Continue, ApplyCompletion, RestoreCompletion,
         EventOrTick
<1> QED
  BY <1>1, <1>2

(* Every step of the helper keeps every type.                               *)
LEMMA NextTyped == IInv /\ [Next]_vars => IInv'
<1> SUFFICES ASSUME IInv, [Next]_vars PROVE IInv'
  OBVIOUS
<1>1. CASE Next
  <2>1. CASE Handle
    BY <2>1, HandlersTyped DEF Handle
  <2>2. CASE Tick
    BY <2>2, EventOrTickTyped DEF Tick, EventOrTick
  <2>3. CASE ~Handle /\ ~Tick
    BY <1>1, <2>3, ReceiveTyped, PipeTyped, DisconnectTyped, WorkerTyped,
       TimerTyped, TimeTyped DEF Next, Host, Client, Environment, PipeStep
  <2> QED
    BY <2>1, <2>2, <2>3
<1>2. CASE UNCHANGED vars
  BY <1>2 DEF vars, IInv, TypeOK, SettlementIdle, SessionTypes, sessionVars,
              RecoveryTypes, recoveryVars, FenceTypes, fenceVars, DispatchTypes,
              dispatchVars, HostTypes, hostVars, exitVars, HistoryTypes,
              machineVars, budgetVars
<1> QED
  BY <1>1, <1>2

(* The invariant holds throughout.                                          *)
LEMMA SpecTyped == Spec => []IInv
BY InitTyped, NextTyped, PTL DEF Spec

(* Every state of the helper has its type, for any requests, commands and   *)
(* bounds: the repair budgets of a session (size_t in the code) never go    *)
(* below zero, and the index into the delays of the disconnect checks never *)
(* passes their end.                                                        *)
THEOREM TypeCorrect == Spec => []TypeOK
<1>1. IInv => TypeOK
  BY DEF IInv
<1> QED
  BY <1>1, SpecTyped, PTL

-----------------------------------------------------------------------------
(* A restore runs under its lease.                                          *)

(* RestoreLeased alone is not inductive: a restore that completes moves the *)
(* state machine to RecoveryValidation or EventLoop whatever state it is in *)
(* by then, so what must be under the lease is the worker.                  *)
LeaseInv ==
  RestorePending \/ (WorkerActive /\ worker.kind = "Recovery")
    => lease.armed /\ tiers

(* Steps that begin no restore and keep the lease.                         *)
LEMMA LeaseKept ==
  ASSUME LeaseInv,
         state' \in {state, "Waiting", "InProgress", "Verification",
                     "VirtualDisplayMonitoring"},
         worker' \in {worker, None} \/ worker'.kind \in {"Apply", "RefreshRate"},
         lease.armed => lease'.armed,
         tiers => tiers'
  PROVE  LeaseInv'
BY DEF LeaseInv, RestorePending, WorkerActive

(* The fence names the kind of mutation that was started.                   *)
LEMMA StartedKind ==
  ASSUME NEW kind, NEW t, StartWorker(kind, t)
  PROVE  worker'.kind = kind
BY DEF StartWorker

(* The command handlers keep restores under the lease.                      *)
LEMMA CommandsLease ==
  ASSUME TypeOK, LeaseInv, HandleCommand
  PROVE  LeaseInv'
<1>0. lease \in LeaseType
  BY DEF TypeOK, RecoveryTypes
<1> USE <1>0 DEF LeaseInv, RestorePending, WorkerActive, sessionVars, recoveryVars,
        fenceVars, machineVars, LeaseType
<1>1. CASE HandleApply \/ HandleRepair \/ HandleRefresh
  <2>1. state' \in {state, "InProgress"} /\ worker'.kind \in {"Apply", "RefreshRate"}
    BY <1>1, StartedKind DEF HandleApply, HandleRepair, HandleRefresh
  <2>2. lease'.armed = lease.armed
    BY <1>1 DEF HandleApply, HandleRepair, HandleRefresh
  <2>3. tiers => tiers'
    BY <1>1 DEF HandleApply, HandleRepair, HandleRefresh
  <2> QED
    BY <2>1, <2>2, <2>3, LeaseKept
<1>2. CASE HandleRevertPolicyOff \/ HandleRevertNothing \/ HandleDisarm
  BY <1>2 DEF HandleRevertPolicyOff, HandleRevertNothing, HandleDisarm, RevertRuns,
              ClearRecoveryState, AnyTier
<1>3. CASE HandleRevert
  BY <1>3 DEF HandleRevert, RevertRuns, AnyTier, RevertLease, machineVars
<1>4. CASE HandleStaleCommand \/ HandleApplyDeferred \/ HandleRepairDropped
             \/ HandleRevertJoins \/ HandleRevertDeferred \/ HandleDisarmIgnored
             \/ HandleDisarmDeferred \/ HandleSnapshot \/ HandleRefreshRejected
             \/ HandleResetDeferred \/ HandleReset
  BY <1>4 DEF HandleStaleCommand, HandleApplyDeferred, HandleRepairDropped,
              HandleRevertJoins, HandleRevertDeferred, HandleDisarmIgnored,
              HandleDisarmDeferred, HandleSnapshot, HandleRefreshRejected,
              HandleResetDeferred, HandleReset, RevertLease
<1> QED
  BY <1>1, <1>2, <1>3, <1>4 DEF HandleCommand

(* The completions of APPLYs and verifications keep restores under the lease.*)
LEMMA ApplyLease ==
  ASSUME TypeOK, LeaseInv, ApplyCompletion \/ ApplyOutcome \/ HandleVerifyDone
  PROVE  LeaseInv'
<1>0. lease \in LeaseType
  BY DEF TypeOK, RecoveryTypes
<1> USE <1>0 DEF LeaseInv, RestorePending, WorkerActive, sessionVars, recoveryVars,
        fenceVars, machineVars, LeaseType, SteadyState
<1>1. CASE HandleForeignCompletion \/ HandleCancelledApplyTouched
             \/ HandleCancelledApplyUntouched \/ DrainNext \/ DrainEnds
             \/ ResumeFinish
  BY <1>1 DEF HandleForeignCompletion, HandleCancelledApplyTouched,
              HandleCancelledApplyUntouched, DrainNext, DrainEnds, ResumeFinish,
              RetainLease, Remembered, DropUncommitted
<1>2. CASE HandleApplyDone \/ AfterReset
  BY <1>2 DEF HandleApplyDone, AfterReset, AcceptApply, Remembered
<1>3. CASE ApplyOutcome
  <2> USE <1>3 DEF ApplyOutcome, OutcomeBaselineFailed, OutcomeChecked,
      OutcomeRepaired, OutcomeVerify, OutcomeHdrFallback, OutcomeFailed
  <2>1. state' \in {state, "Waiting", "InProgress", "Verification",
                    "VirtualDisplayMonitoring"}
    BY DEF DispatchCheck
  <2>2. worker' = worker \/ worker'.kind = "Apply"
    BY StartedKind
  <2>3. lease.armed => lease'.armed
    BY DEF DropUncommitted
  <2>4. tiers' = tiers
    OBVIOUS
  <2> QED
    BY <2>1, <2>2, <2>3, <2>4, LeaseKept
<1>4. CASE HandleVerifyDone
  <2> USE <1>4 DEF HandleVerifyDone, HandleCheckPassed, HandleCheckFailed,
      HandleVerified, HandleBaselineVerified, HandleUnverifiedDisconnected,
      HandleBaselineMissing, HandleBaselineUnrepaired, HandleUnverifiedReapply,
      HandleUnverified
  <2>1. state' \in {state, "Waiting", "InProgress", "Verification",
                    "VirtualDisplayMonitoring"}
    BY DEF DispatchCheck
  <2>2. worker' = worker \/ worker'.kind = "Apply"
    BY StartedKind
  <2>3. lease.armed => lease'.armed
    OBVIOUS
  <2>4. tiers' = tiers
    OBVIOUS
  <2> QED
    BY <2>1, <2>2, <2>3, <2>4, LeaseKept
<1> QED
  BY <1>1, <1>2, <1>3, <1>4 DEF ApplyCompletion

(* The completions of restores keep the next ones under the lease.          *)
LEMMA RestoreCompletionLease ==
  ASSUME TypeOK, LeaseInv, RestoreCompletion
  PROVE  LeaseInv'
<1>0. lease \in LeaseType
  BY DEF TypeOK, RecoveryTypes
<1> USE <1>0 DEF LeaseInv, RestorePending, WorkerActive, sessionVars, recoveryVars,
        fenceVars, machineVars, LeaseType
<1>1. CASE HandleResetFailedExit \/ HandleResetDone \/ ExitAfterReset \/ AfterRestore
  BY <1>1 DEF HandleResetFailedExit, HandleResetDone, ExitAfterReset, AfterRestore
<1>2. CASE HandleRefreshCancelled \/ HandleRefreshDone
  BY <1>2 DEF HandleRefreshCancelled, HandleRefreshDone, DispatchCheck
<1>3. CASE HandleCancelledRecovery \/ HandleCancelledValidation
  BY <1>3 DEF HandleCancelledRecovery, HandleCancelledValidation, RetainLease, Owns
<1>4. CASE HandleRestored \/ HandleAttemptFailed
  <2>1. WorkerActive /\ worker.kind = "Recovery"
    <3>1. worker = [kind |-> "Recovery", gen |-> Msg.gen]
      BY <1>4 DEF HandleRestored, HandleAttemptFailed, Owns
    <3>2. Msg.gen \in Nat
      <4>1. \E kind \in {"RecoverDone", "ValidateDone"} : Handling(kind)
        BY <1>4 DEF HandleRestored, HandleAttemptFailed
      <4> QED
        BY <4>1, Handled, MessageKinds
    <3>3. worker # None
      BY <3>1, <3>2, NoneAssumption DEF NoneAssumption, WorkerKinds
    <3> QED
      BY <3>1, <3>3
  <2>2. UNCHANGED <<lease, tiers>>
    BY <1>4 DEF HandleRestored, HandleAttemptFailed
  <2> QED
    BY <2>1, <2>2
<1>5. CASE HandleConfirmed
  BY <1>5 DEF HandleConfirmed
<1> QED
  BY <1>1, <1>2, <1>3, <1>4, <1>5 DEF RestoreCompletion

(* Events and ticks start restores only under the lease.                    *)
LEMMA EventOrTickLease ==
  ASSUME TypeOK, LeaseInv, EventOrTick
  PROVE  LeaseInv'
<1> USE DEF EventOrTick, HandleEvent, sessionVars, recoveryVars, fenceVars, machineVars
<1>1. CASE HandleEventReopens \/ HandleTick
  <2>1. state = "EventLoop" /\ lease.armed
    BY <1>1 DEF HandleEventReopens, HandleTick, RetriableEvent, TickAllowed
  <2>2. UNCHANGED <<lease, tiers>>
    BY <1>1 DEF HandleEventReopens, HandleTick
  <2> QED
    BY <2>1, <2>2 DEF LeaseInv, RestorePending
<1>2. CASE ~HandleEventReopens /\ ~HandleTick
  <2> USE <1>2 DEF HandleBaselineReturn, HandleEventIgnored, HandleSameIdentity,
      HandleIdentityQueued, HandleIdentityReplaced, HandleEventInWindow
  <2>1. state' \in {state, "Verification", "InProgress"}
    OBVIOUS
  <2>2. worker' = worker \/ worker'.kind = "Apply"
    BY StartedKind
  <2>3. UNCHANGED <<lease, tiers>>
    OBVIOUS
  <2> QED
    BY <2>1, <2>2, <2>3, LeaseKept
<1> QED
  BY <1>1, <1>2

(* Every step keeps restores under the lease.                               *)
LEMMA NextLease == IInv /\ LeaseInv /\ [Next]_vars => LeaseInv'
<1> SUFFICES ASSUME IInv, LeaseInv, [Next]_vars PROVE LeaseInv'
  OBVIOUS
<1>0. TypeOK
  BY DEF IInv
<1>1. CASE Handle \/ Tick
  BY <1>0, <1>1, CommandsLease, ApplyLease, RestoreCompletionLease, EventOrTickLease
     DEF Handle, Tick, Handlers, HandleCompletion, Continue, ApplyCompletion,
         RestoreCompletion, EventOrTick
<1>2. CASE WorkerThread \/ TimerThread
  <2>1. UNCHANGED <<state, worker, lease, tiers>>
    BY <1>2 DEF WorkerThread, ApplyWorker, ApplyRefused, ApplyArms,
       ApplyAbortsAtBoundary, ApplyTouches, ApplyCompletes, VerifyRuns, ResetRuns,
       RefreshRuns, RecoveryWorker, RecoveryAborts, RecoveryBegins, RecoveryMarks,
       RecoveryCompletes, ValidationRuns, TimerThread, workerUnchanged,
       sessionVars, recoveryVars, fenceVars
  <2> QED
    BY <2>1 DEF LeaseInv, RestorePending, WorkerActive
<1>3. CASE Receive \/ PipeStep \/ Disconnect
  <2>1. UNCHANGED <<worker, lease, tiers>> /\ state' \in {state, "Verification"}
    BY <1>3 DEF Receive, PipeStep, FireTicket, HeartbeatTimeout, Connect, PipeBreaks,
       SendStop, Send, ClientSends, Notify, Disconnect, DisconnectKeeps,
       DisconnectWaits, DisconnectChecks, DisconnectReverts, RetireConnection,
       DispatchCheck, sessionVars, recoveryVars, fenceVars, machineVars
  <2> QED
    BY <2>1 DEF LeaseInv, RestorePending, WorkerActive
<1>4. CASE GraceElapses \/ WindowExpires \/ QuietEnds \/ UNCHANGED vars
  <2>1. UNCHANGED <<state, worker, lease, tiers>>
    BY <1>4 DEF GraceElapses, WindowExpires, QuietEnds, timeUnchanged, vars,
       sessionVars, recoveryVars, fenceVars, machineVars
  <2> QED
    BY <2>1 DEF LeaseInv, RestorePending, WorkerActive
<1> QED
  BY <1>1, <1>2, <1>3, <1>4 DEF Next, Host, Client, Environment, PipeStep

(* A restore is pending only while the recovery lease is up and a snapshot  *)
(* tier exists to restore from, whatever cancels, supersedes or disarms it. *)
THEOREM RestoreLeasedHolds == Spec => []RestoreLeased
<1>1. Init => LeaseInv
  BY DEF Init, LeaseInv, RestorePending, WorkerActive
<1>2. IInv /\ LeaseInv => RestoreLeased
  BY DEF LeaseInv, RestoreLeased
<1> QED
  BY <1>1, <1>2, NextLease, SpecTyped, PTL DEF Spec

-----------------------------------------------------------------------------
(* The rest of an APPLY completion runs with the fence down.                *)

Clean(q) == \A i \in DOMAIN q : q[i].op # "outcome"

(* An outcome is never buried: it runs next, with no worker in flight.     *)
OutcomeInv ==
  Clean(todo) \/ (todo # <<>> /\ Clean(Tail(todo)) /\ worker = None)

(* Returning from a handler leaves no unfinished completion below.          *)
LEMMA CleanTail ==
  ASSUME NEW q \in Seq(FrameType), q # <<>>, Clean(q)
  PROVE  Clean(Tail(q))
BY DEF Clean

(* Calls other than finish_apply_completed leave none either.               *)
LEMMA CleanPush ==
  ASSUME NEW q \in Seq(FrameType), Clean(q), NEW a, NEW b,
         a.op # "outcome", b.op # "outcome"
  PROVE  Clean(<<a>> \o q) /\ Clean(<<a, b>> \o q)
BY DEF Clean

(* Returning from a call leaves what was below it.                          *)
LEMMA TailPush ==
  ASSUME NEW q \in Seq(FrameType), NEW a \in FrameType
  PROVE  Tail(<<a>> \o q) = q /\ <<a>> \o q # <<>>
OBVIOUS

(* Every handler pops its own frame, and what it pushes in its place is no  *)
(* outcome, except for the completion that just retired its worker.         *)
LEMMA HandlersClean ==
  ASSUME IInv, OutcomeInv, Handlers
  PROVE  OutcomeInv'
<1>0. TypeOK /\ todo \in Seq(FrameType)
  BY DEF IInv, TypeOK, FenceTypes
<1>1. todo # <<>> /\ Tail(todo) \in Seq(FrameType)
  <2>1. todo # <<>>
    BY DEF Handlers, HandleCommand, HandleStaleCommand, HandleApplyDeferred,
       HandleApply, HandleRepairDropped, HandleRepair, HandleRevertJoins,
       HandleRevertDeferred, HandleRevertPolicyOff, HandleRevertNothing,
       HandleRevert, RevertRuns, HandleDisarmIgnored, HandleDisarmDeferred,
       HandleDisarm, HandleSnapshot, HandleRefreshRejected, HandleRefresh,
       HandleResetDeferred, HandleReset, HandleCompletion,
       HandleForeignCompletion, HandleApplyDone, HandleCancelledApplyTouched,
       HandleCancelledApplyUntouched, HandleVerifyDone, HandleCheckPassed,
       HandleCheckFailed, HandleVerified, HandleBaselineVerified,
       HandleUnverifiedDisconnected, HandleBaselineMissing,
       HandleBaselineUnrepaired, HandleUnverifiedReapply, HandleUnverified,
       Verified, Unverified, HandleResetFailedExit, HandleResetDone,
       HandleRefreshCancelled, HandleRefreshDone, HandleCancelledRecovery,
       HandleRestored, HandleAttemptFailed, HandleCancelledValidation,
       HandleConfirmed, Continue, DrainNext, DrainEnds, ResumeFinish,
       ApplyOutcome, OutcomeBaselineFailed, OutcomeChecked, OutcomeRepaired,
       OutcomeVerify, OutcomeHdrFallback, OutcomeFailed, OutcomeFails,
       AfterReset, ExitAfterReset, AfterRestore, HandleEvent,
       HandleBaselineReturn, HandleEventIgnored, HandleSameIdentity,
       HandleIdentityQueued, HandleIdentityReplaced, HandleEventInWindow,
       HandleEventReopens, RetriableEvent, EventFresh, Handling, OnTop
  <2> QED
    BY <1>0, <2>1, TailType
<1>2. Clean(Tail(todo))
  BY <1>0, <1>1, CleanTail DEF OutcomeInv
<1>3. Clean(<<DrainFrame>> \o Tail(todo))
  <2>1. DrainFrame.op # "outcome"
    BY DEF DrainFrame
  <2> QED
    BY <1>1, <1>2, <2>1, CleanPush
<1>4. CASE HandleCommand
  <2>1. todo' = Tail(todo)
    BY <1>4 DEF HandleCommand, HandleStaleCommand, HandleApplyDeferred,
       HandleApply, HandleRepairDropped, HandleRepair, HandleRevertJoins,
       HandleRevertDeferred, HandleRevertPolicyOff, HandleRevertNothing,
       HandleRevert, HandleDisarmIgnored, HandleDisarmDeferred,
       HandleDisarm, HandleSnapshot, HandleRefreshRejected, HandleRefresh,
       HandleResetDeferred, HandleReset, Return
  <2> QED
    BY <1>2, <2>1 DEF OutcomeInv
<1>5. CASE HandleEvent \/ HandleVerifyDone
  <2>1. todo' = Tail(todo)
    BY <1>5 DEF HandleEvent, HandleBaselineReturn, HandleEventIgnored,
       HandleSameIdentity, HandleIdentityQueued, HandleIdentityReplaced,
       HandleEventInWindow, HandleEventReopens, HandleVerifyDone,
       HandleCheckPassed, HandleCheckFailed, HandleVerified,
       HandleBaselineVerified, HandleUnverifiedDisconnected,
       HandleBaselineMissing, HandleBaselineUnrepaired, HandleUnverifiedReapply,
       HandleUnverified, Return
  <2> QED
    BY <1>2, <2>1 DEF OutcomeInv
<1>6. CASE ApplyOutcome
  <2>1. todo' = Tail(todo) \/ todo' = <<DrainFrame>> \o Tail(todo)
    BY <1>6 DEF ApplyOutcome, OutcomeBaselineFailed, OutcomeChecked,
       OutcomeRepaired, OutcomeVerify, OutcomeHdrFallback, OutcomeFailed, Return,
       ReturnInto
  <2> QED
    BY <1>2, <1>3, <2>1 DEF OutcomeInv
<1>7. CASE RestoreCompletion
  <2>1. CASE HandleResetDone \/ HandleConfirmed
    <3>1. \E f : f.op # "outcome" /\ todo' = <<DrainFrame, f>> \o Tail(todo)
      <4>1. [op |-> "afterReset"].op # "outcome"
        OBVIOUS
      <4>2. \A b, c : [op |-> "afterRestore", resetFailed |-> b, followup |-> c].op
                        # "outcome"
        OBVIOUS
      <4> QED
        BY <2>1, <4>1, <4>2 DEF HandleResetDone, HandleConfirmed, ReturnInto
    <3> QED
      BY <1>1, <1>2, <3>1, CleanPush DEF OutcomeInv, DrainFrame
  <2>2. CASE ~HandleResetDone /\ ~HandleConfirmed
    <3>1. todo' = Tail(todo) \/ todo' = <<DrainFrame>> \o Tail(todo)
      BY <1>7, <2>2 DEF RestoreCompletion, HandleResetFailedExit,
         HandleRefreshCancelled, HandleRefreshDone, HandleCancelledRecovery,
         HandleRestored, HandleAttemptFailed, HandleCancelledValidation,
         ExitAfterReset, AfterRestore, Return, ReturnInto
    <3> QED
      BY <1>2, <1>3, <3>1 DEF OutcomeInv
  <2> QED
    BY <2>1, <2>2
<1>8. CASE HandleForeignCompletion \/ HandleCancelledApplyTouched
             \/ HandleCancelledApplyUntouched \/ DrainEnds
  <2>1. todo' = Tail(todo) \/ todo' = <<DrainFrame>> \o Tail(todo)
    BY <1>8 DEF HandleForeignCompletion, HandleCancelledApplyTouched,
       HandleCancelledApplyUntouched, DrainEnds, Return, ReturnInto
  <2> QED
    BY <1>2, <1>3, <2>1 DEF OutcomeInv
<1>9. CASE DrainNext
  <2>1. Head(todo).op = "drain" /\ todo' = <<HandleFrame(Head(deferred))>> \o todo
    BY <1>9 DEF DrainNext, OnTop
  <2>2. \A i \in DOMAIN todo : todo[i] = IF i = 1 THEN Head(todo) ELSE Tail(todo)[i - 1]
    BY <1>0, <1>1
  <2>3. Clean(todo)
    <3> SUFFICES ASSUME NEW i \in DOMAIN todo PROVE todo[i].op # "outcome"
      BY DEF Clean
    <3>1. CASE i = 1
      BY <2>1, <2>2, <3>1
    <3>2. CASE i # 1
      <4>1. i - 1 \in DOMAIN Tail(todo)
        BY <1>0, <1>1, <3>2
      <4> QED
        BY <1>2, <2>2, <3>2, <4>1 DEF Clean
    <3> QED
      BY <3>1, <3>2
  <2>4. HandleFrame(Head(deferred)).op # "outcome"
    BY DEF HandleFrame
  <2> QED
    BY <1>0, <2>1, <2>3, <2>4, CleanPush DEF OutcomeInv
<1>10. CASE ResumeFinish
  <2>1. CASE todo' = Tail(todo)
    BY <1>2, <2>1 DEF OutcomeInv
  <2>2. CASE todo' # Tail(todo)
    <3>1. worker' = None
      BY <1>10, <2>2 DEF ResumeFinish, Return, WorkerActive
    <3> DEFINE f == [op |-> "outcome", done |-> Head(todo).done,
                     baseline |-> Head(todo).baseline]
    <3>2. todo' = <<f>> \o Tail(todo)
      BY <1>10, <2>2 DEF ResumeFinish, Return, ReturnInto
    <3>3. f \in FrameType
      <4>1. Done \in ApplyDoneType /\ Head(todo).baseline \in BOOLEAN
        BY <1>0, <1>10, OutcomeOnTopType DEF ResumeFinish, OnTop
      <4> QED
        BY <4>1, FrameTyped DEF Done
    <3> HIDE DEF f
    <3> QED
      BY <1>1, <1>2, <3>1, <3>2, <3>3, TailPush DEF OutcomeInv
  <2> QED
    BY <2>1, <2>2
<1>11. CASE HandleApplyDone \/ AfterReset
  <2>1. ASSUME NEW d \in ApplyDoneType, NEW h, NEW rest \in Seq(FrameType), Clean(rest),
               AcceptApply(d, lease, h, rest), worker' = None
        PROVE  OutcomeInv'
    <3> DEFINE f(op) == [op |-> op, done |-> d, baseline |-> base.flight]
    <3>1. base.flight \in BOOLEAN
      BY <1>0 DEF TypeOK, SessionTypes
    <3>2. todo' = <<DrainFrame, f("resume")>> \o rest \/ todo' = <<f("outcome")>> \o rest
      BY <2>1 DEF AcceptApply
    <3>3. f("outcome") \in FrameType /\ f("resume").op # "outcome"
      BY <3>1, FrameTyped
    <3> HIDE DEF f
    <3>4. CASE todo' = <<DrainFrame, f("resume")>> \o rest
      BY <2>1, <3>3, <3>4, CleanPush DEF OutcomeInv, DrainFrame
    <3>5. CASE todo' = <<f("outcome")>> \o rest
      BY <2>1, <3>3, <3>5, TailPush DEF OutcomeInv
    <3> QED
      BY <3>2, <3>4, <3>5
  <2>2. CASE HandleApplyDone
    <3>1. Msg \in ApplyDoneType
      BY <1>0, <2>2, ApplyCompletionTop DEF ApplyCompletion, HandleApplyDone
    <3> QED
      BY <1>1, <1>2, <2>1, <2>2, <3>1 DEF HandleApplyDone
  <2>3. CASE AfterReset
    <3> DEFINE f == [op |-> "exitAfterReset"]
               exit == <<f>> \o Tail(todo)
    <3>1. f \in FrameType /\ f.op # "outcome"
      BY FrameTyped
    <3>2. exit \in Seq(FrameType) /\ Clean(exit)
      BY <1>1, <1>2, <3>1, PushTyped, CleanPush
    <3>3. CASE held # None /\ ~WorkerActive /\ AcceptApply(held, lease, None, exit)
      <4>1. held \in ApplyDoneType
        BY <1>0, <3>3 DEF TypeOK, FenceTypes
      <4>2. worker' = None
        BY <2>3, <3>3 DEF AfterReset, WorkerActive
      <4> HIDE DEF exit
      <4> QED
        BY <2>1, <3>2, <3>3, <4>1, <4>2
    <3>4. CASE todo' = exit
      BY <3>2, <3>4 DEF OutcomeInv
    <3> QED
      BY <2>3, <3>3, <3>4 DEF AfterReset
  <2> QED
    BY <1>11, <2>2, <2>3
<1> QED
  BY <1>4, <1>5, <1>6, <1>7, <1>8, <1>9, <1>10, <1>11
     DEF Handlers, HandleCompletion, Continue, RestoreCompletion

(* Every step does.                                                         *)
LEMMA NextClean == IInv /\ OutcomeInv /\ [Next]_vars => OutcomeInv'
<1> SUFFICES ASSUME IInv, OutcomeInv, [Next]_vars PROVE OutcomeInv'
  OBVIOUS
<1>1. CASE Handle
  BY <1>1, HandlersClean DEF Handle
<1>2. CASE Receive
  <2>1. \E n \in Nat : \E m \in [1..(n + 1) -> MessageType] :
          todo' = [i \in 1..(n + 1) |-> HandleFrame(m[i])]
    <3> DEFINE q == mailbox
    <3>1. q \in Seq(MessageType) /\ q # <<>>
      BY <1>2 DEF IInv, TypeOK, HostTypes, Receive
    <3>2. Head(q) \in MessageType /\ Tail(q) \in Seq(MessageType)
      BY <3>1, TailType
    <3>3. PICK n \in 0..Len(Tail(q)) :
            todo' = [i \in 1..(n + 1) |->
                       HandleFrame(IF i <= n THEN Tail(q)[i] ELSE Head(q))]
      BY <1>2 DEF Receive
    <3> DEFINE m == [i \in 1..(n + 1) |-> IF i <= n THEN Tail(q)[i] ELSE Head(q)]
    <3>4. n \in Nat /\ m \in [1..(n + 1) -> MessageType]
      BY <3>2
    <3>5. todo' = [i \in 1..(n + 1) |-> HandleFrame(m[i])]
      BY <3>3
    <3> QED
      BY <3>4, <3>5
  <2>2. Clean(todo')
    BY <2>1 DEF Clean, HandleFrame
  <2> QED
    BY <2>2 DEF OutcomeInv
<1>3. CASE Disconnect
  <2>1. todo = <<>> /\ (todo' = todo \/ \E m : todo' = <<HandleFrame(m)>>)
    BY <1>3 DEF Disconnect, DisconnectKeeps, DisconnectWaits, DisconnectChecks,
       DisconnectReverts, RetireConnection, Idle
  <2>2. Clean(todo')
    BY <2>1 DEF Clean, HandleFrame
  <2> QED
    BY <2>2 DEF OutcomeInv
<1>4. CASE Tick
  BY <1>4 DEF Tick, HandleTick, OutcomeInv, Clean
<1>5. CASE WorkerThread \/ TimerThread \/ PipeStep \/ GraceElapses \/ WindowExpires
             \/ QuietEnds \/ UNCHANGED vars
  <2>1. UNCHANGED <<todo, worker>>
    BY <1>5 DEF WorkerThread, ApplyWorker, ApplyRefused, ApplyArms,
       ApplyAbortsAtBoundary, ApplyTouches, ApplyCompletes, VerifyRuns, ResetRuns,
       RefreshRuns, RecoveryWorker, RecoveryAborts, RecoveryBegins, RecoveryMarks,
       RecoveryCompletes, ValidationRuns, TimerThread, workerUnchanged, PipeStep,
       FireTicket, HeartbeatTimeout, Connect, PipeBreaks, SendStop, Send,
       ClientSends, Notify, GraceElapses, WindowExpires, QuietEnds, timeUnchanged,
       vars, fenceVars
  <2> QED
    BY <2>1 DEF OutcomeInv, Clean
<1> QED
  BY <1>1, <1>2, <1>3, <1>4, <1>5 DEF Next, Host, Client, Environment, PipeStep

(* finish_apply_completed, which may start a worker of its own, never runs  *)
(* while another display mutation is in flight, whatever was drained before *)
(* it.                                                                      *)
THEOREM FinishUnfencedHolds == Spec => []FinishUnfenced
<1>1. Init => OutcomeInv
  BY DEF Init, OutcomeInv, Clean
<1>2. IInv /\ OutcomeInv => FinishUnfenced
  <2> SUFFICES ASSUME IInv, OutcomeInv, OnTop("outcome") PROVE ~WorkerActive
    BY DEF FinishUnfenced
  <2>1. todo \in Seq(FrameType) /\ todo # <<>> /\ Head(todo).op = "outcome"
    BY DEF IInv, TypeOK, FenceTypes, OnTop
  <2>2. ~Clean(todo)
    BY <2>1 DEF Clean
  <2> QED
    BY <2>2 DEF OutcomeInv, WorkerActive
<1> QED
  BY <1>1, <1>2, NextClean, SpecTyped, PTL DEF Spec

-----------------------------------------------------------------------------
(* Work on its way: queues with at most one element of a kind.             *)

Free(q, G) == \A i \in DOMAIN q : q[i] \notin G

Sole(q, G) ==
  \E i \in DOMAIN q : q[i] \in G /\ \A j \in DOMAIN q : j # i => q[j] \notin G

(* What appending does.                                                     *)
LEMMA AppendSole ==
  ASSUME NEW S, NEW q \in Seq(S), NEW a, NEW G
  PROVE  /\ Free(q, G) /\ a \notin G => Free(Append(q, a), G)
         /\ Free(q, G) /\ a \in G => Sole(Append(q, a), G)
         /\ Sole(q, G) /\ a \notin G => Sole(Append(q, a), G)
<1> DEFINE r == Append(q, a)
<1>1. /\ DOMAIN r = 1..(Len(q) + 1) /\ DOMAIN q = 1..Len(q) /\ Len(q) \in Nat
      /\ \A i \in DOMAIN q : r[i] = q[i]
      /\ r[Len(q) + 1] = a
  OBVIOUS
<1> HIDE DEF r
<1>2. Free(q, G) /\ a \notin G => Free(r, G)
  BY <1>1 DEF Free
<1>3. Free(q, G) /\ a \in G => Sole(r, G)
  BY <1>1 DEF Free, Sole
<1>4. Sole(q, G) /\ a \notin G => Sole(r, G)
  BY <1>1 DEF Sole
<1> QED
  BY <1>2, <1>3, <1>4 DEF r

(* What taking the first element does.                                      *)
LEMMA TailSole ==
  ASSUME NEW S, NEW q \in Seq(S), q # <<>>, NEW G
  PROVE  /\ Free(q, G) => Head(q) \notin G /\ Free(Tail(q), G)
         /\ Sole(q, G) /\ Head(q) \notin G => Sole(Tail(q), G)
         /\ Sole(q, G) /\ Head(q) \in G => Free(Tail(q), G)
<1> DEFINE r == Tail(q)
<1>1. /\ DOMAIN r = 1..(Len(q) - 1) /\ DOMAIN q = 1..Len(q) /\ Len(q) \in Nat
      /\ Len(q) > 0
      /\ \A i \in DOMAIN r : r[i] = q[i + 1]
      /\ Head(q) = q[1]
  OBVIOUS
<1> HIDE DEF r
<1>2. Free(q, G) => Head(q) \notin G /\ Free(r, G)
  BY <1>1 DEF Free
<1>3. Sole(q, G) /\ Head(q) \notin G => Sole(r, G)
  <2> SUFFICES ASSUME Sole(q, G), Head(q) \notin G PROVE Sole(r, G)
    OBVIOUS
  <2>1. PICK i \in DOMAIN q : q[i] \in G /\ \A j \in DOMAIN q : j # i => q[j] \notin G
    BY DEF Sole
  <2>2. i # 1
    BY <1>1, <2>1
  <2>3. i - 1 \in DOMAIN r /\ r[i - 1] \in G
    BY <1>1, <2>1, <2>2
  <2>4. ASSUME NEW j \in DOMAIN r, j # i - 1 PROVE r[j] \notin G
    BY <1>1, <2>1, <2>4
  <2> QED
    BY <2>3, <2>4 DEF Sole
<1>4. Sole(q, G) /\ Head(q) \in G => Free(r, G)
  <2> SUFFICES ASSUME Sole(q, G), Head(q) \in G, NEW j \in DOMAIN r PROVE r[j] \notin G
    BY DEF Free
  <2>1. PICK i \in DOMAIN q : q[i] \in G /\ \A k \in DOMAIN q : k # i => q[k] \notin G
    BY DEF Sole
  <2>2. i = 1
    BY <1>1, <2>1
  <2> QED
    BY <1>1, <2>1, <2>2
<1> QED
  BY <1>2, <1>3, <1>4 DEF r

(* What pushing elements of another kind does.                              *)
LEMMA PushSole ==
  ASSUME NEW S, NEW q \in Seq(S), NEW s \in Seq(S), NEW G, Free(s, G)
  PROVE  /\ Free(q, G) => Free(s \o q, G)
         /\ Sole(q, G) => Sole(s \o q, G)
<1> DEFINE r == s \o q
<1>1. /\ DOMAIN r = 1..(Len(s) + Len(q)) /\ DOMAIN q = 1..Len(q) /\ Len(q) \in Nat
      /\ DOMAIN s = 1..Len(s) /\ Len(s) \in Nat
      /\ \A i \in DOMAIN r : r[i] = IF i <= Len(s) THEN s[i] ELSE q[i - Len(s)]
  OBVIOUS
<1> HIDE DEF r
<1>2. ASSUME NEW i \in DOMAIN r
      PROVE  \/ i \in DOMAIN s /\ r[i] = s[i]
             \/ i - Len(s) \in DOMAIN q /\ r[i] = q[i - Len(s)]
  BY <1>1
<1>3. Free(q, G) => Free(r, G)
  BY <1>2 DEF Free
<1>4. Sole(q, G) => Sole(r, G)
  <2> SUFFICES ASSUME Sole(q, G) PROVE Sole(r, G)
    OBVIOUS
  <2>1. PICK i \in DOMAIN q : q[i] \in G /\ \A j \in DOMAIN q : j # i => q[j] \notin G
    BY DEF Sole
  <2>2. i + Len(s) \in DOMAIN r /\ r[i + Len(s)] = q[i]
    BY <1>1
  <2>3. ASSUME NEW j \in DOMAIN r, j # i + Len(s) PROVE r[j] \notin G
    BY <1>1, <1>2, <2>1, <2>3 DEF Free
  <2> QED
    BY <2>1, <2>2, <2>3 DEF Sole
<1> QED
  BY <1>3, <1>4 DEF r

(* Elements of another kind are dropped: the queue's own kind stays.        *)
LEMMA FilteredSole ==
  ASSUME NEW S, NEW q \in Seq(S), NEW K \in SUBSET DOMAIN q, NEW G,
         \A i \in DOMAIN q : q[i] \in G => i \in K,
         NEW f \in [1..Cardinality(K) -> K],
         \A i, j \in 1..Cardinality(K) : i < j => f[i] < f[j]
  PROVE  LET r == [i \in 1..Cardinality(K) |-> q[f[i]]]
         IN  (Free(q, G) => Free(r, G)) /\ (Sole(q, G) => Sole(r, G))
<1> DEFINE n == Cardinality(K)
           r == [i \in 1..n |-> q[f[i]]]
<1>1. IsFiniteSet(K) /\ n \in Nat
  <2>1. DOMAIN q = 1..Len(q) /\ Len(q) \in Nat
    OBVIOUS
  <2>2. IsFiniteSet(DOMAIN q)
    BY <2>1, FS_Interval
  <2> QED
    BY <2>2, FS_Subset, FS_CardinalityType
<1>2. K \subseteq Nat
  OBVIOUS
<1>3. f \in Injection(1..n, K)
  <2>1. \A i, j \in 1..n : f[i] = f[j] => i = j
    BY <1>1, <1>2
  <2> QED
    BY <2>1 DEF Injection, IsInjective
<1>4. f \in Surjection(1..n, K)
  <2>1. Cardinality(1..n) = n
    BY <1>1, FS_Interval
  <2> QED
    BY <1>1, <1>3, <2>1, FS_Injection
<1>5. \A k \in K : \E i \in 1..n : f[i] = k
  BY <1>4 DEF Surjection
<1>6. \A i, j \in 1..n : f[i] = f[j] => i = j
  BY <1>3 DEF Injection, IsInjective
<1> HIDE DEF n
<1>7. DOMAIN r = 1..n /\ \A i \in 1..n : r[i] = q[f[i]]
  OBVIOUS
<1>8. Free(q, G) => Free(r, G)
  BY <1>7 DEF Free, n
<1>9. Sole(q, G) => Sole(r, G)
  <2> SUFFICES ASSUME Sole(q, G) PROVE Sole(r, G)
    OBVIOUS
  <2>1. PICK k \in DOMAIN q : q[k] \in G /\ \A j \in DOMAIN q : j # k => q[j] \notin G
    BY DEF Sole
  <2>2. PICK i \in 1..n : f[i] = k
    BY <1>5, <2>1
  <2>3. ASSUME NEW j \in 1..n, j # i PROVE r[j] \notin G
    BY <1>6, <1>7, <2>1, <2>2, <2>3 DEF n
  <2> QED
    BY <1>7, <2>1, <2>2, <2>3 DEF Sole
<1> QED
  BY <1>8, <1>9 DEF n

-----------------------------------------------------------------------------
(* Work in flight: tasks of the worker, and the completions that report     *)
(* them, in the mailbox or on the main thread's stack.                      *)

Reports == {<<"apply", "ApplyDone">>, <<"verify", "VerifyDone">>,
            <<"reset", "ResetDone">>, <<"refresh", "RefreshDone">>,
            <<"recover", "RecoverDone">>, <<"validate", "ValidateDone">>}

Frames(M) == {HandleFrame(m) : m \in M}

NoneOf(T, M) == Free(tasks, T) /\ Free(mailbox, M) /\ Free(todo, Frames(M))

OneOf(T, M) ==
  \/ Sole(tasks, T) /\ Free(mailbox, M) /\ Free(todo, Frames(M))
  \/ Free(tasks, T) /\ Sole(mailbox, M) /\ Free(todo, Frames(M))
  \/ Free(tasks, T) /\ Free(mailbox, M) /\ Sole(todo, Frames(M))

\* A kind of work: the tasks and the completions that belong to one another.
Work(T, M) ==
  /\ \A m \in M : IsCompletion(m)
  /\ \A t \in TaskType, m \in MessageType :
        <<t.op, m.kind>> \in Reports /\ t.gen = m.gen => (t \in T <=> m \in M)

(* What the worker does to its queue and the mailbox.                       *)
LEMMA WorkerMoves ==
  ASSUME IInv, WorkerThread
  PROVE  /\ UNCHANGED <<state, req, sess, base, settle, lease, restore, staging, worker,
                        deferred, held, todo, gen, timers, epoch, bound, link, origin,
                        running, ticket, heartbeat, tiers, newest, replies>>
         /\ \/ UNCHANGED <<tasks, mailbox>>
            \/ \E m \in MessageType :
                 /\ tasks # <<>> /\ tasks' = Tail(tasks) /\ mailbox' = Append(mailbox, m)
                 /\ <<Head(tasks).op, m.kind>> \in Reports
                 /\ m.gen = Head(tasks).gen
                 /\ m.kind \in {"ApplyDone", "VerifyDone"} => m.for = Head(tasks).for
                 /\ m.kind = "VerifyDone" => m.purpose = Head(tasks).purpose
<1> USE DEF WorkerThread, ApplyWorker, ApplyRefused, ApplyArms, ApplyAbortsAtBoundary,
        ApplyTouches, ApplyCompletes, VerifyRuns, ResetRuns, RefreshRuns, RecoveryWorker,
        RecoveryAborts, RecoveryBegins, RecoveryMarks, RecoveryCompletes, ValidationRuns
<1>0. tasks # <<>>
  BY DEF At
<1>1. Task \in TaskType
  BY <1>0, TailType DEF IInv, TypeOK, DispatchTypes, Task
<1>2. UNCHANGED <<state, req, sess, base, settle, lease, restore, staging, worker,
                  deferred, held, todo, gen, timers, epoch, bound, link, origin,
                  running, ticket, heartbeat, tiers, newest, replies>>
  BY DEF workerUnchanged, sessionVars, recoveryVars, fenceVars, exitVars
<1>3. phase.armed \in BOOLEAN
  BY DEF IInv, TypeOK, DispatchTypes
<1> DEFINE Moved(m) ==
      /\ m \in MessageType
      /\ tasks' = Tail(tasks) /\ mailbox' = Append(mailbox, m)
      /\ <<Task.op, m.kind>> \in Reports
      /\ m.gen = Task.gen
      /\ m.kind \in {"ApplyDone", "VerifyDone"} => m.for = Task.for
      /\ m.kind = "VerifyDone" => m.purpose = Task.purpose
<1>4. CASE ApplyRefused \/ ApplyAbortsAtBoundary \/ ApplyCompletes
  <2>1. Task.gen \in Nat /\ Task.for \in Nat /\ Task.op = "apply"
    BY <1>1, <1>4 DEF TaskType, At
  <2>2. \A status \in Statuses, t, a, g \in BOOLEAN :
          Complete(ApplyDone(status, t, a, g)) => Moved(ApplyDone(status, t, a, g))
    BY <2>1 DEF MessageType, ApplyDoneType, ApplyDone, Complete, Reports
  <2>3. \E status \in Statuses, t, a, g \in BOOLEAN : Complete(ApplyDone(status, t, a, g))
    BY <1>3, <1>4 DEF Statuses
  <2> QED
    BY <1>0, <1>2, <2>2, <2>3 DEF Task
<1>5. CASE VerifyRuns
  <2> DEFINE m(ok) == [kind |-> "VerifyDone", gen |-> Task.gen, for |-> Task.for,
                       purpose |-> Task.purpose, ok |-> ok]
  <2>1. Task.gen \in Nat /\ Task.for \in Nat /\ Task.purpose \in Purposes /\ Task.op = "verify"
    BY <1>1, <1>5 DEF TaskType, At
  <2>2. \A ok \in BOOLEAN : Complete(m(ok)) => Moved(m(ok))
    BY <2>1 DEF MessageType, Complete, Reports
  <2> QED
    BY <1>0, <1>2, <1>5, <2>2 DEF Task
<1>6. CASE ResetRuns
  <2> DEFINE m(ok) == [kind |-> "ResetDone", gen |-> Task.gen, ok |-> ok]
  <2>1. Task.gen \in Nat /\ Task.op = "reset"
    BY <1>1, <1>6 DEF TaskType, At
  <2>2. \A ok \in BOOLEAN : Complete(m(ok)) => Moved(m(ok))
    BY <2>1 DEF MessageType, Complete, Reports
  <2> QED
    BY <1>0, <1>2, <1>6, <2>2 DEF Task
<1>7. CASE RefreshRuns
  <2> DEFINE m(ok) == [kind |-> "RefreshDone", gen |-> Task.gen, ok |-> ok,
                       inScope |-> Task.inScope]
  <2>1. Task.gen \in Nat /\ Task.inScope \in BOOLEAN /\ Task.op = "refresh"
    BY <1>1, <1>7 DEF TaskType, At
  <2>2. \A ok \in BOOLEAN : Complete(m(ok)) => Moved(m(ok))
    BY <2>1 DEF MessageType, Complete, Reports
  <2> QED
    BY <1>0, <1>2, <1>7, <2>2 DEF Task
<1>8. CASE RecoveryAborts \/ RecoveryCompletes
  <2>1. Task.gen \in Nat /\ Task.op = "recover"
    BY <1>1, <1>8 DEF TaskType, At
  <2>2. \A ok, t \in BOOLEAN, r \in {"none", "ok", "failed"} :
          Complete(RecoverDone(ok, t, r)) => Moved(RecoverDone(ok, t, r))
    BY <2>1 DEF MessageType, RecoverDone, Complete, Reports
  <2>3. \E ok, t \in BOOLEAN, r \in {"none", "ok", "failed"} : Complete(RecoverDone(ok, t, r))
    BY <1>8
  <2> QED
    BY <1>0, <1>2, <2>2, <2>3 DEF Task
<1>9. CASE ValidationRuns
  <2> DEFINE m(ok) == [kind |-> "ValidateDone", gen |-> Task.gen, ok |-> ok]
  <2>1. Task.gen \in Nat /\ Task.op = "validate"
    BY <1>1, <1>9 DEF TaskType, At
  <2>2. \A ok \in BOOLEAN : Complete(m(ok)) => Moved(m(ok))
    BY <2>1 DEF MessageType, Complete, Reports
  <2> QED
    BY <1>0, <1>2, <1>9, <2>2 DEF Task
<1>10. CASE ApplyArms \/ ApplyTouches \/ RecoveryBegins \/ RecoveryMarks
  BY <1>2, <1>10
<1> QED
  BY <1>4, <1>5, <1>6, <1>7, <1>8, <1>9, <1>10

(* Work that the worker completes stays in flight.                          *)
LEMMA WorkerFlow ==
  ASSUME IInv, WorkerThread, NEW T, NEW M, Work(T, M)
  PROVE  (NoneOf(T, M) => NoneOf(T, M)') /\ (OneOf(T, M) => OneOf(T, M)')
<1>1. tasks \in Seq(TaskType) /\ mailbox \in Seq(MessageType)
  BY DEF IInv, TypeOK, DispatchTypes, HostTypes
<1>2. UNCHANGED todo
  BY WorkerMoves
<1>3. CASE UNCHANGED <<tasks, mailbox>>
  BY <1>2, <1>3 DEF NoneOf, OneOf
<1>4. ASSUME NEW m \in MessageType, tasks # <<>>, tasks' = Tail(tasks),
             mailbox' = Append(mailbox, m), <<Head(tasks).op, m.kind>> \in Reports,
             m.gen = Head(tasks).gen
      PROVE  (NoneOf(T, M) => NoneOf(T, M)') /\ (OneOf(T, M) => OneOf(T, M)')
  <2>1. Head(tasks) \in T <=> m \in M
    <3>1. Head(tasks) \in TaskType
      BY <1>1, <1>4, TailType
    <3> HIDE DEF Reports
    <3> QED
      BY <1>4, <3>1 DEF Work
  <2>2. /\ Free(tasks, T) => Head(tasks) \notin T /\ Free(tasks', T)
        /\ Sole(tasks, T) /\ Head(tasks) \notin T => Sole(tasks', T)
        /\ Sole(tasks, T) /\ Head(tasks) \in T => Free(tasks', T)
    BY <1>1, <1>4, TailSole
  <2>3. /\ Free(mailbox, M) /\ m \notin M => Free(mailbox', M)
        /\ Free(mailbox, M) /\ m \in M => Sole(mailbox', M)
        /\ Sole(mailbox, M) /\ m \notin M => Sole(mailbox', M)
    BY <1>1, <1>4, AppendSole
  <2> QED
    BY <1>2, <2>1, <2>2, <2>3 DEF NoneOf, OneOf
<1> QED
  BY <1>3, <1>4, WorkerMoves

(* A frame is of a kind of work if its message is.                          *)
LEMMA FrameOf ==
  ASSUME NEW M
  PROVE  /\ \A m : HandleFrame(m) \in Frames(M) <=> m \in M
         /\ \A f : f.op # "handle" => f \notin Frames(M)
<1>1. \A m, k : HandleFrame(m) = HandleFrame(k) => m = k
  <2> TAKE m, k
  <2> HAVE HandleFrame(m) = HandleFrame(k)
  <2>1. HandleFrame(m).msg = m /\ HandleFrame(k).msg = k
    BY DEF HandleFrame
  <2> QED
    BY <2>1
<1>2. \A m : HandleFrame(m).op = "handle"
  BY DEF HandleFrame
<1> QED
  BY <1>1, <1>2 DEF Frames

(* Dropping a prefix of another kind.                                       *)
LEMMA SuffixSole ==
  ASSUME NEW S, NEW q \in Seq(S), NEW n \in 0..Len(q), NEW G,
         \A i \in 1..n : q[i] \notin G
  PROVE  LET r == SubSeq(q, n + 1, Len(q))
         IN  (Free(q, G) => Free(r, G)) /\ (Sole(q, G) => Sole(r, G))
<1> DEFINE r == SubSeq(q, n + 1, Len(q))
<1>1. /\ DOMAIN r = 1..(Len(q) - n) /\ DOMAIN q = 1..Len(q) /\ Len(q) \in Nat /\ n \in Nat
      /\ \A i \in DOMAIN r : r[i] = q[i + n]
  OBVIOUS
<1> HIDE DEF r
<1>2. Free(q, G) => Free(r, G)
  BY <1>1 DEF Free
<1>3. Sole(q, G) => Sole(r, G)
  <2> SUFFICES ASSUME Sole(q, G) PROVE Sole(r, G)
    OBVIOUS
  <2>1. PICK i \in DOMAIN q : q[i] \in G /\ \A j \in DOMAIN q : j # i => q[j] \notin G
    BY DEF Sole
  <2>2. i > n
    BY <1>1, <2>1
  <2>3. i - n \in DOMAIN r /\ r[i - n] \in G
    BY <1>1, <2>1, <2>2
  <2>4. ASSUME NEW j \in DOMAIN r, j # i - n PROVE r[j] \notin G
    BY <1>1, <2>1, <2>4
  <2> QED
    BY <2>3, <2>4 DEF Sole
<1> QED
  BY <1>2, <1>3 DEF r

(* process_queue hands over one completion at most, the last of its batch.  *)
LEMMA ReceiveFlow ==
  ASSUME IInv, Receive, NEW T, NEW M, Work(T, M)
  PROVE  (NoneOf(T, M) => NoneOf(T, M)') /\ (OneOf(T, M) => OneOf(T, M)')
<1> DEFINE m == Head(mailbox)
           rest == Tail(mailbox)
<1>1. /\ todo = <<>> /\ mailbox # <<>> /\ mailbox \in Seq(MessageType)
      /\ UNCHANGED tasks /\ rest \in Seq(MessageType)
  BY TailType DEF IInv, TypeOK, HostTypes, Receive, Idle, dispatchVars
<1>2. PICK n \in 0..Len(rest) :
        /\ IsPrefixLength(n, m, rest)
        /\ todo' = [i \in 1..(n + 1) |-> HandleFrame(IF i <= n THEN rest[i] ELSE m)]
        /\ mailbox' = SubSeq(rest, n + 1, Len(rest))
  BY DEF Receive
<1>3. \A i \in 1..n : rest[i] \notin M
  <2>1. ASSUME NEW i \in 1..n, IsCompletion(m) PROVE rest[i] \notin M
    <3>1. Overtakes(m, rest[i])
      BY <1>2, <2>1 DEF IsPrefixLength
    <3>2. ~IsCompletion(rest[i])
      BY <3>1 DEF Overtakes, IsCompletion
    <3> QED
      BY <3>2 DEF Work
  <2>2. ASSUME ~IsCompletion(m) PROVE 1..n = {}
    BY <1>2, <2>2 DEF IsPrefixLength
  <2> QED
    BY <2>1, <2>2
<1>4. /\ Free(mailbox, M) => m \notin M /\ Free(rest, M)
      /\ Sole(mailbox, M) /\ m \notin M => Sole(rest, M)
      /\ Sole(mailbox, M) /\ m \in M => Free(rest, M)
  BY <1>1, TailSole
<1> HIDE DEF m, rest
<1>5. (Free(rest, M) => Free(mailbox', M)) /\ (Sole(rest, M) => Sole(mailbox', M))
  BY <1>1, <1>2, <1>3, SuffixSole
<1>6. /\ DOMAIN todo' = 1..(n + 1) /\ n \in Nat
      /\ \A i \in 1..n : todo'[i] \notin Frames(M)
      /\ todo'[n + 1] \in Frames(M) <=> m \in M
  BY <1>1, <1>2, <1>3, FrameOf
<1>7. (m \notin M => Free(todo', Frames(M))) /\ (m \in M => Sole(todo', Frames(M)))
  BY <1>6 DEF Free, Sole
<1>8. Free(todo, Frames(M)) /\ ~Sole(todo, Frames(M))
  BY <1>1 DEF Free, Sole
<1> QED
  BY <1>1, <1>4, <1>5, <1>7, <1>8 DEF NoneOf, OneOf

(* Commands, events and verifications that are due are no such work.        *)
LEMMA AppendFlow ==
  ASSUME IInv, UNCHANGED todo, NEW T, NEW M, Work(T, M),
         tasks' = tasks \/ \E t : tasks' = Append(tasks, t) /\ t \notin T,
         mailbox' = mailbox \/ \E m : mailbox' = Append(mailbox, m) /\ ~IsCompletion(m)
  PROVE  (NoneOf(T, M) => NoneOf(T, M)') /\ (OneOf(T, M) => OneOf(T, M)')
<1>1. tasks \in Seq(TaskType) /\ mailbox \in Seq(MessageType)
  BY DEF IInv, TypeOK, DispatchTypes, HostTypes
<1>2. (Free(tasks, T) => Free(tasks', T)) /\ (Sole(tasks, T) => Sole(tasks', T))
  <2>1. CASE tasks' = tasks
    BY <2>1
  <2>2. ASSUME NEW t, tasks' = Append(tasks, t), t \notin T
        PROVE  (Free(tasks, T) => Free(tasks', T)) /\ (Sole(tasks, T) => Sole(tasks', T))
    BY <1>1, <2>2, AppendSole
  <2> QED
    BY <2>1, <2>2
<1>3. (Free(mailbox, M) => Free(mailbox', M)) /\ (Sole(mailbox, M) => Sole(mailbox', M))
  <2>1. CASE mailbox' = mailbox
    BY <2>1
  <2>2. ASSUME NEW m, mailbox' = Append(mailbox, m), ~IsCompletion(m)
        PROVE  /\ Free(mailbox, M) => Free(mailbox', M)
               /\ Sole(mailbox, M) => Sole(mailbox', M)
    <3>1. m \notin M
      BY <2>2 DEF Work
    <3> QED
      BY <1>1, <2>2, <3>1, AppendSole
  <2> QED
    BY <2>1, <2>2
<1> QED
  BY <1>2, <1>3 DEF NoneOf, OneOf

(* A connection that retires takes its commands along, and no completion.   *)
LEMMA RetireFlow ==
  ASSUME IInv, mailbox' \in Filtered(mailbox, NotOfRetired), UNCHANGED tasks, todo = <<>>,
         todo' = <<>> \/ \E m : todo' = <<HandleFrame(m)>> /\ ~IsCompletion(m),
         NEW T, NEW M, Work(T, M)
  PROVE  (NoneOf(T, M) => NoneOf(T, M)') /\ (OneOf(T, M) => OneOf(T, M)')
<1>1. mailbox \in Seq(MessageType)
  BY DEF IInv, TypeOK, HostTypes
<1> DEFINE K == {i \in DOMAIN mailbox : NotOfRetired(mailbox[i])}
           n == Cardinality(K)
<1>2. PICK f \in [1..n -> K] :
        /\ mailbox' = [i \in 1..n |-> mailbox[f[i]]]
        /\ \A i, j \in 1..n : i < j => f[i] < f[j]
  BY DEF Filtered
<1>3. \A i \in DOMAIN mailbox : mailbox[i] \in M => i \in K
  BY DEF Work, NotOfRetired, IsIngress, IsCompletion
<1>4. K \in SUBSET DOMAIN mailbox
  OBVIOUS
<1> HIDE DEF K
<1>5. (Free(mailbox, M) => Free(mailbox', M)) /\ (Sole(mailbox, M) => Sole(mailbox', M))
  BY <1>1, <1>2, <1>3, <1>4, FilteredSole
<1>6. Free(todo, Frames(M)) /\ ~Sole(todo, Frames(M)) /\ Free(todo', Frames(M))
  <2>1. Free(<<>>, Frames(M)) /\ ~Sole(<<>>, Frames(M))
    BY DEF Free, Sole
  <2>2. ASSUME NEW m, ~IsCompletion(m) PROVE Free(<<HandleFrame(m)>>, Frames(M))
    <3>1. HandleFrame(m) \notin Frames(M)
      BY <2>2, FrameOf DEF Work
    <3> QED
      BY <3>1 DEF Free
  <2> QED
    BY <2>1, <2>2
<1> QED
  BY <1>5, <1>6 DEF NoneOf, OneOf

-----------------------------------------------------------------------------
(* What a handler does to the work in flight.                               *)

\* It returns from its frame and pushes others, none of them a completion.
Calls ==
  /\ todo # <<>>
  /\ UNCHANGED mailbox
  /\ \E s \in Seq(FrameType) :
       /\ todo' = s \o Tail(todo)
       /\ \A i \in DOMAIN s : s[i].op = "handle" => ~IsCompletion(s[i].msg)

Added(T) == \E t \in T : tasks' = Append(tasks, t)

NotAdded(T) == tasks' = tasks \/ \E t : t \notin T /\ tasks' = Append(tasks, t)

\* No work in flight but the completion that is being handled.
Popped(T, M) ==
  Free(tasks, T) /\ Free(mailbox, M) /\ Free(Tail(todo), Frames(M))

(* A part of no work is no work.                                            *)
LEMMA NonePart ==
  ASSUME NEW T, NEW M, NEW U \in SUBSET T, NEW N \in SUBSET M
  PROVE  (NoneOf(T, M) => NoneOf(U, N)) /\ (Popped(T, M) => Popped(U, N))
BY DEF NoneOf, Popped, Free, Frames

(* The only work is over once its completion is handled.                    *)
LEMMA PoppedWork ==
  ASSUME IInv, todo # <<>>, NEW T, NEW M
  PROVE  /\ NoneOf(T, M) => Popped(T, M)
         /\ OneOf(T, M) /\ Head(todo) \in Frames(M) => Popped(T, M)
<1>1. todo \in Seq(FrameType)
  BY DEF IInv, TypeOK, FenceTypes
<1>2. /\ Free(todo, Frames(M)) => Head(todo) \notin Frames(M) /\ Free(Tail(todo), Frames(M))
      /\ Sole(todo, Frames(M)) /\ Head(todo) \in Frames(M) => Free(Tail(todo), Frames(M))
  BY <1>1, TailSole
<1> QED
  BY <1>2 DEF NoneOf, OneOf, Popped

(* What is pushed is no completion.                                         *)
LEMMA PushedFree ==
  ASSUME NEW s, \A i \in DOMAIN s : s[i].op = "handle" => ~IsCompletion(s[i].msg),
         NEW T, NEW M, Work(T, M)
  PROVE  Free(s, Frames(M))
<1> SUFFICES ASSUME NEW i \in DOMAIN s, NEW m \in M, s[i] = HandleFrame(m)
             PROVE  FALSE
  BY DEF Free, Frames
<1>1. s[i].op = "handle" /\ s[i].msg = m
  BY DEF HandleFrame
<1> QED
  BY <1>1 DEF Work

(* A handler loses no work but the one it completes, and adds what it       *)
(* dispatches.                                                              *)
LEMMA CallsFlow ==
  ASSUME IInv, Calls, NEW T, NEW M, Work(T, M)
  PROVE  /\ Popped(T, M) /\ NotAdded(T) => NoneOf(T, M)'
         /\ Popped(T, M) /\ Added(T) => OneOf(T, M)'
         /\ OneOf(T, M) /\ Head(todo) \notin Frames(M) /\ NotAdded(T) => OneOf(T, M)'
<1>1. /\ tasks \in Seq(TaskType) /\ todo \in Seq(FrameType) /\ todo # <<>>
      /\ Tail(todo) \in Seq(FrameType) /\ UNCHANGED mailbox
  BY TailType DEF IInv, TypeOK, DispatchTypes, FenceTypes, Calls
<1>2. PICK s \in Seq(FrameType) :
        /\ todo' = s \o Tail(todo)
        /\ \A i \in DOMAIN s : s[i].op = "handle" => ~IsCompletion(s[i].msg)
  BY DEF Calls
<1>3. Free(s, Frames(M))
  BY <1>2, PushedFree
<1>4. /\ Free(Tail(todo), Frames(M)) => Free(todo', Frames(M))
      /\ Sole(Tail(todo), Frames(M)) => Sole(todo', Frames(M))
  BY <1>1, <1>2, <1>3, PushSole
<1>5. /\ NotAdded(T) /\ Free(tasks, T) => Free(tasks', T)
      /\ NotAdded(T) /\ Sole(tasks, T) => Sole(tasks', T)
      /\ Added(T) /\ Free(tasks, T) => Sole(tasks', T)
  BY <1>1, AppendSole DEF NotAdded, Added
<1>6. /\ Free(todo, Frames(M)) => Free(Tail(todo), Frames(M))
      /\ Sole(todo, Frames(M)) /\ Head(todo) \notin Frames(M) => Sole(Tail(todo), Frames(M))
  BY <1>1, TailSole
<1> QED
  BY <1>1, <1>4, <1>5, <1>6 DEF NoneOf, OneOf, Popped

(* Frames pushed one after the other are pushed together.                   *)
LEMMA PushTwice ==
  ASSUME NEW S, NEW q \in Seq(S), NEW a \in S, NEW b \in S, NEW c \in S
  PROVE  /\ <<>> \o q = q
         /\ <<a>> \o (<<c>> \o q) = <<a, c>> \o q
         /\ <<a, b>> \o (<<c>> \o q) = <<a, b, c>> \o q
         /\ q # <<>> => q = <<Head(q)>> \o Tail(q)
OBVIOUS

(* Pushing up to three frames, none of them a completion, is a call.        *)
LEMMA CallsOf ==
  ASSUME todo # <<>>, UNCHANGED mailbox,
         NEW a \in FrameType, NEW b \in FrameType, NEW c \in FrameType,
         \A f \in {a, b, c} : f.op = "handle" => ~IsCompletion(f.msg),
         \E s \in {<<>>, <<a>>, <<a, b>>, <<a, b, c>>} : todo' = s \o Tail(todo)
  PROVE  Calls
<1>1. PICK s \in {<<>>, <<a>>, <<a, b>>, <<a, b, c>>} : todo' = s \o Tail(todo)
  OBVIOUS
<1>2. s \in Seq(FrameType) /\ \A i \in DOMAIN s : s[i] \in {a, b, c}
  <2>1. CASE s = <<>>
    BY <2>1
  <2>2. CASE s = <<a>>
    BY <2>2
  <2>3. CASE s = <<a, b>>
    BY <2>3
  <2>4. CASE s = <<a, b, c>>
    BY <2>4
  <2> QED
    BY <2>1, <2>2, <2>3, <2>4
<1> QED
  BY <1>1, <1>2 DEF Calls

(* Handlers that only return, or return into a drain.                       *)
SimpleHandlers ==
  \/ HandleCommand \/ HandleEvent \/ HandleVerifyDone \/ ApplyOutcome
  \/ HandleForeignCompletion \/ HandleCancelledApplyTouched
  \/ HandleCancelledApplyUntouched \/ DrainEnds
  \/ HandleResetFailedExit \/ HandleRefreshCancelled \/ HandleRefreshDone
  \/ HandleCancelledRecovery \/ HandleRestored \/ HandleAttemptFailed
  \/ HandleCancelledValidation \/ ExitAfterReset \/ AfterRestore

LEMMA SimpleReturns ==
  ASSUME SimpleHandlers
  PROVE  todo' = Tail(todo) \/ todo' = <<DrainFrame>> \o Tail(todo)
<1>1. CASE HandleCommand
  BY <1>1 DEF HandleCommand, HandleStaleCommand, HandleApplyDeferred, HandleApply,
     HandleRepairDropped, HandleRepair, HandleRevertJoins, HandleRevertDeferred,
     HandleRevertPolicyOff, HandleRevertNothing, HandleRevert, HandleDisarmIgnored,
     HandleDisarmDeferred, HandleDisarm, HandleSnapshot, HandleRefreshRejected,
     HandleRefresh, HandleResetDeferred, HandleReset, Return
<1>2. CASE HandleEvent \/ HandleVerifyDone
  BY <1>2 DEF HandleEvent, HandleBaselineReturn, HandleEventIgnored,
     HandleSameIdentity, HandleIdentityQueued, HandleIdentityReplaced,
     HandleEventInWindow, HandleEventReopens, HandleVerifyDone, HandleCheckPassed,
     HandleCheckFailed, HandleVerified, HandleBaselineVerified,
     HandleUnverifiedDisconnected, HandleBaselineMissing, HandleBaselineUnrepaired,
     HandleUnverifiedReapply, HandleUnverified, Return
<1>3. CASE ApplyOutcome
  BY <1>3 DEF ApplyOutcome, OutcomeBaselineFailed, OutcomeChecked, OutcomeRepaired,
     OutcomeVerify, OutcomeHdrFallback, OutcomeFailed, Return, ReturnInto
<1>4. CASE ~HandleCommand /\ ~HandleEvent /\ ~HandleVerifyDone /\ ~ApplyOutcome
  BY <1>4 DEF SimpleHandlers, HandleForeignCompletion, HandleCancelledApplyTouched,
     HandleCancelledApplyUntouched, DrainEnds, HandleResetFailedExit,
     HandleRefreshCancelled, HandleRefreshDone, HandleCancelledRecovery,
     HandleRestored, HandleAttemptFailed, HandleCancelledValidation,
     ExitAfterReset, AfterRestore, Return, ReturnInto
<1> QED
  BY <1>1, <1>2, <1>3, <1>4

(* A handler finds its frame on the stack.                                  *)
LEMMA HandlersTop ==
  ASSUME Handlers
  PROVE  todo # <<>>
BY DEF Handlers, HandleCommand, HandleStaleCommand, HandleApplyDeferred,
   HandleApply, HandleRepairDropped, HandleRepair, HandleRevertJoins,
   HandleRevertDeferred, HandleRevertPolicyOff, HandleRevertNothing,
   HandleRevert, RevertRuns, HandleDisarmIgnored, HandleDisarmDeferred,
   HandleDisarm, HandleSnapshot, HandleRefreshRejected, HandleRefresh,
   HandleResetDeferred, HandleReset, HandleCompletion,
   HandleForeignCompletion, HandleApplyDone, HandleCancelledApplyTouched,
   HandleCancelledApplyUntouched, HandleVerifyDone, HandleCheckPassed,
   HandleCheckFailed, HandleVerified, HandleBaselineVerified,
   HandleUnverifiedDisconnected, HandleBaselineMissing,
   HandleBaselineUnrepaired, HandleUnverifiedReapply, HandleUnverified,
   Verified, Unverified, HandleResetFailedExit, HandleResetDone,
   HandleRefreshCancelled, HandleRefreshDone, HandleCancelledRecovery,
   HandleRestored, HandleAttemptFailed, HandleCancelledValidation,
   HandleConfirmed, Continue, DrainNext, DrainEnds, ResumeFinish,
   ApplyOutcome, OutcomeBaselineFailed, OutcomeChecked, OutcomeRepaired,
   OutcomeVerify, OutcomeHdrFallback, OutcomeFailed, OutcomeFails,
   AfterReset, ExitAfterReset, AfterRestore, HandleEvent,
   HandleBaselineReturn, HandleEventIgnored, HandleSameIdentity,
   HandleIdentityQueued, HandleIdentityReplaced, HandleEventInWindow,
   HandleEventReopens, RetriableEvent, EventFresh, Handling, OnTop

\* The frames a completed APPLY goes on with.
Finish(op, d, b) == [op |-> op, done |-> d, baseline |-> b]

(* A completed APPLY drains the commands behind it first, or goes on.       *)
LEMMA AcceptReturns ==
  ASSUME IInv, NEW d \in ApplyDoneType, NEW h, NEW rest \in Seq(FrameType),
         AcceptApply(d, lease, h, rest)
  PROVE  /\ base.flight \in BOOLEAN
         /\ \/ HasDeferredApply /\ held' = d
                /\ todo' = <<DrainFrame, Finish("resume", d, base.flight)>> \o rest
            \/ ~HasDeferredApply /\ held' = h
                /\ todo' = <<Finish("outcome", d, base.flight)>> \o rest
<1>1. base.flight \in BOOLEAN
  BY DEF IInv, TypeOK, SessionTypes
<1> QED
  BY <1>1 DEF AcceptApply, Finish

ExitFrame == [op |-> "exitAfterReset"]

(* Every handler returns from its frame and pushes no completion.           *)
LEMMA HandlersCall ==
  ASSUME IInv, Handlers, UNCHANGED mailbox
  PROVE  Calls
<1>0. todo # <<>> /\ todo \in Seq(FrameType) /\ Tail(todo) \in Seq(FrameType)
  BY HandlersTop, TailType DEF IInv, TypeOK, FenceTypes
<1>1. DrainFrame \in FrameType /\ DrainFrame.op = "drain"
  BY FrameTyped DEF DrainFrame
<1>2. CASE SimpleHandlers
  <2>1. \E s \in {<<>>, <<DrainFrame>>, <<DrainFrame, DrainFrame>>,
                  <<DrainFrame, DrainFrame, DrainFrame>>} : todo' = s \o Tail(todo)
    BY <1>0, <1>2, SimpleReturns, PushTwice
  <2> QED
    BY <1>0, <1>1, <2>1, CallsOf
<1>3. CASE HandleResetDone \/ HandleConfirmed
  <2>1. \E f \in FrameType : /\ f.op # "handle"
                             /\ todo' = <<DrainFrame, f>> \o Tail(todo)
    <3>1. CASE HandleResetDone
      <4> DEFINE f == [op |-> "afterReset"]
      <4>1. f \in FrameType /\ f.op # "handle"
        BY FrameTyped
      <4> QED
        BY <3>1, <4>1 DEF HandleResetDone, ReturnInto
    <3>2. CASE HandleConfirmed
      <4>0. HasDeferredFollowup(deferred) \in BOOLEAN /\ StageOutlives(staging) \in BOOLEAN
        BY DEF HasDeferredFollowup, StageOutlives, IInv, TypeOK, RecoveryTypes, StagingType
      <4> DEFINE f == [op |-> "afterRestore", resetFailed |-> StageOutlives(staging),
                       followup |-> HasDeferredFollowup(deferred)]
      <4>1. f \in FrameType /\ f.op # "handle"
        BY <4>0, FrameTyped
      <4> QED
        BY <3>2, <4>1 DEF HandleConfirmed, ReturnInto
    <3> QED
      BY <1>3, <3>1, <3>2
  <2> QED
    BY <1>0, <1>1, <2>1, CallsOf
<1>4. CASE DrainNext
  <2>1. Head(deferred) \in MessageType /\ ~IsCompletion(Head(deferred))
    <3>1. Head(deferred) \in DeferrableType
      BY <1>4, TailType DEF DrainNext, DrainContinues, IInv, TypeOK, FenceTypes
    <3> QED
      BY <3>1 DEF MessageType, DeferrableType, IsCompletion
  <2>2. todo = <<DrainFrame>> \o Tail(todo)
    <3>1. Head(todo) = DrainFrame
      <4>1. Head(todo) \in FrameType /\ Head(todo).op = "drain"
        BY <1>0, <1>4, TailType DEF DrainNext, OnTop
      <4> QED
        BY <4>1 DEF FrameType, DrainFrame
    <3> QED
      BY <1>0, <3>1, PushTwice
  <2> DEFINE f == HandleFrame(Head(deferred))
  <2>3. f \in FrameType /\ f.msg = Head(deferred)
    BY <2>1, FrameTyped DEF HandleFrame
  <2>4. todo' = <<f>> \o todo
    BY <1>4 DEF DrainNext
  <2> HIDE DEF f
  <2>5. todo' = <<f, DrainFrame>> \o Tail(todo)
    BY <1>0, <1>1, <2>2, <2>3, <2>4, PushTwice
  <2> QED
    BY <1>0, <1>1, <2>1, <2>3, <2>5, CallsOf
<1>5. CASE ResumeFinish
  <2> DEFINE f == Finish("outcome", Head(todo).done, Head(todo).baseline)
  <2>1. f \in FrameType /\ f.op # "handle"
    <3>1. Done \in ApplyDoneType /\ Head(todo).baseline \in BOOLEAN
      BY <1>0, <1>5, OutcomeOnTopType DEF ResumeFinish, OnTop
    <3> QED
      BY <3>1, FrameTyped DEF Done, Finish
  <2>2. todo' = Tail(todo) \/ todo' = <<f>> \o Tail(todo)
    BY <1>5 DEF ResumeFinish, Return, ReturnInto, Finish
  <2> HIDE DEF f
  <2>3. \E s \in {<<>>, <<f>>, <<f, f>>, <<f, f, f>>} : todo' = s \o Tail(todo)
    BY <1>0, <2>2, PushTwice
  <2> QED
    BY <1>0, <2>1, <2>3, CallsOf
<1>6. ASSUME NEW d \in ApplyDoneType, NEW h, NEW x \in FrameType, x.op # "handle",
             \/ AcceptApply(d, lease, h, Tail(todo))
             \/ AcceptApply(d, lease, h, <<x>> \o Tail(todo))
      PROVE  Calls
  <2> DEFINE a == Finish("resume", d, base.flight)
             b == Finish("outcome", d, base.flight)
  <2>1. <<x>> \o Tail(todo) \in Seq(FrameType)
    BY <1>0
  <2>2. \/ todo' = <<DrainFrame, a>> \o Tail(todo)
        \/ todo' = <<b>> \o Tail(todo)
        \/ todo' = <<DrainFrame, a>> \o (<<x>> \o Tail(todo))
        \/ todo' = <<b>> \o (<<x>> \o Tail(todo))
    BY <1>0, <1>6, <2>1, AcceptReturns
  <2>3. a \in FrameType /\ b \in FrameType /\ a.op # "handle" /\ b.op # "handle"
    <3>1. base.flight \in BOOLEAN
      BY DEF IInv, TypeOK, SessionTypes
    <3> QED
      BY <3>1, FrameTyped DEF Finish
  <2> HIDE DEF a, b
  <2>4. \/ todo' = <<DrainFrame, a>> \o Tail(todo)
        \/ todo' = <<b>> \o Tail(todo)
        \/ todo' = <<DrainFrame, a, x>> \o Tail(todo)
        \/ todo' = <<b, x>> \o Tail(todo)
    <3>1. <<DrainFrame, a>> \o (<<x>> \o Tail(todo)) = <<DrainFrame, a, x>> \o Tail(todo)
      BY <1>0, <1>1, <2>3, PushTwice
    <3>2. <<b>> \o (<<x>> \o Tail(todo)) = <<b, x>> \o Tail(todo)
      BY <1>0, <2>3, PushTwice
    <3> QED
      BY <2>2, <3>1, <3>2
  <2>5. CASE \/ todo' = <<DrainFrame, a>> \o Tail(todo)
             \/ todo' = <<DrainFrame, a, x>> \o Tail(todo)
    <3>1. \E s \in {<<>>, <<DrainFrame>>, <<DrainFrame, a>>, <<DrainFrame, a, x>>} :
            todo' = s \o Tail(todo)
      BY <2>5
    <3>2. \A f \in {DrainFrame, a, x} : f.op = "handle" => ~IsCompletion(f.msg)
      BY <1>1, <1>6, <2>3
    <3> QED
      BY <1>0, <1>1, <2>3, <3>1, <3>2, CallsOf
  <2>6. CASE todo' = <<b>> \o Tail(todo) \/ todo' = <<b, x>> \o Tail(todo)
    <3>1. \E s \in {<<>>, <<b>>, <<b, x>>, <<b, x, x>>} : todo' = s \o Tail(todo)
      BY <2>6
    <3>2. \A f \in {b, x, x} : f.op = "handle" => ~IsCompletion(f.msg)
      BY <1>6, <2>3
    <3> QED
      BY <1>0, <2>3, <3>1, <3>2, CallsOf
  <2> QED
    BY <2>4, <2>5, <2>6
<1>7. CASE HandleApplyDone
  <2>1. Msg \in ApplyDoneType
    BY <1>7, ApplyCompletionTop DEF IInv, ApplyCompletion, HandleApplyDone
  <2> QED
    BY <1>1, <1>6, <1>7, <2>1 DEF HandleApplyDone
<1>8. CASE AfterReset
  <2>1. ExitFrame \in FrameType /\ ExitFrame.op # "handle"
    BY FrameTyped DEF ExitFrame
  <2>2. CASE held # None /\ AcceptApply(held, lease, None, <<ExitFrame>> \o Tail(todo))
    <3>1. held \in ApplyDoneType
      BY <2>2 DEF IInv, TypeOK, FenceTypes
    <3> QED
      BY <1>6, <2>1, <2>2, <3>1
  <2>3. CASE todo' = <<ExitFrame>> \o Tail(todo)
    BY <1>0, <2>1, <2>3, CallsOf
  <2> QED
    BY <1>8, <2>2, <2>3 DEF AfterReset, ExitFrame
<1> QED
  BY <1>2, <1>3, <1>4, <1>5, <1>7, <1>8
     DEF Handlers, HandleCompletion, Continue, SimpleHandlers

-----------------------------------------------------------------------------
(* The other steps neither begin nor end a work.                            *)

PassOfTime == GraceElapses \/ WindowExpires \/ QuietEnds \/ UNCHANGED vars

(* Steps of the pipe, of Windows and of time: they add at most one message, *)
(* which is no completion, and only STOP cancels.                           *)
LEMMA PipeMoves ==
  ASSUME IInv, PipeStep \/ PassOfTime
  PROVE  /\ UNCHANGED <<req, staging, worker, held, todo, tasks, timers, replies>>
         /\ gen' \in {gen, gen + 1}
         /\ mailbox' = mailbox \/ \E m : mailbox' = Append(mailbox, m) /\ ~IsCompletion(m)
<1>1. /\ UNCHANGED <<req, staging, worker, held, todo, tasks, timers, replies>>
      /\ gen' \in {gen, gen + 1}
  BY DEF PipeStep, PassOfTime, FireTicket, HeartbeatTimeout, Connect, PipeBreaks, SendStop,
     Send, ClientSends, Notify, GraceElapses, WindowExpires, QuietEnds, timeUnchanged,
     vars, sessionVars, fenceVars, dispatchVars
<1>2. mailbox' = mailbox \/ \E m : mailbox' = Append(mailbox, m) /\ ~IsCompletion(m)
  <2>1. CASE FireTicket
    <3> DEFINE m == [kind |-> "Event", event |-> ticket.event,
                     gen |-> ticket.gen, epoch |-> ticket.epoch]
    <3>1. ~IsCompletion(m)
      BY DEF IsCompletion
    <3> QED
      BY <2>1, <3>1 DEF FireTicket
  <2>2. ASSUME NEW kind \in Commands, Send(kind)
        PROVE  \E m : mailbox' = Append(mailbox, m) /\ ~IsCompletion(m)
    <3>1. PICK m \in CommandsOf(kind) : mailbox' = Append(mailbox, m)
      BY <2>2 DEF Send
    <3>2. kind \in CommandKinds
      BY ConstantsAssumption DEF ConstantsAssumption
    <3>3. m.kind = kind \/ m.kind = "Disarm"
      BY <3>1, <3>2 DEF CommandsOf, CommandKinds
    <3>4. ~IsCompletion(m)
      BY <3>2, <3>3 DEF IsCompletion, CommandKinds
    <3> QED
      BY <3>1, <3>4
  <2>3. CASE ~FireTicket /\ ~\E kind \in Commands : Send(kind)
    BY <2>3 DEF PipeStep, PassOfTime, HeartbeatTimeout, Connect, PipeBreaks, SendStop,
       Notify, GraceElapses, WindowExpires, QuietEnds, timeUnchanged, vars, hostVars
  <2> QED
    BY <2>1, <2>2, <2>3
<1> QED
  BY <1>1, <1>2

Quiet == WorkerThread \/ Receive \/ PipeStep \/ Disconnect \/ PassOfTime

LEMMA QuietFlow ==
  ASSUME IInv, Quiet, NEW T, NEW M, Work(T, M)
  PROVE  (NoneOf(T, M) => NoneOf(T, M)') /\ (OneOf(T, M) => OneOf(T, M)')
<1>1. CASE WorkerThread
  BY <1>1, WorkerFlow
<1>2. CASE Receive
  BY <1>2, ReceiveFlow
<1>3. CASE Disconnect
  <2>1. /\ mailbox' \in Filtered(mailbox, NotOfRetired) /\ UNCHANGED tasks /\ todo = <<>>
    BY <1>3 DEF Disconnect, DisconnectKeeps, DisconnectWaits, DisconnectChecks,
       DisconnectReverts, RetireConnection, Idle, dispatchVars
  <2>2. todo' = <<>> \/ \E m : todo' = <<HandleFrame(m)>> /\ ~IsCompletion(m)
    <3>1. CASE DisconnectReverts
      <4> DEFINE m == [kind |-> "Revert", seq |-> 0, epoch |-> 0, fromDisconnect |-> TRUE]
      <4>1. ~IsCompletion(m)
        BY DEF IsCompletion
      <4> QED
        BY <3>1, <4>1 DEF DisconnectReverts
    <3>2. CASE ~DisconnectReverts
      BY <1>3, <2>1, <3>2 DEF Disconnect, DisconnectKeeps, DisconnectWaits,
         DisconnectChecks
    <3> QED
      BY <3>1, <3>2
  <2> QED
    BY <2>1, <2>2, RetireFlow
<1>4. CASE PipeStep \/ PassOfTime
  BY <1>4, PipeMoves, AppendFlow
<1> QED
  BY <1>1, <1>2, <1>3, <1>4 DEF Quiet

(* A verification that is due, or a restore of the tick, is one more task.  *)
LEMMA TaskFlow ==
  ASSUME IInv, TimerThread \/ Tick, NEW T, NEW M, Work(T, M)
  PROVE  /\ UNCHANGED <<todo, mailbox>>
         /\ TimerThread => UNCHANGED tasks \/ \E t : t.op = "verify" /\ tasks' = Append(tasks, t)
         /\ Tick => tasks' = Append(tasks, RecoverTask(gen))
         /\ NotAdded(T) => /\ NoneOf(T, M) => NoneOf(T, M)'
                           /\ OneOf(T, M) => OneOf(T, M)'
         /\ NoneOf(T, M) /\ Added(T) => OneOf(T, M)'
<1>1. UNCHANGED <<todo, mailbox>>
  BY DEF TimerThread, Tick, HandleTick, hostUnchanged, hostVars, workerUnchanged
<1>2. TimerThread => UNCHANGED tasks \/ \E t : t.op = "verify" /\ tasks' = Append(tasks, t)
  <2> DEFINE t == [op |-> "verify", gen |-> Head(timers).gen,
                   purpose |-> "TransientDisconnect", for |-> Head(timers).for]
  <2>1. t.op = "verify"
    OBVIOUS
  <2>2. TimerThread => tasks' = tasks \/ tasks' = Append(tasks, t)
    BY DEF TimerThread
  <2> QED
    BY <2>1, <2>2
<1>3. Tick => tasks' = Append(tasks, RecoverTask(gen))
  BY DEF Tick, HandleTick, StartRecovery, StartWorker
<1>4. NotAdded(T) => /\ NoneOf(T, M) => NoneOf(T, M)'
                     /\ OneOf(T, M) => OneOf(T, M)'
  BY <1>1, AppendFlow DEF NotAdded
<1>5. NoneOf(T, M) /\ Added(T) => OneOf(T, M)'
  <2>1. tasks \in Seq(TaskType)
    BY DEF IInv, TypeOK, DispatchTypes
  <2> QED
    BY <1>1, <2>1, AppendSole DEF Added, NoneOf, OneOf
<1> QED
  BY <1>1, <1>2, <1>3, <1>4, <1>5

-----------------------------------------------------------------------------
(* The staged-state reset.                                                  *)

ResetTasks == {t \in TaskType : IsResetTask(t)}
ResetDones == {m \in MessageType : IsResetDone(m)}

(* The barrier knows of the reset wherever it is: this is ResetBarrier,     *)
(* with the place of the only one in its place of their number.             *)
ResetInv ==
  IF staging.resetting THEN OneOf(ResetTasks, ResetDones)
  ELSE NoneOf(ResetTasks, ResetDones)

LEMMA ResetWork == Work(ResetTasks, ResetDones)
BY DEF Work, ResetTasks, ResetDones, IsResetTask, IsResetDone, IsCompletion, Reports

(* begin_staged_state_reset dispatches a reset if none is on its way.       *)
LEMMA BeginResetAdds ==
  ASSUME NEW s, s.resetting = staging.resetting, s.resetting \in BOOLEAN, s \in StagingType,
         gen \in Nat, BeginReset(s)
  PROVE  \/ staging.resetting /\ staging'.resetting /\ UNCHANGED tasks
         \/ ~staging.resetting /\ staging'.resetting /\ Added(ResetTasks)
            /\ tasks' = Append(tasks, ResetTask(gen))
<1>1. ResetTask(gen) \in ResetTasks
  BY TaskTyped DEF ResetTasks, IsResetTask, ResetTask
<1> QED
  BY <1>1 DEF BeginReset, Added, StagingType

(* A started worker is no reset.                                            *)
LEMMA StartNoReset ==
  ASSUME NEW kind, NEW t, StartWorker(kind, t), t.op # "reset"
  PROVE  NotAdded(ResetTasks)
BY DEF StartWorker, NotAdded, ResetTasks, IsResetTask

\* What a handler other than the reset's own does to the barrier.
KeepsBarrier ==
  \/ staging'.resetting = staging.resetting /\ NotAdded(ResetTasks)
  \/ ~staging.resetting /\ staging'.resetting /\ Added(ResetTasks)

LEMMA StagingUpdates ==
  ASSUME TypeOK
  PROVE  /\ staging \in StagingType /\ staging.resetting \in BOOLEAN
         /\ \A b \in BOOLEAN :
              LET s == [staging EXCEPT !.prepared = @ \/ b]
              IN  s \in StagingType /\ s.resetting = staging.resetting
         /\ \A b, c \in BOOLEAN :
              LET s == [staging EXCEPT !.prepared = b, !.exitAfter = c]
              IN  s \in StagingType /\ s.resetting = staging.resetting
BY DEF TypeOK, RecoveryTypes, StagingType

(* reset_uncommitted_staged_state_if_needed.                                *)
LEMMA DropBarrier ==
  ASSUME TypeOK, NEW s \in StagingType, s.resetting = staging.resetting, NEW l,
         DropUncommitted(s, l)
  PROVE  KeepsBarrier
<1>1. gen \in Nat /\ staging.resetting \in BOOLEAN
  BY StagingUpdates DEF TypeOK, DispatchTypes
<1>2. CASE BeginReset(s)
  BY <1>1, <1>2, BeginResetAdds DEF KeepsBarrier, NotAdded
<1>3. CASE staging' = s /\ UNCHANGED tasks
  BY <1>3 DEF KeepsBarrier, NotAdded
<1> QED
  BY <1>2, <1>3 DEF DropUncommitted

(* The commands.                                                            *)
LEMMA CommandsBarrier ==
  ASSUME TypeOK, HandleCommand
  PROVE  KeepsBarrier
<1>1. CASE HandleApply \/ HandleRepair \/ HandleRevert \/ HandleRefresh
  <2>1. UNCHANGED staging
    BY <1>1 DEF HandleApply, HandleRepair, HandleRevert, HandleRefresh
  <2>2. NotAdded(ResetTasks)
    <3>1. \E kind, t : StartWorker(kind, t) /\ t.op # "reset"
      BY <1>1 DEF HandleApply, HandleRepair, HandleRevert, HandleRefresh, StartRecovery,
         ApplyTask, RecoverTask, RefreshTask
    <3> QED
      BY <3>1, StartNoReset
  <2> QED
    BY <2>1, <2>2 DEF KeepsBarrier
<1>2. CASE HandleReset
  <2>1. gen \in Nat
    BY DEF TypeOK, DispatchTypes
  <2> QED
    BY <1>2, <2>1, StagingUpdates, BeginResetAdds DEF HandleReset, KeepsBarrier
<1>3. CASE ~HandleApply /\ ~HandleRepair /\ ~HandleRevert /\ ~HandleRefresh /\ ~HandleReset
  <2>1. UNCHANGED <<staging, tasks>>
    BY <1>3 DEF HandleCommand, HandleStaleCommand, HandleApplyDeferred,
       HandleRepairDropped, HandleRevertJoins, HandleRevertDeferred,
       HandleRevertPolicyOff, HandleRevertNothing, HandleDisarmIgnored,
       HandleDisarmDeferred, HandleDisarm, HandleSnapshot, HandleRefreshRejected,
       HandleResetDeferred, dispatchVars
  <2> QED
    BY <2>1 DEF KeepsBarrier, NotAdded
<1> QED
  BY <1>1, <1>2, <1>3

(* Events, verdicts and outcomes.                                           *)
LEMMA VerdictsBarrier ==
  ASSUME TypeOK, HandleEvent \/ HandleVerifyDone \/ ApplyOutcome
  PROVE  KeepsBarrier
<1>1. CASE HandleEvent
  <2>1. UNCHANGED staging
    BY <1>1 DEF HandleEvent, HandleBaselineReturn, HandleEventIgnored,
       HandleSameIdentity, HandleIdentityQueued, HandleIdentityReplaced,
       HandleEventInWindow, HandleEventReopens
  <2>2. CASE HandleIdentityReplaced \/ HandleEventReopens
    <3>1. \E kind, t : StartWorker(kind, t) /\ t.op # "reset"
      BY <2>2 DEF HandleIdentityReplaced, HandleEventReopens, StartRecovery, ApplyTask,
         RecoverTask
    <3> QED
      BY <2>1, <3>1, StartNoReset DEF KeepsBarrier
  <2>3. CASE HandleBaselineReturn
    <3>1. \E t : tasks' = Append(tasks, t) /\ t.op = "verify"
      BY <2>3 DEF HandleBaselineReturn, VerifyTask
    <3> QED
      BY <2>1, <3>1 DEF KeepsBarrier, NotAdded, ResetTasks, IsResetTask
  <2>4. CASE UNCHANGED tasks
    BY <2>1, <2>4 DEF KeepsBarrier, NotAdded
  <2> QED
    BY <1>1, <2>2, <2>3, <2>4 DEF HandleEvent, HandleEventIgnored, HandleSameIdentity,
       HandleIdentityQueued, HandleEventInWindow, dispatchVars
<1>2. CASE HandleVerifyDone
  <2>1. UNCHANGED staging
    BY <1>2 DEF HandleVerifyDone, HandleCheckPassed, HandleCheckFailed, HandleVerified,
       HandleBaselineVerified, HandleUnverifiedDisconnected, HandleBaselineMissing,
       HandleBaselineUnrepaired, HandleUnverifiedReapply, HandleUnverified
  <2>2. CASE HandleCheckFailed \/ HandleBaselineMissing \/ HandleUnverifiedReapply
    <3>1. \E kind, t : StartWorker(kind, t) /\ t.op # "reset"
      <4>1. \A g, b : ApplyTask(g, b).op # "reset"
        BY DEF ApplyTask
      <4>2. \E g, b : StartWorker("Apply", ApplyTask(g, b))
        BY <2>2 DEF HandleCheckFailed, HandleBaselineMissing, HandleUnverifiedReapply
      <4> QED
        BY <4>1, <4>2
    <3> QED
      BY <2>1, <3>1, StartNoReset DEF KeepsBarrier
  <2>3. CASE UNCHANGED tasks
    BY <2>1, <2>3 DEF KeepsBarrier, NotAdded
  <2> QED
    BY <1>2, <2>2, <2>3 DEF HandleVerifyDone, HandleCheckPassed, HandleVerified,
       HandleBaselineVerified, HandleUnverifiedDisconnected, HandleBaselineUnrepaired,
       HandleUnverified, dispatchVars
<1>3. CASE ApplyOutcome
  <2>1. CASE OutcomeFailed
    <3>1. CASE UNCHANGED <<staging, tasks>>
      BY <3>1 DEF KeepsBarrier, NotAdded
    <3>2. CASE DropUncommitted(staging, lease)
      BY <3>2, StagingUpdates, DropBarrier
    <3> QED
      BY <2>1, <3>1, <3>2 DEF OutcomeFailed
  <2>2. CASE OutcomeHdrFallback
    <3>1. \E kind, t : StartWorker(kind, t) /\ t.op # "reset"
      BY <2>2 DEF OutcomeHdrFallback, ApplyTask
    <3> QED
      BY <2>2, <3>1, StartNoReset DEF KeepsBarrier, OutcomeHdrFallback
  <2>3. CASE OutcomeVerify
    <3>1. \E t : tasks' = Append(tasks, t) /\ t.op = "verify"
      BY <2>3 DEF OutcomeVerify, VerifyTask
    <3> QED
      BY <2>3, <3>1 DEF KeepsBarrier, NotAdded, ResetTasks, IsResetTask, OutcomeVerify
  <2>4. CASE OutcomeBaselineFailed \/ OutcomeChecked \/ OutcomeRepaired
    <3>1. UNCHANGED <<staging, tasks>>
      BY <2>4 DEF OutcomeBaselineFailed, OutcomeChecked, OutcomeRepaired, dispatchVars
    <3> QED
      BY <3>1 DEF KeepsBarrier, NotAdded
  <2> QED
    BY <1>3, <2>1, <2>2, <2>3, <2>4 DEF ApplyOutcome
<1> QED
  BY <1>1, <1>2, <1>3

\* The reset's own completion.
ResetCompletes == HandleResetFailedExit \/ HandleResetDone

(* The other completions.                                                   *)
LEMMA CompletionsBarrier ==
  ASSUME TypeOK, ApplyCompletion \/ RestoreCompletion, ~ResetCompletes
  PROVE  KeepsBarrier
<1>1. CASE HandleCancelledApplyUntouched
  <2>1. Msg.staged \in BOOLEAN
    <3>1. Msg \in ApplyDoneType
      BY <1>1, ApplyCompletionTop DEF ApplyCompletion, HandleCancelledApplyUntouched
    <3> QED
      BY <3>1 DEF ApplyDoneType
  <2> QED
    BY <1>1, <2>1, StagingUpdates, DropBarrier DEF HandleCancelledApplyUntouched
<1>2. CASE HandleConfirmed
  <2> DEFINE failed == StageOutlives(staging)
             c == failed \/ staging.resetting \/ Occurs(deferred, IsReset)
             s == [staging EXCEPT !.prepared = failed, !.exitAfter = c]
  <2>1. failed \in BOOLEAN /\ c \in BOOLEAN
    BY StagingUpdates DEF StageOutlives, Occurs, StagingType
  <2>2. s \in StagingType /\ s.resetting = staging.resetting
    BY <2>1, StagingUpdates
  <2>3. IF failed THEN BeginReset(s) ELSE staging' = s /\ UNCHANGED tasks
    BY <1>2 DEF HandleConfirmed
  <2> HIDE DEF s, c, failed
  <2>4. gen \in Nat /\ staging.resetting \in BOOLEAN
    BY StagingUpdates DEF TypeOK, DispatchTypes
  <2>5. CASE BeginReset(s)
    BY <2>2, <2>4, <2>5, BeginResetAdds DEF KeepsBarrier, NotAdded
  <2>6. CASE staging' = s /\ UNCHANGED tasks
    BY <2>2, <2>6 DEF KeepsBarrier, NotAdded
  <2> QED
    BY <2>1, <2>3, <2>5, <2>6
<1>3. CASE HandleRestored
  <2>1. tasks' = Append(tasks, ValidateTask(gen)) /\ UNCHANGED staging
    BY <1>3 DEF HandleRestored
  <2> QED
    BY <2>1 DEF KeepsBarrier, NotAdded, ResetTasks, IsResetTask, ValidateTask
<1>4. CASE ~HandleCancelledApplyUntouched /\ ~HandleConfirmed /\ ~HandleRestored
  <2>1. UNCHANGED tasks
    BY <1>4 DEF ResetCompletes, ApplyCompletion, RestoreCompletion,
       HandleForeignCompletion, HandleApplyDone, HandleCancelledApplyTouched,
       DrainNext, DrainEnds, ResumeFinish, AfterReset, HandleRefreshCancelled,
       HandleRefreshDone, HandleCancelledRecovery, HandleAttemptFailed,
       HandleCancelledValidation, ExitAfterReset, AfterRestore, dispatchVars
  <2>2. staging'.resetting = staging.resetting
    <3>1. staging \in StagingType
      BY StagingUpdates
    <3> QED
      BY <1>4, <3>1 DEF StagingType, ResetCompletes, ApplyCompletion, RestoreCompletion,
         HandleForeignCompletion, HandleApplyDone, HandleCancelledApplyTouched,
         DrainNext, DrainEnds, ResumeFinish, AfterReset, HandleRefreshCancelled,
         HandleRefreshDone, HandleCancelledRecovery, HandleAttemptFailed,
         HandleCancelledValidation, ExitAfterReset, AfterRestore
  <2> QED
    BY <2>1, <2>2 DEF KeepsBarrier, NotAdded
<1> QED
  BY <1>1, <1>2, <1>3, <1>4

(* Every handler keeps the barrier in step with the reset.                  *)
LEMMA HandlersReset ==
  ASSUME IInv, ResetInv, Handlers, UNCHANGED mailbox
  PROVE  ResetInv'
<1>0. Calls /\ TypeOK /\ todo # <<>>
  BY HandlersCall, HandlersTop DEF IInv
<1>1. /\ NoneOf(ResetTasks, ResetDones) => Popped(ResetTasks, ResetDones)
      /\ OneOf(ResetTasks, ResetDones) /\ Head(todo) \in Frames(ResetDones)
           => Popped(ResetTasks, ResetDones)
  BY <1>0, PoppedWork
<1>2. /\ Popped(ResetTasks, ResetDones) /\ NotAdded(ResetTasks)
           => NoneOf(ResetTasks, ResetDones)'
      /\ Popped(ResetTasks, ResetDones) /\ Added(ResetTasks)
           => OneOf(ResetTasks, ResetDones)'
      /\ OneOf(ResetTasks, ResetDones) /\ Head(todo) \notin Frames(ResetDones)
           /\ NotAdded(ResetTasks) => OneOf(ResetTasks, ResetDones)'
  BY <1>0, CallsFlow, ResetWork
<1>3. CASE ResetCompletes
  <2>1. Handling("ResetDone") /\ UNCHANGED tasks /\ staging'.resetting = FALSE
    <3>1. staging \in StagingType
      BY <1>0, StagingUpdates
    <3> QED
      BY <1>3, <3>1 DEF ResetCompletes, HandleResetFailedExit, HandleResetDone,
         ResetSettled, StagingType, dispatchVars
  <2>2. Head(todo) \in Frames(ResetDones)
    <3>1. Msg \in MessageType /\ Msg.kind = "ResetDone"
      BY <1>0, <2>1, Handled
    <3>2. Head(todo) = HandleFrame(Msg)
      <4>1. Head(todo) \in FrameType /\ Head(todo).op = "handle"
        BY <1>0, <2>1, TailType DEF TypeOK, FenceTypes, Handling
      <4> QED
        BY <4>1 DEF FrameType, HandleFrame, Msg
    <3> QED
      BY <3>1, <3>2 DEF Frames, ResetDones, IsResetDone
  <2> QED
    BY <1>1, <1>2, <2>1, <2>2 DEF ResetInv, NotAdded
<1>4. CASE ~ResetCompletes
  <2>1. KeepsBarrier
    BY <1>0, <1>4, CommandsBarrier, VerdictsBarrier, CompletionsBarrier
       DEF Handlers, HandleCompletion, Continue, ApplyCompletion, RestoreCompletion,
           ResetCompletes
  <2>2. staging.resetting \in BOOLEAN
    BY <1>0, StagingUpdates
  <2>3. Head(todo) \notin Frames(ResetDones)
    <3> SUFFICES ASSUME NEW m \in ResetDones, Head(todo) = HandleFrame(m) PROVE FALSE
      BY DEF Frames
    <3>1. Handling("ResetDone")
      BY <1>0 DEF HandleFrame, ResetDones, IsResetDone, Handling
    <3>2. HandleCompletion
      BY <1>0, <3>1 DEF Handlers, HandleCommand, HandleStaleCommand,
         HandleApplyDeferred, HandleApply, HandleRepairDropped, HandleRepair,
         HandleRevertJoins, HandleRevertDeferred, HandleRevertPolicyOff,
         HandleRevertNothing, HandleRevert, RevertRuns, HandleDisarmIgnored,
         HandleDisarmDeferred, HandleDisarm, HandleSnapshot, HandleRefreshRejected,
         HandleRefresh, HandleResetDeferred, HandleReset, Continue, DrainNext,
         DrainEnds, ResumeFinish, ApplyOutcome, OutcomeBaselineFailed,
         OutcomeChecked, OutcomeRepaired, OutcomeVerify, OutcomeHdrFallback,
         OutcomeFailed, OutcomeFails, AfterReset, ExitAfterReset, AfterRestore,
         HandleEvent, HandleBaselineReturn, HandleEventIgnored, HandleSameIdentity,
         HandleIdentityQueued, HandleIdentityReplaced, HandleEventInWindow,
         HandleEventReopens, RetriableEvent, EventFresh, Handling, OnTop
    <3> QED
      BY <1>4, <3>1, <3>2 DEF ResetCompletes, HandleCompletion, Handling,
         HandleForeignCompletion, HandleApplyDone, HandleCancelledApplyTouched,
         HandleCancelledApplyUntouched, HandleVerifyDone, HandleCheckPassed,
         HandleCheckFailed, HandleVerified, HandleBaselineVerified,
         HandleUnverifiedDisconnected, HandleBaselineMissing,
         HandleBaselineUnrepaired, HandleUnverifiedReapply, HandleUnverified,
         Verified, Unverified, HandleRefreshCancelled, HandleRefreshDone,
         HandleCancelledRecovery, HandleRestored, HandleAttemptFailed,
         HandleCancelledValidation, HandleConfirmed
  <2> QED
    BY <1>1, <1>2, <2>1, <2>2, <2>3 DEF KeepsBarrier, ResetInv
<1> QED
  BY <1>3, <1>4

(* The other steps leave both alone.                                        *)
LEMMA NextReset == IInv /\ ResetInv /\ [Next]_vars => ResetInv'
<1> SUFFICES ASSUME IInv, ResetInv, [Next]_vars PROVE ResetInv'
  OBVIOUS
<1>1. CASE Handle
  BY <1>1, HandlersReset DEF Handle, hostUnchanged, hostVars
<1>2. CASE TimerThread \/ Tick
  <2>1. NotAdded(ResetTasks)
    BY <1>2, TaskFlow, ResetWork DEF NotAdded, ResetTasks, IsResetTask, RecoverTask
  <2>2. UNCHANGED staging
    BY <1>2 DEF TimerThread, workerUnchanged, Tick, HandleTick
  <2> QED
    BY <1>2, <2>1, <2>2, TaskFlow, ResetWork DEF ResetInv
<1>3. CASE Quiet
  <2>1. UNCHANGED staging
    BY <1>3 DEF Quiet, PassOfTime, WorkerThread, ApplyWorker, ApplyRefused, ApplyArms,
       ApplyAbortsAtBoundary, ApplyTouches, ApplyCompletes, VerifyRuns, ResetRuns,
       RefreshRuns, RecoveryWorker, RecoveryAborts, RecoveryBegins, RecoveryMarks,
       RecoveryCompletes, ValidationRuns, workerUnchanged, Receive, PipeStep,
       FireTicket, HeartbeatTimeout, Connect, PipeBreaks, SendStop, Send,
       ClientSends, Notify, Disconnect, DisconnectKeeps, DisconnectWaits,
       DisconnectChecks, DisconnectReverts, RetireConnection, GraceElapses,
       WindowExpires, QuietEnds, timeUnchanged, vars
  <2> QED
    BY <1>3, <2>1, QuietFlow, ResetWork DEF ResetInv
<1> QED
  BY <1>1, <1>2, <1>3 DEF Next, Host, Client, Environment, PipeStep, Quiet, PassOfTime

(* How many there are of a kind.                                            *)
LEMMA SoleNumber ==
  ASSUME NEW q, NEW G
  PROVE  LET n == Cardinality({i \in DOMAIN q : q[i] \in G})
         IN  (Free(q, G) => n = 0) /\ (Sole(q, G) => n = 1)
<1> DEFINE K == {i \in DOMAIN q : q[i] \in G}
<1>1. Free(q, G) => K = {}
  BY DEF Free
<1>2. Sole(q, G) => \E i : K = {i}
  BY DEF Sole
<1> QED
  BY <1>1, <1>2, FS_EmptySet, FS_Singleton

(* At most one staged-state reset is on its way, and the barrier that makes *)
(* every APPLY, REVERT and DISARM wait for it is up exactly as long,        *)
(* whatever cancels, supersedes or retires in between.                      *)
THEOREM ResetBarrierHolds == Spec => []ResetBarrier
<1>1. Init => ResetInv
  BY DEF Init, ResetInv, NoStaging, NoneOf, Free, ResetDones, IsResetDone
<1>2. IInv /\ ResetInv => ResetBarrier
  <2> SUFFICES ASSUME IInv, ResetInv PROVE ResetBarrier
    OBVIOUS
  <2>0. /\ tasks \in Seq(TaskType) /\ mailbox \in Seq(MessageType)
        /\ todo \in Seq(FrameType) /\ staging.resetting \in BOOLEAN
    BY StagingUpdates DEF IInv, TypeOK, DispatchTypes, HostTypes, FenceTypes
  <2> DEFINE nt == Cardinality({i \in DOMAIN tasks : tasks[i] \in ResetTasks})
             nm == Cardinality({i \in DOMAIN mailbox : mailbox[i] \in ResetDones})
             nf == Cardinality({i \in DOMAIN todo : todo[i] \in Frames(ResetDones)})
  <2>1. Count(tasks, IsResetTask) = nt
    <3>1. \A i \in DOMAIN tasks : IsResetTask(tasks[i]) <=> tasks[i] \in ResetTasks
      BY <2>0 DEF ResetTasks
    <3> QED
      BY <3>1 DEF Count
  <2>2. Count(mailbox, IsResetDone) = nm
    <3>1. \A i \in DOMAIN mailbox : IsResetDone(mailbox[i]) <=> mailbox[i] \in ResetDones
      BY <2>0 DEF ResetDones
    <3> QED
      BY <3>1 DEF Count
  <2>3. Count(todo, IsResetFrame) = nf
    <3>1. \A f \in FrameType : IsResetFrame(f) <=> f \in Frames(ResetDones)
      BY DEF FrameType, IsResetFrame, Frames, HandleFrame, ResetDones, IsResetDone
    <3>2. \A i \in DOMAIN todo : todo[i] \in FrameType
      BY <2>0
    <3> QED
      BY <3>1, <3>2 DEF Count
  <2>4. /\ Free(tasks, ResetTasks) => nt = 0
        /\ Sole(tasks, ResetTasks) => nt = 1
        /\ Free(mailbox, ResetDones) => nm = 0
        /\ Sole(mailbox, ResetDones) => nm = 1
        /\ Free(todo, Frames(ResetDones)) => nf = 0
        /\ Sole(todo, Frames(ResetDones)) => nf = 1
    BY SoleNumber
  <2> HIDE DEF nt, nm, nf
  <2>5. nt + nm + nf = IF staging.resetting THEN 1 ELSE 0
    <3>1. CASE staging.resetting
      BY <2>4, <3>1 DEF ResetInv, OneOf
    <3>2. CASE ~staging.resetting
      BY <2>4, <3>2 DEF ResetInv, NoneOf
    <3> QED
      BY <3>1, <3>2
  <2> QED
    BY <2>1, <2>2, <2>3, <2>5 DEF ResetBarrier
<1> QED
  BY <1>1, <1>2, NextReset, SpecTyped, PTL DEF Spec
=============================================================================
