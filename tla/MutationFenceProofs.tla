-------------------------- MODULE MutationFenceProofs --------------------------
(***************************************************************************)
(* The mutation fence of the display helper, for every set of requests,    *)
(* events and bounds and every set of commands without RESET: at most one  *)
(* display mutation is in flight, and active_mutation_worker_ names it.    *)
(* The induction needs more than the fence: what the main thread's call    *)
(* stack can hold, which messages nobody sends, that a mutation and a      *)
(* staged-state reset report in the order of their dispatch, that a check  *)
(* of the current generation is alone, and where a completion is held.     *)
(***************************************************************************)
EXTENDS DisplayHelperProofs

-----------------------------------------------------------------------------
(* The main thread's call stack, in a helper that nobody asks for a RESET:  *)
(* no completion is then held beyond its own drain.                         *)

\* What is left of a completion behind its drain.
RestOps == {"resume", "outcome", "afterReset", "exitAfterReset", "afterRestore"}

Rest(q) == q = <<>> \/ (q # <<>> /\ Head(q).op \in RestOps /\ Tail(q) = <<>>)

Draining(q) ==
  /\ q # <<>> /\ Head(q) = DrainFrame /\ Rest(Tail(q))
  /\ Tail(q) # <<>> => Head(Tail(q)).op # "outcome"

\* A command taken out of the deferred queue.
Drained(q) ==
  q # <<>> /\ Head(q).op = "handle" /\ Head(q).msg \in DeferrableType /\ Draining(Tail(q))

\* What process_queue hands over: a message, after the commands that overtake it.
Batch(q) ==
  /\ \A i \in DOMAIN q : q[i].op = "handle" /\ q[i].msg.kind # "Repair"
  /\ \A i \in DOMAIN q : i < Len(q) =>
       ~IsCompletion(q[i].msg) /\ q[i].msg.kind # "Event"

ShapeInv == Batch(todo) \/ Rest(todo) \/ Draining(todo) \/ Drained(todo)

(* What is below the frame on top.                                          *)
LEMMA ShapeTop ==
  ASSUME IInv, ShapeInv, todo # <<>>
  PROVE  /\ Head(todo).op = "handle" =>
              \/ Batch(todo) /\ Batch(Tail(todo)) /\ Msg.kind # "Repair"
              \/ Msg \in DeferrableType /\ Draining(Tail(todo))
         /\ Head(todo).op = "handle" /\ (IsCompletion(Msg) \/ Msg.kind = "Event") =>
              Tail(todo) = <<>>
         /\ Head(todo).op = "drain" => Draining(todo)
         /\ Head(todo).op \in RestOps => Tail(todo) = <<>>
<1>1. todo \in Seq(FrameType) /\ Tail(todo) \in Seq(FrameType)
  BY TailType DEF IInv, TypeOK, FenceTypes
<1>2. DrainFrame.op = "drain"
  BY DEF DrainFrame
<1>3. Batch(todo) => /\ Head(todo).op = "handle" /\ Msg.kind # "Repair"
                     /\ Batch(Tail(todo))
                     /\ IsCompletion(Msg) \/ Msg.kind = "Event" => Tail(todo) = <<>>
  <2> SUFFICES ASSUME Batch(todo) PROVE
                 /\ Head(todo).op = "handle" /\ Msg.kind # "Repair"
                 /\ Batch(Tail(todo))
                 /\ IsCompletion(Msg) \/ Msg.kind = "Event" => Tail(todo) = <<>>
    OBVIOUS
  <2> DEFINE r == Tail(todo)
  <2>1. /\ DOMAIN todo = 1..Len(todo) /\ Len(todo) \in Nat /\ Len(todo) > 0
        /\ Head(todo) = todo[1] /\ Len(r) = Len(todo) - 1 /\ DOMAIN r = 1..Len(r)
        /\ \A i \in DOMAIN r : r[i] = todo[i + 1]
    BY <1>1
  <2>4. Len(r) = 0 => r = <<>>
    <3>1. \A q \in Seq(FrameType) : Len(q) = 0 => q = <<>>
      OBVIOUS
    <3> HIDE DEF r
    <3>2. r \in Seq(FrameType)
      BY <1>1 DEF r
    <3> QED
      BY <3>1, <3>2
  <2> HIDE DEF r
  <2>2. Batch(r)
    BY <2>1 DEF Batch
  <2>3. Len(todo) > 1 \/ r = <<>>
    BY <2>1, <2>4
  <2> QED
    BY <2>1, <2>2, <2>3 DEF Batch, Msg, r
<1>4. Msg \in DeferrableType => ~IsCompletion(Msg) /\ Msg.kind # "Event"
  BY DEF DeferrableType, IsCompletion
<1> QED
  BY <1>2, <1>3, <1>4 DEF ShapeInv, Rest, Draining, Drained, RestOps, Msg

(* The stacks that handlers leave.                                          *)
LEMMA ShapeBuilt ==
  ASSUME NEW f
  PROVE  /\ Rest(<<>>) /\ Draining(<<DrainFrame>> \o <<>>)
         /\ f.op \in RestOps => Rest(<<f>> \o <<>>)
         /\ f.op \in RestOps \ {"outcome"} => Draining(<<DrainFrame, f>> \o <<>>)
<1>1. <<DrainFrame>> \o <<>> = <<DrainFrame>> /\ <<f>> \o <<>> = <<f>>
  OBVIOUS
<1>2. <<DrainFrame, f>> \o <<>> = <<DrainFrame, f>>
  OBVIOUS
<1>3. \A a, b : /\ Head(<<a>>) = a /\ Tail(<<a>>) = <<>> /\ <<a>> # <<>>
                /\ Head(<<a, b>>) = a /\ Tail(<<a, b>>) = <<b>> /\ <<a, b>> # <<>>
  OBVIOUS
<1>4. Rest(<<>>) /\ (f.op \in RestOps => Rest(<<f>>))
  BY <1>3 DEF Rest
<1>5. /\ Draining(<<DrainFrame>>)
      /\ f.op \in RestOps \ {"outcome"} => Draining(<<DrainFrame, f>>)
  BY <1>3, <1>4 DEF Draining
<1> QED
  BY <1>1, <1>2, <1>4, <1>5

(* Only completions and outcomes return into a drain.                       *)
LEMMA DrainsAfter ==
  ASSUME SimpleHandlers
  PROVE  \/ todo' = Tail(todo)
         \/ /\ todo' = <<DrainFrame>> \o Tail(todo)
            /\ OnTop("outcome") \/ (Head(todo).op = "handle" /\ IsCompletion(Msg))
<1>1. CASE HandleCommand
  BY <1>1 DEF HandleCommand, HandleStaleCommand, HandleApplyDeferred, HandleApply,
     HandleRepairDropped, HandleRepair, HandleRevertJoins, HandleRevertDeferred,
     HandleRevertPolicyOff, HandleRevertNothing, HandleRevert, HandleDisarmIgnored,
     HandleDisarmDeferred, HandleDisarm, HandleSnapshot, HandleRefreshRejected,
     HandleRefresh, HandleResetDeferred, HandleReset, Return
<1>2. CASE HandleEvent \/ HandleVerifyDone \/ DrainEnds \/ ExitAfterReset \/ AfterRestore
  BY <1>2 DEF HandleEvent, HandleBaselineReturn, HandleEventIgnored,
     HandleSameIdentity, HandleIdentityQueued, HandleIdentityReplaced,
     HandleEventInWindow, HandleEventReopens, HandleVerifyDone, HandleCheckPassed,
     HandleCheckFailed, HandleVerified, HandleBaselineVerified,
     HandleUnverifiedDisconnected, HandleBaselineMissing, HandleBaselineUnrepaired,
     HandleUnverifiedReapply, HandleUnverified, DrainEnds, ExitAfterReset,
     AfterRestore, Return
<1>3. CASE ApplyOutcome
  BY <1>3, SimpleReturns DEF SimpleHandlers, ApplyOutcome, OutcomeBaselineFailed,
     OutcomeChecked, OutcomeRepaired, OutcomeVerify, OutcomeHdrFallback, OutcomeFailed,
     OutcomeFails
<1>4. CASE \/ HandleForeignCompletion \/ HandleCancelledApplyTouched
           \/ HandleCancelledApplyUntouched \/ HandleResetFailedExit
           \/ HandleRefreshCancelled \/ HandleRefreshDone \/ HandleCancelledRecovery
           \/ HandleRestored \/ HandleAttemptFailed \/ HandleCancelledValidation
  <2>1. Head(todo).op = "handle" /\ IsCompletion(Msg)
    BY <1>4 DEF HandleForeignCompletion, HandleCancelledApplyTouched,
       HandleCancelledApplyUntouched, HandleResetFailedExit, HandleRefreshCancelled,
       HandleRefreshDone, HandleCancelledRecovery, HandleRestored, HandleAttemptFailed,
       HandleCancelledValidation, Handling, IsCompletion, Msg
  <2> QED
    BY <1>4, <2>1, SimpleReturns DEF SimpleHandlers
<1> QED
  BY <1>1, <1>2, <1>3, <1>4 DEF SimpleHandlers

(* Returning leaves a stack of the same shapes.                             *)
LEMMA ShapeReturn ==
  ASSUME IInv, ShapeInv, todo # <<>>, todo' = Tail(todo)
  PROVE  ShapeInv'
<1>1. todo \in Seq(FrameType) /\ Head(todo) \in FrameType
  BY TailType DEF IInv, TypeOK, FenceTypes
<1>2. Head(todo).op \in {"handle", "drain"} \cup RestOps
  BY <1>1 DEF FrameType, RestOps
<1>3. Rest(<<>>)
  BY DEF Rest
<1> QED
  BY <1>2, <1>3, ShapeTop DEF ShapeInv, Draining

\* A handler returns, or leaves what follows its drain, or drains a command.
StackMoves ==
  \/ todo' = Tail(todo)
  \/ Tail(todo) = <<>> /\ (Rest(todo') \/ Draining(todo'))
  \/ DrainNext /\ todo' = <<HandleFrame(Head(deferred))>> \o todo

(* What a handler does to the stack.                                        *)
LEMMA HandlersStack ==
  ASSUME IInv, ShapeInv, Handlers, OnTop("afterReset") => held = None
  PROVE  StackMoves
<1>0. todo # <<>> /\ todo \in Seq(FrameType)
  BY HandlersTop DEF IInv, TypeOK, FenceTypes
<1>1. CASE SimpleHandlers
  <2>1. CASE todo' = Tail(todo)
    BY <2>1 DEF StackMoves
  <2>2. CASE todo' = <<DrainFrame>> \o Tail(todo) /\ Tail(todo) = <<>>
    BY <2>2, ShapeBuilt DEF StackMoves
  <2> QED
    BY <1>0, <1>1, <2>1, <2>2, DrainsAfter, ShapeTop DEF OnTop, RestOps
<1>2. CASE HandleResetDone \/ HandleConfirmed \/ HandleApplyDone
  <2>1. Tail(todo) = <<>>
    <3>1. Head(todo).op = "handle" /\ IsCompletion(Msg)
      BY <1>2 DEF HandleResetDone, HandleConfirmed, HandleApplyDone, Handling,
         IsCompletion, Msg
    <3> QED
      BY <1>0, <3>1, ShapeTop
  <2>2. \E f : f.op \in RestOps /\ (\/ /\ f.op # "outcome"
                                       /\ todo' = <<DrainFrame, f>> \o Tail(todo)
                                    \/ todo' = <<f>> \o Tail(todo))
    <3>1. CASE HandleResetDone
      <4> DEFINE f == [op |-> "afterReset"]
      <4>1. f.op \in RestOps
        BY DEF RestOps
      <4> QED
        BY <3>1, <4>1 DEF HandleResetDone, ReturnInto
    <3>2. CASE HandleConfirmed
      <4> DEFINE f == [op |-> "afterRestore", resetFailed |-> StageOutlives(staging),
                       followup |-> HasDeferredFollowup(deferred)]
      <4>1. f.op \in RestOps
        BY DEF RestOps
      <4> QED
        BY <3>2, <4>1 DEF HandleConfirmed, ReturnInto
    <3>3. CASE HandleApplyDone
      <4> DEFINE f(op) == Finish(op, Msg, base.flight)
      <4>1. f("resume").op \in RestOps \ {"outcome"} /\ f("outcome").op \in RestOps
        BY DEF RestOps, Finish
      <4>2. \/ todo' = <<DrainFrame, f("resume")>> \o Tail(todo)
            \/ todo' = <<f("outcome")>> \o Tail(todo)
        BY <3>3 DEF HandleApplyDone, AcceptApply, Finish
      <4> HIDE DEF f
      <4> QED
        BY <4>1, <4>2
    <3> QED
      BY <1>2, <3>1, <3>2, <3>3
  <2> QED
    BY <2>1, <2>2, ShapeBuilt DEF StackMoves
<1>3. CASE AfterReset
  <2>1. Tail(todo) = <<>> /\ held = None
    BY <1>0, <1>3, ShapeTop DEF AfterReset, OnTop, RestOps
  <2>2. todo' = <<ExitFrame>> \o Tail(todo)
    BY <1>3, <2>1 DEF AfterReset, ExitFrame
  <2>3. ExitFrame.op \in RestOps
    BY DEF ExitFrame, RestOps
  <2> QED
    BY <2>1, <2>2, <2>3, ShapeBuilt DEF StackMoves
<1>4. CASE ResumeFinish
  <2>1. Tail(todo) = <<>>
    BY <1>0, <1>4, ShapeTop DEF ResumeFinish, OnTop, RestOps
  <2> DEFINE f == Finish("outcome", Head(todo).done, Head(todo).baseline)
  <2>2. todo' = Tail(todo) \/ todo' = <<f>> \o Tail(todo)
    BY <1>4 DEF ResumeFinish, Return, ReturnInto, Finish
  <2>3. f.op \in RestOps
    BY DEF Finish, RestOps
  <2> HIDE DEF f
  <2> QED
    BY <2>1, <2>2, <2>3, ShapeBuilt DEF StackMoves
<1>5. CASE DrainNext
  BY <1>5 DEF DrainNext, StackMoves
<1> QED
  BY <1>1, <1>2, <1>3, <1>4, <1>5
     DEF Handlers, HandleCompletion, Continue, SimpleHandlers

(* Every handler keeps the stack in shape.                                  *)
LEMMA HandlersShape ==
  ASSUME IInv, ShapeInv, Handlers, OnTop("afterReset") => held = None
  PROVE  ShapeInv'
<1>0. todo # <<>> /\ todo \in Seq(FrameType)
  BY HandlersTop DEF IInv, TypeOK, FenceTypes
<1>1. CASE todo' = Tail(todo)
  BY <1>0, <1>1, ShapeReturn
<1>2. CASE DrainNext /\ todo' = <<HandleFrame(Head(deferred))>> \o todo
  <2>2. Draining(todo)
    BY <1>0, <1>2, ShapeTop DEF DrainNext, OnTop
  <2>3. Head(deferred) \in DeferrableType
    BY <1>2, TailType DEF DrainNext, DrainContinues, IInv, TypeOK, FenceTypes
  <2> DEFINE f == HandleFrame(Head(deferred))
  <2>4. todo' = <<f>> \o todo /\ f.op = "handle" /\ f.msg = Head(deferred)
    BY <1>2 DEF HandleFrame
  <2> HIDE DEF f
  <2>5. Head(todo') = f /\ Tail(todo') = todo /\ todo' # <<>>
    BY <1>0, <2>4
  <2> QED
    BY <2>2, <2>3, <2>4, <2>5 DEF ShapeInv, Drained
<1> QED
  BY <1>1, <1>2, HandlersStack DEF StackMoves, ShapeInv

-----------------------------------------------------------------------------
(* What a handler does to the fence, the checks and the stack: each handler *)
(* is one of a few kinds of step.                                           *)

MutationTasks == {t \in TaskType : IsMutationTask(t)}
MutationDones == {m \in MessageType : IsMutationDone(m)}

WorkerOf(t) == [kind |-> KindOf(t.op), gen |-> t.gen]
WorkerFor(m) == [kind |-> KindOf(m.kind), gen |-> m.gen]

HandleOnTop == OnTop("handle")

FreshVerdict == HandleOnTop /\ Msg.kind = "VerifyDone" /\ Msg.gen = gen

\* It returns and leaves everything as it is.
Skips ==
  /\ HandleOnTop
  /\ Msg.kind = "VerifyDone" => Msg.gen # gen
  /\ IsMutationDone(Msg) => worker # WorkerFor(Msg)
  /\ Msg.kind # "ResetDone"
  /\ todo' = Tail(todo)
  /\ UNCHANGED <<state, worker, deferred, held, gen, tasks, timers, staging>>

\* A command, or a repair, waits behind the fence.
Defers ==
  /\ HandleOnTop
  /\ ~IsCompletion(Msg)
  /\ FenceUp
  /\ \/ Msg.kind \in {"Apply", "Revert", "Disarm"} /\ Enqueue(Msg)
     \/ Msg.kind = "Event" /\ req.virt # "none"
          /\ Enqueue([kind |-> "Repair", epoch |-> req.epoch])
  /\ gen' \in {gen, gen + 1}
  /\ todo' = Tail(todo)
  /\ UNCHANGED <<state, worker, held, tasks, timers, staging>>

\* A command cancels what is under way, which is no mutation.
Cancels ==
  /\ HandleOnTop
  /\ Msg.kind \in {"Revert", "Disarm"}
  /\ ~FenceUp
  /\ gen' \in {gen + 1, gen + 2}
  /\ state' \in {state, "Waiting"}
  /\ held' = None
  /\ todo' = Tail(todo)
  /\ UNCHANGED <<worker, deferred, tasks, timers, staging>>

\* A worker starts.
StartsOn ==
  \/ /\ HandleOnTop /\ Msg.kind \in {"Apply", "Revert"}
     /\ ~FenceUp /\ gen' = gen + 1 /\ held' = None
  \/ /\ HandleOnTop /\ Msg.kind = "Repair" /\ ~StaleConnection(Msg)
     /\ gen' = gen /\ held' = None
  \/ /\ HandleOnTop /\ Msg.kind = "Refresh"
     /\ worker = None /\ state # "Verification" /\ gen' = gen /\ held' = held
  \/ OnTop("outcome") /\ gen' = gen /\ held' = held
  \/ FreshVerdict /\ gen' \in {gen, gen + 1} /\ held' = held
  \/ /\ HandleOnTop /\ Msg.kind = "Event"
     /\ ~FenceUp /\ gen' = gen + 1 /\ held' = held
  \/ /\ HandleOnTop /\ Msg.kind = "Event"
     /\ state = "EventLoop" /\ gen' = gen /\ held' = held

Starts ==
  /\ StartsOn
  /\ \E t \in MutationTasks :
       /\ t.gen = gen'
       /\ worker' = WorkerOf(t)
       /\ tasks' = Append(tasks, t)
  /\ state' # "EventLoop"
  /\ todo' = Tail(todo)
  /\ UNCHANGED <<deferred, timers, staging>>

\* The delayed check of a disconnected session, dispatched or not.
Checks(g) ==
  \/ timers' = timers
  \/ /\ \E n \in Nat : timers' = Append(timers, [gen |-> g, for |-> n])
     /\ state' = "Verification" /\ settle.requested

\* A mutation's completion retires its worker.
Retires ==
  /\ HandleOnTop
  /\ IsMutationDone(Msg)
  /\ worker = WorkerFor(Msg)
  /\ worker' = None
  /\ \/ todo' = <<DrainFrame>> \o Tail(todo)
     \/ \E f : f.op = "afterRestore" /\ todo' = <<DrainFrame, f>> \o Tail(todo)
  /\ \/ /\ gen' \in {gen, gen + 1} /\ Checks(gen') /\ UNCHANGED <<tasks, staging>>
     \/ /\ gen' = gen /\ timers' = timers
        /\ \/ tasks' = tasks /\ staging'.resetting = staging.resetting
           \/ tasks' = Append(tasks, ResetTask(gen)) /\ staging'.resetting
  /\ UNCHANGED <<deferred, held>>

\* The end of a verification.
Judges ==
  /\ FreshVerdict
  /\ state' = "EventLoop" => state = "EventLoop"
  /\ Checks(gen)
  /\ todo' = Tail(todo)
  /\ UNCHANGED <<worker, deferred, held, gen, tasks, staging>>

\* The end of an APPLY, or its verification.
Concludes ==
  /\ OnTop("outcome")
  /\ \/ Checks(gen) /\ todo' = Tail(todo) /\ UNCHANGED <<tasks, staging>>
     \/ /\ todo' = <<DrainFrame>> \o Tail(todo)
        /\ timers' = timers
        /\ \/ tasks' = tasks /\ staging'.resetting = staging.resetting
           \/ tasks' = Append(tasks, ResetTask(gen)) /\ staging'.resetting
           \/ /\ \E p \in Purposes : tasks' = Append(tasks, VerifyTask(gen, p))
              /\ state' = "Verification" /\ staging' = staging
  /\ UNCHANGED <<worker, deferred, held, gen>>

\* The end of a staged-state reset.
Resets ==
  /\ HandleOnTop
  /\ Msg.kind = "ResetDone"
  /\ ~staging'.resetting
  /\ \/ todo' = Tail(todo) /\ gen' \in {gen, gen + 1} /\ ~running'
     \/ /\ \E f : f.op = "afterReset" /\ todo' = <<DrainFrame, f>> \o Tail(todo)
        /\ gen' = gen
  /\ UNCHANGED <<state, worker, deferred, held, tasks, timers>>

\* What a restore leaves behind its drain.
Ends ==
  /\ OnTop("exitAfterReset") \/ OnTop("afterRestore")
  /\ todo' = Tail(todo)
  /\ gen' \in {gen, gen + 1}
  /\ staging'.resetting = staging.resetting
  /\ UNCHANGED <<state, worker, deferred, held, tasks, timers>>

Effects ==
  \/ Skips \/ Defers \/ Cancels \/ Starts \/ Retires \/ Judges \/ Concludes
  \/ Resets \/ Ends \/ AfterReset \/ DrainEnds \/ DrainNext \/ ResumeFinish
  \/ HandleApplyDone \/ HandleRestored \/ HandleBaselineReturn

(* The stages of the commands.                                              *)
LEMMA CommandEffects ==
  ASSUME IInv, HandleCommand, Msg.kind # "Reset"
  PROVE  Skips \/ Defers \/ Cancels \/ Starts
<1> USE DEF sessionVars, recoveryVars, fenceVars, dispatchVars, Return, HandleOnTop, OnTop,
       Handling
<1>0. gen \in Nat
  BY DEF IInv, TypeOK, DispatchTypes
<1>1. CASE \/ HandleStaleCommand \/ HandleRepairDropped \/ HandleRevertJoins
           \/ HandleDisarmIgnored \/ HandleSnapshot \/ HandleRefreshRejected
  <2>1. Msg.kind \in {"Apply", "Repair", "Revert", "Disarm", "Reset", "Snapshot", "Refresh"}
    BY <1>1 DEF HandleStaleCommand, HandleRepairDropped, HandleRevertJoins,
       HandleDisarmIgnored, HandleSnapshot, HandleRefreshRejected, Msg
  <2>2. ~IsMutationDone(Msg) /\ Msg.kind # "VerifyDone" /\ Msg.kind # "ResetDone"
    BY <2>1 DEF IsMutationDone
  <2> QED
    BY <1>1, <2>2 DEF HandleStaleCommand, HandleRepairDropped, HandleRevertJoins,
       HandleDisarmIgnored, HandleSnapshot, HandleRefreshRejected, Skips
<1>2. CASE HandleApplyDeferred \/ HandleRevertDeferred \/ HandleDisarmDeferred
  <2>1. Msg.kind \in {"Apply", "Revert", "Disarm"}
    BY <1>2 DEF HandleApplyDeferred, HandleRevertDeferred, HandleDisarmDeferred, Msg
  <2>2. ~IsCompletion(Msg)
    BY <2>1 DEF IsCompletion
  <2> QED
    BY <1>2, <2>1, <2>2 DEF HandleApplyDeferred, HandleRevertDeferred,
       HandleDisarmDeferred, Defers, FenceUp
<1>3. CASE HandleRevertPolicyOff \/ HandleDisarm
  BY <1>3 DEF HandleRevertPolicyOff, HandleDisarm, RevertRuns, Cancels, FenceUp, Msg
<1>4. CASE HandleRevertNothing
  <2>1. gen' \in {gen + 1, gen + 2}
    BY <1>0, <1>4 DEF HandleRevertNothing, ExitCallback
  <2> QED
    BY <1>4, <2>1 DEF HandleRevertNothing, RevertRuns, Cancels, FenceUp, Msg
<1>5. ASSUME NEW kind, NEW t \in TaskType, StartWorker(kind, t), IsMutationTask(t),
             kind = KindOf(t.op), t.gen = gen', StartsOn, state' # "EventLoop",
             Return, UNCHANGED <<deferred, timers, staging>>
      PROVE  Starts
  BY <1>5 DEF StartWorker, Starts, MutationTasks, WorkerOf
<1>6. CASE HandleApply
  <2> DEFINE t == [op |-> "apply", gen |-> ApplyGeneration, repair |-> FALSE,
                   for |-> Msg.seq]
  <2>1. Msg.seq \in Nat
    BY <1>6, CommandMessage DEF IInv, HandleApply
  <2>2. t \in TaskType /\ t.op = "apply" /\ t.gen = gen + 1
    BY <1>0, <2>1 DEF TaskType, ApplyGeneration
  <2>3. StartWorker("Apply", t)
    BY <1>6 DEF HandleApply
  <2> HIDE DEF t
  <2>4. StartsOn
    BY <1>6 DEF HandleApply, StartsOn, FenceUp, ApplyGeneration, Msg
  <2> QED
    BY <1>5, <1>6, <2>2, <2>3, <2>4
       DEF HandleApply, IsMutationTask, KindOf, ApplyGeneration
<1>7. CASE HandleRepair
  <2>1. ApplyTask(gen, FALSE) \in TaskType
    BY <1>0, TaskTyped DEF IInv, TypeOK, SessionTypes
  <2> QED
    BY <1>5, <1>7, <2>1 DEF HandleRepair, StartsOn, ApplyTask, IsMutationTask, KindOf, Msg
<1>8. CASE HandleRevert
  <2>1. RecoverTask(gen + 1) \in TaskType
    BY <1>0, TaskTyped DEF IInv
  <2> QED
    BY <1>5, <1>8, <2>1 DEF HandleRevert, RevertRuns, StartRecovery, StartsOn, FenceUp,
       RecoverTask, IsMutationTask, KindOf, Msg
<1>9. CASE HandleRefresh
  <2>1. RefreshTask(gen, Msg.inScope) \in TaskType
    <3>1. Msg.inScope \in BOOLEAN
      BY <1>9, CommandMessage DEF IInv, HandleRefresh
    <3> QED
      BY <1>0, <3>1, TaskTyped DEF IInv
  <2>2. StartsOn /\ state # "EventLoop"
    BY <1>9 DEF HandleRefresh, RefreshAllowed, ApplyInFlight, WorkerActive, RestorePending,
       StartsOn, Msg
  <2> QED
    BY <1>5, <1>9, <2>1, <2>2 DEF HandleRefresh, RefreshTask, IsMutationTask, KindOf
<1> QED
  BY <1>1, <1>2, <1>3, <1>4, <1>6, <1>7, <1>8, <1>9
     DEF HandleCommand, HandleResetDeferred, HandleReset, Msg

(* The kinds of step of a display event.                                    *)
LEMMA EventEffects ==
  ASSUME IInv, HandleEvent
  PROVE  Skips \/ Defers \/ Starts \/ HandleBaselineReturn
<1> USE DEF sessionVars, recoveryVars, fenceVars, dispatchVars, Return, HandleOnTop, OnTop,
       Handling
<1>0. gen \in Nat /\ req.seq \in Nat
  BY DEF IInv, TypeOK, DispatchTypes, SessionTypes
<1>1. HandleOnTop /\ Msg.kind = "Event"
  BY DEF HandleEvent, HandleBaselineReturn, HandleEventIgnored, HandleSameIdentity,
     HandleIdentityQueued, HandleIdentityReplaced, HandleEventInWindow,
     HandleEventReopens, RetriableEvent, EventFresh, Msg
<1>2. ~IsMutationDone(Msg) /\ ~IsCompletion(Msg)
  BY <1>1 DEF IsMutationDone, IsCompletion
<1>3. CASE HandleEventIgnored \/ HandleSameIdentity \/ HandleEventInWindow
  BY <1>1, <1>2, <1>3 DEF HandleEventIgnored, HandleSameIdentity, HandleEventInWindow,
     Skips
<1>4. CASE HandleIdentityQueued
  BY <1>1, <1>2, <1>4 DEF HandleIdentityQueued, VirtualSession, Defers
<1>5. CASE HandleIdentityReplaced
  <2>1. gen + 1 \in Nat
    BY <1>0
  <2>2. ApplyTask(gen + 1, FALSE) \in MutationTasks
    BY <2>1, <1>0, TaskTyped DEF MutationTasks, IsMutationTask, ApplyTask
  <2> QED
    BY <1>1, <1>5, <2>2 DEF HandleIdentityReplaced, StartWorker, Starts, StartsOn,
       WorkerOf, ApplyTask, KindOf
<1>6. CASE HandleEventReopens
  <2>1. RecoverTask(gen) \in MutationTasks
    BY <1>0, TaskTyped DEF MutationTasks, IsMutationTask, RecoverTask
  <2> QED
    BY <1>1, <1>6, <2>1 DEF HandleEventReopens, RetriableEvent, StartRecovery,
       StartWorker, Starts, StartsOn, WorkerOf, RecoverTask, KindOf
<1> QED
  BY <1>3, <1>4, <1>5, <1>6 DEF HandleEvent

(* A check that is due is dispatched, or pending already.                   *)
LEMMA DueEffect ==
  ASSUME IInv, NEW s, NEW g, DispatchCheck(s, g), settle.requested
  PROVE  Checks(g) /\ state' \in {state, "Verification"}
<1>1. req.seq \in Nat
  BY DEF IInv, TypeOK, SessionTypes
<1> QED
  BY <1>1 DEF DispatchCheck, Checks

(* The kinds of step of a verification's completion.                        *)
LEMMA VerdictEffects ==
  ASSUME IInv, HandleVerifyDone
  PROVE  Starts \/ Judges
<1> USE DEF sessionVars, recoveryVars, fenceVars, dispatchVars, Return, HandleOnTop, OnTop,
       Handling
<1>0. gen \in Nat /\ req.seq \in Nat
  BY DEF IInv, TypeOK, DispatchTypes, SessionTypes
<1>1. FreshVerdict
  BY DEF HandleVerifyDone, HandleCheckPassed, HandleCheckFailed, HandleVerified,
     HandleBaselineVerified, HandleUnverifiedDisconnected, HandleBaselineMissing,
     HandleBaselineUnrepaired, HandleUnverifiedReapply, HandleUnverified,
     Unverified, Verified, StaleGeneration, FreshVerdict, Msg
<1>2. SteadyState \in {"Waiting", "VirtualDisplayMonitoring"}
  BY DEF SteadyState
<1>3. ASSUME NEW g \in Nat, NEW b \in BOOLEAN, StartWorker("Apply", ApplyTask(g, b)),
             g = gen', gen' \in {gen, gen + 1}, state' = "InProgress", Return,
             UNCHANGED <<deferred, timers, staging, held>>
      PROVE  Starts
  <2>1. ApplyTask(g, b) \in MutationTasks
    BY <1>0, TaskTyped DEF MutationTasks, IsMutationTask, ApplyTask
  <2> QED
    BY <1>1, <1>3, <2>1 DEF StartWorker, Starts, StartsOn, WorkerOf, ApplyTask, KindOf
<1>4. CASE HandleCheckFailed \/ HandleBaselineMissing \/ HandleUnverifiedReapply
  <2>1. gen + 1 \in Nat /\ gen \in {gen, gen + 1} /\ gen + 1 \in {gen, gen + 1}
    BY <1>0
  <2>2. CASE HandleCheckFailed
    BY <1>3, <2>1, <2>2 DEF HandleCheckFailed
  <2>3. CASE HandleBaselineMissing
    BY <1>0, <1>3, <2>1, <2>3 DEF HandleBaselineMissing
  <2>4. CASE HandleUnverifiedReapply
    BY <1>0, <1>3, <2>1, <2>4 DEF HandleUnverifiedReapply
  <2> QED
    BY <1>4, <2>2, <2>3, <2>4
<1>5. CASE HandleCheckPassed \/ HandleBaselineVerified \/ HandleBaselineUnrepaired
           \/ HandleUnverified
  BY <1>1, <1>2, <1>5 DEF HandleCheckPassed, HandleBaselineVerified,
     HandleBaselineUnrepaired, HandleUnverified, Judges, Checks
<1>6. CASE HandleVerified
  <2>1. CASE settle.requested /\ DispatchCheck(settle, gen)
    BY <1>1, <1>6, <2>1, DueEffect DEF HandleVerified, Judges
  <2>2. CASE state' = SteadyState /\ UNCHANGED timers
    BY <1>1, <1>2, <1>6, <2>2 DEF HandleVerified, Judges, Checks
  <2> QED
    BY <1>6, <2>1, <2>2 DEF HandleVerified
<1>7. CASE HandleUnverifiedDisconnected
  <2>1. CASE settle.requested /\ DispatchCheck(settle, gen)
    BY <1>1, <1>7, <2>1, DueEffect DEF HandleUnverifiedDisconnected, Judges
  <2>2. CASE state' \in {SteadyState, "Waiting"} /\ UNCHANGED timers
    BY <1>1, <1>2, <1>7, <2>2 DEF HandleUnverifiedDisconnected, Judges, Checks
  <2> QED
    BY <1>7, <2>1, <2>2 DEF HandleUnverifiedDisconnected
<1> QED
  BY <1>4, <1>5, <1>6, <1>7 DEF HandleVerifyDone

(* reset_uncommitted_staged_state_if_needed dispatches a reset at most.     *)
LEMMA DropEffect ==
  ASSUME NEW s, s.resetting = staging.resetting, s.resetting \in BOOLEAN, s \in StagingType,
         NEW l, DropUncommitted(s, l)
  PROVE  \/ tasks' = tasks /\ staging'.resetting = staging.resetting
         \/ tasks' = Append(tasks, ResetTask(gen)) /\ staging'.resetting
BY DEF DropUncommitted, BeginReset, StagingType

(* The kinds of step of the outcome of an APPLY.                            *)
LEMMA OutcomeEffects ==
  ASSUME IInv, ApplyOutcome
  PROVE  Starts \/ Concludes
<1> USE DEF sessionVars, recoveryVars, fenceVars, dispatchVars, Return, ReturnInto
<1>0. gen \in Nat /\ req.seq \in Nat /\ TypeOK
  BY DEF IInv, TypeOK, DispatchTypes, SessionTypes
<1>1. OnTop("outcome")
  BY DEF ApplyOutcome, OutcomeBaselineFailed, OutcomeChecked, OutcomeRepaired,
     OutcomeVerify, OutcomeHdrFallback, OutcomeFailed, OutcomeFails
<1>2. CASE OutcomeBaselineFailed \/ OutcomeRepaired
  BY <1>1, <1>2 DEF OutcomeBaselineFailed, OutcomeRepaired, Concludes
<1>3. CASE OutcomeChecked
  <2> DEFINE s == [settle EXCEPT !.repairing = FALSE]
  <2>1. DispatchCheck(s, gen) /\ (settle.pending \/ settle.requested)
    BY <1>3 DEF OutcomeChecked, ChecksDecide, CheckDue
  <2>2. s.pending = settle.pending
    BY DEF IInv, TypeOK, SessionTypes, SettlementType
  <2> HIDE DEF s
  <2>3. Checks(gen)
    BY <1>0, <2>1, <2>2 DEF DispatchCheck, Checks
  <2> QED
    BY <1>1, <1>3, <2>3 DEF OutcomeChecked, Concludes
<1>4. CASE OutcomeVerify
  <2>1. \E p \in Purposes : tasks' = Append(tasks, VerifyTask(gen, p))
    BY <1>4 DEF OutcomeVerify, Purposes
  <2> QED
    BY <1>1, <1>4, <2>1 DEF OutcomeVerify, Concludes
<1>5. CASE OutcomeHdrFallback
  <2>1. ApplyTask(gen, TRUE) \in MutationTasks
    BY <1>0, TaskTyped DEF MutationTasks, IsMutationTask, ApplyTask
  <2>2. /\ StartWorker("Apply", ApplyTask(gen, TRUE)) /\ gen' = gen /\ held' = held
        /\ state' = "InProgress" /\ todo' = Tail(todo)
        /\ UNCHANGED <<deferred, timers, staging>>
    BY <1>5 DEF OutcomeHdrFallback
  <2>3. StartsOn
    BY <1>1, <2>2 DEF StartsOn
  <2> QED
    BY <2>1, <2>2, <2>3 DEF StartWorker, Starts, WorkerOf, ApplyTask, KindOf
<1>6. CASE OutcomeFailed
  <2>1. \/ tasks' = tasks /\ staging'.resetting = staging.resetting
        \/ tasks' = Append(tasks, ResetTask(gen)) /\ staging'.resetting
    <3>1. CASE DropUncommitted(staging, lease)
      BY <1>0, <3>1, StagingUpdates, DropEffect
    <3>2. CASE UNCHANGED <<staging, tasks>>
      BY <3>2
    <3> QED
      BY <1>6, <3>1, <3>2 DEF OutcomeFailed
  <2> QED
    BY <1>1, <1>6, <2>1 DEF OutcomeFailed, Concludes
<1> QED
  BY <1>2, <1>3, <1>4, <1>5, <1>6 DEF ApplyOutcome

(* The kinds of step of the other completions.                              *)
LEMMA CompletionEffects ==
  ASSUME IInv, ApplyCompletion \/ RestoreCompletion
  PROVE  Effects
<1> USE DEF sessionVars, recoveryVars, fenceVars, dispatchVars, Return, ReturnInto,
       HandleOnTop, OnTop, Handling
<1>0. gen \in Nat /\ req.seq \in Nat /\ TypeOK
  BY DEF IInv, TypeOK, DispatchTypes, SessionTypes
<1>1. CASE HandleForeignCompletion
  <2>1. /\ Msg.kind = "VerifyDone" => Msg.gen # gen
        /\ IsMutationDone(Msg) => worker # WorkerFor(Msg)
        /\ Msg.kind # "ResetDone"
    BY <1>1 DEF HandleForeignCompletion, StaleGeneration, Owns, WorkerFor, KindOf,
       IsMutationDone, Msg
  <2> QED
    BY <1>1, <2>1 DEF HandleForeignCompletion, Skips, Effects
<1>2. ASSUME NEW kind \in {"ApplyDone", "RefreshDone", "RecoverDone", "ValidateDone"},
             Handling(kind), Owns(KindOf(kind), Msg)
      PROVE  HandleOnTop /\ IsMutationDone(Msg) /\ worker = WorkerFor(Msg)
  BY <1>2 DEF IsMutationDone, Owns, WorkerFor, Msg
<1>3. CASE \/ HandleCancelledApplyTouched \/ HandleRefreshCancelled
           \/ HandleCancelledRecovery \/ HandleAttemptFailed \/ HandleCancelledValidation
  <2>1. HandleOnTop /\ IsMutationDone(Msg) /\ worker = WorkerFor(Msg)
    BY <1>3 DEF HandleCancelledApplyTouched, HandleRefreshCancelled,
       HandleCancelledRecovery, HandleAttemptFailed, HandleCancelledValidation,
       KindOf, Owns, WorkerFor, IsMutationDone, Msg
  <2>2. /\ todo' = <<DrainFrame>> \o Tail(todo) /\ worker' = None /\ gen' = gen
        /\ UNCHANGED <<tasks, timers, deferred, held>>
        /\ staging'.resetting = staging.resetting
    <3>1. staging \in StagingType
      BY <1>0, StagingUpdates
    <3> QED
      BY <1>3, <3>1 DEF HandleCancelledApplyTouched, HandleRefreshCancelled,
         HandleCancelledRecovery, HandleAttemptFailed, HandleCancelledValidation,
         StagingType
  <2> QED
    BY <2>1, <2>2 DEF Retires, Effects
<1>4. CASE HandleCancelledApplyUntouched
  <2>1. HandleOnTop /\ IsMutationDone(Msg) /\ worker = WorkerFor(Msg)
    BY <1>4 DEF HandleCancelledApplyUntouched, KindOf, Owns, WorkerFor, IsMutationDone, Msg
  <2>2. Msg.staged \in BOOLEAN
    <3>1. Msg \in ApplyDoneType
      BY <1>0, <1>4, ApplyCompletionTop DEF ApplyCompletion, HandleCancelledApplyUntouched
    <3> QED
      BY <3>1 DEF ApplyDoneType
  <2>3. \/ tasks' = tasks /\ staging'.resetting = staging.resetting
        \/ tasks' = Append(tasks, ResetTask(gen)) /\ staging'.resetting
    BY <1>0, <1>4, <2>2, StagingUpdates, DropEffect DEF HandleCancelledApplyUntouched
  <2> QED
    BY <1>4, <2>1, <2>3 DEF HandleCancelledApplyUntouched, Retires, Effects
<1>5. CASE HandleRefreshDone
  <2>1. HandleOnTop /\ IsMutationDone(Msg) /\ worker = WorkerFor(Msg)
    BY <1>5 DEF HandleRefreshDone, KindOf, Owns, WorkerFor, IsMutationDone, Msg
  <2>2. gen' \in {gen, gen + 1} /\ Checks(gen')
    <3>1. CASE settle.requested /\ DispatchCheck(settle, gen')
      BY <1>5, <3>1, DueEffect DEF HandleRefreshDone
    <3>2. CASE UNCHANGED timers
      BY <1>5, <3>2 DEF HandleRefreshDone, Checks
    <3> QED
      BY <1>5, <3>1, <3>2 DEF HandleRefreshDone
  <2> QED
    BY <1>5, <2>1, <2>2 DEF HandleRefreshDone, Retires, Effects
<1>6. CASE HandleConfirmed
  <2>1. HandleOnTop /\ IsMutationDone(Msg) /\ worker = WorkerFor(Msg)
    BY <1>6 DEF HandleConfirmed, KindOf, Owns, WorkerFor, IsMutationDone, Msg
  <2> DEFINE failed == StageOutlives(staging)
             c == failed \/ staging.resetting \/ Occurs(deferred, IsReset)
             s == [staging EXCEPT !.prepared = failed, !.exitAfter = c]
             f == [op |-> "afterRestore", resetFailed |-> failed,
                   followup |-> HasDeferredFollowup(deferred)]
  <2>2. f.op = "afterRestore" /\ todo' = <<DrainFrame, f>> \o Tail(todo)
    BY <1>6 DEF HandleConfirmed
  <2>3. failed \in BOOLEAN /\ c \in BOOLEAN
    BY <1>0, StagingUpdates DEF StageOutlives, Occurs, StagingType
  <2>4. s \in StagingType /\ s.resetting = staging.resetting /\ s.resetting \in BOOLEAN
    BY <1>0, <2>3, StagingUpdates
  <2>5. IF failed THEN BeginReset(s) ELSE staging' = s /\ UNCHANGED tasks
    BY <1>6 DEF HandleConfirmed
  <2>6. worker' = None /\ UNCHANGED <<deferred, held, gen, timers>>
    BY <1>6 DEF HandleConfirmed
  <2> HIDE DEF s, c, failed, f
  <2>7. \/ tasks' = tasks /\ staging'.resetting = staging.resetting
        \/ tasks' = Append(tasks, ResetTask(gen)) /\ staging'.resetting
    BY <2>4, <2>5 DEF BeginReset, StagingType
  <2>8. gen' = gen /\ timers' = timers
    BY <2>6
  <2> QED
    BY <2>1, <2>2, <2>6, <2>7, <2>8 DEF Retires, Effects
<1>7. CASE HandleResetFailedExit
  <2>1. staging \in StagingType
    BY <1>0, StagingUpdates
  <2> QED
    BY <1>7, <2>1 DEF HandleResetFailedExit, ExitCallback, ResetSettled, StagingType, Resets,
       Effects, Msg
<1>8. CASE HandleResetDone
  <2>1. staging \in StagingType
    BY <1>0, StagingUpdates
  <2>2. ~staging'.resetting
    BY <1>8, <2>1 DEF HandleResetDone, ResetSettled, StagingType
  <2> DEFINE f == [op |-> "afterReset"]
  <2>3. f.op = "afterReset" /\ todo' = <<DrainFrame, f>> \o Tail(todo)
    BY <1>8 DEF HandleResetDone
  <2> HIDE DEF f
  <2> QED
    BY <1>8, <2>2, <2>3 DEF HandleResetDone, Resets, Effects, Msg
<1>9. CASE ExitAfterReset \/ AfterRestore
  <2>1. staging \in StagingType
    BY <1>0, StagingUpdates
  <2> QED
    BY <1>9, <2>1 DEF ExitAfterReset, AfterRestore, ExitCallback, StagingType, Ends, Effects
<1> QED
  BY <1>1, <1>3, <1>4, <1>5, <1>6, <1>7, <1>8, <1>9
     DEF ApplyCompletion, RestoreCompletion, Effects

(* Every handler is one of these steps, in a helper nobody asks for a RESET.*)
LEMMA HandlersEffects ==
  ASSUME IInv, Handlers, HandleOnTop => Msg.kind # "Reset"
  PROVE  Effects
<1>1. CASE HandleCommand
  <2>1. HandleOnTop
    BY <1>1 DEF HandleCommand, HandleStaleCommand, HandleApplyDeferred,
         HandleApply, HandleRepairDropped, HandleRepair, HandleRevertJoins,
         HandleRevertDeferred, HandleRevertPolicyOff, HandleRevertNothing,
         HandleRevert, RevertRuns, HandleDisarmIgnored, HandleDisarmDeferred,
         HandleDisarm, HandleSnapshot, HandleRefreshRejected, HandleRefresh,
         HandleResetDeferred, HandleReset, Handling, HandleOnTop, OnTop
  <2> QED
    BY <1>1, <2>1, CommandEffects DEF Effects
<1>2. CASE HandleEvent
  BY <1>2, EventEffects DEF Effects
<1>3. CASE HandleVerifyDone
  BY <1>3, VerdictEffects DEF Effects
<1>4. CASE ApplyOutcome
  BY <1>4, OutcomeEffects DEF Effects
<1>5. CASE ApplyCompletion \/ RestoreCompletion
  BY <1>5, CompletionEffects
<1> QED
  BY <1>1, <1>2, <1>3, <1>4, <1>5
     DEF Handlers, HandleCompletion, Continue, ApplyCompletion, RestoreCompletion

-----------------------------------------------------------------------------
(* Messages.                                                                *)

\* What no client sends: commands of another connection than the bound one or
\* its predecessors, the helper's own repairs, and no RESET.
Unsent(b) ==
  {m \in MessageType : \/ m.kind \in {"Reset", "Repair"}
                       \/ m.kind = "Apply" /\ ~(0 < m.epoch /\ m.epoch <= b)}

\* What is neither sent nor queued by the helper for a request of epoch e.
Unheard(b, e) ==
  {m \in MessageType : \/ m.kind = "Reset"
                       \/ m.kind = "Apply" /\ ~(0 < m.epoch /\ m.epoch <= b)
                       \/ m.kind = "Repair" /\ ~(0 < m.epoch /\ m.epoch <= e)}

PendingInv ==
  /\ Free(mailbox, Unsent(bound))
  /\ Free(todo, Frames(Unheard(bound, req.epoch)))
  /\ Free(deferred, Unheard(bound, req.epoch))

\* The epochs of the connections and of the current request.
EpochInv ==
  /\ bound <= epoch
  /\ req.epoch <= bound
  /\ req.virt # "none" => 0 < req.epoch
  /\ link \in {"up", "broken"} => 0 < bound
  /\ settle.requested => req.epoch < epoch

\* No client asks for a RESET.
NoReset == "Reset" \notin Commands

(* A set of elements that shrinks, and frames of messages.                  *)
LEMMA FreePart ==
  ASSUME NEW q, NEW G, NEW H \in SUBSET G, Free(q, G)
  PROVE  Free(q, H)
BY DEF Free

(* A frame of a smaller set of messages is a frame of a larger one.         *)
LEMMA FramesPart ==
  ASSUME NEW M, NEW N \in SUBSET M
  PROVE  Frames(N) \subseteq Frames(M)
BY DEF Frames

(* Later epochs rule out fewer messages.                                    *)
LEMMA UnheardPart ==
  ASSUME NEW b \in Nat, NEW e \in Nat, NEW c \in Nat, NEW d \in Nat, b <= c, e <= d
  PROVE  Unheard(c, d) \subseteq Unheard(b, e) /\ Unsent(c) \subseteq Unsent(b)
<1>1. \A m \in MessageType : m.kind \in {"Apply", "Repair"} => m.epoch \in Nat
  BY DEF MessageType, DeferrableType, ApplyDoneType
<1> QED
  BY <1>1 DEF Unheard, Unsent

(* A stack with nothing below its top.                                      *)
LEMMA OnlyOne ==
  ASSUME NEW S, NEW q \in Seq(S), q # <<>>, Tail(q) = <<>>
  PROVE  q = <<Head(q)>>
<1>1. q = <<Head(q)>> \o Tail(q)
  OBVIOUS
<1>2. <<Head(q)>> \o <<>> = <<Head(q)>>
  OBVIOUS
<1> QED
  BY <1>1, <1>2

(* The rest of a completion handles no message.                             *)
LEMMA RestFree ==
  ASSUME NEW q \in Seq(FrameType), Rest(q) \/ Draining(q), NEW M
  PROVE  Free(q, Frames(M))
<1>1. DrainFrame.op = "drain"
  BY DEF DrainFrame
<1>2. \A f : f.op # "handle" => f \notin Frames(M)
  BY FrameOf
<1>3. Free(<<>>, Frames(M))
  BY DEF Free
<1>4. \A a : a \notin Frames(M) => Free(<<a>>, Frames(M))
  BY DEF Free
<1>5. ASSUME NEW r \in Seq(FrameType), Rest(r)
      PROVE  Free(r, Frames(M)) /\ (r = <<>> \/ \E a : r = <<a>> /\ a \notin Frames(M))
  <2>1. CASE r = <<>>
    BY <1>3, <2>1
  <2>2. CASE r # <<>> /\ Head(r).op \in RestOps /\ Tail(r) = <<>>
    <3>1. r = <<Head(r)>>
      BY <1>5, <2>2, OnlyOne
    <3>2. Head(r) \notin Frames(M)
      BY <1>2, <2>2 DEF RestOps
    <3> QED
      BY <1>4, <3>1, <3>2
  <2> QED
    BY <1>5, <2>1, <2>2 DEF Rest
<1>6. CASE Rest(q)
  BY <1>5, <1>6
<1>7. CASE Draining(q)
  <2>1. q # <<>> /\ Head(q) = DrainFrame /\ Rest(Tail(q))
    BY <1>7 DEF Draining
  <2>2. Tail(q) \in Seq(FrameType) /\ q = <<DrainFrame>> \o Tail(q)
    BY <2>1, TailType, PushTwice
  <2>3. Free(<<DrainFrame>>, Frames(M)) /\ <<DrainFrame>> \in Seq(FrameType)
    <3>1. DrainFrame \in FrameType
      BY FrameTyped
    <3> QED
      BY <1>1, <1>2, <1>4, <3>1
  <2>4. Free(Tail(q), Frames(M))
    BY <1>5, <2>1, <2>2
  <2> HIDE DEF FrameType
  <2> QED
    BY <2>2, <2>3, <2>4, PushSole
<1> QED
  BY <1>6, <1>7

(* Handlers other than that of an APPLY keep the request and its epoch.     *)
LEMMA RequestKept ==
  ASSUME IInv, Handlers, ~HandleApply
  PROVE  /\ req'.seq = req.seq /\ req'.epoch = req.epoch /\ req'.virt = req.virt
         /\ settle'.requested => settle.requested
<1>0. /\ req \in [virt : Layouts, hdr : BOOLEAN, rod : BOOLEAN, seq : Nat, epoch : Nat]
      /\ settle \in SettlementType
  BY DEF IInv, TypeOK, SessionTypes
<1>1. ~NoSettlement.requested /\ \A s : ~ResetSettlement(s).requested
  BY DEF NoSettlement, ResetSettlement
<1>2. ASSUME NEW s, NEW g, DispatchCheck(s, g), s \in SettlementType,
             s.requested = settle.requested
      PROVE  settle'.requested => settle.requested
  BY <1>2 DEF DispatchCheck, SettlementType
<1>3. ASSUME NEW s, s \in SettlementType
      PROVE  [s EXCEPT !.repairing = FALSE].requested = s.requested
  BY <1>3 DEF SettlementType
<1>4. CASE HandleCommand
  BY <1>1, <1>4 DEF HandleCommand, HandleStaleCommand, HandleApplyDeferred,
     HandleRepairDropped, HandleRepair, HandleRevertJoins, HandleRevertDeferred,
     HandleRevertPolicyOff, HandleRevertNothing, HandleRevert, HandleDisarmIgnored,
     HandleDisarmDeferred, HandleDisarm, HandleSnapshot, HandleRefreshRejected,
     HandleRefresh, HandleResetDeferred, HandleReset, ClearRecoveryState,
     RevertSettlement, sessionVars
<1>5. CASE HandleEvent
  BY <1>5 DEF HandleEvent, HandleBaselineReturn, HandleEventIgnored,
     HandleSameIdentity, HandleIdentityQueued, HandleIdentityReplaced,
     HandleEventInWindow, HandleEventReopens, sessionVars
<1>6. CASE ApplyOutcome
  <2>1. CASE OutcomeChecked
    <3> DEFINE s == [settle EXCEPT !.repairing = FALSE]
    <3>1. s \in SettlementType /\ s.requested = settle.requested
      BY <1>0, <1>3 DEF SettlementType
    <3>2. DispatchCheck(s, gen) /\ req' = req
      BY <2>1 DEF OutcomeChecked
    <3> HIDE DEF s
    <3> QED
      BY <1>2, <3>1, <3>2
  <2>2. CASE OutcomeHdrFallback
    BY <1>0, <1>1, <2>2 DEF OutcomeHdrFallback, SettlementOver
  <2>3. CASE \/ OutcomeBaselineFailed \/ OutcomeRepaired \/ OutcomeVerify \/ OutcomeFailed
    BY <1>1, <2>3 DEF OutcomeBaselineFailed, OutcomeRepaired, OutcomeVerify, OutcomeFailed,
       SettlementOver
  <2> QED
    BY <1>6, <2>1, <2>2, <2>3 DEF ApplyOutcome
<1>7. CASE HandleVerifyDone
  <2>1. UNCHANGED req
    BY <1>7 DEF HandleVerifyDone, HandleCheckPassed, HandleCheckFailed, HandleVerified,
       HandleBaselineVerified, HandleUnverifiedDisconnected, HandleBaselineMissing,
       HandleBaselineUnrepaired, HandleUnverifiedReapply, HandleUnverified
  <2>2. CASE HandleCheckFailed
    BY <1>0, <2>1, <2>2 DEF HandleCheckFailed, SettlementType
  <2>3. CASE HandleVerified \/ HandleUnverifiedDisconnected
    BY <1>0, <1>1, <1>2, <2>1, <2>3 DEF HandleVerified, HandleUnverifiedDisconnected,
       SettlementOver
  <2>4. CASE ~HandleCheckFailed /\ ~HandleVerified /\ ~HandleUnverifiedDisconnected
    BY <1>1, <1>7, <2>1, <2>4 DEF HandleVerifyDone, HandleCheckPassed,
       HandleBaselineVerified, HandleBaselineMissing, HandleBaselineUnrepaired,
       HandleUnverifiedReapply, HandleUnverified
  <2> QED
    BY <2>2, <2>3, <2>4
<1>8. CASE HandleRefreshDone
  BY <1>0, <1>1, <1>2, <1>8 DEF HandleRefreshDone, SettlementOver
<1>9. CASE (ApplyCompletion \/ RestoreCompletion) /\ ~HandleRefreshDone
  BY <1>9 DEF ApplyCompletion, RestoreCompletion, HandleForeignCompletion, HandleApplyDone,
     HandleCancelledApplyTouched, HandleCancelledApplyUntouched, DrainNext, DrainEnds,
     ResumeFinish, AfterReset, HandleResetFailedExit, HandleResetDone,
     HandleRefreshCancelled, HandleCancelledRecovery, HandleRestored,
     HandleAttemptFailed, HandleCancelledValidation, HandleConfirmed,
     ExitAfterReset, AfterRestore, sessionVars
<1> QED
  BY <1>4, <1>5, <1>6, <1>7, <1>8, <1>9
     DEF Handlers, HandleCompletion, Continue, ApplyCompletion, RestoreCompletion

(* What a queued command is not, the queue has none of.                     *)
LEMMA EnqueueFree ==
  ASSUME IInv, NEW c, Enqueue(c), NEW G, c \notin G, Free(deferred, G)
  PROVE  Free(deferred', G)
<1>1. deferred \in Seq(DeferrableType)
  BY DEF IInv, TypeOK, FenceTypes
<1>2. CASE UNCHANGED deferred
  BY <1>2
<1>3. ASSUME NEW q \in Filtered(deferred, LAMBDA d : Survives(d, c)),
             deferred' = Append(q, c)
      PROVE  Free(deferred', G)
  <2> DEFINE K == {i \in DOMAIN deferred : Survives(deferred[i], c)}
             n == Cardinality(K)
  <2>1. n \in Nat
    BY <1>1, KeptCount
  <2>2. PICK f \in [1..n -> K] : q = [i \in 1..n |-> deferred[f[i]]]
    BY <1>3 DEF Filtered
  <2>3. K \in SUBSET DOMAIN deferred
    OBVIOUS
  <2> HIDE DEF n, K
  <2>4. DOMAIN q = 1..n /\ \A i \in 1..n : q[i] = deferred[f[i]] /\ f[i] \in DOMAIN deferred
    BY <2>2, <2>3
  <2>5. Free(q, G)
    BY <2>4 DEF Free
  <2>6. \A i \in 1..n : q[i] \in DeferrableType
    BY <1>1, <2>4
  <2>7. q \in Seq(DeferrableType)
    BY <1>1, <2>1, <2>2, <2>3, FilteredType
  <2>8. DOMAIN Append(q, c) = 1..(Len(q) + 1) /\ Len(q) = n
        /\ \A i \in 1..n : Append(q, c)[i] = q[i]
        /\ Append(q, c)[n + 1] = c
    BY <2>1, <2>4, <2>7
  <2> QED
    BY <1>3, <2>1, <2>4, <2>5, <2>8 DEF Free
<1> QED
  BY <1>2, <1>3 DEF Enqueue

(* The message on top of the stack is none that nobody sent.                *)
LEMMA TopAllowed ==
  ASSUME IInv, HandleOnTop, NEW M, Free(todo, Frames(M))
  PROVE  Msg \in MessageType /\ Head(todo) = HandleFrame(Msg) /\ Msg \notin M
<1>1. todo \in Seq(FrameType) /\ todo # <<>> /\ Head(todo).op = "handle"
  BY DEF IInv, TypeOK, FenceTypes, HandleOnTop, OnTop
<1>2. Head(todo) \in FrameType
  BY <1>1, TailType
<1>3. Msg \in MessageType /\ Head(todo) = HandleFrame(Msg)
  BY <1>1, <1>2 DEF FrameType, HandleFrame, Msg
<1>4. Head(todo) \notin Frames(M)
  BY <1>1, TailSole
<1> QED
  BY <1>3, <1>4 DEF Frames

(* The frame of the message that is handled.                                *)
LEMMA HandledTop ==
  ASSUME IInv, HandleOnTop
  PROVE  /\ Msg \in MessageType /\ Head(todo) = HandleFrame(Msg)
         /\ IsMutationDone(Msg) => Head(todo) \in Frames(MutationDones)
<1>1. Free(todo, Frames({}))
  BY DEF Free, Frames
<1>2. Msg \in MessageType /\ Head(todo) = HandleFrame(Msg)
  BY <1>1, TopAllowed
<1> QED
  BY <1>2, FrameOf DEF MutationDones

(* The deferred queue changes where commands are queued or drained.         *)
LEMMA DeferredMoves ==
  ASSUME Effects
  PROVE  deferred' = deferred \/ Defers \/ DrainNext
BY DEF Effects, Skips, Cancels, Starts, Retires, Judges, Concludes, Resets, Ends,
   AfterReset, DrainEnds, ResumeFinish, HandleApplyDone, HandleRestored,
   HandleBaselineReturn, fenceVars

(* Handlers keep the epochs in order.                                       *)
LEMMA HandlersEpochs ==
  ASSUME IInv, IInv', PendingInv, EpochInv, Handle
  PROVE  EpochInv' /\ req.epoch <= req'.epoch
<1>0. /\ bound \in Nat /\ epoch \in Nat /\ req.epoch \in Nat /\ req'.epoch \in Nat
      /\ UNCHANGED <<bound, epoch, link, mailbox>>
  BY DEF IInv, TypeOK, HostTypes, SessionTypes, Handle, hostUnchanged, hostVars
<1>1. CASE HandleApply
  <2>1. HandleOnTop /\ Msg.kind = "Apply" /\ ~StaleConnection(Msg)
    BY <1>1 DEF HandleApply, Handling, HandleOnTop, OnTop, Msg
  <2>2. 0 < Msg.epoch /\ Msg.epoch <= bound
    BY <2>1, TopAllowed DEF PendingInv, Unheard
  <2>3. Msg.epoch = epoch
    BY <2>1, <2>2 DEF StaleConnection
  <2>4. req'.epoch = Msg.epoch /\ ~settle'.requested
    BY <1>1 DEF HandleApply, NoSettlement
  <2> QED
    BY <1>0, <2>2, <2>3, <2>4 DEF EpochInv
<1>2. CASE ~HandleApply
  <2>1. /\ req'.epoch = req.epoch /\ req'.virt = req.virt
        /\ settle'.requested => settle.requested
    BY <1>2, RequestKept DEF Handle
  <2> QED
    BY <1>0, <2>1 DEF EpochInv
<1> QED
  BY <1>1, <1>2

(* A message that is neither on the stack nor queued, and is no repair of   *)
(* the current request, is brought there by no handler.                     *)
LEMMA HandlersQueue ==
  ASSUME IInv, IInv', ShapeInv, Handle, Effects, OnTop("afterReset") => held = None,
         NEW G, Free(todo, Frames(G)), Free(deferred, G),
         req.virt # "none" => [kind |-> "Repair", epoch |-> req.epoch] \notin G
  PROVE  Free(todo', Frames(G)) /\ Free(deferred', G)
<1>0. /\ deferred \in Seq(DeferrableType)
      /\ todo \in Seq(FrameType) /\ todo' \in Seq(FrameType)
  BY DEF IInv, TypeOK, FenceTypes
<1>1. HandleOnTop => Msg \notin G /\ Msg \in MessageType
  BY TopAllowed
<1>2. todo # <<>>
  BY HandlersTop DEF Handle
<1>3. DrainNext => Head(deferred) \notin G /\ Free(Tail(deferred), G)
  BY <1>0, TailSole DEF DrainNext, DrainContinues
<1>4. Free(deferred', G)
  <2>1. CASE Defers
    <3>1. CASE Msg.kind \in {"Apply", "Revert", "Disarm"} /\ Enqueue(Msg)
      BY <1>1, <2>1, <3>1, EnqueueFree DEF Defers
    <3>2. CASE req.virt # "none" /\ Enqueue([kind |-> "Repair", epoch |-> req.epoch])
      <4> DEFINE c == [kind |-> "Repair", epoch |-> req.epoch]
      <4>1. c \notin G /\ Enqueue(c)
        BY <3>2
      <4> HIDE DEF c
      <4> QED
        BY <4>1, EnqueueFree
    <3> QED
      BY <2>1, <3>1, <3>2 DEF Defers
  <2>2. CASE DrainNext
    BY <1>3, <2>2 DEF DrainNext
  <2>3. CASE deferred' = deferred
    BY <2>3
  <2> QED
    BY <2>1, <2>2, <2>3, DeferredMoves
<1>5. Free(todo', Frames(G))
  <2>1. CASE todo' = Tail(todo)
    BY <1>0, <1>2, <2>1, TailSole
  <2>2. CASE Rest(todo') \/ Draining(todo')
    BY <1>0, <2>2, RestFree
  <2>3. CASE DrainNext /\ todo' = <<HandleFrame(Head(deferred))>> \o todo
    <3> DEFINE f == HandleFrame(Head(deferred))
    <3>1. f \notin Frames(G)
      BY <1>3, <2>3, FrameOf
    <3>2. f \in FrameType
      <4>1. Head(deferred) \in MessageType
        BY <1>0, <2>3, TailType DEF DrainNext, DrainContinues, MessageType
      <4> QED
        BY <4>1, FrameTyped
    <3>3. todo' = <<f>> \o todo
      BY <2>3
    <3> HIDE DEF f
    <3>4. Free(<<f>>, Frames(G)) /\ <<f>> \in Seq(FrameType)
      BY <3>1, <3>2 DEF Free
    <3> QED
      BY <1>0, <3>3, <3>4, PushSole
  <2> QED
    BY <2>1, <2>2, <2>3, HandlersStack DEF Handle, StackMoves
<1> QED
  BY <1>4, <1>5

(* Handlers queue nothing that nobody sent.                                 *)
LEMMA HandlersPending ==
  ASSUME IInv, IInv', PendingInv, EpochInv, ShapeInv, Handle,
         OnTop("afterReset") => held = None
  PROVE  PendingInv'
<1>0. /\ bound \in Nat /\ epoch \in Nat /\ req.epoch \in Nat /\ req'.epoch \in Nat
      /\ UNCHANGED <<bound, epoch, link, mailbox>>
  BY DEF IInv, TypeOK, HostTypes, SessionTypes, Handle, hostUnchanged, hostVars
<1> DEFINE G == Unheard(bound, req.epoch)
           H == Unheard(bound', req'.epoch)
<1>1. H \subseteq G
  BY <1>0, HandlersEpochs, UnheardPart
<1>2. Free(todo, Frames(G)) /\ Free(deferred, G)
  BY DEF PendingInv
<1>3. Effects
  <2>1. HandleOnTop => Msg.kind # "Reset"
    BY <1>2, TopAllowed DEF Unheard
  <2> QED
    BY <2>1, HandlersEffects DEF Handle
<1>4. req.virt # "none" => [kind |-> "Repair", epoch |-> req.epoch] \notin G
  <2> DEFINE c == [kind |-> "Repair", epoch |-> req.epoch]
  <2>1. c.kind = "Repair" /\ c.epoch = req.epoch
    OBVIOUS
  <2> HIDE DEF c
  <2>2. req.virt # "none" => c \notin G
    BY <1>0, <2>1 DEF EpochInv, Unheard
  <2> QED
    BY <2>2 DEF c
<1> HIDE DEF G, H
<1>5. Free(todo', Frames(G)) /\ Free(deferred', G)
  BY <1>2, <1>3, <1>4, HandlersQueue
<1>6. Frames(H) \subseteq Frames(G)
  BY <1>1, FramesPart
<1>7. Free(mailbox', Unsent(bound'))
  BY <1>0 DEF PendingInv
<1> QED
  BY <1>1, <1>5, <1>6, <1>7, FreePart DEF PendingInv, H

-----------------------------------------------------------------------------
(* The invariant of the fence.                                              *)

ForeignTasks(w) == {t \in MutationTasks : WorkerOf(t) # w}
ForeignDones(w) == {m \in MutationDones : WorkerFor(m) # w}

\* active_mutation_worker_ names the only mutation in flight.
FenceInv ==
  IF worker = None THEN NoneOf(MutationTasks, MutationDones)
  ELSE /\ OneOf(MutationTasks, MutationDones)
       /\ NoneOf(ForeignTasks(worker), ForeignDones(worker))

\* No mutation is under way in the event loop, from which a tick may start one.
EventLoopInv == state = "EventLoop" => worker = None

\* A mutation and a staged-state reset are dispatched, run and reported in the
\* same order: the reset first.
Behind(q, G, R) == \A i, j \in DOMAIN q : q[i] \in G /\ q[j] \in R => j < i

OrderInv ==
  /\ Behind(tasks, MutationTasks, ResetTasks)
  /\ Behind(mailbox, MutationDones, ResetDones)
  /\ \/ Free(tasks, ResetTasks)
     \/ Free(mailbox, MutationDones) /\ Free(todo, Frames(MutationDones))
  /\ Free(mailbox, ResetDones) \/ Free(todo, Frames(MutationDones))

\* Verifications of a generation: tasks, completions and delayed ones.
FreshTasks(g) == {t \in TaskType : t.op = "verify" /\ t.gen = g}
FreshDones(g) == {m \in MessageType : m.kind = "VerifyDone" /\ m.gen = g}
FreshTimers(g) == {t \in [gen : Nat, for : Nat] : t.gen = g}

LateTasks(g) == {t \in TaskType : t.op = "verify" /\ t.gen > g}
LateDones(g) == {m \in MessageType : m.kind = "VerifyDone" /\ m.gen > g}
LateTimers(g) == {t \in [gen : Nat, for : Nat] : t.gen > g}

\* None is of a generation to come.
LateNone(g) == NoneOf(LateTasks(g), LateDones(g)) /\ Free(timers, LateTimers(g))

GenInv == LateNone(gen)

CheckNone(g) == NoneOf(FreshTasks(g), FreshDones(g)) /\ Free(timers, FreshTimers(g))

CheckOne(g) ==
  \/ OneOf(FreshTasks(g), FreshDones(g)) /\ Free(timers, FreshTimers(g))
  \/ NoneOf(FreshTasks(g), FreshDones(g)) /\ Sole(timers, FreshTimers(g))

\* Repairs that are not stale.
LiveRepairs(e) ==
  {m \in MessageType : m.kind = "Repair" /\ (m.epoch = 0 \/ m.epoch = e)}

ResumeFrames == {f \in FrameType : f.op = "resume"}
FinishFrames == {f \in FrameType : f.op \in {"resume", "outcome"}}

\* A check that is not cancelled has the fence for itself: nothing can start a
\* worker before it reports.
CheckAlone ==
  /\ worker = None /\ state = "Verification"
  /\ Free(todo, FinishFrames)
  /\ Free(deferred, LiveRepairs(epoch))
  /\ Free(todo, Frames(LiveRepairs(epoch)))
  /\ staging.resetting => req.epoch < epoch

CheckInv == CheckNone(gen) \/ (CheckOne(gen) /\ CheckAlone)

\* The fence, seen from the frame on top: a drained command and the outcome of
\* an APPLY find it down, a held completion goes on when the drain is over, and
\* a live repair is not left behind.
StackInv ==
  /\ Drained(todo) => ~FenceUp
  /\ OnTop("outcome") => ~FenceUp /\ Free(deferred, LiveRepairs(epoch))
  /\ OnTop("resume") => FenceUp \/ deferred = <<>>
  /\ held # None => ~FenceUp /\ ~Free(todo, ResumeFrames)
  /\ \/ Free(deferred, LiveRepairs(epoch))
     \/ FenceUp
     \/ ~Free(todo, {DrainFrame})
     \/ ~running /\ todo = <<>>

MutationInv ==
  /\ ShapeInv /\ PendingInv /\ EpochInv /\ ResetInv /\ FenceInv /\ EventLoopInv
  /\ OrderInv /\ GenInv /\ CheckInv /\ StackInv

(* A completion held for a command is resumed by what is on the stack.      *)
LEMMA HeldTop ==
  ASSUME IInv, ShapeInv, todo # <<>>, ~Free(todo, ResumeFrames)
  PROVE  \/ OnTop("resume") \/ OnTop("drain")
         \/ HandleOnTop /\ Msg \in DeferrableType /\ Draining(Tail(todo))
<1>0. todo \in Seq(FrameType) /\ Head(todo) \in FrameType /\ Tail(todo) \in Seq(FrameType)
  BY TailType DEF IInv, TypeOK, FenceTypes
<1>1. PICK i \in DOMAIN todo : todo[i] \in ResumeFrames
  BY DEF Free
<1>2. todo[i].op = "resume"
  BY <1>1 DEF ResumeFrames
<1>3. ~Batch(todo)
  BY <1>1, <1>2 DEF Batch
<1>4. CASE Tail(todo) = <<>>
  <2>1. todo = <<Head(todo)>>
    BY <1>0, <1>4, OnlyOne
  <2> QED
    BY <1>1, <1>2, <2>1 DEF OnTop
<1>5. CASE Tail(todo) # <<>>
  <2>1. Head(todo).op \in {"handle", "drain"} \cup RestOps
    BY <1>0 DEF FrameType, RestOps
  <2> QED
    BY <1>3, <1>5, <2>1, ShapeTop DEF OnTop, HandleOnTop
<1> QED
  BY <1>4, <1>5

(* Nothing is held at the end of a reset, nor while process_queue's own     *)
(* messages are handled.                                                    *)
LEMMA NothingHeld ==
  ASSUME IInv, ShapeInv, StackInv, todo # <<>>, ~OnTop("resume"), ~OnTop("drain"),
         HandleOnTop => Msg \notin DeferrableType \/ ~Draining(Tail(todo)) \/ FenceUp
  PROVE  held = None
BY HeldTop DEF StackInv

(* A drained command finds the fence down.                                  *)
LEMMA DrainedTop ==
  ASSUME IInv, ShapeInv, HandleOnTop, Msg \in DeferrableType, Draining(Tail(todo))
  PROVE  Drained(todo)
BY DEF Drained, HandleOnTop, OnTop, Msg

(* A fresh verdict is the only check, and has the fence for itself.         *)
LEMMA VerdictAlone ==
  ASSUME IInv, CheckInv, FreshVerdict
  PROVE  /\ Head(todo) \in Frames(FreshDones(gen))
         /\ CheckOne(gen) /\ CheckAlone
<1>1. Msg \in MessageType /\ Head(todo) = HandleFrame(Msg)
  BY HandledTop DEF FreshVerdict
<1>2. Msg \in FreshDones(gen)
  BY <1>1 DEF FreshVerdict, FreshDones
<1>3. Head(todo) \in Frames(FreshDones(gen))
  BY <1>1, <1>2 DEF Frames
<1>4. todo \in Seq(FrameType) /\ todo # <<>>
  BY DEF IInv, TypeOK, FenceTypes, FreshVerdict, HandleOnTop, OnTop
<1>5. ~NoneOf(FreshTasks(gen), FreshDones(gen))
  BY <1>3, <1>4, TailSole DEF NoneOf
<1> QED
  BY <1>3, <1>5 DEF CheckInv, CheckNone

(* A worker starts only while there is none.                                *)
LEMMA StartsFree ==
  ASSUME IInv, MutationInv, Starts
  PROVE  worker = None
<1> USE DEF MutationInv
<1>1. ~FenceUp => worker = None
  BY DEF FenceUp, WorkerActive
<1>2. CASE HandleOnTop /\ Msg.kind = "Repair"
  <2>1. Msg \in DeferrableType /\ Draining(Tail(todo))
    BY <1>2, ShapeTop DEF HandleOnTop, OnTop
  <2> QED
    BY <1>1, <1>2, <2>1, DrainedTop DEF StackInv
<1>3. CASE OnTop("outcome")
  BY <1>1, <1>3 DEF StackInv
<1>4. CASE FreshVerdict
  BY <1>4, VerdictAlone DEF CheckAlone
<1>5. CASE state = "EventLoop"
  BY <1>5 DEF EventLoopInv
<1> QED
  BY <1>1, <1>2, <1>3, <1>4, <1>5 DEF Starts, StartsOn

-----------------------------------------------------------------------------
(* Handlers and the fence.                                                  *)

(* Mutations, and the mutations of a worker that is not w, are work that    *)
(* one task reports with one completion.                                    *)
LEMMA MutationWork ==
  /\ Work(MutationTasks, MutationDones)
  /\ \A w : Work(ForeignTasks(w), ForeignDones(w))
  /\ \A g : Work(FreshTasks(g), FreshDones(g))
  /\ \A g : Work(LateTasks(g), LateDones(g))
<1>1. \A t \in TaskType, m \in MessageType :
        <<t.op, m.kind>> \in Reports =>
          /\ IsMutationTask(t) <=> IsMutationDone(m)
          /\ KindOf(t.op) = KindOf(m.kind)
          /\ t.op = "verify" <=> m.kind = "VerifyDone"
  <2> TAKE t \in TaskType, m \in MessageType
  <2> HAVE <<t.op, m.kind>> \in Reports
  <2> QED
    BY DEF Reports, IsMutationTask, IsMutationDone, KindOf
<1>2. \A m \in MutationDones : IsCompletion(m)
  BY DEF MutationDones, IsMutationDone, IsCompletion
<1>3. Work(MutationTasks, MutationDones)
  BY <1>1, <1>2 DEF Work, MutationTasks, MutationDones
<1>4. ASSUME NEW w PROVE Work(ForeignTasks(w), ForeignDones(w))
  <2>1. \A t \in TaskType, m \in MessageType :
          <<t.op, m.kind>> \in Reports /\ t.gen = m.gen =>
            /\ t \in MutationTasks <=> m \in MutationDones
            /\ WorkerOf(t) = WorkerFor(m)
    BY <1>1 DEF MutationTasks, MutationDones, WorkerOf, WorkerFor
  <2> QED
    BY <1>2, <2>1 DEF Work, ForeignTasks, ForeignDones
<1>5. ASSUME NEW g PROVE Work(FreshTasks(g), FreshDones(g)) /\ Work(LateTasks(g), LateDones(g))
  <2>1. \A m : m.kind = "VerifyDone" => IsCompletion(m)
    BY DEF IsCompletion
  <2> QED
    BY <1>1, <2>1 DEF Work, FreshTasks, FreshDones, LateTasks, LateDones
<1> QED
  BY <1>3, <1>4, <1>5

(* A completion of a mutation on top of the stack is that of the worker.    *)
LEMMA OwnedTop ==
  ASSUME IInv, FenceInv, todo # <<>>, Head(todo) \in Frames(MutationDones)
  PROVE  /\ HandleOnTop /\ IsMutationDone(Msg) /\ worker # None /\ worker = WorkerFor(Msg)
         /\ OneOf(MutationTasks, MutationDones)
         /\ Popped(MutationTasks, MutationDones)
<1>1. HandleOnTop /\ Msg \in MutationDones /\ Head(todo) = HandleFrame(Msg)
  <2>1. PICK m \in MutationDones : Head(todo) = HandleFrame(m)
    BY DEF Frames
  <2>2. Head(todo).op = "handle" /\ Msg = m
    BY <2>1 DEF HandleFrame, Msg
  <2> QED
    BY <2>1, <2>2 DEF HandleOnTop, OnTop
<1>2. todo \in Seq(FrameType)
  BY DEF IInv, TypeOK, FenceTypes
<1>3. worker # None /\ OneOf(MutationTasks, MutationDones)
  <2>1. NoneOf(MutationTasks, MutationDones) => Head(todo) \notin Frames(MutationDones)
    BY <1>2, TailSole DEF NoneOf
  <2> QED
    BY <2>1 DEF FenceInv
<1>4. worker = WorkerFor(Msg)
  <2>1. Free(todo, Frames(ForeignDones(worker)))
    BY <1>3 DEF FenceInv, NoneOf
  <2>2. Msg \notin ForeignDones(worker)
    BY <1>1, <2>1, TopAllowed
  <2> QED
    BY <1>1, <2>2 DEF ForeignDones
<1>5. Popped(MutationTasks, MutationDones)
  BY <1>3, PoppedWork
<1> QED
  BY <1>1, <1>3, <1>4, <1>5 DEF MutationDones

(* The tasks that handlers add are of the generation they leave.            *)
LEMMA AddedNow ==
  ASSUME IInv, IInv', Effects
  PROVE  /\ tasks' = tasks \/ \E t \in TaskType : /\ tasks' = Append(tasks, t)
                                                  /\ t.op = "verify" => t.gen = gen'
         /\ timers' = timers \/ \E n \in Nat : timers' = Append(timers, [gen |-> gen', for |-> n])
         /\ gen <= gen'
<1>0. gen \in Nat /\ req.seq \in Nat
  BY DEF IInv, TypeOK, DispatchTypes, SessionTypes
<1>1. ASSUME NEW t \in TaskType, tasks' = Append(tasks, t), t.op = "verify" => t.gen = gen'
      PROVE  \E u \in TaskType : tasks' = Append(tasks, u) /\ (u.op = "verify" => u.gen = gen')
  BY <1>1
<1>2. CASE Starts
  BY <1>0, <1>1, <1>2 DEF Starts, StartsOn, MutationTasks
<1>3. CASE Retires
  <2>1. ResetTask(gen) \in TaskType /\ ResetTask(gen).op = "reset"
    BY <1>0, TaskTyped DEF ResetTask
  <2> QED
    BY <1>0, <1>1, <1>3, <2>1 DEF Retires, Checks
<1>4. CASE Concludes
  <2>1. ResetTask(gen) \in TaskType /\ ResetTask(gen).op = "reset"
    BY <1>0, TaskTyped DEF ResetTask
  <2>2. \A p \in Purposes : VerifyTask(gen, p) \in TaskType /\ VerifyTask(gen, p).gen = gen
    BY <1>0, TaskTyped DEF VerifyTask
  <2> QED
    BY <1>0, <1>1, <1>4, <2>1, <2>2 DEF Concludes, Checks
<1>5. CASE HandleRestored
  <2>1. ValidateTask(gen) \in TaskType /\ ValidateTask(gen).op = "validate"
    BY <1>0, TaskTyped DEF ValidateTask
  <2> QED
    BY <1>0, <1>1, <1>5, <2>1 DEF HandleRestored
<1>6. CASE HandleBaselineReturn
  <2>1. VerifyTask(gen, "BaselineTopologyReturn") \in TaskType
        /\ VerifyTask(gen, "BaselineTopologyReturn").gen = gen
    BY <1>0, TaskTyped DEF VerifyTask, Purposes
  <2> QED
    BY <1>0, <1>1, <1>6, <2>1 DEF HandleBaselineReturn
<1>7. CASE Judges
  BY <1>0, <1>7 DEF Judges, Checks
<1>8. CASE Skips \/ Defers \/ Cancels \/ Resets \/ Ends
  BY <1>0, <1>8 DEF Skips, Defers, Cancels, Resets, Ends
<1>9. CASE AfterReset \/ DrainEnds \/ DrainNext \/ ResumeFinish \/ HandleApplyDone
  BY <1>0, <1>9 DEF AfterReset, DrainEnds, DrainNext, ResumeFinish, HandleApplyDone,
     dispatchVars
<1> QED
  BY <1>2, <1>3, <1>4, <1>5, <1>6, <1>7, <1>8, <1>9 DEF Effects

(* Who dispatches no mutation.                                              *)
LEMMA NoMutationAdded ==
  ASSUME IInv, Effects, ~Starts, ~HandleRestored
  PROVE  NotAdded(MutationTasks)
<1>1. \A g, p : ~IsMutationTask(ResetTask(g)) /\ ~IsMutationTask(VerifyTask(g, p))
  BY DEF IsMutationTask, ResetTask, VerifyTask
<1>2. tasks' = tasks \/ \E t : tasks' = Append(tasks, t) /\ ~IsMutationTask(t)
  <2>1. CASE Retires \/ Concludes \/ HandleBaselineReturn
    BY <1>1, <2>1 DEF Retires, Concludes, HandleBaselineReturn
  <2>2. CASE Skips \/ Defers \/ Cancels \/ Resets \/ Ends \/ Judges
    BY <2>2 DEF Skips, Defers, Cancels, Resets, Ends, Judges
  <2>3. CASE AfterReset \/ DrainEnds \/ DrainNext \/ ResumeFinish \/ HandleApplyDone
    BY <2>3 DEF AfterReset, DrainEnds, DrainNext, ResumeFinish, HandleApplyDone,
       dispatchVars
  <2> QED
    BY <2>1, <2>2, <2>3 DEF Effects
<1> QED
  BY <1>2 DEF NotAdded, MutationTasks

(* The fence names the mutation in flight.                                  *)
LEMMA HandlersFence ==
  ASSUME IInv, IInv', MutationInv, Handle, Effects
  PROVE  FenceInv'
<1> DEFINE MT == MutationTasks
           MD == MutationDones
<1> USE DEF MutationInv
<1>0. Calls /\ todo # <<>> /\ todo \in Seq(FrameType)
  BY HandlersCall, HandlersTop DEF Handle, hostUnchanged, hostVars, IInv, TypeOK, FenceTypes
<1>1. /\ Popped(MT, MD) /\ NotAdded(MT) => NoneOf(MT, MD)'
      /\ Popped(MT, MD) /\ Added(MT) => OneOf(MT, MD)'
      /\ OneOf(MT, MD) /\ Head(todo) \notin Frames(MD) /\ NotAdded(MT) => OneOf(MT, MD)'
  BY <1>0, CallsFlow, MutationWork
<1>2. NoneOf(MT, MD) => Popped(MT, MD)
  BY <1>0, PoppedWork
<1>3. Head(todo) \in Frames(MD) => Popped(MT, MD) /\ worker = WorkerFor(Msg)
  BY <1>0, OwnedTop
<1>4. HandleOnTop /\ IsMutationDone(Msg) => Head(todo) \in Frames(MD)
  BY HandledTop
<1>5. Head(todo) \in Frames(MD) => HandleOnTop /\ IsMutationDone(Msg)
  BY <1>0, OwnedTop
<1>6. CASE Starts
  <2>1. worker = None /\ Popped(MT, MD)
    BY <1>2, <1>6, StartsFree DEF FenceInv
  <2>2. PICK t \in MutationTasks : worker' = WorkerOf(t) /\ tasks' = Append(tasks, t)
    BY <1>6 DEF Starts
  <2> DEFINE w == WorkerOf(t)
  <2>3. OneOf(MT, MD)'
    BY <1>1, <2>1, <2>2 DEF Added
  <2>4. Popped(ForeignTasks(w), ForeignDones(w))
    BY <2>1, NonePart DEF ForeignTasks, ForeignDones
  <2>5. NotAdded(ForeignTasks(w))
    BY <2>2 DEF NotAdded, ForeignTasks
  <2>6. NoneOf(ForeignTasks(w), ForeignDones(w))'
    BY <1>0, <2>4, <2>5, CallsFlow, MutationWork
  <2>7. w # None
    <3>1. KindOf(t.op) \in WorkerKinds /\ t.gen \in Nat
      BY DEF MutationTasks, TaskType, KindOf, WorkerKinds
    <3> QED
      BY <3>1, NoneAssumption DEF WorkerOf
  <2>8. worker' = w
    BY <2>2
  <2> HIDE DEF w
  <2> QED
    BY <2>3, <2>6, <2>7, <2>8 DEF FenceInv
<1>7. CASE HandleRestored
  <2>1. HandleOnTop /\ IsMutationDone(Msg) /\ worker = [kind |-> "Recovery", gen |-> Msg.gen]
    BY <1>7 DEF HandleRestored, Handling, HandleOnTop, OnTop, IsMutationDone, Owns, Msg
  <2>2. Popped(MT, MD)
    BY <1>3, <1>4, <2>1
  <2>3. gen \in Nat
    BY DEF IInv, TypeOK, DispatchTypes
  <2> DEFINE t == ValidateTask(gen)
  <2>4. t \in MT /\ t.op = "validate" /\ t.gen = gen
    BY <2>3, TaskTyped DEF MutationTasks, IsMutationTask, ValidateTask
  <2>5. tasks' = Append(tasks, t) /\ worker' = [kind |-> "Recovery", gen |-> gen]
    BY <1>7, <2>1 DEF HandleRestored
  <2> HIDE DEF t
  <2>6. WorkerOf(t) = worker'
    BY <2>4, <2>5 DEF WorkerOf, KindOf
  <2>7. OneOf(MT, MD)'
    BY <1>1, <2>2, <2>4, <2>5 DEF Added
  <2>8. PICK w : w = worker'
    OBVIOUS
  <2>9. Popped(ForeignTasks(w), ForeignDones(w))
    BY <2>2, NonePart DEF ForeignTasks, ForeignDones
  <2>10. NotAdded(ForeignTasks(w))
    BY <2>5, <2>6, <2>8 DEF NotAdded, ForeignTasks
  <2>11. NoneOf(ForeignTasks(w), ForeignDones(w))'
    BY <1>0, <2>9, <2>10, CallsFlow, MutationWork
  <2>12. worker' # None
    BY <2>3, <2>5, NoneAssumption DEF NoneAssumption, WorkerKinds
  <2> QED
    BY <2>7, <2>8, <2>11, <2>12 DEF FenceInv
<1>8. CASE ~Starts /\ ~HandleRestored /\ (Retires \/ HandleApplyDone)
  <2>1. HandleOnTop /\ IsMutationDone(Msg) /\ worker' = None
    BY <1>8 DEF Retires, HandleApplyDone, Handling, HandleOnTop, OnTop, IsMutationDone, Msg
  <2>2. NoneOf(MT, MD)'
    BY <1>1, <1>3, <1>4, <1>8, <2>1, NoMutationAdded
  <2> QED
    BY <2>1, <2>2 DEF FenceInv
<1>9. CASE ~Starts /\ ~HandleRestored /\ ~Retires /\ ~HandleApplyDone
  <2>1. worker' = worker /\ NotAdded(MT)
    BY <1>9, NoMutationAdded DEF Effects, Skips, Defers, Cancels, Judges, Concludes, Resets,
       Ends, AfterReset, DrainEnds, DrainNext, ResumeFinish, HandleBaselineReturn, fenceVars
  <2>2. Head(todo) \notin Frames(MD)
    <3> SUFFICES ASSUME HandleOnTop, IsMutationDone(Msg), worker = WorkerFor(Msg) PROVE FALSE
      BY <1>3, <1>5
    <3>1. ~Skips
      BY DEF Skips
    <3>2. ~Defers /\ ~Cancels /\ ~Judges /\ ~Resets
      BY DEF Defers, Cancels, Judges, Resets, FreshVerdict, IsCompletion, IsMutationDone
    <3>3. ~Concludes /\ ~Ends /\ ~AfterReset /\ ~DrainEnds /\ ~DrainNext /\ ~ResumeFinish
      BY DEF Concludes, Ends, AfterReset, DrainEnds, DrainNext, ResumeFinish, HandleOnTop,
         OnTop
    <3>4. ~HandleBaselineReturn
      BY DEF HandleBaselineReturn, EventFresh, Handling, IsMutationDone, Msg
    <3> QED
      BY <1>9, <3>1, <3>2, <3>3, <3>4 DEF Effects
  <2>3. CASE worker = None
    <3>1. NoneOf(MT, MD)'
      BY <1>1, <1>2, <2>1, <2>3 DEF FenceInv
    <3> QED
      BY <2>1, <2>3, <3>1 DEF FenceInv
  <2>4. CASE worker # None
    <3>1. OneOf(MT, MD)'
      BY <1>1, <2>1, <2>2, <2>4 DEF FenceInv
    <3>2. PICK w : w = worker
      OBVIOUS
    <3>3. Popped(ForeignTasks(w), ForeignDones(w))
      BY <1>0, <2>4, <3>2, PoppedWork DEF FenceInv
    <3>4. NotAdded(ForeignTasks(w))
      BY <2>1 DEF NotAdded, ForeignTasks
    <3>5. NoneOf(ForeignTasks(w), ForeignDones(w))'
      BY <1>0, <3>3, <3>4, CallsFlow, MutationWork
    <3> QED
      BY <2>1, <2>4, <3>1, <3>2, <3>5 DEF FenceInv
  <2> QED
    BY <2>3, <2>4
<1> QED
  BY <1>6, <1>7, <1>8, <1>9

-----------------------------------------------------------------------------
(* Handlers and the order of the work.                                      *)

(* After every handler a helper that polls for a restore has no mutation    *)
(* under way.                                                               *)
LEMMA HandlersEventLoop ==
  ASSUME IInv, MutationInv, Effects
  PROVE  EventLoopInv'
<1> USE DEF MutationInv, EventLoopInv
<1>1. CASE Skips \/ Defers \/ Cancels \/ Starts \/ Retires \/ Judges \/ Resets \/ Ends
  BY <1>1 DEF Skips, Defers, Cancels, Starts, Retires, Judges, Resets, Ends
<1>2. CASE Concludes
  BY <1>2 DEF Concludes, StackInv, FenceUp, WorkerActive
<1>3. CASE \/ AfterReset \/ DrainEnds \/ DrainNext \/ ResumeFinish \/ HandleApplyDone
           \/ HandleRestored \/ HandleBaselineReturn
  BY <1>3 DEF AfterReset, DrainEnds, DrainNext, ResumeFinish, HandleApplyDone,
     HandleRestored, HandleBaselineReturn, sessionVars, fenceVars
<1> QED
  BY <1>1, <1>2, <1>3 DEF Effects

(* A handler pushes no completion.                                          *)
LEMMA CallsFree ==
  ASSUME IInv, Calls, NEW T, NEW M, Work(T, M), Free(Tail(todo), Frames(M))
  PROVE  Free(todo', Frames(M))
<1>1. todo \in Seq(FrameType) /\ todo # <<>> /\ Tail(todo) \in Seq(FrameType)
  BY TailType DEF IInv, TypeOK, FenceTypes, Calls
<1>2. PICK s \in Seq(FrameType) :
        /\ todo' = s \o Tail(todo)
        /\ \A i \in DOMAIN s : s[i].op = "handle" => ~IsCompletion(s[i].msg)
  BY DEF Calls
<1>3. Free(s, Frames(M))
  BY <1>2, PushedFree
<1> QED
  BY <1>1, <1>2, <1>3, PushSole

(* The order holds where one of the two kinds is absent.                    *)
LEMMA OrderFree ==
  NoneOf(MutationTasks, MutationDones) \/ NoneOf(ResetTasks, ResetDones) => OrderInv
BY DEF NoneOf, OrderInv, Behind, Free

(* A mutation dispatched while none is in flight is the last of the tasks.  *)
LEMMA OrderAppend ==
  ASSUME IInv, NEW t \in MutationTasks, tasks' = Append(tasks, t),
         Free(tasks, MutationTasks), Free(mailbox', MutationDones),
         Free(todo', Frames(MutationDones))
  PROVE  OrderInv'
<1>1. tasks \in Seq(TaskType)
  BY DEF IInv, TypeOK, DispatchTypes
<1>2. /\ DOMAIN tasks' = 1..(Len(tasks) + 1) /\ DOMAIN tasks = 1..Len(tasks)
      /\ Len(tasks) \in Nat
      /\ \A i \in DOMAIN tasks : tasks'[i] = tasks[i]
      /\ tasks'[Len(tasks) + 1] = t
  BY <1>1
<1>3. t \notin ResetTasks
  BY DEF MutationTasks, IsMutationTask, ResetTasks, IsResetTask
<1>4. \A i \in DOMAIN tasks' : tasks'[i] \in MutationTasks => i = Len(tasks) + 1
  BY <1>2 DEF Free
<1>5. \A j \in DOMAIN tasks' : tasks'[j] \in ResetTasks => j < Len(tasks) + 1
  BY <1>2, <1>3
<1>6. Behind(tasks', MutationTasks, ResetTasks)
  BY <1>4, <1>5 DEF Behind
<1>7. Behind(mailbox', MutationDones, ResetDones)
  BY DEF Behind, Free
<1> QED
  BY <1>6, <1>7 DEF OrderInv

(* Handlers keep the order of mutations and resets.                         *)
LEMMA HandlersOrder ==
  ASSUME IInv, IInv', MutationInv, Handle, Effects, FenceInv', ResetInv'
  PROVE  OrderInv'
<1> USE DEF MutationInv
<1>0. Calls /\ todo # <<>> /\ UNCHANGED mailbox
  BY HandlersCall, HandlersTop DEF Handle, hostUnchanged, hostVars
<1>1. CASE worker' = None \/ ~staging'.resetting
  <2>1. NoneOf(MutationTasks, MutationDones)' \/ NoneOf(ResetTasks, ResetDones)'
    BY <1>1 DEF FenceInv, ResetInv
  <2> QED
    BY <2>1 DEF NoneOf, OrderInv, Behind, Free
<1>2. ASSUME NEW t \in MutationTasks, tasks' = Append(tasks, t),
             Popped(MutationTasks, MutationDones)
      PROVE  OrderInv'
  <2>1. Free(todo', Frames(MutationDones))
    BY <1>0, <1>2, CallsFree, MutationWork DEF Popped
  <2> QED
    BY <1>0, <1>2, <2>1, OrderAppend DEF Popped
<1>3. CASE Starts
  <2>1. Popped(MutationTasks, MutationDones)
    BY <1>0, <1>3, StartsFree, PoppedWork DEF FenceInv
  <2> QED
    BY <1>2, <1>3, <2>1 DEF Starts
<1>4. CASE HandleRestored
  <2>1. Head(todo) \in Frames(MutationDones)
    <3>1. HandleOnTop /\ IsMutationDone(Msg)
      BY <1>4 DEF HandleRestored, Handling, HandleOnTop, OnTop, IsMutationDone, Msg
    <3> QED
      BY <3>1, HandledTop
  <2>2. Popped(MutationTasks, MutationDones)
    BY <1>0, <2>1, OwnedTop
  <2>3. ValidateTask(gen) \in MutationTasks
    <3>1. gen \in Nat
      BY DEF IInv, TypeOK, DispatchTypes
    <3> QED
      BY <3>1, TaskTyped DEF MutationTasks, IsMutationTask, ValidateTask
  <2> QED
    BY <1>2, <1>4, <2>2, <2>3 DEF HandleRestored
<1>5. CASE ~Starts /\ ~HandleRestored /\ worker' # None
  <2>1. worker # None /\ tasks' = tasks
    <3>1. CASE Skips \/ Defers \/ Cancels \/ Judges \/ Resets \/ Ends
      BY <1>5, <3>1 DEF Skips, Defers, Cancels, Judges, Resets, Ends
    <3>2. CASE AfterReset \/ DrainEnds \/ DrainNext \/ ResumeFinish
      BY <1>5, <3>2 DEF AfterReset, DrainEnds, DrainNext, ResumeFinish, fenceVars,
         dispatchVars
    <3>3. CASE Retires \/ HandleApplyDone
      BY <1>5, <3>3 DEF Retires, HandleApplyDone
    <3>4. CASE Concludes
      BY <1>5, <3>4 DEF Concludes, StackInv, FenceUp, WorkerActive
    <3>5. CASE HandleBaselineReturn
      BY <1>5, <3>5 DEF HandleBaselineReturn, BaselineAdmissible, FenceUp, WorkerActive,
         fenceVars
    <3> QED
      BY <1>5, <3>1, <3>2, <3>3, <3>4, <3>5 DEF Effects
  <2>2. Free(todo, Frames(MutationDones)) => Free(todo', Frames(MutationDones))
    <3>1. todo \in Seq(FrameType)
      BY DEF IInv, TypeOK, FenceTypes
    <3>2. Free(todo, Frames(MutationDones)) => Free(Tail(todo), Frames(MutationDones))
      BY <1>0, <3>1, TailSole
    <3> QED
      BY <1>0, <3>2, CallsFree, MutationWork
  <2>3. PICK q : q = tasks
    OBVIOUS
  <2>4. PICK r : r = mailbox
    OBVIOUS
  <2> QED
    BY <1>0, <2>1, <2>2, <2>3, <2>4 DEF OrderInv
<1> QED
  BY <1>1, <1>3, <1>4, <1>5

-----------------------------------------------------------------------------
(* Handlers and the generations.                                            *)

\* No check of generation g in flight but the verdict that is being handled.
CheckPopped(g) == Popped(FreshTasks(g), FreshDones(g)) /\ Free(timers, FreshTimers(g))

(* No check is of a generation to come.                                     *)
LEMMA HandlersGen ==
  ASSUME IInv, IInv', MutationInv, Handle, Effects
  PROVE  GenInv'
<1> USE DEF MutationInv
<1>0. /\ Calls /\ todo # <<>> /\ gen \in Nat /\ gen' \in Nat
      /\ timers \in Seq([gen : Nat, for : Nat])
  BY HandlersCall, HandlersTop
     DEF Handle, hostUnchanged, hostVars, IInv, TypeOK, DispatchTypes
<1>1. PICK g \in Nat : g = gen'
  BY <1>0
<1>2. gen <= g
  BY <1>1, AddedNow
<1>3. /\ LateTasks(g) \subseteq LateTasks(gen) /\ LateDones(g) \subseteq LateDones(gen)
      /\ LateTimers(g) \subseteq LateTimers(gen)
  <2>1. \A t \in TaskType : t.gen \in Nat
    BY DEF TaskType
  <2>2. \A m \in MessageType : m.kind = "VerifyDone" => m.gen \in Nat
    BY DEF MessageType, DeferrableType, ApplyDoneType
  <2> QED
    BY <1>0, <1>1, <1>2, <2>1, <2>2 DEF LateTasks, LateDones, LateTimers
<1>4. Popped(LateTasks(gen), LateDones(gen)) /\ Free(timers, LateTimers(gen))
  BY <1>0, PoppedWork DEF GenInv, LateNone
<1>5. Popped(LateTasks(g), LateDones(g)) /\ Free(timers, LateTimers(g))
  BY <1>3, <1>4, NonePart, FreePart
<1>6. NotAdded(LateTasks(g))
  BY <1>1, AddedNow DEF NotAdded, LateTasks
<1>7. NoneOf(LateTasks(g), LateDones(g))'
  BY <1>0, <1>5, <1>6, CallsFlow, MutationWork
<1>8. Free(timers', LateTimers(g))
  <2>1. CASE timers' = timers
    BY <1>5, <2>1
  <2>2. ASSUME NEW n \in Nat, timers' = Append(timers, [gen |-> gen', for |-> n])
        PROVE  Free(timers', LateTimers(g))
    <3>1. [gen |-> gen', for |-> n] \notin LateTimers(g)
      BY <1>1 DEF LateTimers
    <3> QED
      BY <1>0, <1>5, <2>2, <3>1, AppendSole
  <2> QED
    BY <2>1, <2>2, AddedNow
<1> QED
  BY <1>1, <1>7, <1>8 DEF GenInv, LateNone

-----------------------------------------------------------------------------
(* Handlers and the check in flight.                                        *)

(* Where there is no check, or only the verdict on top, what remains is     *)
(* what the handler dispatches.                                             *)
LEMMA CheckMoves ==
  ASSUME IInv, Calls, NEW g \in Nat
  PROVE  /\ CheckNone(g) => CheckPopped(g)
         /\ GenInv /\ gen < g => CheckPopped(g)
         /\ CheckOne(g) /\ Head(todo) \in Frames(FreshDones(g)) => CheckPopped(g)
         /\ CheckPopped(g) /\ NotAdded(FreshTasks(g)) /\ timers' = timers => CheckNone(g)'
         /\ CheckPopped(g) /\ Added(FreshTasks(g)) /\ timers' = timers => CheckOne(g)'
         /\ \A n \in Nat : /\ CheckPopped(g) /\ NotAdded(FreshTasks(g))
                           /\ timers' = Append(timers, [gen |-> g, for |-> n])
                           => CheckOne(g)'
         /\ /\ CheckOne(g) /\ Head(todo) \notin Frames(FreshDones(g))
            /\ NotAdded(FreshTasks(g)) /\ timers' = timers
            => CheckOne(g)'
<1> DEFINE T == FreshTasks(g)
           M == FreshDones(g)
           C == FreshTimers(g)
<1>0. /\ todo # <<>> /\ timers \in Seq([gen : Nat, for : Nat]) /\ todo \in Seq(FrameType)
      /\ gen \in Nat
  BY DEF Calls, IInv, TypeOK, DispatchTypes, FenceTypes
<1>1. /\ NoneOf(T, M) => Popped(T, M)
      /\ OneOf(T, M) /\ Head(todo) \in Frames(M) => Popped(T, M)
  BY <1>0, PoppedWork
<1>2. /\ Popped(T, M) /\ NotAdded(T) => NoneOf(T, M)'
      /\ Popped(T, M) /\ Added(T) => OneOf(T, M)'
      /\ OneOf(T, M) /\ Head(todo) \notin Frames(M) /\ NotAdded(T) => OneOf(T, M)'
  BY CallsFlow, MutationWork
<1>3. GenInv /\ gen < g => CheckPopped(g)
  <2> SUFFICES ASSUME GenInv, gen < g PROVE CheckPopped(g)
    OBVIOUS
  <2>1. T \subseteq LateTasks(gen) /\ M \subseteq LateDones(gen) /\ C \subseteq LateTimers(gen)
    BY <1>0 DEF FreshTasks, FreshDones, FreshTimers, LateTasks, LateDones, LateTimers
  <2>2. Popped(LateTasks(gen), LateDones(gen)) /\ Free(timers, LateTimers(gen))
    BY <1>0, PoppedWork DEF GenInv, LateNone
  <2> HIDE DEF T, M, C
  <2>3. Popped(T, M) /\ Free(timers, C)
    BY <2>1, <2>2, NonePart, FreePart
  <2> QED
    BY <2>3 DEF CheckPopped, T, M, C
<1>4. NoneOf(T, M) => Head(todo) \notin Frames(M)
  BY <1>0, TailSole DEF NoneOf
<1>5. ASSUME NEW n \in Nat, timers' = Append(timers, [gen |-> g, for |-> n]), Free(timers, C)
      PROVE  Sole(timers', C)
  <2>1. [gen |-> g, for |-> n] \in C
    BY <1>5 DEF FreshTimers
  <2> HIDE DEF C
  <2> QED
    BY <1>0, <1>5, <2>1, AppendSole
<1> HIDE DEF T, M, C
<1>6. /\ CheckNone(g) <=> NoneOf(T, M) /\ Free(timers, C)
      /\ CheckPopped(g) <=> Popped(T, M) /\ Free(timers, C)
      /\ CheckOne(g) <=> \/ OneOf(T, M) /\ Free(timers, C)
                         \/ NoneOf(T, M) /\ Sole(timers, C)
  BY DEF CheckNone, CheckPopped, CheckOne, T, M, C
<1>7. /\ CheckNone(g)' <=> NoneOf(T, M)' /\ Free(timers', C)
      /\ CheckOne(g)' <=> \/ OneOf(T, M)' /\ Free(timers', C)
                          \/ NoneOf(T, M)' /\ Sole(timers', C)
  BY DEF CheckNone, CheckPopped, CheckOne, T, M, C
<1>8. T = FreshTasks(g) /\ M = FreshDones(g)
  BY DEF T, M
<1> QED
  BY <1>1, <1>2, <1>3, <1>4, <1>5, <1>6, <1>7, <1>8

(* Frames of another kind pushed on a stack that has none.                  *)
LEMMA PushedOther ==
  ASSUME IInv, NEW a, NEW b, NEW G, a \notin G, b \notin G, Free(Tail(todo), G),
         todo # <<>>,
         \/ todo' = Tail(todo) \/ todo' = <<a>> \o Tail(todo)
         \/ todo' = <<a, b>> \o Tail(todo)
  PROVE  Free(todo', G)
<1> DEFINE S == FrameType \cup {a, b}
           r == Tail(todo)
<1>1. todo \in Seq(FrameType) /\ r \in Seq(FrameType)
  BY TailType DEF IInv, TypeOK, FenceTypes
<1>2. r \in Seq(S)
  <2>1. Len(r) \in Nat /\ \A i \in 1..Len(r) : r[i] \in S
    BY <1>1
  <2> QED
    BY <1>1, <2>1
<1> HIDE DEF S, r
<1>3. a \in S /\ b \in S
  BY DEF S
<1>4. <<a>> \in Seq(S) /\ <<a, b>> \in Seq(S) /\ Free(<<a>>, G) /\ Free(<<a, b>>, G)
  BY <1>3 DEF Free
<1>5. Free(r, G)
  BY DEF r
<1>6. Free(<<a>> \o r, G) /\ Free(<<a, b>> \o r, G)
  BY <1>2, <1>4, <1>5, PushSole
<1> QED
  BY <1>5, <1>6 DEF r

(* A repair for a request whose connection has ended is stale.              *)
LEMMA DeadRepairs ==
  ASSUME IInv, PendingInv, req.epoch < epoch
  PROVE  Free(deferred, LiveRepairs(epoch)) /\ Free(todo, Frames(LiveRepairs(epoch)))
<1>1. req.epoch \in Nat /\ epoch \in Nat
  BY DEF IInv, TypeOK, SessionTypes, HostTypes
<1>2. \A m \in MessageType : m.kind = "Repair" => m.epoch \in Nat
  BY DEF MessageType, DeferrableType, ApplyDoneType
<1>3. LiveRepairs(epoch) \subseteq Unheard(bound, req.epoch)
  BY <1>1, <1>2 DEF LiveRepairs, Unheard
<1> QED
  BY <1>3, FreePart, FramesPart DEF PendingInv

(* Only the handler of an APPLY accepts a request, and it starts a worker.  *)
LEMMA RequestHeld ==
  ASSUME IInv, Handlers, worker' = None
  PROVE  req'.epoch = req.epoch
<1>1. ~HandleApply
  <2> SUFFICES ASSUME HandleApply PROVE FALSE
    OBVIOUS
  <2>1. gen + 1 \in Nat
    BY DEF IInv, TypeOK, DispatchTypes
  <2> DEFINE t == [op |-> "apply", gen |-> ApplyGeneration, repair |-> FALSE,
                   for |-> Msg.seq]
  <2>2. t.gen = gen + 1
    BY DEF ApplyGeneration
  <2>3. worker' = [kind |-> "Apply", gen |-> t.gen]
    BY DEF HandleApply, StartWorker
  <2> HIDE DEF t
  <2> QED
    BY <2>1, <2>2, <2>3, NoneAssumption DEF WorkerKinds
<1> QED
  BY <1>1, RequestKept

(* What ends a round leaves a check that is dispatched alone.               *)
LEMMA AloneAfter ==
  ASSUME IInv, Handle, Tail(todo) = <<>>,
         \/ todo' = Tail(todo) \/ todo' = <<DrainFrame>> \o Tail(todo)
         \/ \E f : f.op = "afterRestore" /\ todo' = <<DrainFrame, f>> \o Tail(todo),
         worker' = None, state' = "Verification", deferred' = deferred,
         Free(deferred, LiveRepairs(epoch)),
         staging'.resetting => req.epoch < epoch
  PROVE  CheckAlone'
<1>0. req'.epoch = req.epoch /\ epoch' = epoch /\ todo # <<>>
  BY RequestHeld, HandlersTop DEF Handle, hostUnchanged, hostVars
<1>1. ASSUME NEW G, DrainFrame \notin G, \A f : f.op = "afterRestore" => f \notin G
      PROVE  Free(todo', G)
  <2>1. Free(Tail(todo), G)
    BY DEF Free
  <2>2. CASE todo' = Tail(todo) \/ todo' = <<DrainFrame>> \o Tail(todo)
    BY <1>0, <1>1, <2>1, <2>2, PushedOther
  <2>3. ASSUME NEW f, f.op = "afterRestore", todo' = <<DrainFrame, f>> \o Tail(todo)
        PROVE  Free(todo', G)
    BY <1>0, <1>1, <2>1, <2>3, PushedOther
  <2> QED
    BY <2>2, <2>3
<1>2. DrainFrame.op = "drain"
  BY DEF DrainFrame
<1>3. Free(todo', FinishFrames)
  BY <1>1, <1>2 DEF FinishFrames
<1>4. Free(todo', Frames(LiveRepairs(epoch)))
  <2>1. \A f : f.op # "handle" => f \notin Frames(LiveRepairs(epoch))
    BY FrameOf
  <2> QED
    BY <1>1, <1>2, <2>1
<1>5. PICK e : e = epoch
  OBVIOUS
<1> QED
  BY <1>0, <1>3, <1>4, <1>5 DEF CheckAlone

-----------------------------------------------------------------------------
(* What is left of a stack keeps the check alone.                           *)
LEMMA StackAlone ==
  ASSUME IInv, Handle, CheckAlone, NEW a, NEW b, a.op = "drain",
         b.op \in {"afterReset", "afterRestore", "exitAfterReset"},
         \/ todo' = Tail(todo) \/ todo' = <<a>> \o Tail(todo)
         \/ todo' = <<b>> \o Tail(todo) \/ todo' = <<a, b>> \o Tail(todo)
  PROVE  Free(todo', FinishFrames) /\ Free(todo', Frames(LiveRepairs(epoch)))
<1>0. todo # <<>> /\ todo \in Seq(FrameType)
  BY HandlersTop DEF Handle, IInv, TypeOK, FenceTypes
<1>1. ASSUME NEW G, a \notin G, b \notin G, Free(todo, G) PROVE Free(todo', G)
  <2>1. Free(Tail(todo), G)
    BY <1>0, <1>1, TailSole
  <2> QED
    BY <1>0, <1>1, <2>1, PushedOther
<1>2. a \notin FinishFrames /\ b \notin FinishFrames
  BY DEF FinishFrames
<1>3. a \notin Frames(LiveRepairs(epoch)) /\ b \notin Frames(LiveRepairs(epoch))
  BY FrameOf
<1> QED
  BY <1>1, <1>2, <1>3 DEF CheckAlone

(* A handler keeps the check in flight, or dispatches the only one.         *)
LEMMA HandlersCheck ==
  ASSUME IInv, IInv', MutationInv, Handle, Effects
  PROVE  CheckInv'
<1> USE DEF MutationInv
<1>0. /\ Calls /\ todo # <<>> /\ gen \in Nat /\ gen' \in Nat /\ epoch' = epoch
      /\ todo \in Seq(FrameType) /\ todo' \in Seq(FrameType)
      /\ deferred \in Seq(DeferrableType)
  BY HandlersCall, HandlersTop
     DEF Handle, hostUnchanged, hostVars, IInv, TypeOK, DispatchTypes, FenceTypes
<1>1. PICK g \in Nat : g = gen'
  BY <1>0
<1>2. gen <= g
  BY <1>1, AddedNow
<1>3. CheckNone(gen) \/ gen < g => CheckPopped(g)
  <2>1. CheckNone(g) \/ gen < g => CheckPopped(g)
    BY <1>0, CheckMoves
  <2> QED
    BY <1>0, <1>2, <2>1
<1>4. FreshVerdict => CheckPopped(g) /\ CheckPopped(gen)
  <2>1. FreshVerdict => CheckPopped(gen)
    BY <1>0, VerdictAlone, CheckMoves
  <2>2. gen = g \/ gen < g
    BY <1>0, <1>2
  <2> QED
    BY <1>3, <2>1, <2>2
<1>5. CheckPopped(g) /\ NotAdded(FreshTasks(g)) /\ timers' = timers => CheckInv'
  BY <1>0, <1>1, CheckMoves DEF CheckInv
<1>6. /\ tasks' = tasks => NotAdded(FreshTasks(g))
      /\ tasks' = Append(tasks, ResetTask(gen)) => NotAdded(FreshTasks(g))
      /\ (\E t \in MutationTasks : tasks' = Append(tasks, t)) => NotAdded(FreshTasks(g))
  <2>1. ResetTask(gen).op # "verify" /\ \A t \in MutationTasks : t.op # "verify"
    BY DEF ResetTask, MutationTasks, IsMutationTask
  <2> QED
    BY <2>1 DEF NotAdded, FreshTasks
<1>7. ~FreshVerdict => Head(todo) \notin Frames(FreshDones(gen))
  <2> SUFFICES ASSUME NEW m \in FreshDones(gen), Head(todo) = HandleFrame(m)
               PROVE  FreshVerdict
    BY DEF Frames
  <2>1. Head(todo).op = "handle" /\ Msg = m
    BY DEF HandleFrame, Msg
  <2> QED
    BY <1>0, <2>1 DEF FreshVerdict, FreshDones, HandleOnTop, OnTop
<1>8. worker # None \/ state # "Verification" => CheckNone(gen)
  BY DEF CheckInv, CheckAlone
<1>9. OnTop("outcome") \/ OnTop("resume") => CheckNone(gen)
  <2> SUFFICES ASSUME OnTop("outcome") \/ OnTop("resume"), CheckAlone PROVE FALSE
    BY DEF CheckInv
  <2>1. Head(todo) \in FinishFrames
    BY <1>0, TailType DEF OnTop, FinishFrames
  <2> QED
    BY <1>0, <2>1, TailSole DEF CheckAlone
<1>10. /\ HandleOnTop /\ (IsCompletion(Msg) \/ Msg.kind = "Event") => Tail(todo) = <<>>
       /\ OnTop("outcome") => Tail(todo) = <<>>
  BY <1>0, ShapeTop DEF HandleOnTop, OnTop, RestOps
<1>11. ASSUME CheckPopped(g), Checks(g), tasks' = tasks, Tail(todo) = <<>>,
              \/ todo' = Tail(todo) \/ todo' = <<DrainFrame>> \o Tail(todo)
              \/ \E f : f.op = "afterRestore" /\ todo' = <<DrainFrame, f>> \o Tail(todo),
              worker' = None, deferred' = deferred
       PROVE  CheckInv'
  <2>1. CASE timers' = timers
    BY <1>5, <1>6, <1>11, <2>1
  <2>2. ASSUME NEW n \in Nat, timers' = Append(timers, [gen |-> g, for |-> n]),
               state' = "Verification", settle.requested
        PROVE  CheckInv'
    <3>1. req.epoch < epoch
      BY <2>2 DEF EpochInv
    <3>2. Free(deferred, LiveRepairs(epoch))
      BY <3>1, DeadRepairs
    <3>3. CheckAlone'
      BY <1>11, <2>2, <3>1, <3>2, AloneAfter
    <3>4. CheckOne(g)'
      BY <1>0, <1>6, <1>11, <2>2, CheckMoves
    <3> QED
      BY <1>1, <3>3, <3>4 DEF CheckInv
  <2> QED
    BY <1>11, <2>1, <2>2 DEF Checks
<1>12. ASSUME ~FreshVerdict, tasks' = tasks, timers' = timers, worker' = worker,
              state' = state, staging'.resetting => staging.resetting,
              CheckAlone => /\ Free(deferred', LiveRepairs(epoch))
                            /\ Free(todo', FinishFrames)
                            /\ Free(todo', Frames(LiveRepairs(epoch)))
       PROVE  CheckInv'
  <2>1. CASE CheckNone(gen) \/ gen < g
    BY <1>3, <1>5, <1>6, <1>12, <2>1
  <2>2. CASE CheckOne(gen) /\ CheckAlone /\ g = gen
    <3>1. CheckOne(g)'
      BY <1>0, <1>6, <1>7, <1>12, <2>2, CheckMoves
    <3>2. req'.epoch = req.epoch
      BY <1>12, <2>2, RequestHeld DEF CheckAlone, Handle
    <3>3. PICK e : e = epoch
      OBVIOUS
    <3>4. CheckAlone'
      BY <1>0, <1>12, <2>2, <3>2, <3>3 DEF CheckAlone
    <3> QED
      BY <1>1, <3>1, <3>4 DEF CheckInv
  <2> QED
    BY <1>0, <1>2, <2>1, <2>2 DEF CheckInv
<1>13. ASSUME NEW a, NEW b, a.op = "drain",
              b.op \in {"afterReset", "afterRestore", "exitAfterReset"},
              \/ todo' = Tail(todo) \/ todo' = <<a>> \o Tail(todo)
              \/ todo' = <<b>> \o Tail(todo) \/ todo' = <<a, b>> \o Tail(todo),
              ~FreshVerdict, tasks' = tasks, timers' = timers, worker' = worker,
              state' = state, staging'.resetting => staging.resetting,
              deferred' = deferred
       PROVE  CheckInv'
  <2>1. CheckAlone => /\ Free(todo', FinishFrames)
                      /\ Free(todo', Frames(LiveRepairs(epoch)))
    BY <1>13, StackAlone
  <2> QED
    BY <1>12, <1>13, <2>1 DEF CheckAlone
<1>14. DrainFrame.op = "drain" /\ ExitFrame.op = "exitAfterReset"
  BY DEF DrainFrame, ExitFrame
<1>15. CASE Skips
  BY <1>13, <1>14, <1>15 DEF Skips, FreshVerdict
<1>16. CASE Ends
  BY <1>13, <1>14, <1>16 DEF Ends, FreshVerdict, HandleOnTop, OnTop
<1>17. CASE Resets
  <2>1. ~FreshVerdict /\ ~staging'.resetting
    BY <1>17 DEF Resets, FreshVerdict
  <2>2. CASE todo' = Tail(todo)
    BY <1>13, <1>14, <1>17, <2>1, <2>2 DEF Resets
  <2>3. ASSUME NEW f, f.op = "afterReset", todo' = <<DrainFrame, f>> \o Tail(todo)
        PROVE  CheckInv'
    BY <1>13, <1>14, <1>17, <2>1, <2>3 DEF Resets
  <2> QED
    BY <1>17, <2>2, <2>3 DEF Resets
<1>18. CASE AfterReset
  <2>1. OnTop("afterReset")
    BY <1>18 DEF AfterReset
  <2>2. held = None
    BY <1>0, <2>1, NothingHeld DEF OnTop, HandleOnTop
  <2>3. todo' = <<ExitFrame>> \o Tail(todo)
    BY <1>18, <2>2 DEF AfterReset, ExitFrame
  <2> QED
    BY <1>13, <1>14, <1>18, <2>1, <2>3
       DEF AfterReset, FreshVerdict, HandleOnTop, OnTop, dispatchVars
<1>19. CASE DrainEnds
  BY <1>13, <1>14, <1>19
     DEF DrainEnds, FreshVerdict, HandleOnTop, OnTop, Return, dispatchVars, sessionVars,
         fenceVars
<1>20. CASE ResumeFinish
  <2>1. CheckNone(gen) /\ tasks' = tasks /\ timers' = timers
    BY <1>9, <1>20 DEF ResumeFinish, dispatchVars
  <2> QED
    BY <1>3, <1>5, <1>6, <2>1
<1>21. CASE HandleApplyDone
  <2>1. worker # None /\ tasks' = tasks /\ timers' = timers
    <3>1. worker \in [kind : WorkerKinds, gen : Nat] \cup {None}
      BY DEF IInv, TypeOK, FenceTypes
    <3>2. HandleOnTop /\ IsMutationDone(Msg)
      BY <1>21 DEF HandleApplyDone, Handling, HandleOnTop, OnTop, IsMutationDone, Msg
    <3>3. Head(todo) \in Frames(MutationDones)
      BY <3>2, HandledTop
    <3> QED
      BY <1>0, <1>21, <3>3, OwnedTop DEF HandleApplyDone, dispatchVars
  <2> QED
    BY <1>3, <1>5, <1>6, <1>8, <2>1
<1>22. CASE HandleRestored
  <2>1. /\ worker # None /\ timers' = timers
        /\ \E t \in MutationTasks : tasks' = Append(tasks, t)
    <3>1. HandleOnTop /\ IsMutationDone(Msg)
      BY <1>22 DEF HandleRestored, Handling, HandleOnTop, OnTop, IsMutationDone, Msg
    <3>2. Head(todo) \in Frames(MutationDones)
      BY <3>1, HandledTop
    <3>3. ValidateTask(gen) \in MutationTasks
      BY <1>0, TaskTyped DEF MutationTasks, IsMutationTask, ValidateTask
    <3> QED
      BY <1>0, <1>22, <3>2, <3>3, OwnedTop DEF HandleRestored
  <2> QED
    BY <1>3, <1>5, <1>6, <1>8, <2>1
<1>23. CASE Cancels
  <2>1. gen < g /\ tasks' = tasks /\ timers' = timers
    BY <1>0, <1>1, <1>23 DEF Cancels
  <2> QED
    BY <1>3, <1>5, <1>6, <2>1
<1>24. CASE Defers
  <2>1. ~FreshVerdict
    BY <1>24 DEF Defers, FreshVerdict, IsCompletion
  <2>2. CheckAlone => /\ Free(todo', FinishFrames)
                      /\ Free(todo', Frames(LiveRepairs(epoch)))
    BY <1>14, <1>24, StackAlone DEF Defers
  <2>3. CheckAlone => Free(deferred', LiveRepairs(epoch))
    <3> SUFFICES ASSUME CheckAlone PROVE Free(deferred', LiveRepairs(epoch))
      OBVIOUS
    <3>1. req.epoch < epoch
      BY <1>24 DEF Defers, FenceUp, WorkerActive, CheckAlone
    <3>2. CASE Msg.kind \in {"Apply", "Revert", "Disarm"} /\ Enqueue(Msg)
      <4>1. Msg \notin LiveRepairs(epoch)
        BY <3>2 DEF LiveRepairs
      <4> QED
        BY <3>2, <4>1, EnqueueFree DEF CheckAlone
    <3>3. CASE req.virt # "none" /\ Enqueue([kind |-> "Repair", epoch |-> req.epoch])
      <4> DEFINE c == [kind |-> "Repair", epoch |-> req.epoch]
      <4>1. 0 < req.epoch /\ c.epoch = req.epoch /\ req.epoch \in Nat /\ epoch \in Nat
        BY <3>3 DEF EpochInv, IInv, TypeOK, SessionTypes, HostTypes
      <4>2. c \notin LiveRepairs(epoch)
        BY <3>1, <4>1 DEF LiveRepairs
      <4>3. Enqueue(c)
        BY <3>3
      <4> HIDE DEF c
      <4> QED
        BY <4>2, <4>3, EnqueueFree DEF CheckAlone
    <3> QED
      BY <1>24, <3>2, <3>3 DEF Defers
  <2> QED
    BY <1>12, <1>24, <2>1, <2>2, <2>3 DEF Defers
<1>25. CASE DrainNext
  <2>1. Head(todo).op = "drain" /\ ~FreshVerdict
    BY <1>25 DEF DrainNext, FreshVerdict, HandleOnTop, OnTop
  <2>2. CheckAlone => /\ Free(deferred', LiveRepairs(epoch))
                      /\ Free(todo', FinishFrames)
                      /\ Free(todo', Frames(LiveRepairs(epoch)))
    <3> SUFFICES ASSUME CheckAlone
                 PROVE  /\ Free(deferred', LiveRepairs(epoch))
                        /\ Free(todo', FinishFrames)
                        /\ Free(todo', Frames(LiveRepairs(epoch)))
      OBVIOUS
    <3>1. deferred # <<>> /\ deferred' = Tail(deferred)
      BY <1>25 DEF DrainNext, DrainContinues
    <3>2. Free(deferred', LiveRepairs(epoch)) /\ Head(deferred) \notin LiveRepairs(epoch)
      BY <1>0, <3>1, TailSole DEF CheckAlone
    <3> DEFINE f == HandleFrame(Head(deferred))
    <3>3. f \notin Frames(LiveRepairs(epoch)) /\ f \notin FinishFrames
      <4>1. f \notin Frames(LiveRepairs(epoch))
        BY <3>2, FrameOf
      <4>2. f.op = "handle"
        BY DEF HandleFrame
      <4> QED
        BY <4>1, <4>2 DEF FinishFrames
    <3>4. todo' = <<f>> \o todo
      BY <1>25 DEF DrainNext
    <3>5. f \in FrameType
      <4>1. Head(deferred) \in MessageType
        BY <1>0, <3>1, TailType DEF MessageType
      <4> QED
        BY <4>1, FrameTyped
    <3> HIDE DEF f
    <3>6. /\ <<f>> \in Seq(FrameType)
          /\ Free(<<f>>, FinishFrames) /\ Free(<<f>>, Frames(LiveRepairs(epoch)))
      BY <3>3, <3>5 DEF Free
    <3> QED
      BY <1>0, <3>2, <3>4, <3>6, PushSole DEF CheckAlone
  <2> QED
    BY <1>12, <1>25, <2>1, <2>2 DEF DrainNext, sessionVars, dispatchVars
<1>26. CASE Starts
  <2>1. timers' = timers /\ NotAdded(FreshTasks(g))
    BY <1>6, <1>26 DEF Starts
  <2>2. CheckPopped(g)
    <3>1. CASE gen' = gen + 1
      BY <1>0, <1>1, <1>3, <3>1
    <3>2. CASE HandleOnTop /\ Msg.kind = "Repair" /\ ~StaleConnection(Msg)
      <4>1. CheckAlone => Msg \notin LiveRepairs(epoch) /\ Msg \in MessageType
        BY <3>2, TopAllowed DEF CheckAlone
      <4>2. ~CheckAlone
        BY <3>2, <4>1 DEF LiveRepairs, StaleConnection
      <4> QED
        BY <1>3, <4>2 DEF CheckInv
    <3>3. CASE FreshVerdict
      BY <1>4, <3>3
    <3>4. CASE OnTop("outcome") \/ state # "Verification"
      BY <1>3, <1>8, <1>9, <3>4
    <3> QED
      BY <1>26, <3>1, <3>2, <3>3, <3>4 DEF Starts, StartsOn
  <2> QED
    BY <1>5, <2>1, <2>2
<1>27. CASE Retires
  <2>1. worker # None
    <3>1. HandleOnTop /\ IsMutationDone(Msg)
      BY <1>27 DEF Retires
    <3>2. Head(todo) \in Frames(MutationDones)
      BY <3>1, HandledTop
    <3> QED
      BY <1>0, <3>2, OwnedTop
  <2>2. CheckPopped(g)
    BY <1>3, <1>8, <2>1
  <2>3. Tail(todo) = <<>>
    BY <1>10, <1>27 DEF Retires, IsCompletion, IsMutationDone
  <2>4. CASE Checks(gen') /\ tasks' = tasks
    BY <1>1, <1>11, <1>27, <2>2, <2>3, <2>4 DEF Retires
  <2>5. CASE timers' = timers /\ (tasks' = tasks \/ tasks' = Append(tasks, ResetTask(gen)))
    BY <1>5, <1>6, <2>2, <2>5
  <2> QED
    BY <1>27, <2>4, <2>5 DEF Retires
<1>28. CASE Judges
  <2>1. CheckPopped(g) /\ Tail(todo) = <<>> /\ worker' = None
    BY <1>4, <1>10, <1>28, VerdictAlone
       DEF Judges, FreshVerdict, IsCompletion, CheckAlone
  <2> QED
    BY <1>1, <1>11, <1>28, <2>1 DEF Judges
<1>29. CASE Concludes
  <2>1. /\ CheckPopped(g) /\ g = gen /\ Tail(todo) = <<>> /\ worker = None /\ worker' = None
        /\ ~staging.resetting /\ Free(deferred, LiveRepairs(epoch)) /\ deferred' = deferred
    BY <1>1, <1>3, <1>9, <1>10, <1>29 DEF Concludes, StackInv, FenceUp, WorkerActive
  <2>2. CASE Checks(gen) /\ todo' = Tail(todo) /\ UNCHANGED tasks
    BY <1>11, <2>1, <2>2
  <2>3. CASE timers' = timers /\ (tasks' = tasks \/ tasks' = Append(tasks, ResetTask(gen)))
    BY <1>5, <1>6, <2>1, <2>3
  <2>4. ASSUME NEW p \in Purposes, tasks' = Append(tasks, VerifyTask(gen, p)),
               state' = "Verification", staging' = staging, timers' = timers,
               todo' = <<DrainFrame>> \o Tail(todo)
        PROVE  CheckInv'
    <3>1. VerifyTask(gen, p) \in FreshTasks(g)
      <4>1. VerifyTask(gen, p) \in TaskType
        BY <1>0, TaskTyped DEF IInv, TypeOK, SessionTypes
      <4> QED
        BY <2>1, <4>1 DEF FreshTasks, VerifyTask
    <3>2. CheckOne(g)'
      BY <1>0, <2>1, <2>4, <3>1, CheckMoves DEF Added
    <3>3. CheckAlone'
      BY <2>1, <2>4, AloneAfter
    <3> QED
      BY <1>1, <3>2, <3>3 DEF CheckInv
  <2> QED
    BY <1>29, <2>2, <2>3, <2>4 DEF Concludes
<1>30. CASE HandleBaselineReturn
  <2>1. /\ HandleOnTop /\ Msg.kind = "Event" /\ ~FenceUp /\ state # "Verification"
        /\ gen' = gen /\ timers' = timers /\ deferred' = deferred /\ staging' = staging
        /\ todo' = Tail(todo) /\ state' = "Verification" /\ worker' = worker
        /\ tasks' = Append(tasks, VerifyTask(gen, "BaselineTopologyReturn"))
    BY <1>30 DEF HandleBaselineReturn, EventFresh, BaselineAdmissible, Monitoring,
       Handling, HandleOnTop, OnTop, Return, fenceVars, Msg
  <2>2. Tail(todo) = <<>> /\ worker' = None /\ ~staging.resetting
    BY <1>10, <2>1 DEF FenceUp, WorkerActive
  <2>3. CheckPopped(g) /\ g = gen
    BY <1>1, <1>3, <1>8, <2>1
  <2>4. VerifyTask(gen, "BaselineTopologyReturn") \in FreshTasks(g)
    <3>1. VerifyTask(gen, "BaselineTopologyReturn") \in TaskType
      BY <1>0, TaskTyped DEF IInv, TypeOK, SessionTypes, Purposes
    <3> QED
      BY <2>3, <3>1 DEF FreshTasks, VerifyTask
  <2>5. CheckOne(g)'
    BY <1>0, <2>1, <2>3, <2>4, CheckMoves DEF Added
  <2>6. Free(deferred, LiveRepairs(epoch))
    <3>1. todo = <<Head(todo)>>
      BY <1>0, <2>2, OnlyOne
    <3>2. Head(todo) # DrainFrame
      BY <2>1 DEF HandleOnTop, OnTop, DrainFrame
    <3>3. Free(todo, {DrainFrame})
      BY <3>1, <3>2 DEF Free
    <3> QED
      BY <1>0, <2>1, <3>3 DEF StackInv
  <2>7. CheckAlone'
    BY <2>1, <2>2, <2>6, AloneAfter
  <2> QED
    BY <1>1, <2>5, <2>7 DEF CheckInv
<1> QED
  BY <1>15, <1>16, <1>17, <1>18, <1>19, <1>20, <1>21, <1>22, <1>23, <1>24, <1>25, <1>26,
     <1>27, <1>28, <1>29, <1>30 DEF Effects

-----------------------------------------------------------------------------
(* Handlers and the frame on top.                                           *)

(* While the completion of a mutation is handled no reset is under way.     *)
LEMMA NoResetBehind ==
  ASSUME IInv, MutationInv, HandleOnTop, IsMutationDone(Msg)
  PROVE  ~staging.resetting
<1> USE DEF MutationInv
<1>0. todo # <<>> /\ todo \in Seq(FrameType) /\ Head(todo).op = "handle"
  BY DEF IInv, TypeOK, FenceTypes, HandleOnTop, OnTop
<1>1. Head(todo) = HandleFrame(Msg) /\ Msg \in MessageType
  BY HandledTop
<1>2. ~Free(todo, Frames(MutationDones))
  <2>1. Head(todo) \in Frames(MutationDones)
    BY HandledTop
  <2> QED
    BY <1>0, <2>1, TailSole
<1>3. Free(tasks, ResetTasks) /\ Free(mailbox, ResetDones)
  BY <1>2 DEF OrderInv
<1>4. Free(todo, Frames(ResetDones))
  <2>1. Tail(todo) = <<>>
    BY <1>0, ShapeTop DEF IsMutationDone, IsCompletion
  <2>2. todo = <<Head(todo)>>
    BY <1>0, <2>1, OnlyOne
  <2>3. Msg \notin ResetDones
    BY DEF IsMutationDone, ResetDones, IsResetDone
  <2>4. Head(todo) \notin Frames(ResetDones)
    BY <1>1, <2>3, FrameOf
  <2> QED
    BY <2>2, <2>4 DEF Free
<1>5. ~OneOf(ResetTasks, ResetDones)
  <2>1. \A q, G : Free(q, G) => ~Sole(q, G)
    BY DEF Free, Sole
  <2> QED
    BY <1>3, <1>4, <2>1 DEF OneOf
<1> QED
  BY <1>5 DEF ResetInv

(* What the stack has below a frame of another kind.                        *)
LEMMA BelowTop ==
  ASSUME IInv, todo # <<>>, NEW G, Head(todo) \notin G, ~Free(todo, G)
  PROVE  ~Free(Tail(todo), G)
<1>1. todo \in Seq(FrameType)
  BY DEF IInv, TypeOK, FenceTypes
<1>2. /\ DOMAIN Tail(todo) = 1..(Len(todo) - 1) /\ DOMAIN todo = 1..Len(todo)
      /\ Len(todo) \in Nat /\ Head(todo) = todo[1]
      /\ \A i \in DOMAIN Tail(todo) : Tail(todo)[i] = todo[i + 1]
  BY <1>1
<1>3. PICK i \in DOMAIN todo : todo[i] \in G
  BY DEF Free
<1>4. i # 1
  BY <1>2, <1>3
<1>5. i - 1 \in DOMAIN Tail(todo) /\ Tail(todo)[i - 1] \in G
  BY <1>2, <1>3, <1>4
<1> QED
  BY <1>5 DEF Free

(* A frame that is pushed is on the stack, above what was there.            *)
LEMMA PushedFrames ==
  ASSUME NEW q \in Seq(FrameType), NEW a, NEW b, NEW G
  PROVE  /\ a \in G => ~Free(<<a>> \o q, G)
         /\ a \in G \/ b \in G => ~Free(<<a, b>> \o q, G)
         /\ ~Free(q, G) => ~Free(<<a>> \o q, G)
         /\ Head(<<a>> \o q) = a /\ Head(<<a, b>> \o q) = a
         /\ Tail(<<a>> \o q) = q /\ <<a>> \o q # <<>> /\ <<a, b>> \o q # <<>>
<1> DEFINE S == FrameType \cup {a, b}
<1>1. q \in Seq(S)
  OBVIOUS
<1>2. a \in S /\ b \in S
  OBVIOUS
<1> HIDE DEF S
<1> DEFINE r == <<a>> \o q
           s == <<a, b>> \o q
<1>3. /\ 1 \in DOMAIN r /\ r[1] = a /\ Head(r) = a /\ r # <<>> /\ Tail(r) = q
      /\ \A i \in DOMAIN q : i + 1 \in DOMAIN r /\ r[i + 1] = q[i]
  BY <1>1, <1>2
<1>4. /\ 1 \in DOMAIN s /\ s[1] = a /\ Head(s) = a /\ s # <<>>
      /\ 2 \in DOMAIN s /\ s[2] = b
  BY <1>1, <1>2
<1> HIDE DEF r, s
<1>5. /\ a \in G => ~Free(r, G)
      /\ a \in G \/ b \in G => ~Free(s, G)
      /\ ~Free(q, G) => ~Free(r, G)
  BY <1>3, <1>4 DEF Free
<1> QED
  BY <1>3, <1>4, <1>5 DEF r, s

(* No frame but one that a handler leaves is a drained command or resumes.  *)
LEMMA TailTop ==
  ASSUME IInv, ShapeInv, todo # <<>>, todo' = Tail(todo)
  PROVE  /\ ~Drained(todo')
         /\ ~OnTop("outcome")'
         /\ OnTop("resume")' => OnTop("drain")
<1>1. todo \in Seq(FrameType) /\ Head(todo) \in FrameType
  BY TailType DEF IInv, TypeOK, FenceTypes
<1>2. Head(todo).op \in {"handle", "drain"} \cup RestOps
  BY <1>1 DEF FrameType, RestOps
<1>3. DrainFrame.op = "drain"
  BY DEF DrainFrame
<1>4. CASE Head(todo).op \in RestOps
  BY <1>4, ShapeTop DEF Drained, OnTop
<1>5. CASE Head(todo).op = "drain"
  <2>1. Rest(Tail(todo)) /\ (Tail(todo) # <<>> => Head(Tail(todo)).op # "outcome")
    BY <1>5, ShapeTop DEF Draining
  <2> QED
    BY <1>5, <2>1 DEF Rest, Drained, OnTop, RestOps
<1>6. CASE Head(todo).op = "handle"
  <2>1. CASE Draining(Tail(todo))
    BY <1>3, <2>1 DEF Draining, Drained, OnTop
  <2>2. CASE Batch(Tail(todo))
    <3> DEFINE q == Tail(todo)
    <3>1. q \in Seq(FrameType) /\ Batch(q) /\ todo' = q
      BY <1>1, <2>2, TailType
    <3> HIDE DEF q
    <3>2. q # <<>> => Head(q).op = "handle"
      BY <3>1 DEF Batch
    <3>3. q # <<>> /\ Tail(q) # <<>> => Head(Tail(q)).op = "handle"
      <4> SUFFICES ASSUME q # <<>>, Tail(q) # <<>> PROVE Head(Tail(q)).op = "handle"
        OBVIOUS
      <4>1. 2 \in DOMAIN q /\ Head(Tail(q)) = q[2]
        BY <3>1
      <4> QED
        BY <3>1, <4>1 DEF Batch
    <3> QED
      BY <1>3, <3>1, <3>2, <3>3 DEF Drained, Draining, OnTop
  <2> QED
    BY <1>6, <2>1, <2>2, ShapeTop
<1> QED
  BY <1>2, <1>4, <1>5, <1>6

-----------------------------------------------------------------------------
\* The parts of StackInv that a held completion and the deferred repairs need.
HeldKept == held # None => ~FenceUp /\ ~Free(todo, ResumeFrames)

RepairsKept ==
  \/ Free(deferred, LiveRepairs(epoch))
  \/ FenceUp
  \/ ~Free(todo, {DrainFrame})
  \/ ~running /\ todo = <<>>

(* Handlers keep what the frame on top finds.                               *)
LEMMA HandlersFrames ==
  ASSUME IInv, IInv', MutationInv, Handle, Effects
  PROVE  StackInv'
<1> USE DEF MutationInv
<1>0. /\ todo # <<>> /\ todo \in Seq(FrameType) /\ Tail(todo) \in Seq(FrameType)
      /\ epoch' = epoch /\ deferred \in Seq(DeferrableType)
  BY HandlersTop, TailType DEF Handle, hostUnchanged, hostVars, IInv, TypeOK, FenceTypes
<1>1. DrainFrame.op = "drain" /\ ExitFrame.op = "exitAfterReset"
  BY DEF DrainFrame, ExitFrame
<1>2. Msg \in DeferrableType => Msg.kind \in {"Apply", "Repair", "Reset", "Revert", "Disarm"}
  BY DEF DeferrableType
<1>3. FenceUp' <=> worker' # None \/ staging'.resetting
  BY DEF FenceUp, WorkerActive
<1>4. FenceUp <=> worker # None \/ staging.resetting
  BY DEF FenceUp, WorkerActive
<1>29. ASSUME worker' = worker, staging'.resetting = staging.resetting
       PROVE  FenceUp' <=> FenceUp
  BY <1>29, Zenon DEF FenceUp, WorkerActive
<1>5. PICK e : e = epoch /\ epoch' = e
  BY <1>0
<1>6. /\ RepairsKept' <=> \/ Free(deferred', LiveRepairs(e)) \/ FenceUp'
                          \/ ~Free(todo', {DrainFrame}) \/ (~running' /\ todo' = <<>>)
      /\ HeldKept' <=> (held' # None => ~FenceUp' /\ ~Free(todo', ResumeFrames))
  <2>1. DrainFrame' = DrainFrame /\ ResumeFrames' = ResumeFrames
    BY DEF DrainFrame, ResumeFrames
  <2>2. HeldKept' <=> (held' # None => ~FenceUp' /\ ~Free(todo', ResumeFrames))
    BY <2>1 DEF HeldKept
  <2>3. RepairsKept' <=> \/ Free(deferred', LiveRepairs(epoch')) \/ FenceUp'
                         \/ ~Free(todo', {DrainFrame'}) \/ (~running' /\ todo' = <<>>)
    BY Zenon DEF RepairsKept
  <2>4. RepairsKept' <=> \/ Free(deferred', LiveRepairs(e)) \/ FenceUp'
                         \/ ~Free(todo', {DrainFrame}) \/ (~running' /\ todo' = <<>>)
    BY <1>5, <2>1, <2>3, Zenon
  <2> QED
    BY <2>2, <2>4
<1>7. /\ Free(deferred, LiveRepairs(e)) \/ FenceUp \/ ~Free(todo, {DrainFrame})
      /\ held # None => ~FenceUp /\ ~Free(todo, ResumeFrames)
      /\ OnTop("outcome") => ~FenceUp /\ Free(deferred, LiveRepairs(e))
  BY <1>0, <1>5 DEF StackInv
<1>8. ASSUME todo' = Tail(todo), HeldKept', RepairsKept', OnTop("drain") => DrainEnds
      PROVE  StackInv'
  <2>1. ~Drained(todo') /\ ~OnTop("outcome")' /\ (OnTop("resume")' => DrainEnds)
    BY <1>0, <1>8, TailTop
  <2>2. DrainEnds => FenceUp' \/ deferred' = <<>>
    BY <1>3, <1>4 DEF DrainEnds, DrainContinues, WorkerActive, fenceVars
  <2> QED
    BY <1>8, <2>1, <2>2 DEF StackInv, HeldKept, RepairsKept
<1>9. ASSUME NEW f, HeldKept',
             todo' = <<DrainFrame>> \o Tail(todo) \/ todo' = <<DrainFrame, f>> \o Tail(todo)
      PROVE  StackInv'
  <2>1. Head(todo') = DrainFrame /\ ~Free(todo', {DrainFrame})
    <3>1. DrainFrame \in {DrainFrame}
      OBVIOUS
    <3>2. CASE todo' = <<DrainFrame>> \o Tail(todo)
      BY <1>0, <3>1, <3>2, PushedFrames
    <3>3. CASE todo' = <<DrainFrame, f>> \o Tail(todo)
      BY <1>0, <3>1, <3>3, PushedFrames
    <3> QED
      BY <1>9, <3>2, <3>3
  <2>2. RepairsKept'
    BY <1>6, <2>1, Zenon
  <2> QED
    BY <1>1, <1>9, <2>1, <2>2 DEF StackInv, Drained, OnTop, HeldKept, RepairsKept
<1>10. ASSUME todo' = Tail(todo), held' = held \/ held' = None, worker' = worker,
              staging'.resetting = staging.resetting, ~OnTop("resume")
       PROVE  HeldKept'
  <2>1. Head(todo) \notin ResumeFrames
    BY <1>0, <1>10 DEF ResumeFrames, OnTop
  <2>2. ~Free(todo, ResumeFrames) => ~Free(Tail(todo), ResumeFrames)
    BY <1>0, <2>1, BelowTop
  <2> QED
    BY <1>3, <1>4, <1>6, <1>7, <1>10, <2>2
<1>11. ASSUME todo' = Tail(todo), deferred' = deferred, worker' = worker,
              staging'.resetting = staging.resetting, ~OnTop("drain")
       PROVE  RepairsKept'
  <2>1. Head(todo) \notin {DrainFrame}
    BY <1>0, <1>1, <1>11 DEF OnTop
  <2>2. ~Free(todo, {DrainFrame}) => ~Free(Tail(todo), {DrainFrame})
    BY <1>0, <2>1, BelowTop
  <2> QED
    BY <1>6, <1>7, <1>11, <1>29, <2>2, Zenon
<1>12. ASSUME todo' = Tail(todo), held' = held \/ held' = None, deferred' = deferred,
              worker' = worker, staging'.resetting = staging.resetting,
              ~OnTop("resume"), ~OnTop("drain")
       PROVE  StackInv'
  BY <1>8, <1>10, <1>11, <1>12
<1>13. ~OnTop("resume") /\ ~OnTop("drain") /\ (HandleOnTop => Msg \notin DeferrableType)
         => held = None
  BY <1>0, NothingHeld
<1>14. held' = None => HeldKept'
  BY <1>6
<1>15. CASE Skips \/ Cancels \/ Ends
  BY <1>12, <1>15 DEF Skips, Cancels, Ends, HandleOnTop, OnTop
<1>16. CASE Judges
  BY <1>12, <1>16 DEF Judges, FreshVerdict, HandleOnTop, OnTop
<1>17. CASE HandleBaselineReturn
  <2>1. OnTop("handle") /\ ~OnTop("resume") /\ ~OnTop("drain")
    BY <1>17 DEF HandleBaselineReturn, EventFresh, Handling, OnTop
  <2> QED
    BY <1>12, <1>17, <2>1 DEF HandleBaselineReturn, Return, fenceVars
<1>18. CASE Defers
  <2>1. FenceUp'
    BY <1>3, <1>4, <1>18 DEF Defers
  <2>2. HeldKept' /\ RepairsKept'
    BY <1>6, <1>10, <1>18, <2>1 DEF Defers, HandleOnTop, OnTop
  <2> QED
    BY <1>8, <1>18, <2>2 DEF Defers, HandleOnTop, OnTop
<1>19. CASE Starts
  <2>1. worker' # None
    <3>1. PICK t \in MutationTasks : worker' = WorkerOf(t)
      BY <1>19 DEF Starts
    <3>2. KindOf(t.op) \in WorkerKinds /\ t.gen \in Nat
      BY DEF MutationTasks, TaskType, KindOf, WorkerKinds
    <3> QED
      BY <3>1, <3>2, NoneAssumption DEF WorkerOf
  <2>2. RepairsKept'
    BY <1>3, <1>6, <2>1
  <2>3. ~OnTop("resume") /\ ~OnTop("drain")
    BY <1>19 DEF Starts, StartsOn, FreshVerdict, HandleOnTop, OnTop
  <2>4. held' = None \/ (held' = held /\ (HandleOnTop => Msg \notin DeferrableType))
    BY <1>2, <1>19 DEF Starts, StartsOn, FreshVerdict, HandleOnTop, OnTop
  <2>5. HeldKept'
    BY <1>13, <1>14, <2>3, <2>4
  <2> QED
    BY <1>8, <1>19, <2>2, <2>3, <2>5 DEF Starts
<1>20. CASE HandleRestored
  <2>1. /\ OnTop("handle") /\ ~OnTop("resume") /\ ~OnTop("drain")
        /\ Msg.kind = "RecoverDone" /\ worker = [kind |-> "Recovery", gen |-> Msg.gen]
        /\ worker' = [worker EXCEPT !.gen = gen] /\ todo' = Tail(todo) /\ held' = held
    BY <1>20 DEF HandleRestored, Handling, OnTop, Owns, Return, Msg
  <2>2. worker' # None
    <3>1. gen \in Nat
      BY DEF IInv, TypeOK, DispatchTypes
    <3>2. worker' = [kind |-> "Recovery", gen |-> gen]
      BY <2>1
    <3> QED
      BY <3>1, <3>2, NoneAssumption DEF WorkerKinds
  <2>3. HeldKept' /\ RepairsKept'
    BY <1>2, <1>3, <1>6, <1>13, <1>14, <2>1, <2>2
  <2> QED
    BY <1>8, <2>1, <2>3
<1>21. CASE Retires
  <2>1. held' = None
    BY <1>2, <1>13, <1>21 DEF Retires, HandleOnTop, OnTop, IsMutationDone
  <2>2. \E f : \/ todo' = <<DrainFrame>> \o Tail(todo)
               \/ todo' = <<DrainFrame, f>> \o Tail(todo)
    BY <1>21 DEF Retires
  <2> QED
    BY <1>9, <1>14, <2>1, <2>2
<1>22. CASE Concludes
  <2>1. OnTop("outcome") /\ ~OnTop("resume") /\ ~OnTop("drain") /\ ~HandleOnTop
    BY <1>22 DEF Concludes, HandleOnTop, OnTop
  <2>2. held' = None /\ worker' = worker /\ deferred' = deferred
    BY <1>13, <1>22, <2>1 DEF Concludes
  <2>3. CASE todo' = Tail(todo) /\ UNCHANGED staging
    BY <1>12, <2>1, <2>2, <2>3
  <2>4. CASE todo' = <<DrainFrame>> \o Tail(todo)
    BY <1>9, <1>14, <2>2, <2>4
  <2> QED
    BY <1>22, <2>3, <2>4 DEF Concludes
<1>23. CASE Resets
  <2>1. ~OnTop("resume") /\ ~OnTop("drain") /\ held' = None
    BY <1>2, <1>13, <1>23 DEF Resets, HandleOnTop, OnTop
  <2>2. CASE todo' = Tail(todo) /\ ~running'
    <3>1. Tail(todo) = <<>>
      BY <1>0, <1>23, ShapeTop DEF Resets, HandleOnTop, OnTop, IsCompletion
    <3>2. RepairsKept'
      BY <1>6, <2>2, <3>1
    <3> QED
      BY <1>8, <1>14, <2>1, <2>2, <3>2
  <2>3. ASSUME NEW f, todo' = <<DrainFrame, f>> \o Tail(todo)
        PROVE  StackInv'
    BY <1>9, <1>14, <2>1, <2>3
  <2> QED
    BY <1>23, <2>2, <2>3 DEF Resets
<1>24. CASE AfterReset
  <2>1. OnTop("afterReset") /\ held = None /\ ~OnTop("drain")
    BY <1>13, <1>24 DEF AfterReset, OnTop, HandleOnTop
  <2>2. /\ todo' = <<ExitFrame>> \o Tail(todo) /\ held' = None
        /\ worker' = worker /\ deferred' = deferred /\ staging' = staging
    BY <1>24, <2>1 DEF AfterReset, ExitFrame
  <2>3. Head(todo') = ExitFrame
    BY <1>0, <2>2, PushedFrames
  <2>4. RepairsKept'
    <3>1. ~Free(todo, {DrainFrame}) => ~Free(Tail(todo), {DrainFrame})
      <4>1. Head(todo) \notin {DrainFrame}
        BY <1>0, <1>1, <2>1 DEF OnTop
      <4> QED
        BY <1>0, <4>1, BelowTop
    <3>2. ~Free(todo, {DrainFrame}) => ~Free(todo', {DrainFrame})
      BY <1>0, <2>2, <3>1, PushedFrames
    <3> QED
      BY <1>6, <1>7, <1>29, <2>2, <3>2, Zenon
  <2>5. HeldKept'
    BY <1>14, <2>2
  <2> QED
    BY <1>1, <2>3, <2>4, <2>5 DEF StackInv, Drained, OnTop, HeldKept, RepairsKept
<1>25. CASE DrainEnds
  <2>1. /\ todo' = Tail(todo) /\ OnTop("drain") /\ ~OnTop("resume")
        /\ held' = held /\ worker' = worker /\ staging' = staging /\ deferred' = deferred
        /\ FenceUp \/ deferred = <<>>
    BY <1>4, <1>25 DEF DrainEnds, DrainContinues, WorkerActive, Return, OnTop, fenceVars
  <2>2. HeldKept'
    BY <1>10, <2>1
  <2>3. RepairsKept'
    <3>1. deferred = <<>> => Free(deferred, LiveRepairs(e))
      BY DEF Free
    <3> QED
      BY <1>3, <1>4, <1>6, <2>1, <3>1
  <2> QED
    BY <1>8, <1>25, <2>1, <2>2, <2>3
<1>26. CASE DrainNext
  <2> DEFINE f == HandleFrame(Head(deferred))
  <2>1. /\ todo' = <<f>> \o todo /\ OnTop("drain") /\ ~FenceUp
        /\ held' = held /\ worker' = worker /\ staging' = staging
    BY <1>4, <1>26 DEF DrainNext, DrainContinues, WorkerActive, OnTop
  <2>2. f.op = "handle"
    BY DEF HandleFrame
  <2> HIDE DEF f
  <2>3. /\ Head(todo') = f
        /\ ~Free(todo, ResumeFrames) => ~Free(todo', ResumeFrames)
        /\ ~Free(todo, {DrainFrame}) => ~Free(todo', {DrainFrame})
    BY <1>0, <2>1, PushedFrames
  <2>4. ~Free(todo, {DrainFrame})
    <3>1. Head(todo) = DrainFrame
      BY <1>0, <2>1, ShapeTop DEF OnTop, Draining
    <3>2. Free(todo, {DrainFrame}) => Head(todo) \notin {DrainFrame}
      BY <1>0, TailSole
    <3> QED
      BY <3>1, <3>2
  <2>5. ~FenceUp' /\ HeldKept' /\ RepairsKept'
    <3>1. ~FenceUp'
      BY <1>29, <2>1, Zenon
    <3>2. HeldKept'
      BY <1>6, <1>7, <2>1, <2>3, <3>1, Zenon
    <3>3. RepairsKept'
      BY <1>6, <2>3, <2>4, Zenon
    <3> QED
      BY <3>1, <3>2, <3>3
  <2> QED
    BY <2>2, <2>3, <2>5 DEF StackInv, OnTop, HeldKept, RepairsKept
<1>27. CASE ResumeFinish
  <2>0. OnTop("resume") /\ ~OnTop("drain") /\ worker' = worker /\ staging' = staging
        /\ deferred' = deferred
    BY <1>27 DEF ResumeFinish, OnTop
  <2>1. CASE FenceUp
    <3>1. todo' = Tail(todo) /\ held' = held /\ held = None
      BY <1>4, <1>7, <1>27, <2>1 DEF ResumeFinish, Return, WorkerActive
    <3>2. HeldKept' /\ RepairsKept'
      BY <1>11, <1>14, <2>0, <3>1
    <3> QED
      BY <1>8, <2>0, <3>1, <3>2
  <2>2. CASE ~FenceUp
    <3> DEFINE f == Finish("outcome", Head(todo).done, Head(todo).baseline)
    <3>1. todo' = <<f>> \o Tail(todo) /\ held' = None /\ f.op = "outcome"
      BY <1>4, <1>27, <2>2 DEF ResumeFinish, ReturnInto, WorkerActive, Finish
    <3> HIDE DEF f
    <3>2. Head(todo') = f
      BY <1>0, <3>1, PushedFrames
    <3>3. deferred = <<>>
      BY <2>0, <2>2 DEF StackInv
    <3>4. Free(deferred', LiveRepairs(e)) /\ ~FenceUp'
      BY <1>3, <1>4, <2>0, <2>2, <3>3 DEF Free
    <3>5. HeldKept' /\ RepairsKept'
      BY <1>6, <1>14, <3>1, <3>4
    <3> QED
      BY <1>0, <1>5, <3>1, <3>2, <3>4, <3>5 DEF StackInv, Drained, OnTop, HeldKept, RepairsKept
  <2> QED
    BY <2>1, <2>2
<1>28. CASE HandleApplyDone
  <2>1. HandleOnTop /\ IsMutationDone(Msg) /\ Msg.kind = "ApplyDone"
    BY <1>28 DEF HandleApplyDone, Handling, HandleOnTop, OnTop, IsMutationDone, Msg
  <2>2. ~staging.resetting /\ held = None
    BY <1>2, <1>13, <2>1, NoResetBehind DEF HandleOnTop, OnTop
  <2>3. ~FenceUp' /\ deferred' = deferred
    <3>1. staging'.resetting = staging.resetting /\ worker' = None /\ deferred' = deferred
      <4>1. staging \in StagingType
        BY StagingUpdates DEF IInv
      <4> QED
        BY <1>28, <4>1 DEF HandleApplyDone, StagingType
    <3> QED
      BY <1>3, <2>2, <3>1
  <2> DEFINE a == Finish("resume", Msg, base.flight)
             b == Finish("outcome", Msg, base.flight)
  <2>4. Msg \in ApplyDoneType /\ AcceptApply(Msg, lease, held, Tail(todo))
    BY <1>28, ApplyCompletionTop DEF HandleApplyDone, IInv, ApplyCompletion
  <2>5. /\ base.flight \in BOOLEAN
        /\ \/ HasDeferredApply /\ todo' = <<DrainFrame, a>> \o Tail(todo)
           \/ ~HasDeferredApply /\ held' = held /\ todo' = <<b>> \o Tail(todo)
    BY <1>0, <2>4, AcceptReturns
  <2>6. a \in ResumeFrames /\ b.op = "outcome"
    BY <2>4, <2>5, FrameTyped DEF Finish, ResumeFrames
  <2> HIDE DEF a, b
  <2>7. CASE todo' = <<DrainFrame, a>> \o Tail(todo)
    <3>1. HeldKept'
      BY <1>0, <1>6, <2>3, <2>6, <2>7, PushedFrames
    <3> QED
      BY <1>9, <2>7, <3>1
  <2>8. CASE ~HasDeferredApply /\ held' = held /\ todo' = <<b>> \o Tail(todo)
    <3>1. Free(deferred, LiveRepairs(e))
      BY <1>5, <2>8 DEF HasDeferredApply, StaleConnection, Free, LiveRepairs
    <3>2. HeldKept' /\ RepairsKept'
      BY <1>6, <1>14, <2>2, <2>3, <2>8, <3>1
    <3>3. Head(todo') = b
      BY <1>0, <2>8, PushedFrames
    <3> QED
      BY <1>0, <1>5, <2>3, <2>6, <3>1, <3>2, <3>3
         DEF StackInv, Drained, OnTop, HeldKept, RepairsKept
  <2> QED
    BY <2>5, <2>7, <2>8
<1> QED
  BY <1>15, <1>16, <1>17, <1>18, <1>19, <1>20, <1>21, <1>22, <1>23, <1>24, <1>25, <1>26,
     <1>27, <1>28 DEF Effects

-----------------------------------------------------------------------------
(* Every handler keeps the invariant of the fence.                          *)
LEMMA HandlersMutation ==
  ASSUME IInv, IInv', MutationInv, Handle
  PROVE  MutationInv'
<1> USE DEF MutationInv
<1>1. Effects
  <2>1. HandleOnTop => Msg.kind # "Reset"
    BY TopAllowed DEF PendingInv, Unheard
  <2> QED
    BY <2>1, HandlersEffects DEF Handle
<1>2. OnTop("afterReset") => held = None
  <2>1. OnTop("afterReset") => /\ todo # <<>> /\ ~OnTop("resume") /\ ~OnTop("drain")
                               /\ ~HandleOnTop
    BY DEF OnTop, HandleOnTop
  <2> QED
    BY <2>1, NothingHeld
<1>3. ShapeInv'
  BY <1>2, HandlersShape DEF Handle
<1>4. PendingInv'
  BY <1>2, HandlersPending
<1>5. EpochInv'
  BY HandlersEpochs
<1>6. ResetInv'
  BY HandlersReset DEF Handle, hostUnchanged, hostVars
<1>7. FenceInv'
  BY <1>1, HandlersFence
<1>8. EventLoopInv'
  BY <1>1, HandlersEventLoop
<1>9. OrderInv'
  BY <1>1, <1>6, <1>7, HandlersOrder
<1>10. GenInv'
  BY <1>1, HandlersGen
<1>11. CheckInv'
  BY <1>1, HandlersCheck
<1>12. StackInv'
  BY <1>1, HandlersFrames
<1> QED
  BY <1>3, <1>4, <1>5, <1>6, <1>7, <1>8, <1>9, <1>10, <1>11, <1>12

-----------------------------------------------------------------------------
(* The steps of the host, of the pipe and of the two threads.               *)

(* What the order of two kinds survives.                                    *)
LEMMA BehindMoves ==
  ASSUME NEW S, NEW q \in Seq(S), NEW G, NEW R, Behind(q, G, R)
  PROVE  /\ q # <<>> => Behind(Tail(q), G, R)
         /\ q # <<>> /\ Head(q) \in G => Free(Tail(q), R)
         /\ \A a \in S : a \notin R => Behind(Append(q, a), G, R)
         /\ \A a \in S : a \notin G /\ Free(q, G) => Behind(Append(q, a), G, R)
         /\ \A n \in 0..Len(q) : Behind(SubSeq(q, n + 1, Len(q)), G, R)
<1>0. DOMAIN q = 1..Len(q) /\ Len(q) \in Nat
  OBVIOUS
<1>1. ASSUME q # <<>> PROVE Behind(Tail(q), G, R) /\ (Head(q) \in G => Free(Tail(q), R))
  <2> DEFINE r == Tail(q)
  <2>1. /\ DOMAIN r = 1..(Len(q) - 1) /\ \A i \in DOMAIN r : r[i] = q[i + 1]
        /\ Head(q) = q[1] /\ 1 \in DOMAIN q
    BY <1>1
  <2> HIDE DEF r
  <2>2. Behind(r, G, R)
    BY <1>0, <2>1 DEF Behind
  <2>3. Head(q) \in G => Free(r, R)
    BY <1>0, <2>1 DEF Behind, Free
  <2> QED
    BY <2>2, <2>3 DEF r
<1>2. ASSUME NEW a \in S, a \notin R \/ (a \notin G /\ Free(q, G))
      PROVE  Behind(Append(q, a), G, R)
  <2> DEFINE r == Append(q, a)
  <2>1. /\ DOMAIN r = 1..(Len(q) + 1) /\ \A i \in DOMAIN q : r[i] = q[i]
        /\ r[Len(q) + 1] = a
    OBVIOUS
  <2> HIDE DEF r
  <2>2. CASE a \notin R
    BY <1>0, <2>1, <2>2 DEF Behind
  <2>3. CASE a \notin G /\ Free(q, G)
    BY <1>0, <2>1, <2>3 DEF Behind, Free
  <2> QED
    BY <1>2, <2>2, <2>3
<1>3. ASSUME NEW n \in 0..Len(q) PROVE Behind(SubSeq(q, n + 1, Len(q)), G, R)
  <2> DEFINE r == SubSeq(q, n + 1, Len(q))
  <2>1. /\ DOMAIN r = 1..(Len(q) - n) /\ n \in Nat
        /\ \A i \in DOMAIN r : r[i] = q[i + n]
    BY <1>0
  <2> HIDE DEF r
  <2>2. Behind(r, G, R)
    BY <1>0, <2>1 DEF Behind
  <2> QED
    BY <2>2 DEF r
<1> QED
  BY <1>1, <1>2, <1>3

(* A connection that retires keeps the order of what stays, and adds none.  *)
LEMMA RetireKeeps ==
  ASSUME IInv, mailbox' \in Filtered(mailbox, NotOfRetired)
  PROVE  /\ \A G : Free(mailbox, G) => Free(mailbox', G)
         /\ \A G, R : Behind(mailbox, G, R) => Behind(mailbox', G, R)
<1> DEFINE K == {i \in DOMAIN mailbox : NotOfRetired(mailbox[i])}
           n == Cardinality(K)
<1>0. mailbox \in Seq(MessageType) /\ DOMAIN mailbox = 1..Len(mailbox) /\ Len(mailbox) \in Nat
  BY DEF IInv, TypeOK, HostTypes
<1>1. n \in Nat
  BY <1>0, KeptCount
<1>2. PICK f \in [1..n -> K] :
        /\ mailbox' = [i \in 1..n |-> mailbox[f[i]]]
        /\ \A i, j \in 1..n : i < j => f[i] < f[j]
  BY DEF Filtered
<1>3. K \in SUBSET DOMAIN mailbox
  OBVIOUS
<1> HIDE DEF K, n
<1>4. /\ DOMAIN mailbox' = 1..n
      /\ \A i \in 1..n : mailbox'[i] = mailbox[f[i]] /\ f[i] \in DOMAIN mailbox
  BY <1>2, <1>3
<1>5. ASSUME NEW G, Free(mailbox, G) PROVE Free(mailbox', G)
  BY <1>4, <1>5 DEF Free
<1>6. ASSUME NEW G, NEW R, Behind(mailbox, G, R) PROVE Behind(mailbox', G, R)
  <2> SUFFICES ASSUME NEW i \in DOMAIN mailbox', NEW j \in DOMAIN mailbox',
                      mailbox'[i] \in G, mailbox'[j] \in R
               PROVE  j < i
    BY DEF Behind
  <2>1. f[j] < f[i] /\ f[i] \in 1..Len(mailbox) /\ f[j] \in 1..Len(mailbox)
    BY <1>0, <1>4, <1>6 DEF Behind
  <2>2. ~(i < j) /\ i # j
    BY <1>0, <1>2, <1>4, <2>1
  <2> QED
    BY <1>1, <1>4, <2>2
<1> QED
  BY <1>5, <1>6

(* What process_queue takes: a message, after commands that overtake it.    *)
LEMMA ReceiveMoves ==
  ASSUME IInv, Receive
  PROVE  /\ UNCHANGED <<state, req, settle, staging, worker, deferred, held, gen, tasks,
                        timers, epoch, bound, running>>
         /\ link' \in {link, "broken"} /\ (link' = "broken" => link \in {"up", "broken"})
         /\ todo = <<>> /\ running
         /\ mailbox # <<>>
         /\ \A G : Free(mailbox, G) => Free(mailbox', G) /\ Free(todo', Frames(G))
         /\ \A G, R : Behind(mailbox, G, R) => Behind(mailbox', G, R)
         /\ \A G : Free(Tail(mailbox), G) => Free(mailbox', G)
         /\ \A f \in FrameType : f.op # "handle" => Free(todo', {f})
         /\ \A G : (\A m \in G : IsCompletion(m)) /\ Head(mailbox) \notin G
                     => Free(todo', Frames(G))
         /\ Free(mailbox, {m \in MessageType : m.kind = "Repair"}) => Batch(todo')
<1> DEFINE m == Head(mailbox)
           rest == Tail(mailbox)
<1>1. /\ UNCHANGED <<state, req, settle, staging, worker, deferred, held, gen, tasks,
                     timers, epoch, bound, running>>
      /\ link' \in {link, "broken"} /\ (link' = "broken" => link \in {"up", "broken"})
      /\ todo = <<>> /\ running
  BY DEF Receive, Idle, sessionVars, fenceVars, dispatchVars, exitVars
<1>2. /\ mailbox # <<>> /\ mailbox \in Seq(MessageType)
      /\ rest \in Seq(MessageType) /\ m \in MessageType
  BY TailType DEF IInv, TypeOK, HostTypes, Receive
<1>3. PICK n \in 0..Len(rest) :
        /\ IsPrefixLength(n, m, rest)
        /\ todo' = [i \in 1..(n + 1) |-> HandleFrame(IF i <= n THEN rest[i] ELSE m)]
        /\ mailbox' = SubSeq(rest, n + 1, Len(rest))
  BY DEF Receive
<1>4. \A i \in 1..n : ~IsCompletion(rest[i]) /\ rest[i].kind # "Event"
  <2>1. ASSUME NEW i \in 1..n, IsCompletion(m)
        PROVE  ~IsCompletion(rest[i]) /\ rest[i].kind # "Event"
    <3>1. Overtakes(m, rest[i])
      BY <1>3, <2>1 DEF IsPrefixLength
    <3> QED
      BY <3>1 DEF Overtakes, IsCompletion
  <2>2. ASSUME ~IsCompletion(m) PROVE 1..n = {}
    BY <1>3, <2>2 DEF IsPrefixLength
  <2> QED
    BY <2>1, <2>2
<1>5. \A G : Free(mailbox, G) => m \notin G /\ Free(rest, G)
  BY <1>2, TailSole
<1>6. \A G, R : Behind(mailbox, G, R) => Behind(rest, G, R)
  BY <1>2, BehindMoves
<1> HIDE DEF m, rest
<1>7. n \in Nat /\ Len(rest) \in Nat /\ DOMAIN rest = 1..Len(rest) /\ 1..n \subseteq DOMAIN rest
  BY <1>2, <1>3
<1>8. /\ DOMAIN todo' = 1..(n + 1)
      /\ \A i \in 1..n : todo'[i] = HandleFrame(rest[i])
      /\ todo'[n + 1] = HandleFrame(m)
  BY <1>3, <1>7
<1>9. \A i \in DOMAIN todo' : todo'[i] = HandleFrame(m) \/
                              \E j \in 1..n : i = j /\ todo'[i] = HandleFrame(rest[j])
  BY <1>7, <1>8
<1>10. \A G : Free(rest, G) => Free(mailbox', G)
  <2> SUFFICES ASSUME NEW G, Free(rest, G) PROVE Free(mailbox', G)
    OBVIOUS
  <2>1. \A i \in 1..n : rest[i] \notin G
    BY <1>7 DEF Free
  <2> QED
    BY <1>2, <1>3, <2>1, SuffixSole
<1>11. \A G : Free(mailbox, G) => Free(mailbox', G) /\ Free(todo', Frames(G))
  <2> SUFFICES ASSUME NEW G, Free(mailbox, G)
               PROVE  Free(mailbox', G) /\ Free(todo', Frames(G))
    OBVIOUS
  <2>1. m \notin G /\ \A i \in 1..n : rest[i] \notin G
    BY <1>5, <1>7 DEF Free
  <2>2. \A i \in DOMAIN todo' : todo'[i] \notin Frames(G)
    BY <1>9, <2>1, FrameOf
  <2> QED
    BY <1>5, <1>10, <2>2 DEF Free
<1>12. \A G, R : Behind(mailbox, G, R) => Behind(mailbox', G, R)
  BY <1>2, <1>3, <1>6, BehindMoves
<1>13. \A f \in FrameType : f.op # "handle" => Free(todo', {f})
  <2>1. \A i \in DOMAIN todo' : todo'[i].op = "handle"
    BY <1>9 DEF HandleFrame
  <2> QED
    BY <2>1 DEF Free
<1>14. \A G : (\A k \in G : IsCompletion(k)) /\ m \notin G => Free(todo', Frames(G))
  <2> SUFFICES ASSUME NEW G, \A k \in G : IsCompletion(k), m \notin G
               PROVE  Free(todo', Frames(G))
    OBVIOUS
  <2>1. \A i \in DOMAIN todo' : todo'[i] \notin Frames(G)
    BY <1>4, <1>9, FrameOf
  <2> QED
    BY <2>1 DEF Free
<1>15. ASSUME Free(mailbox, {k \in MessageType : k.kind = "Repair"}) PROVE Batch(todo')
  <2>1. m.kind # "Repair" /\ \A i \in 1..n : rest[i].kind # "Repair"
    <3>1. \A i \in 1..n : rest[i] \in MessageType
      BY <1>2, <1>7
    <3> QED
      BY <1>2, <1>5, <1>7, <1>15, <3>1, Zenon DEF Free
  <2>2. \A i \in DOMAIN todo' : todo'[i].op = "handle" /\ todo'[i].msg.kind # "Repair"
    BY <1>9, <2>1 DEF HandleFrame
  <2>3. Len(todo') = n + 1
    <3>1. todo' \in Seq({HandleFrame(k) : k \in {m} \cup {rest[j] : j \in 1..n}})
      BY <1>3, <1>7
    <3> QED
      BY <1>7, <1>8, <3>1
  <2>4. \A i \in DOMAIN todo' : i < Len(todo') =>
          ~IsCompletion(todo'[i].msg) /\ todo'[i].msg.kind # "Event"
    <3>1. \A i \in 1..n : ~IsCompletion(todo'[i].msg) /\ todo'[i].msg.kind # "Event"
      <4>0. \A k : HandleFrame(k).msg = k
        BY DEF HandleFrame
      <4>1. \A i \in 1..n : todo'[i].msg = rest[i]
        BY <1>8, <4>0
      <4> QED
        BY <1>4, <4>1
    <3>2. \A i \in 1..(n + 1) : i < n + 1 => i \in 1..n
      BY <1>7
    <3> QED
      BY <1>8, <2>3, <3>1, <3>2
  <2> QED
    BY <2>2, <2>4 DEF Batch
<1> QED
  BY <1>1, <1>2, <1>5, <1>10, <1>11, <1>12, <1>13, <1>14, <1>15 DEF m, rest

-----------------------------------------------------------------------------
(* The steps that run neither a handler nor a task.                         *)

\* Steps that change neither the stack nor what is dispatched and delayed.
Aside ==
  \/ PipeStep /\ ~SendStop
  \/ GraceElapses \/ WindowExpires \/ QuietEnds \/ UNCHANGED vars

(* They add at most one message, which nobody but a client or Windows sends.*)
LEMMA AsideMoves ==
  ASSUME IInv, EpochInv, Aside, NoReset
  PROVE  /\ UNCHANGED <<state, req, staging, worker, deferred, held, todo, gen, tasks,
                        timers, running>>
         /\ settle'.requested = settle.requested
         /\ \/ UNCHANGED <<epoch, bound, link>>
            \/ /\ epoch' = epoch + 1 /\ bound' = bound
               /\ link \in {"up", "broken"} /\ link' \in {"up", "broken"}
            \/ epoch' = epoch + 1 /\ bound' = epoch + 1
         /\ \/ mailbox' = mailbox
            \/ /\ bound' = bound
               /\ \E m \in MessageType : /\ mailbox' = Append(mailbox, m)
                                         /\ ~IsCompletion(m)
                                         /\ m \notin Unsent(bound)
<1>0. /\ bound \in Nat /\ epoch \in Nat /\ gen \in Nat /\ settle \in SettlementType
      /\ mailbox \in Seq(MessageType)
  BY DEF IInv, TypeOK, HostTypes, SessionTypes, DispatchTypes
<1>1. CASE UNCHANGED vars
  BY <1>1 DEF vars, sessionVars, fenceVars, dispatchVars, hostVars, exitVars
<1>2. CASE GraceElapses \/ WindowExpires \/ QuietEnds
  <2>1. settle'.requested = settle.requested
    BY <1>0, <1>2 DEF GraceElapses, WindowExpires, QuietEnds, SettlementType
  <2> QED
    BY <1>2, <2>1 DEF GraceElapses, WindowExpires, QuietEnds, timeUnchanged, fenceVars,
       dispatchVars, hostVars, exitVars
<1>3. CASE Connect \/ HeartbeatTimeout \/ PipeBreaks
  BY <1>0, <1>3 DEF Connect, HeartbeatTimeout, PipeBreaks, sessionVars, fenceVars,
     dispatchVars, exitVars
<1>4. CASE \E event \in Events : Notify(event)
  BY <1>4 DEF Notify, sessionVars, fenceVars, dispatchVars, exitVars
<1>5. CASE FireTicket
  <2> DEFINE m == [kind |-> "Event", event |-> ticket.event, gen |-> ticket.gen,
                   epoch |-> ticket.epoch]
  <2>1. ticket \in [event : EventKinds, gen : Nat, epoch : Nat]
    BY <1>5 DEF FireTicket, IInv, TypeOK, HostTypes
  <2>2. m \in MessageType /\ m.kind = "Event"
    BY <2>1 DEF MessageType
  <2>3. mailbox' = Append(mailbox, m)
    BY <1>5 DEF FireTicket
  <2> HIDE DEF m
  <2>4. ~IsCompletion(m) /\ m \notin Unsent(bound)
    BY <2>2 DEF IsCompletion, Unsent
  <2> QED
    BY <1>5, <2>2, <2>3, <2>4 DEF FireTicket, sessionVars, fenceVars, dispatchVars, exitVars
<1>6. CASE \E kind \in Commands : Send(kind)
  <2>1. PICK kind \in Commands : Send(kind)
    BY <1>6
  <2>2. PICK m \in CommandsOf(kind) : mailbox' = Append(mailbox, m)
    BY <2>1 DEF Send
  <2>3. kind # "Reset" /\ 0 < bound
    BY <2>1 DEF NoReset, Send, ClientSends, EpochInv
  <2>4. m \in MessageType
    BY <2>1, <2>2, CommandTyped DEF Send
  <2>5. ~IsCompletion(m) /\ m.kind # "Reset" /\ m.kind # "Repair"
        /\ (m.kind = "Apply" => m.epoch = bound)
    <3>1. kind \in CommandKinds /\ kind # "Stop"
      BY <2>1, ConstantsAssumption DEF ConstantsAssumption, Send
    <3> QED
      BY <2>2, <2>3, <3>1 DEF CommandsOf, CommandKinds, IsCompletion
  <2>6. m \notin Unsent(bound)
    BY <1>0, <2>3, <2>5 DEF Unsent
  <2> QED
    BY <2>1, <2>2, <2>4, <2>5, <2>6 DEF Send, ClientSends, sessionVars, fenceVars
<1> QED
  BY <1>1, <1>2, <1>3, <1>4, <1>5, <1>6 DEF Aside, PipeStep

-----------------------------------------------------------------------------
(* Repairs of a request are stale for every later epoch.                    *)
LEMMA DeadLater ==
  ASSUME IInv, PendingInv, NEW e \in Nat, req.epoch < e
  PROVE  Free(deferred, LiveRepairs(e)) /\ Free(todo, Frames(LiveRepairs(e)))
<1>1. req.epoch \in Nat
  BY DEF IInv, TypeOK, SessionTypes
<1>2. \A m \in MessageType : m.kind = "Repair" => m.epoch \in Nat
  BY DEF MessageType, DeferrableType, ApplyDoneType
<1>3. LiveRepairs(e) \subseteq Unheard(bound, req.epoch)
  BY <1>1, <1>2 DEF LiveRepairs, Unheard
<1> QED
  BY <1>3, FramesPart, FreePart DEF PendingInv

(* The order of two queues survives a message of another kind.              *)
LEMMA AppendOrder ==
  ASSUME IInv, OrderInv, UNCHANGED <<tasks, todo>>,
         mailbox' = mailbox \/
           \E m \in MessageType : mailbox' = Append(mailbox, m) /\ ~IsCompletion(m)
  PROVE  OrderInv'
<1>1. CASE mailbox' = mailbox
  BY <1>1 DEF OrderInv
<1>2. ASSUME NEW m \in MessageType, mailbox' = Append(mailbox, m), ~IsCompletion(m)
      PROVE  OrderInv'
  <2>1. mailbox \in Seq(MessageType)
    BY DEF IInv, TypeOK, HostTypes
  <2>2. m \notin MutationDones /\ m \notin ResetDones
    BY <1>2, MutationWork, ResetWork DEF Work
  <2>3. /\ Behind(mailbox', MutationDones, ResetDones)
        /\ Free(mailbox, MutationDones) => Free(mailbox', MutationDones)
        /\ Free(mailbox, ResetDones) => Free(mailbox', ResetDones)
    BY <1>2, <2>1, <2>2, BehindMoves, AppendSole DEF OrderInv
  <2> QED
    BY <2>3 DEF OrderInv
<1> QED
  BY <1>1, <1>2

(* Steps that leave worker, checks and generation keep what they are about. *)
LEMMA FlowKeeps ==
  ASSUME IInv, FenceInv, GenInv, UNCHANGED <<worker, gen, timers>>,
         Quiet
  PROVE  /\ FenceInv' /\ GenInv'
         /\ CheckNone(gen) => CheckNone(gen)'
         /\ CheckOne(gen) => CheckOne(gen)'
<1>1. PICK w : w = worker /\ worker' = w
  OBVIOUS
<1>2. PICK g : g = gen /\ gen' = g
  OBVIOUS
<1>3. /\ NoneOf(MutationTasks, MutationDones) => NoneOf(MutationTasks, MutationDones)'
      /\ OneOf(MutationTasks, MutationDones) => OneOf(MutationTasks, MutationDones)'
      /\ NoneOf(ForeignTasks(w), ForeignDones(w)) => NoneOf(ForeignTasks(w), ForeignDones(w))'
      /\ NoneOf(LateTasks(g), LateDones(g)) => NoneOf(LateTasks(g), LateDones(g))'
      /\ NoneOf(FreshTasks(g), FreshDones(g)) => NoneOf(FreshTasks(g), FreshDones(g))'
      /\ OneOf(FreshTasks(g), FreshDones(g)) => OneOf(FreshTasks(g), FreshDones(g))'
  BY QuietFlow, MutationWork
<1>4. FenceInv'
  <2>1. CASE worker = None
    BY <1>3, <2>1 DEF FenceInv
  <2>2. CASE worker # None
    BY <1>1, <1>3, <2>2 DEF FenceInv
  <2> QED
    BY <2>1, <2>2
<1>5. GenInv'
  BY <1>2, <1>3 DEF GenInv, LateNone
<1>6. /\ CheckNone(gen) => CheckNone(gen)'
      /\ CheckOne(gen) => CheckOne(gen)'
  BY <1>2, <1>3 DEF CheckNone, CheckOne
<1> QED
  BY <1>4, <1>5, <1>6

(* Steps of the pipe, of Windows and of time.                               *)
LEMMA AsideMutation ==
  ASSUME IInv, IInv', MutationInv, Aside, NoReset
  PROVE  MutationInv'
<1> USE DEF MutationInv
<1>0. /\ bound \in Nat /\ epoch \in Nat /\ req.epoch \in Nat /\ bound' \in Nat /\ epoch' \in Nat
      /\ mailbox \in Seq(MessageType) /\ todo \in Seq(FrameType)
  BY DEF IInv, TypeOK, HostTypes, SessionTypes, FenceTypes
<1>1. /\ UNCHANGED <<state, req, staging, worker, deferred, held, todo, gen, tasks,
                     timers, running>>
      /\ settle'.requested = settle.requested
      /\ \/ UNCHANGED <<epoch, bound, link>>
         \/ /\ epoch' = epoch + 1 /\ bound' = bound
            /\ link \in {"up", "broken"} /\ link' \in {"up", "broken"}
         \/ epoch' = epoch + 1 /\ bound' = epoch + 1
      /\ \/ mailbox' = mailbox
         \/ /\ bound' = bound
            /\ \E m \in MessageType : /\ mailbox' = Append(mailbox, m)
                                      /\ ~IsCompletion(m)
                                      /\ m \notin Unsent(bound)
  BY AsideMoves
<1>2. Quiet
  BY DEF Aside, Quiet, PassOfTime
<1>3. bound <= epoch /\ req.epoch <= bound
  BY DEF EpochInv
<1>4. /\ bound <= bound' /\ epoch <= epoch'
      /\ epoch' = epoch \/ req.epoch < epoch'
  BY <1>0, <1>1, <1>3
<1>5. EpochInv'
  BY <1>0, <1>1, <1>3 DEF EpochInv
<1>6. PendingInv'
  <2>1. /\ Unheard(bound', req.epoch) \subseteq Unheard(bound, req.epoch)
        /\ Unsent(bound') \subseteq Unsent(bound)
    BY <1>0, <1>4, UnheardPart
  <2>2. /\ Free(deferred, Unheard(bound', req.epoch))
        /\ Free(todo, Frames(Unheard(bound', req.epoch)))
        /\ Free(mailbox, Unsent(bound'))
    BY <2>1, FreePart, FramesPart DEF PendingInv
  <2>3. Free(mailbox', Unsent(bound'))
    <3>1. CASE mailbox' = mailbox
      BY <2>2, <3>1
    <3>2. ASSUME NEW m \in MessageType, bound' = bound, mailbox' = Append(mailbox, m),
                 m \notin Unsent(bound)
          PROVE  Free(mailbox', Unsent(bound'))
      BY <1>0, <2>2, <3>2, AppendSole
    <3> QED
      BY <1>1, <3>1, <3>2
  <2> QED
    BY <1>1, <2>2, <2>3 DEF PendingInv
<1>7. ShapeInv' /\ EventLoopInv' /\ OrderInv'
  <2>1. OrderInv'
    BY <1>1, AppendOrder
  <2>2. ShapeInv' /\ EventLoopInv'
    BY <1>1 DEF ShapeInv, EventLoopInv
  <2> QED
    BY <2>1, <2>2
<1>8. ResetInv'
  BY <1>1, <1>2, QuietFlow, ResetWork DEF ResetInv
<1>9. /\ FenceInv' /\ GenInv'
      /\ CheckNone(gen) => CheckNone(gen)'
      /\ CheckOne(gen) => CheckOne(gen)'
  BY <1>1, <1>2, FlowKeeps
<1>10. PICK e \in Nat : e = epoch'
  BY <1>0
<1>11. /\ Free(deferred, LiveRepairs(epoch)) => Free(deferred, LiveRepairs(e))
       /\ Free(todo, Frames(LiveRepairs(epoch))) => Free(todo, Frames(LiveRepairs(e)))
       /\ req.epoch < epoch => req.epoch < e
  <2>1. CASE e = epoch
    BY <2>1
  <2>2. CASE req.epoch < e
    BY <2>2, DeadLater
  <2> QED
    BY <1>4, <1>10, <2>1, <2>2
<1>12. CheckInv'
  <2>1. CheckAlone => CheckAlone'
    BY <1>1, <1>10, <1>11 DEF CheckAlone
  <2> QED
    BY <1>9, <2>1 DEF CheckInv
<1>13. StackInv'
  <2>1. FenceUp' <=> FenceUp
    BY <1>1 DEF FenceUp, WorkerActive
  <2>2. /\ Drained(todo)' <=> Drained(todo)
        /\ OnTop("outcome")' <=> OnTop("outcome")
        /\ OnTop("resume")' <=> OnTop("resume")
        /\ UNCHANGED <<held, deferred, todo, running>>
    BY <1>1 DEF Drained, OnTop
  <2> QED
    BY <1>10, <1>11, <2>1, <2>2, Zenon DEF StackInv
<1> QED
  BY <1>5, <1>6, <1>7, <1>8, <1>9, <1>12, <1>13

-----------------------------------------------------------------------------
(* The worker thread reports what it runs in the order it was dispatched.   *)
LEMMA WorkerOrder ==
  ASSUME IInv, OrderInv, WorkerThread
  PROVE  OrderInv'
<1>0. tasks \in Seq(TaskType) /\ mailbox \in Seq(MessageType) /\ todo' = todo
  BY WorkerMoves DEF IInv, TypeOK, DispatchTypes, HostTypes
<1>1. CASE UNCHANGED <<tasks, mailbox>>
  BY <1>0, <1>1 DEF OrderInv
<1>2. ASSUME NEW m \in MessageType, tasks # <<>>, tasks' = Tail(tasks),
             mailbox' = Append(mailbox, m), <<Head(tasks).op, m.kind>> \in Reports,
             m.gen = Head(tasks).gen
      PROVE  OrderInv'
  <2>1. /\ Head(tasks) \in MutationTasks <=> m \in MutationDones
        /\ Head(tasks) \in ResetTasks <=> m \in ResetDones
    <3>1. Head(tasks) \in TaskType
      BY <1>0, <1>2, TailType
    <3> HIDE DEF Reports
    <3> QED
      BY <1>2, <3>1, MutationWork, ResetWork DEF Work
  <2>2. ~(m \in MutationDones /\ m \in ResetDones)
    BY DEF MutationDones, ResetDones, IsMutationDone, IsResetDone
  <2>3. /\ Free(tasks, ResetTasks) => Head(tasks) \notin ResetTasks /\ Free(tasks', ResetTasks)
        /\ Behind(tasks', MutationTasks, ResetTasks)
        /\ Head(tasks) \in MutationTasks => Free(tasks', ResetTasks)
    BY <1>0, <1>2, TailSole, BehindMoves DEF OrderInv
  <2>4. /\ m \notin MutationDones /\ Free(mailbox, MutationDones)
             => Free(mailbox', MutationDones)
        /\ m \notin ResetDones /\ Free(mailbox, ResetDones) => Free(mailbox', ResetDones)
    BY <1>0, <1>2, AppendSole
  <2>5. Behind(mailbox', MutationDones, ResetDones)
    <3>1. m \notin ResetDones => Behind(mailbox', MutationDones, ResetDones)
      BY <1>0, <1>2, BehindMoves DEF OrderInv
    <3>2. m \in ResetDones => Free(mailbox, MutationDones) /\ m \notin MutationDones
      BY <2>1, <2>2, <2>3 DEF OrderInv
    <3>3. m \notin MutationDones /\ Free(mailbox, MutationDones)
            => Behind(mailbox', MutationDones, ResetDones)
      BY <1>0, <1>2, BehindMoves DEF OrderInv
    <3> QED
      BY <3>1, <3>2, <3>3
  <2>6. Free(tasks', ResetTasks)
          \/ (Free(mailbox', MutationDones) /\ Free(todo', Frames(MutationDones)))
    BY <1>0, <2>1, <2>3, <2>4 DEF OrderInv
  <2>7. Free(mailbox', ResetDones) \/ Free(todo', Frames(MutationDones))
    BY <1>0, <2>1, <2>3, <2>4 DEF OrderInv
  <2> QED
    BY <2>3, <2>5, <2>6, <2>7 DEF OrderInv
<1> QED
  BY <1>1, <1>2, WorkerMoves

(* The worker thread.                                                       *)
LEMMA WorkerMutation ==
  ASSUME IInv, IInv', MutationInv, WorkerThread
  PROVE  MutationInv'
<1> USE DEF MutationInv
<1>1. /\ UNCHANGED <<state, req, settle, staging, worker, deferred, held, todo, gen,
                     timers, epoch, bound, link, running>>
      /\ \/ mailbox' = mailbox
         \/ \E m \in MessageType : mailbox' = Append(mailbox, m) /\ IsCompletion(m)
  <2>1. UNCHANGED <<state, req, settle, staging, worker, deferred, held, todo, gen,
                    timers, epoch, bound, link, running>>
    BY WorkerMoves
  <2>2. \A p \in Reports : p[2] \in {"ApplyDone", "VerifyDone", "ResetDone",
                                     "RefreshDone", "RecoverDone", "ValidateDone"}
    BY DEF Reports
  <2> HIDE DEF Reports
  <2>3. \A o, k : <<o, k>> \in Reports => k \in {"ApplyDone", "VerifyDone", "ResetDone",
                                     "RefreshDone", "RecoverDone", "ValidateDone"}
    BY <2>2
  <2> QED
    BY <2>1, <2>3, WorkerMoves DEF IsCompletion
<1>2. Quiet
  BY DEF Quiet
<1>3. PendingInv'
  <2>1. Free(mailbox', Unsent(bound))
    <3>1. CASE mailbox' = mailbox
      BY <3>1 DEF PendingInv
    <3>2. ASSUME NEW m \in MessageType, mailbox' = Append(mailbox, m), IsCompletion(m)
          PROVE  Free(mailbox', Unsent(bound))
      <4>1. m \notin Unsent(bound)
        BY <3>2 DEF IsCompletion, Unsent
      <4>2. mailbox \in Seq(MessageType)
        BY DEF IInv, TypeOK, HostTypes
      <4> QED
        BY <3>2, <4>1, <4>2, AppendSole DEF PendingInv
    <3> QED
      BY <1>1, <3>1, <3>2
  <2> QED
    BY <1>1, <2>1 DEF PendingInv
<1>4. ShapeInv' /\ EventLoopInv' /\ EpochInv'
  BY <1>1 DEF ShapeInv, EventLoopInv, EpochInv
<1>5. OrderInv'
  BY WorkerOrder
<1>6. ResetInv'
  BY <1>1, <1>2, QuietFlow, ResetWork DEF ResetInv
<1>7. /\ FenceInv' /\ GenInv'
      /\ CheckNone(gen) => CheckNone(gen)'
      /\ CheckOne(gen) => CheckOne(gen)'
  BY <1>1, <1>2, FlowKeeps
<1>8. CheckInv'
  <2>1. CheckAlone => CheckAlone'
    BY <1>1 DEF CheckAlone
  <2> QED
    BY <1>7, <2>1 DEF CheckInv
<1>9. StackInv'
  BY <1>1 DEF StackInv, FenceUp, WorkerActive, Drained, OnTop
<1> QED
  BY <1>3, <1>4, <1>5, <1>6, <1>7, <1>8, <1>9

-----------------------------------------------------------------------------
(* A batch is neither a drained command nor the rest of a completion.       *)
LEMMA BatchTop ==
  ASSUME NEW q \in Seq(FrameType), Batch(q)
  PROVE  /\ ~Drained(q)
         /\ q # <<>> => Head(q).op = "handle"
         /\ Free(q, FinishFrames)
<1>1. /\ \A i \in DOMAIN q : q[i].op = "handle"
      /\ DOMAIN q = 1..Len(q) /\ Len(q) \in Nat
  BY DEF Batch
<1>2. q # <<>> => Head(q).op = "handle"
  BY <1>1
<1>3. Free(q, FinishFrames)
  BY <1>1 DEF Free, FinishFrames
<1>4. ~Drained(q)
  <2> SUFFICES ASSUME Drained(q) PROVE FALSE
    OBVIOUS
  <2>1. q # <<>> /\ Tail(q) # <<>> /\ Head(Tail(q)) = DrainFrame
    BY DEF Drained, Draining
  <2>2. 2 \in DOMAIN q /\ Head(Tail(q)) = q[2]
    BY <1>1, <2>1
  <2> QED
    BY <1>1, <2>1, <2>2 DEF DrainFrame
<1> QED
  BY <1>2, <1>3, <1>4

(* With nothing on the stack nothing is held, and no live repair is left.   *)
LEMMA IdleStack ==
  ASSUME StackInv, todo = <<>>, running
  PROVE  held = None /\ (FenceUp \/ Free(deferred, LiveRepairs(epoch)))
<1>1. \A G : Free(<<>>, G)
  BY DEF Free
<1> QED
  BY <1>1 DEF StackInv

(* A new batch on the stack.                                                *)
LEMMA BatchStack ==
  ASSUME IInv', Batch(todo'), held' = None,
         FenceUp' \/ Free(deferred', LiveRepairs(epoch'))
  PROVE  StackInv'
<1>1. todo' \in Seq(FrameType)
  BY DEF IInv, TypeOK, FenceTypes
<1>2. ~Drained(todo') /\ (todo' # <<>> => Head(todo').op = "handle")
  BY <1>1, BatchTop
<1> QED
  BY <1>2 DEF StackInv, OnTop

(* The main thread takes a message.                                         *)
LEMMA ReceiveMutation ==
  ASSUME IInv, IInv', MutationInv, Receive
  PROVE  MutationInv'
<1> USE DEF MutationInv
<1>1. /\ UNCHANGED <<state, req, settle, staging, worker, deferred, held, gen, tasks,
                     timers, epoch, bound, running>>
      /\ link' \in {link, "broken"} /\ (link' = "broken" => link \in {"up", "broken"})
      /\ todo = <<>> /\ running
      /\ \A G : Free(mailbox, G) => Free(mailbox', G) /\ Free(todo', Frames(G))
      /\ \A f \in FrameType : f.op # "handle" => Free(todo', {f})
  BY ReceiveMoves
<1>2. Quiet /\ mailbox \in Seq(MessageType) /\ mailbox # <<>>
  BY ReceiveMoves DEF Quiet, IInv, TypeOK, HostTypes
<1> DEFINE R == {m \in MessageType : m.kind = "Repair"}
<1>3. Free(mailbox, R) /\ Batch(todo')
  <2>1. R \subseteq Unsent(bound)
    BY DEF Unsent
  <2>2. Free(mailbox, R)
    BY <2>1, FreePart DEF PendingInv
  <2> QED
    BY <2>2, ReceiveMoves
<1>4. ShapeInv' /\ EventLoopInv'
  BY <1>1, <1>3 DEF ShapeInv, EventLoopInv
<1>5. PendingInv'
  <2>1. Unheard(bound, req.epoch) \subseteq Unsent(bound)
    BY DEF Unheard, Unsent
  <2>2. Free(mailbox', Unsent(bound)) /\ Free(mailbox, Unheard(bound, req.epoch))
    BY <1>1, <2>1, FreePart DEF PendingInv
  <2> QED
    BY <1>1, <2>2 DEF PendingInv
<1>6. EpochInv'
  BY <1>1 DEF EpochInv
<1>7. ResetInv'
  BY <1>1, <1>2, QuietFlow, ResetWork DEF ResetInv
<1>8. /\ FenceInv' /\ GenInv'
      /\ CheckNone(gen) => CheckNone(gen)'
      /\ CheckOne(gen) => CheckOne(gen)'
  BY <1>1, <1>2, FlowKeeps
<1>9. OrderInv'
  <2>1. /\ Behind(mailbox', MutationDones, ResetDones)
        /\ Behind(tasks', MutationTasks, ResetTasks)
    BY <1>1, ReceiveMoves DEF OrderInv
  <2>2. Free(tasks', ResetTasks)
          \/ (Free(mailbox', MutationDones) /\ Free(todo', Frames(MutationDones)))
    BY <1>1 DEF OrderInv
  <2>3. Free(mailbox', ResetDones) \/ Free(todo', Frames(MutationDones))
    <3>1. CASE Head(mailbox) \in MutationDones
      <4>1. Free(Tail(mailbox), ResetDones)
        BY <1>2, <3>1, BehindMoves DEF OrderInv
      <4> QED
        BY <4>1, ReceiveMoves
    <3>2. CASE Head(mailbox) \notin MutationDones
      <4>1. \A m \in MutationDones : IsCompletion(m)
        BY DEF MutationDones, IsMutationDone, IsCompletion
      <4> QED
        BY <3>2, <4>1, ReceiveMoves
    <3> QED
      BY <3>1, <3>2
  <2> QED
    BY <2>1, <2>2, <2>3 DEF OrderInv
<1>10. CheckInv'
  <2>1. Free(todo', FinishFrames)
    BY <1>3, BatchTop DEF IInv, TypeOK, FenceTypes
  <2>2. Free(todo', Frames(LiveRepairs(epoch)))
    <3>1. LiveRepairs(epoch) \subseteq R
      BY DEF LiveRepairs
    <3>2. Free(mailbox, LiveRepairs(epoch))
      BY <1>3, <3>1, FreePart
    <3> QED
      BY <1>1, <3>2
  <2>3. CheckAlone => CheckAlone'
    BY <1>1, <2>1, <2>2 DEF CheckAlone
  <2> QED
    BY <1>8, <2>3 DEF CheckInv
<1>11. StackInv'
  <2>1. held = None /\ (FenceUp \/ Free(deferred, LiveRepairs(epoch)))
    BY <1>1, IdleStack
  <2>2. FenceUp' <=> FenceUp
    BY <1>1 DEF FenceUp, WorkerActive
  <2> QED
    BY <1>1, <1>3, <2>1, <2>2, BatchStack
<1> QED
  BY <1>4, <1>5, <1>6, <1>7, <1>8, <1>9, <1>10, <1>11

-----------------------------------------------------------------------------
(* No check is of a generation to come, nor of one that begins.             *)
LEMMA LaterFlow ==
  ASSUME IInv, GenInv, Quiet, NEW g \in Nat, gen <= g
  PROVE  /\ NoneOf(LateTasks(g), LateDones(g))' /\ Free(timers, LateTimers(g))
         /\ gen < g => /\ NoneOf(FreshTasks(g), FreshDones(g))'
                       /\ Free(timers, FreshTimers(g))
<1>1. gen \in Nat
  BY DEF IInv, TypeOK, DispatchTypes
<1>2. /\ \A t \in TaskType : t.gen \in Nat
      /\ \A m \in MessageType : m.kind = "VerifyDone" => m.gen \in Nat
  BY DEF TaskType, MessageType, DeferrableType, ApplyDoneType
<1>3. NoneOf(LateTasks(gen), LateDones(gen)) /\ Free(timers, LateTimers(gen))
  BY DEF GenInv, LateNone
<1>4. /\ LateTasks(g) \subseteq LateTasks(gen) /\ LateDones(g) \subseteq LateDones(gen)
      /\ LateTimers(g) \subseteq LateTimers(gen)
  BY <1>1, <1>2 DEF LateTasks, LateDones, LateTimers
<1>5. gen < g => /\ FreshTasks(g) \subseteq LateTasks(gen)
                 /\ FreshDones(g) \subseteq LateDones(gen)
                 /\ FreshTimers(g) \subseteq LateTimers(gen)
  BY <1>1 DEF LateTasks, LateDones, LateTimers, FreshTasks, FreshDones, FreshTimers
<1>6. /\ NoneOf(LateTasks(g), LateDones(g)) /\ Free(timers, LateTimers(g))
      /\ gen < g => /\ NoneOf(FreshTasks(g), FreshDones(g))
                    /\ Free(timers, FreshTimers(g))
  BY <1>3, <1>4, <1>5, NonePart, FreePart
<1> QED
  BY <1>6, QuietFlow, MutationWork

(* STOP cancels every check.                                                *)
LEMMA StopMutation ==
  ASSUME IInv, IInv', MutationInv, SendStop
  PROVE  MutationInv'
<1> USE DEF MutationInv
<1>1. /\ UNCHANGED <<state, req, settle, staging, worker, deferred, held, todo, tasks,
                     timers, epoch, bound, link, mailbox>>
      /\ running /\ ~running' /\ gen' = gen + 1 /\ gen \in Nat
  BY DEF SendStop, ClientSends, sessionVars, fenceVars, IInv, TypeOK, DispatchTypes
<1>2. Quiet
  BY DEF Quiet, PipeStep, PassOfTime
<1>3. PICK g \in Nat : g = gen' /\ gen < g
  BY <1>1
<1>4. GenInv' /\ CheckNone(gen)'
  BY <1>1, <1>2, <1>3, LaterFlow DEF GenInv, LateNone, CheckNone
<1>5. /\ ShapeInv' /\ PendingInv' /\ EpochInv' /\ ResetInv' /\ FenceInv' /\ EventLoopInv'
      /\ OrderInv'
  BY <1>1 DEF ShapeInv, PendingInv, EpochInv, ResetInv, FenceInv, EventLoopInv, OrderInv,
     NoneOf, OneOf
<1>6. StackInv'
  BY <1>1 DEF StackInv, FenceUp, WorkerActive, Drained, OnTop
<1> QED
  BY <1>4, <1>5, <1>6 DEF CheckInv

(* A connection that retires starts a check, a REVERT or nothing.           *)
LEMMA DisconnectMoves ==
  ASSUME IInv, Disconnect
  PROVE  /\ UNCHANGED <<req, staging, worker, deferred, held, tasks, epoch, bound, running>>
         /\ running /\ todo = <<>> /\ epoch # bound /\ link' = "listening"
         /\ mailbox' \in Filtered(mailbox, NotOfRetired)
         /\ \/ todo' = <<>>
            \/ \E m \in MessageType : m.kind = "Revert" /\ todo' = <<HandleFrame(m)>>
         /\ \/ UNCHANGED <<state, gen, timers>>
            \/ /\ worker = None /\ todo' = <<>>
               /\ \/ gen' = gen /\ state # "Verification"
                  \/ gen' = gen + 1
               /\ \/ state' = state /\ timers' = timers
                  \/ /\ state' = "Verification"
                     /\ \E n \in Nat : timers' = Append(timers, [gen |-> gen', for |-> n])
<1>1. RetireConnection
  BY DEF Disconnect, DisconnectKeeps, DisconnectWaits, DisconnectChecks, DisconnectReverts
<1>2. /\ UNCHANGED <<req, staging, worker, deferred, held, epoch, bound, running>>
      /\ running /\ todo = <<>> /\ epoch # bound /\ link' = "listening"
      /\ mailbox' \in Filtered(mailbox, NotOfRetired)
  BY <1>1 DEF RetireConnection, Idle, fenceVars
<1>3. CASE DisconnectKeeps \/ DisconnectWaits
  BY <1>2, <1>3 DEF DisconnectKeeps, DisconnectWaits, dispatchVars
<1>4. CASE DisconnectReverts
  <2> DEFINE m == [kind |-> "Revert", seq |-> 0, epoch |-> 0, fromDisconnect |-> TRUE]
  <2>1. m \in MessageType /\ m.kind = "Revert"
    BY DEF MessageType, DeferrableType
  <2>2. todo' = <<HandleFrame(m)>> /\ UNCHANGED <<state, gen, tasks, timers>>
    BY <1>4 DEF DisconnectReverts, dispatchVars
  <2> HIDE DEF m
  <2> QED
    BY <1>2, <2>1, <2>2
<1>5. CASE DisconnectChecks
  <2>1. worker = None /\ (sess.verified \/ state # "Verification")
    BY <1>5 DEF DisconnectChecks, DecisionOwned, WorkerActive
  <2>2. \/ gen' = gen /\ state # "Verification"
        \/ gen' = gen + 1
    BY <1>5, <2>1 DEF DisconnectChecks
  <2>3. req.seq \in Nat
    BY DEF IInv, TypeOK, SessionTypes
  <2>4. \/ state' = state /\ timers' = timers
        \/ state' = "Verification" /\ timers' = Append(timers, [gen |-> gen', for |-> req.seq])
    BY <1>5 DEF DisconnectChecks, DispatchCheck
  <2>5. todo' = <<>> /\ UNCHANGED tasks
    BY <1>2, <1>5 DEF DisconnectChecks
  <2> QED
    BY <1>2, <2>1, <2>2, <2>3, <2>4, <2>5
<1> QED
  BY <1>3, <1>4, <1>5 DEF Disconnect

-----------------------------------------------------------------------------
(* The check of a connection that retires is the only one, and has the      *)
(* fence for itself.                                                        *)
LEMMA DisconnectCheck ==
  ASSUME IInv, IInv', MutationInv, Disconnect, ~UNCHANGED <<state, gen, timers>>
  PROVE  GenInv' /\ CheckInv' /\ worker = None /\ todo' = <<>>
<1> USE DEF MutationInv
<1>1. /\ UNCHANGED <<req, staging, worker, deferred, tasks, epoch, bound>>
      /\ epoch # bound /\ worker = None /\ todo' = <<>>
      /\ \/ gen' = gen /\ state # "Verification"
         \/ gen' = gen + 1
      /\ \/ state' = state /\ timers' = timers
         \/ /\ state' = "Verification"
            /\ \E n \in Nat : timers' = Append(timers, [gen |-> gen', for |-> n])
  BY DisconnectMoves, Zenon
<1>2. gen \in Nat /\ gen' \in Nat /\ timers \in Seq([gen : Nat, for : Nat])
  BY DEF IInv, TypeOK, DispatchTypes
<1>3. PICK g \in Nat : g = gen' /\ gen <= g /\ (g = gen \/ gen < g)
  BY <1>1, <1>2
<1>4. Quiet
  BY DEF Quiet
<1>5. NoneOf(LateTasks(g), LateDones(g))' /\ Free(timers, LateTimers(g))
  BY <1>3, <1>4, LaterFlow
<1>6. NoneOf(FreshTasks(g), FreshDones(g))' /\ Free(timers, FreshTimers(g))
  <2>1. CASE gen < g
    BY <1>3, <1>4, <2>1, LaterFlow
  <2>2. CASE g = gen
    <3>1. state # "Verification"
      BY <1>1, <1>2, <1>3, <2>2
    <3>2. CheckNone(gen)
      BY <3>1 DEF CheckInv, CheckAlone
    <3>3. NoneOf(FreshTasks(g), FreshDones(g)) /\ Free(timers, FreshTimers(g))
      BY <2>2, <3>2 DEF CheckNone
    <3> QED
      BY <1>4, <3>3, QuietFlow, MutationWork
  <2> QED
    BY <1>3, <2>1, <2>2
<1>7. CASE timers' = timers
  BY <1>1, <1>3, <1>5, <1>6, <1>7 DEF GenInv, LateNone, CheckInv, CheckNone
<1>8. ASSUME NEW n \in Nat, timers' = Append(timers, [gen |-> gen', for |-> n]),
             state' = "Verification"
      PROVE  GenInv' /\ CheckInv'
  <2> DEFINE t == [gen |-> g, for |-> n]
  <2>1. t \notin LateTimers(g) /\ t \in FreshTimers(g) /\ timers' = Append(timers, t)
    BY <1>3, <1>8 DEF LateTimers, FreshTimers
  <2> HIDE DEF t
  <2>2. Free(timers', LateTimers(g)) /\ Sole(timers', FreshTimers(g))
    BY <1>2, <1>5, <1>6, <2>1, AppendSole
  <2>3. GenInv' /\ CheckOne(gen)'
    BY <1>3, <1>5, <1>6, <2>2 DEF GenInv, LateNone, CheckOne
  <2>4. req.epoch < epoch
    <3>1. bound <= epoch /\ req.epoch <= bound /\ bound \in Nat /\ epoch \in Nat
          /\ req.epoch \in Nat
      BY DEF EpochInv, IInv, TypeOK, HostTypes, SessionTypes
    <3> QED
      BY <1>1, <3>1
  <2>5. Free(deferred, LiveRepairs(epoch))
    BY <2>4, DeadRepairs
  <2>6. \A G : Free(<<>>, G)
    BY DEF Free
  <2>7. CheckAlone'
    BY <1>1, <1>8, <2>4, <2>5, <2>6 DEF CheckAlone
  <2> QED
    BY <2>3, <2>7 DEF CheckInv
<1> QED
  BY <1>1, <1>7, <1>8

(* The disconnect branch of the host loop.                                  *)
LEMMA DisconnectMutation ==
  ASSUME IInv, IInv', MutationInv, Disconnect
  PROVE  MutationInv'
<1> USE DEF MutationInv
<1>1. /\ UNCHANGED <<req, staging, worker, deferred, held, tasks, epoch, bound, running>>
      /\ running /\ todo = <<>> /\ epoch # bound /\ link' = "listening"
      /\ mailbox' \in Filtered(mailbox, NotOfRetired)
      /\ \/ todo' = <<>>
         \/ \E m \in MessageType : m.kind = "Revert" /\ todo' = <<HandleFrame(m)>>
  BY DisconnectMoves
<1>2. Quiet
  BY DEF Quiet
<1>3. /\ bound \in Nat /\ epoch \in Nat /\ req.epoch \in Nat
      /\ bound <= epoch /\ req.epoch <= bound /\ req.epoch < epoch
  <2>1. bound \in Nat /\ epoch \in Nat /\ req.epoch \in Nat
    BY DEF IInv, TypeOK, HostTypes, SessionTypes
  <2>2. bound <= epoch /\ req.epoch <= bound
    BY DEF EpochInv
  <2> QED
    BY <1>1, <2>1, <2>2
<1>4. EpochInv'
  BY <1>1, <1>3 DEF EpochInv
<1>5. Batch(todo') /\ \A M : (\A m \in M : m.kind # "Revert") => Free(todo', Frames(M))
  <2>1. CASE todo' = <<>>
    BY <2>1 DEF Batch, Free
  <2>2. ASSUME NEW m \in MessageType, m.kind = "Revert", todo' = <<HandleFrame(m)>>
        PROVE  Batch(todo') /\ \A M : (\A k \in M : k.kind # "Revert") => Free(todo', Frames(M))
    <3> DEFINE f == HandleFrame(m)
    <3>1. f.op = "handle" /\ f.msg.kind # "Repair"
      BY <2>2 DEF HandleFrame
    <3>2. \A M : (\A k \in M : k.kind # "Revert") => f \notin Frames(M)
      BY <2>2, FrameOf
    <3> HIDE DEF f
    <3>3. DOMAIN <<f>> = {1} /\ Len(<<f>>) = 1 /\ <<f>>[1] = f
      OBVIOUS
    <3>4. todo' = <<f>>
      BY <2>2 DEF f
    <3> QED
      BY <3>1, <3>2, <3>3, <3>4 DEF Batch, Free
  <2> QED
    BY <1>1, <2>1, <2>2
<1>6. PendingInv'
  <2>1. Free(mailbox', Unsent(bound))
    BY <1>1, RetireKeeps DEF PendingInv
  <2>2. \A m \in Unheard(bound, req.epoch) : m.kind # "Revert"
    BY DEF Unheard
  <2> QED
    BY <1>1, <1>5, <2>1, <2>2 DEF PendingInv
<1>7. ResetInv'
  BY <1>1, <1>2, QuietFlow, ResetWork DEF ResetInv
<1>8. OrderInv'
  <2>1. /\ Behind(mailbox', MutationDones, ResetDones)
        /\ Free(mailbox, MutationDones) => Free(mailbox', MutationDones)
    BY <1>1, RetireKeeps DEF OrderInv
  <2>2. Free(todo', Frames(MutationDones))
    <3>1. \A m \in MutationDones : m.kind # "Revert"
      BY DEF MutationDones, IsMutationDone
    <3> QED
      BY <1>5, <3>1
  <2> QED
    BY <1>1, <2>1, <2>2 DEF OrderInv
<1>9. StackInv'
  <2>1. held = None /\ (FenceUp \/ Free(deferred, LiveRepairs(epoch)))
    BY <1>1, IdleStack
  <2>2. FenceUp' <=> FenceUp
    BY <1>1 DEF FenceUp, WorkerActive
  <2> QED
    BY <1>1, <1>5, <2>1, <2>2, BatchStack
<1>10. CASE UNCHANGED <<state, gen, timers>>
  <2>1. /\ FenceInv' /\ GenInv'
        /\ CheckNone(gen) => CheckNone(gen)'
        /\ CheckOne(gen) => CheckOne(gen)'
    BY <1>1, <1>2, <1>10, FlowKeeps
  <2>2. Free(todo', FinishFrames)
    BY <1>5, BatchTop DEF IInv, TypeOK, FenceTypes
  <2>3. Free(todo', Frames(LiveRepairs(epoch)))
    <3>1. \A m \in LiveRepairs(epoch) : m.kind # "Revert"
      BY DEF LiveRepairs
    <3> QED
      BY <1>5, <3>1
  <2>4. CheckInv'
    <3>1. CheckAlone => CheckAlone'
      BY <1>1, <1>10, <2>2, <2>3 DEF CheckAlone
    <3> QED
      BY <2>1, <3>1 DEF CheckInv
  <2>5. ShapeInv' /\ EventLoopInv'
    BY <1>1, <1>5, <1>10 DEF ShapeInv, EventLoopInv
  <2> QED
    BY <1>4, <1>6, <1>7, <1>8, <1>9, <2>1, <2>4, <2>5
<1>11. CASE ~UNCHANGED <<state, gen, timers>>
  <2>1. GenInv' /\ CheckInv' /\ worker = None /\ todo' = <<>>
    BY <1>11, DisconnectCheck
  <2>2. FenceInv'
    <3>1. NoneOf(MutationTasks, MutationDones)'
      BY <1>2, <2>1, QuietFlow, MutationWork DEF FenceInv
    <3> QED
      BY <1>1, <2>1, <3>1 DEF FenceInv
  <2>3. ShapeInv' /\ EventLoopInv'
    BY <1>1, <1>5, <2>1 DEF ShapeInv, EventLoopInv
  <2> QED
    BY <1>4, <1>6, <1>7, <1>8, <1>9, <2>1, <2>2, <2>3
<1> QED
  BY <1>10, <1>11

-----------------------------------------------------------------------------
(* The timer thread dispatches the check that is due, or drops it.          *)
LEMMA TimerMutation ==
  ASSUME IInv, IInv', MutationInv, TimerThread
  PROVE  MutationInv'
<1> USE DEF MutationInv
<1> DEFINE h == Head(timers)
           t == [op |-> "verify", gen |-> h.gen, purpose |-> "TransientDisconnect",
                 for |-> h.for]
<1>1. /\ UNCHANGED <<state, req, settle, staging, worker, deferred, held, todo, gen,
                     epoch, bound, link, mailbox, running>>
      /\ timers # <<>> /\ timers' = Tail(timers)
      /\ \/ h.gen # gen /\ tasks' = tasks
         \/ h.gen = gen /\ tasks' = Append(tasks, t)
  BY DEF TimerThread, workerUnchanged, Cancelled, sessionVars, fenceVars, exitVars
<1>2. /\ timers \in Seq([gen : Nat, for : Nat]) /\ tasks \in Seq(TaskType)
      /\ h \in [gen : Nat, for : Nat] /\ gen \in Nat
  <2>1. timers \in Seq([gen : Nat, for : Nat]) /\ tasks \in Seq(TaskType) /\ gen \in Nat
    BY DEF IInv, TypeOK, DispatchTypes
  <2> QED
    BY <1>1, <2>1, TailType
<1>3. t \in TaskType /\ t.op = "verify" /\ t.gen = h.gen
  BY <1>2 DEF TaskType, Purposes
<1> HIDE DEF t, h
<1>4. t \notin MutationTasks /\ t \notin ResetTasks
  BY <1>3 DEF MutationTasks, IsMutationTask, ResetTasks, IsResetTask
<1>5. PICK g \in Nat : g = gen /\ gen' = g
  BY <1>1, <1>2
<1>6. \A T, M : Work(T, M) /\ (tasks' = tasks \/ t \notin T) =>
         (NoneOf(T, M) => NoneOf(T, M)') /\ (OneOf(T, M) => OneOf(T, M)')
  BY <1>1, TaskFlow DEF NotAdded
<1>7. ShapeInv' /\ PendingInv' /\ EpochInv' /\ EventLoopInv' /\ StackInv'
  BY <1>1 DEF ShapeInv, PendingInv, EpochInv, EventLoopInv, StackInv, FenceUp, WorkerActive,
     Drained, OnTop
<1>8. ResetInv'
  BY <1>1, <1>4, <1>6, ResetWork DEF ResetInv
<1>9. FenceInv'
  <2>1. PICK w : w = worker /\ worker' = w
    BY <1>1
  <2>2. t \notin ForeignTasks(w)
    BY <1>4 DEF ForeignTasks
  <2>3. /\ NoneOf(MutationTasks, MutationDones) => NoneOf(MutationTasks, MutationDones)'
        /\ OneOf(MutationTasks, MutationDones) => OneOf(MutationTasks, MutationDones)'
        /\ NoneOf(ForeignTasks(w), ForeignDones(w)) => NoneOf(ForeignTasks(w), ForeignDones(w))'
    BY <1>4, <1>6, <2>2, MutationWork
  <2>4. CASE worker = None
    BY <1>1, <2>3, <2>4 DEF FenceInv
  <2>5. CASE worker # None
    BY <2>1, <2>3, <2>5 DEF FenceInv
  <2> QED
    BY <2>4, <2>5
<1>10. OrderInv'
  <2>1. CASE tasks' = tasks
    BY <1>1, <2>1 DEF OrderInv
  <2>2. CASE tasks' = Append(tasks, t)
    <3>1. /\ Behind(tasks', MutationTasks, ResetTasks)
          /\ Free(tasks, ResetTasks) => Free(tasks', ResetTasks)
      BY <1>2, <1>3, <1>4, <2>2, BehindMoves, AppendSole DEF OrderInv
    <3> QED
      BY <1>1, <3>1 DEF OrderInv
  <2> QED
    BY <1>1, <2>1, <2>2
<1>11. /\ Free(timers, LateTimers(g)) => Free(timers', LateTimers(g))
       /\ Free(timers, FreshTimers(g)) => h \notin FreshTimers(g) /\ Free(timers', FreshTimers(g))
       /\ Sole(timers, FreshTimers(g)) /\ h \notin FreshTimers(g) => Sole(timers', FreshTimers(g))
       /\ Sole(timers, FreshTimers(g)) /\ h \in FreshTimers(g) => Free(timers', FreshTimers(g))
  BY <1>1, <1>2, TailSole DEF h
<1>12. h \in FreshTimers(g) <=> h.gen = g
  BY <1>2 DEF FreshTimers
<1>13. GenInv'
  <2>1. tasks' = tasks \/ t \notin LateTasks(g)
    BY <1>1, <1>3, <1>5 DEF LateTasks
  <2>2. NoneOf(LateTasks(g), LateDones(g)) => NoneOf(LateTasks(g), LateDones(g))'
    BY <1>6, <2>1, MutationWork
  <2> QED
    BY <1>5, <1>11, <2>2 DEF GenInv, LateNone
<1>14. CheckAlone => CheckAlone'
  BY <1>1 DEF CheckAlone
<1>15. CASE h \notin FreshTimers(g)
  <2>1. tasks' = tasks
    BY <1>1, <1>5, <1>12, <1>15
  <2>2. /\ NoneOf(FreshTasks(g), FreshDones(g)) => NoneOf(FreshTasks(g), FreshDones(g))'
        /\ OneOf(FreshTasks(g), FreshDones(g)) => OneOf(FreshTasks(g), FreshDones(g))'
    BY <1>6, <2>1, MutationWork
  <2>3. CheckInv'
    BY <1>5, <1>11, <1>14, <1>15, <2>2 DEF CheckInv, CheckNone, CheckOne
  <2> QED
    BY <1>7, <1>8, <1>9, <1>10, <1>13, <2>3
<1>16. CASE h \in FreshTimers(g)
  <2>1. tasks' = Append(tasks, t) /\ t \in FreshTasks(g)
    BY <1>1, <1>3, <1>5, <1>12, <1>16 DEF FreshTasks
  <2>2. /\ NoneOf(FreshTasks(g), FreshDones(g)) /\ Sole(timers, FreshTimers(g))
        /\ CheckAlone
    BY <1>5, <1>11, <1>16 DEF CheckInv, CheckNone, CheckOne
  <2>3. OneOf(FreshTasks(g), FreshDones(g))'
    BY <2>1, <2>2, TaskFlow, MutationWork DEF Added
  <2>4. CheckInv'
    BY <1>5, <1>11, <1>14, <1>16, <2>2, <2>3 DEF CheckInv, CheckOne
  <2> QED
    BY <1>7, <1>8, <1>9, <1>10, <1>13, <2>4
<1> QED
  BY <1>15, <1>16

(* The event loop tries the restore again.                                  *)
LEMMA TickMutation ==
  ASSUME IInv, IInv', MutationInv, Tick
  PROVE  MutationInv'
<1> USE DEF MutationInv
<1>0. PICK t, w : t = RecoverTask(gen) /\ w = [kind |-> "Recovery", gen |-> gen]
  OBVIOUS
<1>1. /\ UNCHANGED <<req, settle, staging, deferred, held, todo, gen, timers,
                     epoch, bound, link, mailbox, running>>
      /\ todo = <<>> /\ running /\ state = "EventLoop" /\ state' = "Recovery"
      /\ tasks' = Append(tasks, t) /\ worker' = w
  <2>1. t.gen = gen
    BY <1>0 DEF RecoverTask
  <2>2. tasks' = Append(tasks, t) /\ worker' = w
    BY <1>0, <2>1 DEF Tick, HandleTick, StartRecovery, StartWorker
  <2> QED
    BY <2>2 DEF Tick, HandleTick, TickAllowed, StartRecovery, exitVars, hostUnchanged,
       hostVars
<1>2. gen \in Nat /\ tasks \in Seq(TaskType)
  BY DEF IInv, TypeOK, DispatchTypes
<1>3. t \in MutationTasks /\ WorkerOf(t) = w /\ t.op = "recover" /\ w # None
  BY <1>0, <1>2, NoneAssumption
     DEF MutationTasks, IsMutationTask, TaskType, RecoverTask, WorkerOf, KindOf, WorkerKinds
<1>4. worker = None /\ NoneOf(MutationTasks, MutationDones)
  BY <1>1 DEF EventLoopInv, FenceInv
<1>5. PICK g \in Nat : g = gen /\ gen' = g
  BY <1>1, <1>2
<1>6. /\ t \notin ResetTasks /\ t \notin ForeignTasks(w) /\ t \notin FreshTasks(g)
      /\ t \notin LateTasks(g)
  BY <1>3 DEF ResetTasks, IsResetTask, ForeignTasks, FreshTasks, LateTasks
<1>7. \A T, M : Work(T, M) /\ t \notin T =>
         (NoneOf(T, M) => NoneOf(T, M)') /\ (OneOf(T, M) => OneOf(T, M)')
  BY <1>1, TaskFlow DEF NotAdded
<1>8. ShapeInv' /\ PendingInv' /\ EpochInv' /\ EventLoopInv'
  BY <1>1 DEF ShapeInv, PendingInv, EpochInv, EventLoopInv
<1>9. ResetInv'
  BY <1>1, <1>6, <1>7, ResetWork DEF ResetInv
<1>10. FenceInv'
  <2>1. OneOf(MutationTasks, MutationDones)'
    BY <1>1, <1>3, <1>4, TaskFlow, MutationWork DEF Added
  <2>2. NoneOf(ForeignTasks(w), ForeignDones(w))
    BY <1>4, NonePart DEF ForeignTasks, ForeignDones
  <2>3. NoneOf(ForeignTasks(w), ForeignDones(w))'
    BY <1>6, <1>7, <2>2, MutationWork
  <2> QED
    BY <1>1, <1>3, <2>1, <2>3 DEF FenceInv
<1>11. OrderInv'
  BY <1>1, <1>3, <1>4, OrderAppend DEF NoneOf
<1>12. GenInv' /\ CheckNone(gen)'
  <2>1. CheckNone(gen) /\ LateNone(gen)
    BY <1>1 DEF CheckInv, CheckAlone, GenInv
  <2>2. NoneOf(LateTasks(g), LateDones(g))' /\ NoneOf(FreshTasks(g), FreshDones(g))'
    BY <1>5, <1>6, <1>7, <2>1, MutationWork DEF CheckNone, LateNone
  <2> QED
    BY <1>1, <1>5, <2>1, <2>2 DEF GenInv, LateNone, CheckNone
<1>13. StackInv'
  <2>1. held = None
    BY <1>1, IdleStack
  <2>2. FenceUp'
    BY <1>1, <1>3 DEF FenceUp, WorkerActive
  <2> QED
    BY <1>1, <2>1, <2>2 DEF StackInv, Drained, OnTop
<1> QED
  BY <1>8, <1>9, <1>10, <1>11, <1>12, <1>13 DEF CheckInv

-----------------------------------------------------------------------------
(* Every step of a helper that nobody asks for a RESET keeps the invariant  *)
(* of the fence.                                                            *)
LEMMA NextMutation ==
  ASSUME NoReset, IInv, MutationInv, [Next]_vars
  PROVE  MutationInv'
<1>1. IInv'
  BY NextTyped
<1>2. CASE Handle
  BY <1>1, <1>2, HandlersMutation
<1>3. CASE TimerThread
  BY <1>1, <1>3, TimerMutation
<1>4. CASE Tick
  BY <1>1, <1>4, TickMutation
<1>5. CASE WorkerThread
  BY <1>1, <1>5, WorkerMutation
<1>6. CASE Receive
  BY <1>1, <1>6, ReceiveMutation
<1>7. CASE Disconnect
  BY <1>1, <1>7, DisconnectMutation
<1>8. CASE SendStop
  BY <1>1, <1>8, StopMutation
<1>9. CASE Aside
  BY <1>1, <1>9, AsideMutation
<1> QED
  BY <1>2, <1>3, <1>4, <1>5, <1>6, <1>7, <1>8, <1>9
     DEF Next, Host, Client, Environment, PipeStep, Aside

(* A helper that has just started satisfies it.                             *)
LEMMA InitMutation == Init => MutationInv
<1> SUFFICES ASSUME Init PROVE MutationInv
  OBVIOUS
<1>1. /\ todo = <<>> /\ deferred = <<>> /\ tasks = <<>> /\ timers = <<>> /\ held = None
      /\ worker = None /\ state = "Waiting" /\ staging.resetting = FALSE
      /\ epoch = 0 /\ bound = 0 /\ gen = 0 /\ req.epoch = 0 /\ req.virt = "none"
      /\ settle.requested = FALSE /\ link \notin {"up", "broken"}
  BY DEF Init, NoStaging, NoRequest, NoSettlement
<1>2. \A G : Free(<<>>, G)
  BY DEF Free
<1>4. \A G : (\A m \in G : m.kind # "Revert") => Free(mailbox, G)
  BY DEF Init, Free
<1>5. /\ Free(mailbox, Unsent(bound)) /\ Free(mailbox, MutationDones)
      /\ Free(mailbox, ResetDones) /\ \A g : Free(mailbox, FreshDones(g))
      /\ \A g : Free(mailbox, LateDones(g))
  BY <1>4 DEF Unsent, MutationDones, IsMutationDone, ResetDones, IsResetDone, FreshDones,
     LateDones
<1>6. ShapeInv /\ PendingInv /\ EpochInv /\ EventLoopInv
  BY <1>1, <1>2, <1>5 DEF ShapeInv, Rest, PendingInv, EpochInv, EventLoopInv
<1>7. ResetInv /\ FenceInv /\ OrderInv
  <2>1. NoneOf(MutationTasks, MutationDones) /\ NoneOf(ResetTasks, ResetDones)
    BY <1>1, <1>2, <1>5 DEF NoneOf
  <2> QED
    BY <1>1, <2>1, OrderFree DEF ResetInv, FenceInv
<1>8. GenInv /\ CheckInv
  BY <1>1, <1>2, <1>5 DEF GenInv, LateNone, CheckInv, CheckNone, NoneOf
<1>9. StackInv
  BY <1>1, <1>2 DEF StackInv, Drained, OnTop
<1> QED
  BY <1>6, <1>7, <1>8, <1>9 DEF MutationInv

(* At most one display mutation is in flight, from its dispatch to the      *)
(* moment its completion is handled, and active_mutation_worker_ names it:  *)
(* for a helper that nobody asks for a RESET.                               *)
THEOREM MutationFenceHolds ==
  ASSUME NoReset
  PROVE  Spec => []MutationFence
<1>1. IInv /\ MutationInv => MutationFence
  <2> SUFFICES ASSUME IInv, FenceInv PROVE MutationFence
    BY DEF MutationInv
  <2>0. /\ tasks \in Seq(TaskType) /\ mailbox \in Seq(MessageType)
        /\ todo \in Seq(FrameType)
    BY DEF IInv, TypeOK, DispatchTypes, HostTypes, FenceTypes
  <2> DEFINE nt == Cardinality({i \in DOMAIN tasks : tasks[i] \in MutationTasks})
             nm == Cardinality({i \in DOMAIN mailbox : mailbox[i] \in MutationDones})
             nf == Cardinality({i \in DOMAIN todo : todo[i] \in Frames(MutationDones)})
  <2>1. Count(tasks, IsMutationTask) = nt
    <3>1. \A i \in DOMAIN tasks : IsMutationTask(tasks[i]) <=> tasks[i] \in MutationTasks
      BY <2>0 DEF MutationTasks
    <3> QED
      BY <3>1 DEF Count
  <2>2. Count(mailbox, IsMutationDone) = nm
    <3>1. \A i \in DOMAIN mailbox :
            IsMutationDone(mailbox[i]) <=> mailbox[i] \in MutationDones
      BY <2>0 DEF MutationDones
    <3> QED
      BY <3>1 DEF Count
  <2>3. Count(todo, IsMutationFrame) = nf
    <3>1. \A f \in FrameType : IsMutationFrame(f) <=> f \in Frames(MutationDones)
      BY DEF FrameType, IsMutationFrame, Frames, HandleFrame, MutationDones, IsMutationDone
    <3>2. \A i \in DOMAIN todo : todo[i] \in FrameType
      BY <2>0
    <3> QED
      BY <3>1, <3>2 DEF Count
  <2>4. /\ Free(tasks, MutationTasks) => nt = 0
        /\ Sole(tasks, MutationTasks) => nt = 1
        /\ Free(mailbox, MutationDones) => nm = 0
        /\ Sole(mailbox, MutationDones) => nm = 1
        /\ Free(todo, Frames(MutationDones)) => nf = 0
        /\ Sole(todo, Frames(MutationDones)) => nf = 1
    BY SoleNumber
  <2> HIDE DEF nt, nm, nf
  <2>5. nt + nm + nf = IF worker = None THEN 0 ELSE 1
    <3>1. CASE worker # None
      BY <2>4, <3>1 DEF FenceInv, OneOf
    <3>2. CASE worker = None
      BY <2>4, <3>2 DEF FenceInv, NoneOf
    <3> QED
      BY <3>1, <3>2
  <2>6. ASSUME NEW i \in DOMAIN tasks, IsMutationTask(tasks[i])
        PROVE  worker = WorkerOf(tasks[i])
    <3>1. tasks[i] \in MutationTasks
      BY <2>0, <2>6 DEF MutationTasks
    <3>2. worker # None
      BY <3>1 DEF FenceInv, NoneOf, Free
    <3>3. tasks[i] \notin ForeignTasks(worker)
      BY <3>2 DEF FenceInv, NoneOf, Free
    <3> QED
      BY <3>1, <3>3 DEF ForeignTasks
  <2>7. ASSUME NEW m \in MessageType, IsMutationDone(m),
               \/ \E i \in DOMAIN mailbox : mailbox[i] = m
               \/ \E i \in DOMAIN todo : todo[i] = HandleFrame(m)
        PROVE  worker = WorkerFor(m)
    <3>1. m \in MutationDones
      BY <2>7 DEF MutationDones
    <3>2. worker # None
      BY <2>7, <3>1, FrameOf DEF FenceInv, NoneOf, Free
    <3>3. m \notin ForeignDones(worker)
      BY <2>7, <3>2, FrameOf DEF FenceInv, NoneOf, Free
    <3> QED
      BY <3>1, <3>3 DEF ForeignDones
  <2>8. ASSUME NEW m \in HandledNext \cup {mailbox[i] : i \in DOMAIN mailbox}
        PROVE  /\ m \in MessageType
               /\ \/ \E i \in DOMAIN mailbox : mailbox[i] = m
                  \/ \E i \in DOMAIN todo : todo[i] = HandleFrame(m)
    <3>1. CASE m \in HandledNext
      <4>1. PICK i \in DOMAIN todo : todo[i].op = "handle" /\ todo[i].msg = m
        BY <3>1 DEF HandledNext
      <4>2. todo[i] \in FrameType
        BY <2>0
      <4>3. m \in MessageType /\ todo[i] = HandleFrame(m)
        BY <4>1, <4>2 DEF FrameType, HandleFrame
      <4> QED
        BY <4>3
    <3>2. CASE \E i \in DOMAIN mailbox : mailbox[i] = m
      BY <2>0, <3>2
    <3> QED
      BY <2>8, <3>1, <3>2
  <2> QED
    BY <2>1, <2>2, <2>3, <2>5, <2>6, <2>7, <2>8 DEF MutationFence, WorkerOf, WorkerFor
<1> QED
  BY <1>1, InitMutation, NextMutation, SpecTyped, PTL DEF Spec
================================================================================
