---------------------------- MODULE HelperState ----------------------------
(***************************************************************************)
(* The state of the Windows display helper (v2 engine) and the operators   *)
(* its handlers are built from.                                            *)
(*                                                                         *)
(* Five actors share it: the main thread, which owns the StateMachine      *)
(* object and the host loop; the dispatcher's worker thread and its timer  *)
(* thread; the pipe thread, which receives the client's commands and       *)
(* retires the connection epoch; and Windows, which posts display events.  *)
(*                                                                         *)
(* The main thread runs to completion in C++, but the pipe thread can      *)
(* retire the epoch while a handler drains the deferred commands, so what  *)
(* is left of the call stack is a variable, todo, and a handler that calls *)
(* back into other handlers is several steps.                              *)
(***************************************************************************)
EXTENDS Integers, Sequences, FiniteSets

CONSTANTS
  None,            \* an empty std::optional
  Requests,        \* what an APPLY may ask for
  Commands,        \* the kinds of command a client sends
  Events,          \* the display events Windows posts
  Boots,           \* whether the helper is started with --restore
  MaxSends,        \* bound: commands sent over all connections
  MaxRetired,      \* bound: connections that end
  MaxEvents,       \* bound: display events posted
  MaxRetries       \* bound: restore attempts begun by the tick

Layouts == {"none", "exclusive", "extended"}

RequestType == [virt : Layouts, hdr : BOOLEAN, rod : BOOLEAN]

CommandKinds == {"Apply", "Revert", "Disarm", "ForceDisarm", "Reset",
                 "Snapshot", "Refresh", "Stop"}

EventKinds == {"generic", "arrival", "removal"}

ASSUME ConstantsAssumption ==
  /\ Requests \subseteq RequestType
  /\ Commands \subseteq CommandKinds
  /\ Events \subseteq EventKinds
  /\ Boots \subseteq BOOLEAN
  /\ MaxSends \in Nat
  /\ MaxRetired \in Nat
  /\ MaxEvents \in Nat
  /\ MaxRetries \in Nat

VARIABLES
  \* StateMachine: the session
  state,       \* state_
  req,         \* current_request_, current_connection_epoch_; seq 0: none yet
  sess,        \* result flags and the repair budgets of the session
  base,        \* baseline_topology_repair_available_, in_flight_
  settle,      \* transient_disconnect_*_, last_apply_started_ within 5 s
  \* StateMachine: recovery
  lease,       \* recovery_armed_, explicit_, restore_task_, unconfirmed_
  restore,     \* scheduler_, feedback quiet period, RestoreState policy
  staging,     \* staged_state_*_, exit_after_staged_state_reset_
  attempted,   \* RestoreState::restore_attempted_unconfirmed (atomic)
  \* StateMachine: the mutation fence
  worker,      \* active_mutation_worker_
  deferred,    \* deferred_mutation_commands_
  held,        \* deferred_apply_completion_
  todo,        \* what is left of the main thread's call stack
  \* CancellationSource and AsyncDispatcher
  gen,         \* the current generation
  tasks,       \* tasks_, the running one first
  phase,       \* how far the running task is
  timers,      \* timer_tasks_: generations of the delayed verifications
  \* The host loop and the pipe
  epoch,       \* connection_epoch
  bound,       \* the epoch the host loop serves
  link,        \* the host's view of the client's pipe, one of Links
  running,     \* running
  origin,      \* restore_origin_epoch
  mailbox,     \* queue
  ticket,      \* the DebouncedTrigger's pending ticket
  heartbeat,   \* HeartbeatMonitor::armed_
  \* The machine
  tiers,       \* some snapshot tier exists on disk
  taskExists,  \* the durable restore task is registered
  \* History and budgets
  debt,        \* a worker changed the desktop; not restored, not released
  newest,      \* the newest client session command accepted
  replies,     \* results published for each APPLY
  sent, posted, retries

sessionVars == <<state, req, sess, base, settle>>
recoveryVars == <<lease, restore, attempted>>
fenceVars == <<worker, deferred, held>>
dispatchVars == <<gen, tasks, timers>>
hostVars == <<epoch, bound, link, mailbox, ticket>>
exitVars == <<running, origin>>
machineVars == <<tiers, taskExists, debt>>
budgetVars == <<sent, posted, retries>>

vars == <<sessionVars, recoveryVars, staging, fenceVars, todo, dispatchVars,
          phase, hostVars, exitVars, heartbeat, machineVars, newest, replies,
          budgetVars>>

-----------------------------------------------------------------------------
(* Values.                                                                 *)

States == {"Waiting", "InProgress", "Verification", "Recovery",
           "RecoveryValidation", "EventLoop", "VirtualDisplayMonitoring"}

\* "broken": retired in this round of the host loop, which must end it now;
\* "off": a helper started to restore accepts no client.
Links == {"listening", "up", "broken", "off"}

WorkerKinds == {"Apply", "RefreshRate", "Recovery"}

\* An empty active_mutation_worker_ is not a worker.
ASSUME NoneAssumption == None \notin [kind : WorkerKinds, gen : Nat]

Purposes == {"Initial", "TransientDisconnect", "BaselineTopologyReturn",
             "BaselineTopologyRepair"}

\* The statuses WinDisplaySettings reports: every failure other than an HDR
\* one takes the same branches, and nothing reports NeedsVirtualDisplayReset.
Statuses == {"Ok", "HdrStateFailed", "Failed"}

NoRequest == [virt |-> "none", hdr |-> FALSE, rod |-> TRUE,
              seq |-> 0, epoch |-> 0]

\* kMaxVirtualIdentityDiscoveriesPerSession, kMaxVirtualIdentityRepairsPerSession
Discoveries == 2
Repairs == 2
\* kDelays.size() in dispatch_next_transient_disconnect_verification
SettleChecks == 2

NewSession == [applySent |-> FALSE, verifySent |-> FALSE, verified |-> FALSE,
               hdrTried |-> FALSE, reapply |-> TRUE,
               discoveries |-> Discoveries, repairs |-> Repairs]

NoSession == [NewSession EXCEPT !.reapply = FALSE, !.discoveries = 0,
                                !.repairs = 0]

NoBase == [avail |-> FALSE, flight |-> FALSE]

NoSettlement == [requested |-> FALSE, pending |-> FALSE, repairing |-> FALSE,
                 next |-> 0, recent |-> FALSE]

NoLease == [armed |-> FALSE, explicit |-> FALSE, task |-> FALSE,
            unconfirmed |-> FALSE, before |-> FALSE]

NoRestore == [sched |-> "off", quiet |-> FALSE, reset |-> "none", rod |-> TRUE]

NoStaging == [prepared |-> FALSE, resetting |-> FALSE, exitAfter |-> FALSE]

AtStart == [at |-> "start", armed |-> FALSE]

\* Tasks of the dispatcher.  for (history) is the APPLY the work belongs to.
ApplyTask(g, repair) ==
  [op |-> "apply", gen |-> g, repair |-> repair, for |-> req.seq]
VerifyTask(g, purpose) ==
  [op |-> "verify", gen |-> g, purpose |-> purpose, for |-> req.seq]
ResetTask(g) == [op |-> "reset", gen |-> g]
RefreshTask(g, inScope) == [op |-> "refresh", gen |-> g, inScope |-> inScope]
RecoverTask(g) == [op |-> "recover", gen |-> g]
ValidateTask(g) == [op |-> "validate", gen |-> g]

TaskType ==
  [op : {"apply"}, gen : Nat, repair : BOOLEAN, for : Nat]
  \cup [op : {"verify"}, gen : Nat, purpose : Purposes, for : Nat]
  \cup [op : {"reset", "recover", "validate"}, gen : Nat]
  \cup [op : {"refresh"}, gen : Nat, inScope : BOOLEAN]

\* Messages: commands carry the epoch of their connection (0 for the
\* helper's own), completions and display events a generation.
DeferrableType ==
  [kind : {"Apply"}, seq : Nat, epoch : Nat, req : Requests]
  \cup [kind : {"Repair", "Reset"}, epoch : Nat]
  \cup [kind : {"Revert"}, seq : Nat, epoch : Nat, fromDisconnect : BOOLEAN]
  \cup [kind : {"Disarm"}, seq : Nat, epoch : Nat, force : BOOLEAN]

ApplyDoneType == [kind : {"ApplyDone"}, gen : Nat, for : Nat, status : Statuses,
                  touched : BOOLEAN, armed : BOOLEAN, staged : BOOLEAN]

MessageType ==
  DeferrableType
  \cup [kind : {"Snapshot"}, epoch : Nat]
  \cup [kind : {"Refresh"}, epoch : Nat, inScope : BOOLEAN]
  \cup ApplyDoneType
  \cup [kind : {"VerifyDone"}, gen : Nat, for : Nat, purpose : Purposes,
        ok : BOOLEAN]
  \cup [kind : {"ResetDone", "ValidateDone"}, gen : Nat, ok : BOOLEAN]
  \cup [kind : {"RefreshDone"}, gen : Nat, ok : BOOLEAN, inScope : BOOLEAN]
  \cup [kind : {"RecoverDone"}, gen : Nat, ok : BOOLEAN, touched : BOOLEAN,
        reset : {"none", "ok", "failed"}]
  \cup [kind : {"Event"}, event : EventKinds, gen : Nat, epoch : Nat]

\* The subsequence of q that passes Test, as a set with one element: erase_if
\* and extract_if of the code, without recursion.
Filtered(q, Test(_)) ==
  LET kept == {i \in DOMAIN q : Test(q[i])}
      n == Cardinality(kept)
      rising == {f \in [1..n -> kept] : \A i, j \in 1..n : i < j => f[i] < f[j]}
  IN {[i \in 1..n |-> q[f[i]]] : f \in rising}

IsCompletion(m) == m.kind \in {"ApplyDone", "VerifyDone", "ResetDone",
                               "RefreshDone", "RecoverDone", "ValidateDone"}

IsIngress(m) == m.kind \in {"Apply", "Revert", "Disarm", "Reset", "Snapshot",
                            "Refresh"}

FrameType ==
  [op : {"handle"}, msg : MessageType]
  \cup [op : {"drain", "afterReset", "exitAfterReset"}]
  \cup [op : {"resume", "outcome"}, done : ApplyDoneType, baseline : BOOLEAN]
  \cup [op : {"afterRestore"}, followup : BOOLEAN, resetFailed : BOOLEAN]
=============================================================================
