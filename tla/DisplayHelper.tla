--------------------------- MODULE DisplayHelper ---------------------------
(***************************************************************************)
(* The display helper: the host loop (display_settings_helper_v2.cpp), the *)
(* state machine's handlers, the dispatcher's threads, a client behind a   *)
(* pipe that may break at any moment, and Windows.                         *)
(***************************************************************************)
EXTENDS HelperRecovery, HelperWorker

Idle == todo = <<>>

Init ==
  /\ state = "Waiting"
  /\ req = NoRequest
  /\ sess = NoSession
  /\ base = NoBase
  /\ settle = NoSettlement
  /\ lease = NoLease
  /\ restore = NoRestore
  /\ attempted = FALSE
  /\ staging = NoStaging
  /\ worker = None
  /\ deferred = <<>>
  /\ held = None
  /\ todo = <<>>
  /\ gen = 0
  /\ tasks = <<>>
  /\ phase = AtStart
  /\ timers = <<>>
  /\ epoch = 0
  /\ bound = 0
  /\ running = TRUE
  /\ origin = 0
  /\ ticket = None
  /\ heartbeat = FALSE
  /\ tiers \in BOOLEAN
  /\ debt = FALSE
  /\ newest = 0
  /\ replies = [c \in 1..MaxSends |-> [apply |-> 0, verify |-> 0]]
  /\ sent = 0
  /\ posted = 0
  /\ retries = 0
  /\ taskExists \in Boots
  /\ IF taskExists
     THEN /\ link = "off"
          /\ mailbox = <<[kind |-> "Revert", seq |-> 0, epoch |-> 0,
                          fromDisconnect |-> FALSE]>>
     ELSE link = "listening" /\ mailbox = <<>>

-----------------------------------------------------------------------------
(* process_queue: one message, preceded by the contiguous control commands *)
(* that follow a completion.                                               *)

Overtakes(m, c) ==
  \/ c.kind \in {"Apply", "Revert", "Disarm", "Reset"}
  \/ /\ m.kind = "VerifyDone"
     /\ m.purpose = "TransientDisconnect"
     /\ c.kind = "Refresh"

\* extract_prefix_while: how many messages of q go before m.
IsPrefixLength(n, m, q) ==
  IF IsCompletion(m)
  THEN /\ \A i \in 1..n : Overtakes(m, q[i])
       /\ n < Len(q) => ~Overtakes(m, q[n + 1])
  ELSE n = 0

Receive ==
  /\ running
  /\ Idle
  /\ mailbox # <<>>
  /\ link # "broken"
  /\ LET m == Head(mailbox)
         rest == Tail(mailbox)
     IN \E n \in 0..Len(rest) :
        /\ IsPrefixLength(n, m, rest)
        /\ todo' = [i \in 1..(n + 1) |->
                      HandleFrame(IF i <= n THEN rest[i] ELSE m)]
        /\ mailbox' = SubSeq(rest, n + 1, Len(rest))
  /\ link' = IF link = "up" /\ epoch # bound THEN "broken" ELSE link
  /\ UNCHANGED <<sessionVars, recoveryVars, staging, fenceVars, dispatchVars,
                 phase, epoch, bound, ticket, exitVars, heartbeat, machineVars,
                 newest, replies, budgetVars>>

hostUnchanged == <<phase, hostVars, sent, posted>>

Handle == Handlers /\ UNCHANGED hostUnchanged

Tick == HandleTick /\ UNCHANGED hostUnchanged

\* service_timers: the debounced display event is due.
FireTicket ==
  /\ running
  /\ Idle
  /\ ticket # None
  /\ mailbox' = Append(mailbox, [kind |-> "Event", event |-> ticket.event,
                                 gen |-> ticket.gen, epoch |-> ticket.epoch])
  /\ ticket' = None
  /\ UNCHANGED <<sessionVars, recoveryVars, staging, fenceVars, todo,
                 dispatchVars, phase, epoch, bound, link, exitVars, heartbeat,
                 machineVars, newest, replies, budgetVars>>

\* The bound on retirements: the k-th connection has the epoch 2k - 1.
MayRetire == epoch < 2 * MaxRetired

\* service_timers: no ping for too long retires the live connection.  Its
\* windows, rearmed by every APPLY, outlast the grace of that APPLY.
HeartbeatTimeout ==
  /\ running
  /\ Idle
  /\ heartbeat
  /\ ~settle.recent
  /\ heartbeat' = FALSE
  /\ IF link = "up" /\ epoch = bound
     THEN MayRetire /\ epoch' = epoch + 1 /\ link' = "broken"
     ELSE UNCHANGED <<epoch, link>>
  /\ UNCHANGED <<sessionVars, recoveryVars, staging, fenceVars, todo,
                 dispatchVars, phase, bound, mailbox, ticket, exitVars,
                 machineVars, newest, replies, budgetVars>>

-----------------------------------------------------------------------------
(* The disconnect branch of the host loop.                                 *)

NotOfRetired(m) == ~(IsIngress(m) /\ m.epoch = bound)

\* should_defer_disconnect_recovery, for a session within its grace.
MayDefer(s, l, r) == s.recent /\ ~l.explicit /\ r.rod

NeedsRecovery == lease.armed \/ ApplyInFlight \/ RestorePending

RetireConnection ==
  /\ running
  /\ Idle
  /\ link \in {"up", "broken"}
  /\ epoch # bound
  /\ link' = "listening"
  /\ heartbeat' = FALSE
  /\ mailbox' \in Filtered(mailbox, NotOfRetired)
  /\ UNCHANGED <<req, base, recoveryVars, staging, fenceVars, phase, epoch, bound,
                 ticket, running, machineVars, newest, replies, budgetVars>>

\* The settlement of an earlier disconnect goes on, or nothing is owed.
DisconnectKeeps ==
  /\ RetireConnection
  /\ \/ MayDefer(settle, lease, restore) /\ settle.requested
     \/ ~MayDefer(settle, lease, restore) /\ ~NeedsRecovery
  /\ UNCHANGED <<state, sess, settle, dispatchVars, origin, todo>>

\* Faulty variant: the session need not be in its gate.
AnyUnverified == WorkerActive \/ ~sess.verified

\* begin_transient_disconnect_settlement: a running mutation, or the gate of
\* an unverified session, owns the next decision.
DecisionOwned == WorkerActive \/ (~sess.verified /\ state = "Verification")

Prepared ==
  IF WorkerActive THEN sess ELSE [sess EXCEPT !.reapply = FALSE]

DisconnectWaits ==
  /\ RetireConnection
  /\ MayDefer(settle, lease, restore)
  /\ ~settle.requested
  /\ DecisionOwned
  /\ sess' = Prepared
  /\ settle' = [settle EXCEPT !.requested = TRUE]
  /\ UNCHANGED <<state, dispatchVars, origin, todo>>

DisconnectChecks ==
  /\ RetireConnection
  /\ MayDefer(settle, lease, restore)
  /\ ~settle.requested
  /\ ~DecisionOwned
  /\ sess' = Prepared
  /\ gen' = IF sess.verified /\ state = "Verification" THEN gen + 1 ELSE gen
  /\ DispatchCheck([settle EXCEPT !.requested = TRUE], gen')
  /\ UNCHANGED <<tasks, origin, todo>>

\* Past the grace, or not allowed one, the helper reverts on its own account.
DisconnectReverts ==
  /\ RetireConnection
  /\ ~MayDefer(settle, lease, restore)
  /\ NeedsRecovery
  /\ origin' = bound
  /\ todo' = <<HandleFrame([kind |-> "Revert", seq |-> 0, epoch |-> 0,
                            fromDisconnect |-> TRUE])>>
  /\ UNCHANGED <<state, sess, settle, dispatchVars>>

Disconnect ==
  DisconnectKeeps \/ DisconnectWaits \/ DisconnectChecks \/ DisconnectReverts

-----------------------------------------------------------------------------
(* The client and its pipe.                                                *)

\* Faulty variant: a new connection does not arm the heartbeat.
ConnectUnwatched ==
  /\ running
  /\ Idle
  /\ link = "listening"
  /\ epoch' = epoch + 1
  /\ bound' = epoch + 1
  /\ link' = "up"
  /\ UNCHANGED <<sessionVars, recoveryVars, staging, fenceVars, todo,
                 dispatchVars, phase, heartbeat, mailbox, ticket, exitVars,
                 machineVars, newest, replies, budgetVars>>

Connect ==
  /\ running
  /\ Idle
  /\ link = "listening"
  /\ epoch' = epoch + 1
  /\ bound' = epoch + 1
  /\ link' = "up"
  /\ heartbeat' = TRUE
  /\ UNCHANGED <<sessionVars, recoveryVars, staging, fenceVars, todo,
                 dispatchVars, phase, mailbox, ticket, exitVars, machineVars,
                 newest, replies, budgetVars>>

\* The pipe thread retires the epoch; between two rounds the host may still
\* handle one message before it looks.
PipeBreaks ==
  /\ running
  /\ link \in {"up", "broken"}
  /\ epoch = bound
  /\ MayRetire
  /\ epoch' = epoch + 1
  /\ link' = IF Idle THEN "up" ELSE "broken"
  /\ UNCHANGED <<sessionVars, recoveryVars, staging, fenceVars, todo,
                 dispatchVars, phase, bound, mailbox, ticket, exitVars, heartbeat,
                 machineVars, newest, replies, budgetVars>>

CommandsOf(kind) ==
  CASE kind = "Apply" -> [kind : {"Apply"}, seq : {sent + 1}, epoch : {bound},
                          req : Requests]
    [] kind = "Revert" -> [kind : {"Revert"}, seq : {sent + 1}, epoch : {bound},
                           fromDisconnect : {FALSE}]
    [] kind \in {"Disarm", "ForceDisarm"} ->
         [kind : {"Disarm"}, seq : {sent + 1}, epoch : {bound},
          force : {kind = "ForceDisarm"}]
    [] kind = "Refresh" -> [kind : {"Refresh"}, epoch : {bound},
                            inScope : BOOLEAN]
    [] OTHER -> [kind : {kind}, epoch : {bound}]

ClientSends ==
  /\ running
  /\ link \in {"up", "broken"}
  /\ epoch = bound
  /\ sent < MaxSends
  /\ sent' = sent + 1
  /\ UNCHANGED <<sessionVars, recoveryVars, staging, fenceVars, todo, tasks,
                 timers, phase, epoch, bound, link, ticket, heartbeat,
                 machineVars, newest, replies, posted, retries>>

\* A REVERT is recorded as the restore's origin before it is queued.
Send(kind) ==
  /\ kind # "Stop"
  /\ ClientSends
  /\ \E m \in CommandsOf(kind) : mailbox' = Append(mailbox, m)
  /\ origin' = IF kind = "Revert" THEN bound ELSE origin
  /\ UNCHANGED <<running, gen>>

\* STOP does not pass through the mailbox.
SendStop ==
  /\ "Stop" \in Commands
  /\ ClientSends
  /\ gen' = gen + 1
  /\ running' = FALSE
  /\ UNCHANGED <<mailbox, origin>>

-----------------------------------------------------------------------------
(* Windows, and the passage of time.                                       *)

\* DebouncedTrigger::notify: a pending identity event outlives a generic one.
Merge(t, event) ==
  IF t # None /\ t.event # "generic" /\ event = "generic" THEN t
  ELSE [event |-> event, gen |-> gen, epoch |-> epoch]

Notify(event) ==
  /\ running
  /\ posted < MaxEvents
  /\ posted' = posted + 1
  /\ ticket' = Merge(ticket, event)
  /\ UNCHANGED <<sessionVars, recoveryVars, staging, fenceVars, todo,
                 dispatchVars, phase, epoch, bound, link, mailbox, exitVars,
                 heartbeat, machineVars, newest, replies, sent, retries>>

timeUnchanged ==
  <<state, req, sess, base, lease, attempted, staging, fenceVars, todo,
    dispatchVars, phase, hostVars, exitVars, heartbeat, machineVars, newest,
    replies, budgetVars>>

\* kApplyDisconnectGrace is over.
GraceElapses ==
  /\ running
  /\ settle.recent
  /\ settle' = [settle EXCEPT !.recent = FALSE]
  /\ UNCHANGED <<timeUnchanged, restore>>

\* The restore window closes; the quiet period after an attempt ends.  Both
\* are read in the event loop only.
WindowExpires ==
  /\ running
  /\ state = "EventLoop"
  /\ restore.sched = "open"
  /\ restore' = [restore EXCEPT !.sched = "expired"]
  /\ UNCHANGED <<timeUnchanged, settle>>

QuietEnds ==
  /\ running
  /\ state = "EventLoop"
  /\ restore.quiet
  /\ restore' = [restore EXCEPT !.quiet = FALSE]
  /\ UNCHANGED <<timeUnchanged, settle>>

-----------------------------------------------------------------------------
Host == Receive \/ Handle \/ Tick \/ FireTicket \/ HeartbeatTimeout
        \/ Disconnect \/ Connect

Client == PipeBreaks \/ SendStop \/ \E kind \in Commands : Send(kind)

Environment == GraceElapses \/ WindowExpires \/ QuietEnds
               \/ \E event \in Events : Notify(event)

Next == Host \/ WorkerThread \/ TimerThread \/ Client \/ Environment

\* The host loop never blocks for more than a poll interval, and the threads
\* of the dispatcher run whenever they have work.  Nothing is assumed of the
\* client, of Windows or of the heartbeat.
Fairness ==
  /\ WF_vars(Receive)
  /\ WF_vars(Handle)
  /\ WF_vars(Tick)
  /\ WF_vars(FireTicket)
  /\ WF_vars(Disconnect)
  /\ WF_vars(WorkerThread)
  /\ WF_vars(TimerThread)

Spec == Init /\ [][Next]_vars

FairSpec == Spec /\ Fairness
=============================================================================
