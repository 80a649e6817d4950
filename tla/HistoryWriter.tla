--------------------------- MODULE HistoryWriter ---------------------------
(***************************************************************************)
(* The session history (session_history.cpp, session_history_sampler.cpp,  *)
(* session_history_writer.cpp): streams, the sampler and the callers of    *)
(* the web API put commands on three queues; one writer thread takes them  *)
(* in batches, each a transaction of the database; a change of settings    *)
(* stops and starts the sampler and the writer while all of them go on.    *)
(*                                                                         *)
(* g_queue_mutex makes each enqueue and each drain one step, g_db_mutex    *)
(* each batch, g_active_mutex each look at the active sessions.            *)
(***************************************************************************)
EXTENDS Naturals, Sequences, FiniteSets

CONSTANTS
  Sessions,      \* the streams' history uuids
  Callers,       \* the callers of delete_session
  Limits,        \* the limit of each queue
  SampleBatch,   \* sample_batch_size
  MaxSaves,      \* bound: configuration saves
  MaxPasses,     \* bound: passes of the sampler
  MaxFaults,     \* bound: batches that the database refuses
  None

Kinds == {"control", "priority", "sample"}

ASSUME HistoryAssumption ==
  /\ IsFiniteSet(Sessions) /\ IsFiniteSet(Callers)
  /\ Limits \in [Kinds -> Nat \ {0}]
  /\ SampleBatch \in Nat \ {0}
  /\ {MaxSaves, MaxPasses, MaxFaults} \subseteq Nat
  /\ None \notin Sessions /\ None \notin Callers

VARIABLES
  wanted,     \* session_history_enabled in the configuration file
  deferred,   \* g_deferred_reload
  enabled,    \* g_settings.enabled
  running,    \* the writer's g_running
  open,       \* g_write_db is open
  sequence,   \* g_next_sequence
  queues,     \* g_control_queue, g_priority_queue, g_sample_queue
  writer,     \* the writer thread and the batch it holds
  life,       \* what the holder of g_lifecycle_mutex does next
  active,     \* g_active_sessions
  sampler,    \* the sampler thread and what it has left of a pass
  stream,     \* what each stream's thread does next
  call,       \* what each caller of delete_session does next
  promise,    \* delete_completion of each caller
  rows,       \* the sessions table
  spent,      \* saves, passes and faults so far
  begun,      \* history: sessions whose begin was accepted
  finished,   \* history: sessions whose end was accepted
  spoiled,    \* history: sessions that lost a begin or an end
  missed      \* history: sessions with a timely event or sample dropped

settingVars == <<wanted, deferred, enabled>>
queueVars == <<sequence, queues, begun, finished, spoiled>>
threadVars == <<running, open, writer, life, active, sampler>>
vars == <<settingVars, threadVars, queueVars, stream, call, promise, rows,
          spent, missed>>

Empty == [k \in Kinds |-> <<>>]

Init ==
  /\ wanted \in BOOLEAN /\ enabled = wanted /\ deferred = FALSE
  /\ running = FALSE /\ open = FALSE
  /\ sequence = 0 /\ queues = Empty
  /\ writer = [pc |-> "none", batch |-> <<>>]
  /\ life = [pc |-> "init", reload |-> FALSE]
  /\ active = {}
  /\ sampler = [on |-> FALSE, pc |-> "none", todo |-> {}]
  /\ stream = [u \in Sessions |-> "new"]
  /\ call = [c \in Callers |-> [pc |-> "idle", uuid |-> None, result |-> None]]
  /\ promise = [c \in Callers |-> None]
  /\ rows = [u \in Sessions |-> "none"]
  /\ spent = [saves |-> 0, passes |-> 0, faults |-> 0]
  /\ begun = {} /\ finished = {} /\ spoiled = {} /\ missed = {}

IsAvailable == enabled /\ running /\ open

-----------------------------------------------------------------------------
(* enqueue: refused when the writer is off or the queue is full.            *)

KindOf(type) ==
  CASE type = "event" -> "priority"
    [] type = "sample" -> "sample"
    [] OTHER -> "control"

\* Faulty variant: a stopped writer takes commands until its database is closed.
AcceptsStopped(type) ==
  enabled /\ open /\ Len(queues[KindOf(type)]) < Limits[KindOf(type)]

Accepts(type) ==
  IsAvailable /\ Len(queues[KindOf(type)]) < Limits[KindOf(type)]

\* timely: the command belongs to a session that has begun and not ended.
Command(type, u, c) ==
  [type |-> type, uuid |-> u, sequence |-> sequence, caller |-> c,
   timely |-> u \in begun \ finished]

Enqueue(type, u, c) ==
  /\ sequence' = IF IsAvailable THEN sequence + 1 ELSE sequence
  /\ queues' = IF Accepts(type)
               THEN [queues EXCEPT ![KindOf(type)] =
                       Append(@, Command(type, u, c))]
               ELSE queues
  /\ begun' = IF type = "begin" /\ Accepts(type) THEN begun \cup {u} ELSE begun
  /\ finished' =
       IF type = "end" /\ Accepts(type) THEN finished \cup {u} ELSE finished
  /\ spoiled' = IF type \in {"begin", "end"} /\ ~Accepts(type)
                THEN spoiled \cup {u} ELSE spoiled

-----------------------------------------------------------------------------
(* The streams: begin_session in session::start, under the read side of the *)
(* configuration gate, and end_session in session::join.                    *)

\* Faulty variant: a stream counts until its join begins.
ActiveUntilEnd == \E u \in Sessions : stream[u] \in {"begin", "started", "live"}

\* has_active_stream_sessions: a stream counts until its join has returned.
HasActiveStreamSessions == \E u \in Sessions : stream[u] \notin {"new", "over"}

Beginning == \E u \in Sessions : stream[u] \in {"begin", "started"}

At(u, pc) == stream' = [stream EXCEPT ![u] = pc]

\* history_available, then register_session: the gate keeps settings still.
BeginSession(u) ==
  /\ stream[u] = "new" /\ life.pc = "idle"
  /\ At(u, IF IsAvailable THEN "begin" ELSE "live")
  /\ active' = IF IsAvailable THEN active \cup {u} ELSE active
  /\ UNCHANGED <<settingVars, running, open, writer, life, sampler, queueVars,
                 call, promise, rows, spent, missed>>

EndSession(u) ==
  /\ stream[u] = "live"
  /\ active' = active \ {u}
  /\ At(u, "available")
  /\ UNCHANGED <<settingVars, running, open, writer, life, sampler, queueVars,
                 call, promise, rows, spent, missed>>

\* The end is given up when the history is not available.
EndAvailable(u) ==
  /\ stream[u] = "available"
  /\ At(u, IF IsAvailable THEN "ended" ELSE "over")
  /\ UNCHANGED <<settingVars, threadVars, queueVars, call, promise, rows, spent,
                 missed>>

\* What a stream enqueues, in order: its start, and its end.
StreamSteps ==
  [begin |-> <<"begin", "started">>, started |-> <<"event", "live">>,
   ended |-> <<"event", "end">>,     end     |-> <<"end", "prune">>,
   prune |-> <<"prune", "over">>]

StreamEnqueue(u) ==
  /\ stream[u] \in DOMAIN StreamSteps
  /\ Enqueue(StreamSteps[stream[u]][1],
             IF stream[u] = "prune" THEN None ELSE u, None)
  /\ At(u, StreamSteps[stream[u]][2])
  /\ UNCHANGED <<settingVars, threadVars, call, promise, rows, spent, missed>>

-----------------------------------------------------------------------------
(* The sampler thread: sampler_loop and record_sampled_session.             *)

SamplerStops ==
  /\ sampler.pc = "loop" /\ ~sampler.on
  /\ sampler' = [sampler EXCEPT !.pc = "exited"]
  /\ UNCHANGED <<settingVars, running, open, writer, life, active, queueVars,
                 stream, call, promise, rows, spent, missed>>

\* One pass over a copy of the active sessions.
SamplerPass ==
  /\ sampler.pc = "loop" /\ sampler.on /\ spent.passes < MaxPasses
  /\ active # {} /\ IsAvailable
  /\ sampler' = [sampler EXCEPT !.pc = "pass", !.todo = active]
  /\ spent' = [spent EXCEPT !.passes = @ + 1]
  /\ UNCHANGED <<settingVars, running, open, writer, life, active, queueVars,
                 stream, call, promise, rows, missed>>

\* A session that stream::get_all_session_info does not list is passed over,
\* as in a pass that never came.
SamplerSession(u) ==
  /\ sampler.pc = "pass" /\ u \in sampler.todo
  /\ sampler' = [sampler EXCEPT !.todo = @ \ {u},
                                !.pc = IF sampler.todo = {u} THEN "loop" ELSE @]
  /\ Enqueue("sample", u, None)
  /\ UNCHANGED <<settingVars, running, open, writer, life, active, stream, call,
                 promise, rows, spent, missed>>

-----------------------------------------------------------------------------
(* delete_session: the session must not be active; the caller waits for the *)
(* writer's answer, five seconds at most.                                   *)

Caller(c, pc, result) ==
  call' = [call EXCEPT ![c].pc = pc, ![c].result = result]

\* The client names a session it has been shown, so one that has begun.
DeleteSession(c, u) ==
  /\ call[c].pc = "idle" /\ stream[u] # "new"
  /\ call' = [call EXCEPT ![c] =
                IF IsAvailable
                THEN [pc |-> "active", uuid |-> u, result |-> None]
                ELSE [pc |-> "done", uuid |-> u, result |-> "unavailable"]]
  /\ UNCHANGED <<settingVars, threadVars, queueVars, stream, promise, rows,
                 spent, missed>>

\* Faulty variant: delete_session does not ask the sampler.
IsNeverActive(c) ==
  /\ call[c].pc = "active"
  /\ Caller(c, "enqueue", None)
  /\ UNCHANGED <<settingVars, threadVars, queueVars, stream, promise, rows,
                 spent, missed>>

IsActive(c) ==
  /\ call[c].pc = "active"
  /\ IF call[c].uuid \in active
     THEN Caller(c, "done", "active_session")
     ELSE Caller(c, "enqueue", None)
  /\ UNCHANGED <<settingVars, threadVars, queueVars, stream, promise, rows,
                 spent, missed>>

DeleteEnqueue(c) ==
  /\ call[c].pc = "enqueue"
  /\ Enqueue("delete", call[c].uuid, c)
  /\ IF Accepts("delete")
     THEN /\ Caller(c, "wait", None)
          /\ promise' = [promise EXCEPT ![c] = "pending"]
     ELSE Caller(c, "done", "unavailable") /\ UNCHANGED promise
  /\ UNCHANGED <<settingVars, threadVars, stream, rows, spent, missed>>

\* The future is ready, or the wait has timed out: at any moment before the
\* answer, and without fail when the command was dropped.
DeleteWait(c) ==
  /\ call[c].pc = "wait"
  /\ Caller(c, "done", IF promise[c] \in {"pending", "dropped"} THEN "timeout"
                       ELSE promise[c])
  /\ UNCHANGED <<settingVars, threadVars, queueVars, stream, promise, rows,
                 spent, missed>>

-----------------------------------------------------------------------------
(* The writer thread.                                                       *)

\* Faulty variant: only a delete flushes what is older.
FlushesBeforeDelete(barrier, q) ==
  IF barrier.type = "delete"
  THEN SelectSeq(q, LAMBDA cmd : cmd.uuid = barrier.uuid
                                   /\ cmd.sequence < barrier.sequence)
  ELSE <<>>

\* flushes_before_barrier: enqueued for the barrier's session before it.
FlushesBefore(barrier, q) ==
  IF barrier.type \in {"end", "delete"}
  THEN SelectSeq(q, LAMBDA cmd : cmd.uuid = barrier.uuid
                                   /\ cmd.sequence < barrier.sequence)
  ELSE <<>>

StaysBehind(barrier, q) ==
  LET flushed == FlushesBefore(barrier, q) IN
  SelectSeq(q, LAMBDA cmd : \A i \in DOMAIN flushed : flushed[i] # cmd)

\* A control command goes into the batch behind the older samples and events
\* of the session that it ends or deletes.
TakeControl(acc, cmd) ==
  [batch    |-> acc.batch \o FlushesBefore(cmd, acc.sample)
                  \o FlushesBefore(cmd, acc.priority) \o <<cmd>>,
   priority |-> StaysBehind(cmd, acc.priority),
   sample   |-> StaysBehind(cmd, acc.sample)]

Least(a, b) == IF a < b THEN a ELSE b

\* All control commands, all events, and at most n samples.
Drained(n) ==
  LET control == queues["control"]
      taken[i \in 0..Len(control)] ==
        IF i = 0 THEN [batch |-> <<>>, priority |-> queues["priority"],
                       sample |-> queues["sample"]]
        ELSE TakeControl(taken[i - 1], control[i])
      acc == taken[Len(control)]
      m == Least(n, Len(acc.sample))
  IN [batch |-> acc.batch \o acc.priority \o SubSeq(acc.sample, 1, m),
      rest  |-> [Empty EXCEPT !["sample"] =
                   SubSeq(acc.sample, m + 1, Len(acc.sample))]]

Pending == \E k \in Kinds : queues[k] # <<>>

\* drain_queue, and the last flush once g_running is off.
Drain(pc, n, next) ==
  /\ writer.pc = pc /\ Pending
  /\ LET drained == Drained(n) IN
     /\ writer' = [pc |-> next, batch |-> drained.batch]
     /\ queues' = drained.rest
  /\ UNCHANGED <<settingVars, running, open, sequence, begun, finished, spoiled,
                 life, active, sampler, stream, call, promise, rows, spent,
                 missed>>

DrainQueue == Drain("drain", SampleBatch, "batch")
Flush == Drain("flush", Len(queues["sample"]), "flushBatch")

WriterAt(pc) == writer' = [pc |-> pc, batch |-> <<>>]

\* writer_loop reads g_running; a drain that finds nothing returns to it.
WriterLoop ==
  /\ writer.pc = "loop"
  /\ WriterAt(IF running THEN "drain" ELSE "flush")
  /\ UNCHANGED <<settingVars, running, open, life, active, sampler, queueVars,
                 stream, call, promise, rows, spent, missed>>

DrainNothing ==
  /\ writer.pc = "drain" /\ ~Pending
  /\ WriterAt("loop")
  /\ UNCHANGED <<settingVars, running, open, life, active, sampler, queueVars,
                 stream, call, promise, rows, spent, missed>>

WriterExits ==
  /\ writer.pc = "flush" /\ ~Pending
  /\ WriterAt("exited")
  /\ UNCHANGED <<settingVars, running, open, life, active, sampler, queueVars,
                 stream, call, promise, rows, spent, missed>>

Present(u, table) == table[u] \in {"live", "ended"}

\* apply_write_cmd on the tables; a prune removes the ended among victims.
Apply(victims, acc, cmd) ==
  LET u == cmd.uuid IN
  CASE cmd.type = "begin" ->
         [acc EXCEPT !.rows[u] = IF Present(u, acc.rows) THEN @ ELSE "live"]
    [] cmd.type = "end" ->
         [acc EXCEPT !.rows[u] = IF Present(u, acc.rows) THEN "ended" ELSE @]
    [] cmd.type = "delete" ->
         [acc EXCEPT
            !.rows[u] = IF Present(u, acc.rows) THEN "removed" ELSE @,
            !.promise[cmd.caller] =
               IF Present(u, acc.rows) THEN "deleted" ELSE "not_found"]
    [] cmd.type = "prune" ->
         [acc EXCEPT !.rows = [v \in Sessions |->
            IF v \in victims /\ acc.rows[v] = "ended" THEN "removed"
            ELSE acc.rows[v]]]
    [] OTHER ->
         [acc EXCEPT !.missed =
            IF cmd.timely /\ acc.rows[u] # "live" THEN @ \cup {u} ELSE @]

Applied(batch, victims) ==
  LET applied[i \in 0..Len(batch)] ==
        IF i = 0 THEN [rows |-> rows, promise |-> promise, missed |-> missed]
        ELSE Apply(victims, applied[i - 1], batch[i])
  IN applied[Len(batch)]

\* The deletes of a batch that stopped at command i: failed, or dropped.
Answer(batch, i) ==
  [c \in Callers |->
     LET mine == {j \in DOMAIN batch :
                    batch[j].type = "delete" /\ batch[j].caller = c}
     IN IF mine = {} THEN promise[c]
        ELSE IF \E j \in mine : j <= i THEN "failed" ELSE "dropped"]

\* process_batch commits.
Commit ==
  \E victims \in SUBSET Sessions :
    LET r == Applied(writer.batch, victims) IN
    /\ rows' = r.rows /\ promise' = r.promise /\ missed' = r.missed
    /\ UNCHANGED <<spoiled, spent>>

Spoiling(batch) ==
  {batch[i].uuid :
     i \in {j \in DOMAIN batch : batch[j].type \in {"begin", "end"}}}

\* Faulty variant: results are answered although nothing was committed.
RollbackAnswered ==
  /\ spent.faults < MaxFaults
  /\ spent' = [spent EXCEPT !.faults = @ + 1]
  /\ promise' = Applied(writer.batch, {}).promise
  /\ spoiled' = spoiled \cup Spoiling(writer.batch)
  /\ UNCHANGED <<rows, missed>>

\* The whole batch is lost: no transaction or no commit (all are applied and
\* none stays), or command i fails. A delete behind it is dropped and never
\* answered: its caller, who shares the promise, waits in vain.
Rollback ==
  /\ spent.faults < MaxFaults
  /\ spent' = [spent EXCEPT !.faults = @ + 1]
  /\ \E i \in 1..(Len(writer.batch) + 1) :
       promise' = Answer(writer.batch, i)
  /\ spoiled' = spoiled \cup Spoiling(writer.batch)
  /\ UNCHANGED <<rows, missed>>

ProcessBatch(pc, next) ==
  /\ writer.pc = pc
  /\ WriterAt(next)
  /\ Commit \/ Rollback
  /\ UNCHANGED <<settingVars, running, open, sequence, queues, begun, finished,
                 life, active, sampler, stream, call>>

Writer ==
  \/ WriterLoop \/ DrainNothing \/ WriterExits
  \/ DrainQueue \/ Flush
  \/ ProcessBatch("batch", "loop") \/ ProcessBatch("flushBatch", "flush")

-----------------------------------------------------------------------------
(* Settings and lifecycle, under g_lifecycle_mutex.                         *)

LifeAt(pc) == life' = [life EXCEPT !.pc = pc]

\* apply_config_now, under the write side of the gate: a change of the
\* setting waits until no stream is active; reload_settings runs anyway.
ApplyConfig(value, before) ==
  LET waits == value # enabled /\ HasActiveStreamSessions
      now == IF waits THEN enabled ELSE value
  IN /\ enabled' = now
     /\ deferred' = (before \/ waits)
     /\ life' = [pc |-> IF now THEN "init" ELSE "stopSampler", reload |-> TRUE]

\* A save while streams are active is marked for later; it is applied at once
\* when its check came too early, when its keys may change under a stream, or
\* by the finalization of the shared runtime, whose stream has not ended yet.
SaveConfig(value) ==
  /\ life.pc = "idle" /\ ~Beginning /\ spent.saves < MaxSaves
  /\ spent' = [spent EXCEPT !.saves = @ + 1]
  /\ wanted' = value
  /\ \/ ApplyConfig(value, deferred)
     \/ /\ HasActiveStreamSessions
        /\ deferred' = TRUE
        /\ UNCHANGED <<enabled, life>>
  /\ UNCHANGED <<running, open, writer, active, sampler, queueVars, stream, call,
                 promise, rows, missed>>

\* maybe_apply_deferred, by the last stream's join and by the next start.
MaybeApplyDeferred ==
  /\ life.pc = "idle" /\ deferred /\ ~HasActiveStreamSessions
  /\ ApplyConfig(wanted, FALSE)
  /\ UNCHANGED <<wanted, running, open, writer, active, sampler, queueVars,
                 stream, call, promise, rows, spent, missed>>

\* writer::init: nothing to do, or the database opens, or it does not.
WriterInit ==
  /\ life.pc = "init"
  /\ \/ (running /\ open) /\ LifeAt("initSampler") /\ UNCHANGED open
     \/ ~(running /\ open) /\ ~enabled /\ LifeAt("idle") /\ UNCHANGED open
     \/ ~(running /\ open) /\ enabled /\ LifeAt("start") /\ open' = TRUE
     \/ /\ ~(running /\ open) /\ enabled /\ spent.faults < MaxFaults
        /\ LifeAt("idle") /\ open' = FALSE
  /\ spent' = IF ~(running /\ open) /\ enabled /\ ~open'
              THEN [spent EXCEPT !.faults = @ + 1] ELSE spent
  /\ UNCHANGED <<settingVars, running, writer, active, sampler, queueVars,
                 stream, call, promise, rows, missed>>

WriterStart ==
  /\ life.pc = "start"
  /\ sequence' = 0 /\ running' = TRUE
  /\ WriterAt("loop")
  /\ LifeAt("initPrune")
  /\ UNCHANGED <<settingVars, open, active, sampler, queues, begun, finished,
                 spoiled, stream, call, promise, rows, spent, missed>>

LifePrune ==
  /\ life.pc \in {"initPrune", "reloadPrune"}
  /\ Enqueue("prune", None, None)
  /\ LifeAt(IF life.pc = "initPrune" THEN "initSampler" ELSE "idle")
  /\ UNCHANGED <<settingVars, running, open, writer, active, sampler, stream,
                 call, promise, rows, spent, missed>>

\* sampler::init once the writer is available; a reload prunes as well.
SamplerInit ==
  /\ life.pc = "initSampler"
  /\ sampler' = IF IsAvailable /\ ~sampler.on
                THEN [on |-> TRUE, pc |-> "loop", todo |-> {}] ELSE sampler
  /\ LifeAt(IF IsAvailable /\ life.reload THEN "reloadPrune" ELSE "idle")
  /\ UNCHANGED <<settingVars, running, open, writer, active, queueVars, stream,
                 call, promise, rows, spent, missed>>

\* main: the servers' threads and the streams are gone.
Shutdown ==
  /\ life.pc = "idle" /\ ~HasActiveStreamSessions
  /\ \A c \in Callers : call[c].pc \in {"idle", "done"}
  /\ life' = [pc |-> "stopSampler", reload |-> FALSE]
  /\ UNCHANGED <<settingVars, running, open, writer, active, sampler, queueVars,
                 stream, call, promise, rows, spent, missed>>

StopSampler ==
  /\ life.pc = "stopSampler"
  /\ sampler' = [sampler EXCEPT !.on = FALSE]
  /\ LifeAt("joinSampler")
  /\ UNCHANGED <<settingVars, running, open, writer, active, queueVars, stream,
                 call, promise, rows, spent, missed>>

JoinSampler ==
  /\ life.pc = "joinSampler" /\ sampler.pc \in {"none", "exited"}
  /\ sampler' = [sampler EXCEPT !.pc = "none"]
  /\ active' = {}
  /\ LifeAt("stopWriter")
  /\ UNCHANGED <<settingVars, running, open, writer, queueVars, stream, call,
                 promise, rows, spent, missed>>

StopWriter ==
  /\ life.pc = "stopWriter"
  /\ running' = FALSE
  /\ LifeAt("joinWriter")
  /\ UNCHANGED <<settingVars, open, writer, active, sampler, queueVars, stream,
                 call, promise, rows, spent, missed>>

\* The thread is joined, then the database is closed. The program ends with
\* its last shutdown.
JoinWriter ==
  /\ life.pc = "joinWriter" /\ writer.pc \in {"none", "exited"}
  /\ WriterAt("none")
  /\ open' = FALSE
  /\ LifeAt(IF life.reload THEN "idle" ELSE "over")
  /\ UNCHANGED <<settingVars, running, active, sampler, queueVars, stream, call,
                 promise, rows, spent, missed>>

Lifecycle ==
  \/ WriterInit \/ WriterStart \/ LifePrune \/ SamplerInit
  \/ StopSampler \/ JoinSampler \/ StopWriter \/ JoinWriter

-----------------------------------------------------------------------------
Next ==
  \/ \E u \in Sessions : BeginSession(u) \/ EndSession(u) \/ EndAvailable(u)
                           \/ StreamEnqueue(u) \/ SamplerSession(u)
  \/ SamplerStops \/ SamplerPass
  \/ \E c \in Callers : \/ \E u \in Sessions : DeleteSession(c, u)
                        \/ IsActive(c) \/ DeleteEnqueue(c) \/ DeleteWait(c)
  \/ Writer
  \/ \E value \in BOOLEAN : SaveConfig(value)
  \/ MaybeApplyDeferred \/ Shutdown
  \/ Lifecycle

Spec == Init /\ [][Next]_vars
=============================================================================
