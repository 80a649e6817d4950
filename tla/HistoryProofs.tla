--------------------------- MODULE HistoryProofs ---------------------------
(* What is proved of the session history's writer, for every value of the   *)
(* constants: any streams, callers, limits and batches, any saves, passes   *)
(* and faults.                                                              *)
EXTENDS HistoryProperties, TLAPS

Leaving == {"none", "flush", "flushBatch", "exited"}

\* The writer leaves its loop only after g_running is off, and g_running comes
\* back only with a new writer: who enqueues behind the last look at the
\* queues, under their mutex, finds g_running off.
StoppedFirst == writer.pc \in Leaving => ~running

IInv == StoppedFirst /\ DrainedAtExit

LEMMA InitIInv == Init => IInv
  BY DEF Init, IInv, StoppedFirst, DrainedAtExit, Pending, Empty, Leaving

\* A command is taken only while g_running is on.
LEMMA EnqueueKeeps ==
  ASSUME IInv, NEW type, NEW u, NEW c, Enqueue(type, u, c),
         UNCHANGED <<running, writer>>
  PROVE  IInv'
<1>1. StoppedFirst'
  BY DEF IInv, StoppedFirst
<1>2. CASE writer.pc \in {"none", "exited"}
  <2>1. ~running
    BY <1>2 DEF IInv, StoppedFirst, Leaving
  <2>2. queues' = queues
    BY <2>1 DEF Enqueue, Accepts, IsAvailable
  <2> QED
    BY <1>1, <2>2 DEF IInv, DrainedAtExit, Pending
<1>3. CASE writer.pc \notin {"none", "exited"}
  BY <1>1, <1>3 DEF IInv, DrainedAtExit
<1> QED
  BY <1>2, <1>3

\* A step that touches neither the writer nor the queues nor g_running.
LEMMA QuietKeeps ==
  ASSUME IInv, UNCHANGED <<running, writer, queues>>
  PROVE  IInv'
  BY DEF IInv, StoppedFirst, DrainedAtExit, Pending

LEMMA StreamKeeps ==
  ASSUME IInv, NEW u \in Sessions,
         \/ BeginSession(u) \/ EndSession(u) \/ EndAvailable(u)
         \/ StreamEnqueue(u) \/ SamplerSession(u)
  PROVE  IInv'
<1>1. CASE BeginSession(u) \/ EndSession(u) \/ EndAvailable(u)
  BY <1>1, QuietKeeps
  DEF BeginSession, EndSession, EndAvailable, queueVars, threadVars
<1>2. CASE StreamEnqueue(u)
  <2> DEFINE step == StreamSteps[stream[u]]
             of == IF stream[u] = "prune" THEN None ELSE u
  <2>1. Enqueue(step[1], of, None) /\ UNCHANGED <<running, writer>>
    BY <1>2 DEF StreamEnqueue, threadVars
  <2> HIDE DEF step, of
  <2> QED
    BY <2>1, EnqueueKeeps
<1>3. CASE SamplerSession(u)
  BY <1>3, EnqueueKeeps DEF SamplerSession
<1> QED
  BY <1>1, <1>2, <1>3

LEMMA CallerKeeps ==
  ASSUME IInv, NEW c \in Callers,
         \/ \E u \in Sessions : DeleteSession(c, u)
         \/ IsActive(c) \/ DeleteEnqueue(c) \/ DeleteWait(c)
  PROVE  IInv'
<1>1. CASE (\E u \in Sessions : DeleteSession(c, u)) \/ IsActive(c) \/ DeleteWait(c)
  BY <1>1, QuietKeeps
  DEF DeleteSession, IsActive, DeleteWait, queueVars, threadVars
<1>2. CASE DeleteEnqueue(c)
  <2> DEFINE u == call[c].uuid
  <2>1. Enqueue("delete", u, c) /\ UNCHANGED <<running, writer>>
    BY <1>2 DEF DeleteEnqueue, threadVars
  <2> HIDE DEF u
  <2> QED
    BY <2>1, EnqueueKeeps
<1> QED
  BY <1>1, <1>2

\* The writer's own steps: it leaves the loop on g_running off, and exits on
\* empty queues.
LEMMA WriterKeeps ==
  ASSUME IInv, Writer
  PROVE  IInv'
<1>1. CASE WriterLoop
  BY <1>1 DEF WriterLoop, WriterAt, IInv, StoppedFirst, DrainedAtExit, Leaving,
              queueVars
<1>2. CASE DrainNothing
  BY <1>2 DEF DrainNothing, WriterAt, IInv, StoppedFirst, DrainedAtExit, Leaving
<1>3. CASE WriterExits
  BY <1>3 DEF WriterExits, WriterAt, IInv, StoppedFirst, DrainedAtExit, Leaving,
              Pending, queueVars
<1>4. CASE DrainQueue
  <2>1. writer'.pc = "batch"
    BY <1>4 DEF DrainQueue, Drain
  <2> QED
    BY <2>1 DEF IInv, StoppedFirst, DrainedAtExit, Leaving
<1>5. CASE Flush
  <2>1. writer.pc = "flush" /\ writer'.pc = "flushBatch" /\ running' = running
    BY <1>5 DEF Flush, Drain
  <2> QED
    BY <2>1 DEF IInv, StoppedFirst, DrainedAtExit, Leaving
<1>6. CASE ProcessBatch("batch", "loop")
  <2>1. writer'.pc = "loop"
    BY <1>6 DEF ProcessBatch, WriterAt
  <2> QED
    BY <2>1 DEF IInv, StoppedFirst, DrainedAtExit, Leaving
<1>7. CASE ProcessBatch("flushBatch", "flush")
  <2>1. writer.pc = "flushBatch" /\ writer'.pc = "flush" /\ running' = running
    BY <1>7 DEF ProcessBatch, WriterAt
  <2> QED
    BY <2>1 DEF IInv, StoppedFirst, DrainedAtExit, Leaving
<1> QED
  BY <1>1, <1>2, <1>3, <1>4, <1>5, <1>6, <1>7 DEF Writer

\* A new writer starts in its loop, with g_running on; a joined one left
\* nothing behind.
LEMMA LifecycleKeeps ==
  ASSUME IInv, Lifecycle
  PROVE  IInv'
<1>1. CASE WriterInit \/ SamplerInit \/ StopSampler \/ JoinSampler
  BY <1>1, QuietKeeps
  DEF WriterInit, SamplerInit, StopSampler, JoinSampler, queueVars
<1>2. CASE WriterStart
  BY <1>2 DEF WriterStart, WriterAt, IInv, StoppedFirst, DrainedAtExit, Leaving
<1>3. CASE LifePrune
  BY <1>3, EnqueueKeeps DEF LifePrune
<1>4. CASE StopWriter
  BY <1>4 DEF StopWriter, IInv, StoppedFirst, DrainedAtExit, Pending, queueVars
<1>5. CASE JoinWriter
  BY <1>5 DEF JoinWriter, WriterAt, IInv, StoppedFirst, DrainedAtExit, Leaving,
              Pending, queueVars
<1> QED
  BY <1>1, <1>2, <1>3, <1>4, <1>5 DEF Lifecycle

LEMMA NextKeeps == IInv /\ [Next]_vars => IInv'
<1> SUFFICES ASSUME IInv, [Next]_vars PROVE IInv'
  OBVIOUS
<1>1. ASSUME NEW u \in Sessions,
             \/ BeginSession(u) \/ EndSession(u) \/ EndAvailable(u)
             \/ StreamEnqueue(u) \/ SamplerSession(u)
      PROVE  IInv'
  BY <1>1, StreamKeeps
<1>2. CASE SamplerStops \/ SamplerPass
  BY <1>2, QuietKeeps DEF SamplerStops, SamplerPass, queueVars
<1>3. ASSUME NEW c \in Callers,
             \/ \E u \in Sessions : DeleteSession(c, u)
             \/ IsActive(c) \/ DeleteEnqueue(c) \/ DeleteWait(c)
      PROVE  IInv'
  BY <1>3, CallerKeeps
<1>4. CASE Writer
  BY <1>4, WriterKeeps
<1>5. CASE \E value \in BOOLEAN : SaveConfig(value)
  BY <1>5, QuietKeeps DEF SaveConfig, queueVars
<1>6. CASE MaybeApplyDeferred \/ Shutdown
  BY <1>6, QuietKeeps DEF MaybeApplyDeferred, Shutdown, queueVars
<1>7. CASE Lifecycle
  BY <1>7, LifecycleKeeps
<1>8. CASE UNCHANGED vars
  BY <1>8, QuietKeeps DEF vars, threadVars, queueVars
<1> QED
  BY <1>1, <1>2, <1>3, <1>4, <1>5, <1>6, <1>7, <1>8 DEF Next

\* A writer that has stopped has left nothing behind that enqueue accepted,
\* however enqueueing, shutdown and the writer's last look interleave.
THEOREM DrainedAtExitHolds == Spec => []DrainedAtExit
<1>1. IInv => DrainedAtExit
  BY DEF IInv
<1> QED
  BY <1>1, InitIInv, NextKeeps, PTL DEF Spec
=============================================================================
