------------------------- MODULE HistoryProperties -------------------------
(* What the session history promises its streams, its callers and main.     *)
EXTENDS HistoryWriter

\* Events and samples accepted between a session's begin and its end are
\* written into its row, whatever batches they fall into and however long the
\* queues are: none reaches the tables before the begin or after the end
\* (flushes_before_barrier), unless the begin was lost or the row removed.
TimelyKept == missed \subseteq spoiled \cup {u \in Sessions : rows[u] = "removed"}

EndOf(u, q) == \E i \in DOMAIN q : q[i].type = "end" /\ q[i].uuid = u

\* A stream that is over has its end in the table, or on the way there: no
\* change of the setting stops the writer before the end is enqueued, unless
\* the database or a full queue refused it (stream::session::join).
EndRecorded ==
  \A u \in Sessions :
    stream[u] = "over" /\ rows[u] = "live" =>
      u \in spoiled \/ EndOf(u, queues["control"]) \/ EndOf(u, writer.batch)

\* The row of a session on the list of active ones is neither deleted by a
\* caller nor pruned, however the calls fall around its begin and its end.
ActiveKept == \A u \in active : rows[u] \in {"none", "live"}

\* Nothing that enqueue accepted is left behind by a writer that has stopped:
\* the next one would start with a foreign command and an older sequence.
DrainedAtExit == writer.pc \in {"none", "exited"} => ~Pending

Holds(q, c) == \E i \in DOMAIN q : q[i].type = "delete" /\ q[i].caller = c

\* A delete is answered truly. Until it is, its command is queued or in the
\* writer's hands, unless a command before it in its batch failed: no restart
\* or shutdown and no other failure leaves its caller waiting for nothing.
\* "deleted" means that the transaction was committed and that nothing brings
\* the row back.
DeletesAnswered ==
  \A c \in Callers :
    /\ promise[c] = "pending" =>
         Holds(queues["control"], c) \/ Holds(writer.batch, c)
    /\ "deleted" \in {promise[c], call[c].result} =>
         rows[call[c].uuid] = "removed"
=============================================================================
