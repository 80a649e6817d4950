----------------------------- MODULE MCHistory -----------------------------
(* A stream and a caller over queues of two, one and two commands.              *)
EXTENDS HistoryProperties

SmallLimits == [control |-> 2, priority |-> 1, sample |-> 2]
=============================================================================
