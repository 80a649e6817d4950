---------------------------- MODULE MCAppLifecycle ----------------------------
(* Symmetry and a bound for the run of AppLifecycle.                         *)
EXTENDS AppLifecycle, TLC

Symmetric == Permutations(Captures) \cup Permutations(Pauses) \cup Permutations(Pollers)

\* Pollers of a deferred launch and programs that outlive their app change the screen
\* saver alone: the states in which they are there beside a capture are not explored.
Apart == (\E c \in Captures : cap[c] # "idle") => polling = {} /\ ~loose
=============================================================================
