------------------------- MODULE MCStreamLifecycle -------------------------
(* Two launches, of two clients or of the same one.                         *)
EXTENDS StreamProperties, TLC

CONSTANTS l1, l2, k1, k2, c1, c2

OneClient == [l \in Launches |-> k1]
TwoClients == (l1 :> k1) @@ (l2 :> k2)

\* Launches of one client, and callers, are interchangeable; launches of two
\* clients are if their clients are exchanged with them.
Symmetric == Permutations({l1, l2}) \cup Permutations({c1, c2})
SymmetricPairs ==
  {(l1 :> l2) @@ (l2 :> l1) @@ (k1 :> k2) @@ (k2 :> k1)}
    \cup Permutations({c1, c2})
=============================================================================
