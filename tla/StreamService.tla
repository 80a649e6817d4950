--------------------------- MODULE StreamService ---------------------------
(***************************************************************************)
(* What the host promises about launches: each is offered to its client,   *)
(* streams at most once and is over for good, and the runtime the streams  *)
(* share (displays, platform hooks, overrides) is restored only when no    *)
(* launch is on offer and none is streaming.                               *)
(***************************************************************************)
CONSTANT Launches

VARIABLES
  phase,       \* "new", "offered", "streaming" or "over"
  configured   \* the shared runtime awaits its restoration

serviceVars == <<phase, configured>>

In(p) == {l \in Launches : phase[l] = p}

\* The launches ls move on to phase p.
Moved(ls, p) == [l \in Launches |-> IF l \in ls THEN p ELSE phase[l]]

InUse == In("offered") \cup In("streaming") # {}

Init ==
  /\ phase = [l \in Launches |-> "new"]
  /\ configured = FALSE

\* The runtime is configured for a launch before that is offered.
Prepare == configured' = TRUE /\ UNCHANGED phase

\* A new launch is offered; offers that ran out of time lapse with it.
Offer(l, lapsed) ==
  /\ phase[l] = "new" /\ configured /\ lapsed \subseteq In("offered")
  /\ phase' = [Moved(lapsed, "over") EXCEPT ![l] = "offered"]
  /\ UNCHANGED configured

Refuse(l, lapsed) ==
  /\ phase[l] = "new" /\ lapsed \subseteq In("offered")
  /\ phase' = Moved(lapsed \cup {l}, "over")
  /\ configured' \in {configured, TRUE}

Start(l) ==
  /\ phase[l] = "offered"
  /\ phase' = Moved({l}, "streaming")
  /\ configured' = TRUE

End(l) ==
  /\ phase[l] = "streaming"
  /\ phase' = Moved({l}, "over")
  /\ UNCHANGED configured

\* Offers are withdrawn, and the runtime restored if that leaves no use.
Withdraw(ls) ==
  /\ ls \subseteq In("offered")
  /\ phase' = Moved(ls, "over")
  /\ \/ UNCHANGED configured
     \/ configured' = FALSE /\ ~InUse'

Next ==
  \/ Prepare
  \/ \E l \in Launches, ls \in SUBSET Launches : Offer(l, ls) \/ Refuse(l, ls)
  \/ \E l \in Launches : Start(l) \/ End(l)
  \/ \E ls \in SUBSET Launches : Withdraw(ls)

Spec == Init /\ [][Next]_serviceVars
=============================================================================
