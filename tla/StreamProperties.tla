-------------------------- MODULE StreamProperties --------------------------
(* What the launches, sessions and their threads promise.                   *)
EXTENDS StreamLifecycle

Pcs == {"idle", "admit", "barrier", "scan", "cancelPending", "collect",
        "sessions", "join", "free", "ending", "cleanup", "sweep", "joinRtsp",
        "terminate", "raise", "done"}

Ops == CallKinds \cup {"none", "clear", "final", "sweepClient", "sweepRevoke"}

\* Every variable has its type; the three counters never wrap below zero.
TypeOK ==
  /\ gate \in {None, "worker"} \cup Callers
  /\ entry \in [Launches -> {"new", "pending", "gone"}]
  /\ due \subseteq Pending /\ claimed \subseteq Pending
  /\ unpaired \subseteq Clients
  /\ startups \in Nat
  /\ pool \in Seq(Launches) /\ posted \in Seq(Launches)
  /\ task \in [l : Launches \cup {None}, started : BOOLEAN]
  /\ sess \in [Launches -> {"none", "running", "stopping", "freed"}]
  /\ inSet \subseteq Launches /\ listed \subseteq Launches
  /\ peers \subseteq Launches /\ ended \subseteq Launches
  /\ capture \subseteq Launches
  /\ running \in Nat /\ teardown \in Nat
  /\ armed \in BOOLEAN /\ app \in BOOLEAN
  /\ bcast \in {"down", "up", "ending"}
  /\ control \in [pc : {"off", "poll", "walk", "iterate", "clear", "exit", "done"},
                  l : Launches \cup {None}, game : BOOLEAN, keep : BOOLEAN]
  /\ job \in [Workers -> [op : Ops, pc : Pcs,
                         arg : Launches \cup Clients \cup {None},
                         todo : SUBSET Launches, mine : SUBSET Launches,
                         cur : Launches \cup {None}]]
  /\ calls \in Nat
  /\ server \in {"up", "draining", "stopped"}

\* A launch that two connections announce, or that is announced again after a
\* failure, starts one session at most (claim_launch_startup).
StartsOnce == task.l # None /\ ~task.started => sess[task.l] = "none"

Joined(a) == job[a].mine \ (job[a].todo \cup {job[a].cur})

\* running_sessions counts the sessions started and not yet joined, whoever
\* joins them and however many join at once: the last one is found by it.
RunningCounted ==
  running = Cardinality(Alive \ UNION {Joined(a) : a \in Workers})

WillFinalize(a) ==
  \/ job[a].op \in {"cancel", "revoke", "sweepRevoke"}
  \/ job[a].op \in {"role", "replace"} /\ job[a].pc \in {"sessions", "join"}

\* The restoration of displays and platform is never forgotten: while it is
\* owed, something still owns the runtime or somebody is on the way to it.
CleanupOwed ==
  armed => HasSharedRuntimeOwner \/ ~Free \/ \E a \in Workers : WillFinalize(a)

\* The control thread's list holds raw pointers: each names a live session.
ListedAlive == control.pc \notin {"off", "done"} => listed \subseteq Alive

\* Displays and platform are never restored under a live capture thread,
\* whatever is called and whenever sessions end.
RuntimeKept == [][armed /\ ~armed' => capture = {}]_vars

\* Once a revocation has crossed the admission barrier and scanned, no launch
\* of that client is pending, however its requests and others interleave.
RevokedNotPending ==
  \A k \in unpaired :
    \/ Pending \cap OfClient(k) = {}
    \/ \E c \in Callers : /\ job[c].arg = k
                         /\ \/ job[c].pc = "barrier"
                            \/ job[c].op = "sweepRevoke"

\* When the RTSP server has shut down every startup was answered, no session
\* is left in the set, and one still alive is being joined by its caller.
ShutdownClean ==
  job["main"].pc = "done" =>
    /\ startups = 0 /\ pool = <<>> /\ posted = <<>> /\ task = NoTask
    /\ inSet = {}
    /\ Alive \subseteq UNION {job[c].mine : c \in Callers}

\* Completions posted before the io_context is stopped are run, not abandoned.
CompletionsRun == server = "stopped" => posted = <<>>

\* The phase of a launch as its client sees it.
Phase(l) ==
  IF l \in capture THEN "streaming"
  ELSE IF sess[l] # "none" THEN "over"
  ELSE CASE entry[l] = "new" -> "new"
         [] entry[l] = "pending" -> "offered"
         [] OTHER -> "over"

Service == INSTANCE StreamService
             WITH phase <- [l \in Launches |-> Phase(l)], configured <- armed

\* A launch that was cancelled, disconnected or timed out never streams, none
\* streams twice, and the runtime is kept while any is on offer or streams.
ImplementsService == Service!Spec

Threads == Workers \cup {"worker", "control"}

NeedsGate(a) ==
  \/ a = "control" /\ control.pc = "clear"
  \/ a = "worker" /\ pool # <<>> /\ task = NoTask
  \/ a = "rtsp" /\ IoRuns /\ (posted # <<>> \/ due # {})
  \/ /\ a \in Workers
     /\ \/ job[a].pc \in {"barrier", "cancelPending", "terminate",
                          "cleanup"}
        \/ job[a].pc = "join" /\ ThreadsJoined(job[a].cur)
        \/ AllJoined(a) /\ job[a].op \in {"role", "replace"}

\* Whom a thread cannot go on without: the holder of the gate, the control
\* thread for a session's end or its own, whoever ends the broadcast.
WaitsFor(a) ==
  {b \in Threads \ {a} :
     \/ NeedsGate(a) /\ gate = b
     \/ /\ a \in Workers /\ b = "control" /\ control.pc # "done"
        /\ \/ job[a].pc = "join" /\ job[a].cur \in listed \ ended
           \/ job[a].pc = "ending"
     \/ /\ a = "worker" /\ task # NoTask /\ ~task.started
        /\ b \in Workers /\ job[b].pc = "ending"
     \/ a = "main" /\ b = "rtsp" /\ job[a].pc = "joinRtsp"}

\* No circle of threads waits on the gate, a join and the broadcast context:
\* the gate is never held across the joins of a session.
NoCircularWait ==
  LET waits == [a \in Threads |-> WaitsFor(a)] IN
  \A S \in SUBSET {a \in Threads : waits[a] # {}} :
    S # {} => \E a \in S : waits[a] \cap S = {}

\* A session started when its broadcast context had lost its control thread.
Unattended(l) ==
  l \in (Alive \cap listed) \ ended /\ control.pc = "done"

\* A session that stops is joined and forgotten, unless a join waits for a
\* session that no control thread attends.
SessionsEnd ==
  \A l \in Launches :
    sess[l] = "stopping" ~>
      sess[l] = "freed" \/ \E k \in Launches : Unattended(k)
=============================================================================
