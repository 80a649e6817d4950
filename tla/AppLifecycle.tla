----------------------------- MODULE AppLifecycle -----------------------------
(***************************************************************************)
(* The life of the app (process.cpp) and what it does to the settings of   *)
(* the user's desktop: the audio output and the screen saver.              *)
(*                                                                         *)
(* Launches, terminations, pauses and resumptions hold the lifecycle gate, *)
(* so one of them runs at a time; captures, pause workers, the deferred    *)
(* launch at sign-in and the programs that the host started do not.        *)
(***************************************************************************)
EXTENDS AudioLifecycle, ScreenSaver

CONSTANT Pollers  \* the threads that may be in running() together

VARIABLES
  step,       \* where the one who holds the gate is, "idle" for nobody
  launching,  \* this termination makes place for another app
  deferred,   \* a launch waits for a sign-in: _deferred_launch
  polling,    \* the pollers that found it waiting
  launched,   \* the app's programs may be running, until its end stops them
  loose       \* others may be that nothing stops or waits for

procVars == <<step, launching, deferred, polling, launched, loose>>
vars == <<audioVars, saverVars, procVars>>

Init ==
  /\ AudioInit /\ SaverInit
  /\ step = "idle" /\ launching = FALSE
  /\ deferred = FALSE /\ polling = {}
  /\ launched = FALSE /\ loose = FALSE

\* terminate, also called first by execute.  A launch that failed comes here
\* with the gate still held.
Terminate ==
  /\ step \in {"idle", "failed"}
  /\ BeginTerminal
  /\ launching' \in {FALSE, step = "idle"}
  /\ deferred' = FALSE
  /\ step' = IF restorer' = "none" THEN "ending" ELSE "restoring"
  /\ UNCHANGED <<app, saverVars, polling, launched, loose>>

TerminalRestore ==
  /\ step = "restoring" /\ step' = "restored"
  /\ RestoreRetained
  /\ UNCHANGED <<app, saverVars, launching, deferred, polling, launched, loose>>

TerminalRestored ==
  /\ step = "restored" /\ step' = "ending"
  /\ CompleteTerminalRestore
  /\ UNCHANGED <<app, saverVars, launching, deferred, polling, launched, loose>>

\* The app's process group is stopped and its undo commands run before the setting
\* is undone.  Its detached commands, which are in no group, and undo commands that
\* time out go on.
EndApp ==
  /\ step = "ending" /\ step' = "clearing"
  /\ launched' = FALSE /\ loose' \in {loose, loose \/ launched}
  /\ RestoreSaver
  /\ UNCHANGED <<audioVars, launching, deferred, polling>>

ClearApp ==
  /\ step = "clearing"
  /\ app' = "none"
  /\ step' = IF launching THEN "assigning" ELSE "idle"
  /\ UNCHANGED <<default, stateVars, ctxVars, cap, saverVars, launching, deferred,
                 polling, launched, loose>>

AssignApp ==
  /\ step = "assigning" /\ step' = "assigned"
  /\ app' = "app" /\ launching' = FALSE
  /\ UNCHANGED <<default, stateVars, ctxVars, cap, saverVars, deferred, polling,
                 launched, loose>>

\* The app's commands follow, or wait for a sign-in, or the launch is refused.
AppStarted ==
  /\ step = "assigned"
  /\ HandOff
  /\ \/ step' = "commands" /\ UNCHANGED deferred
     \/ step' = "idle" /\ deferred' \in {deferred, TRUE}
  /\ UNCHANGED <<app, saverVars, launching, polling, launched, loose>>

\* launch_app_commands: what it runs from here on may change the setting.
LaunchCommands ==
  /\ BeginSaver
  /\ launched' = TRUE
  /\ UNCHANGED <<audioVars, launching, loose>>

LaunchApp ==
  /\ step = "commands" /\ step' \in {"idle", "failed"}
  /\ LaunchCommands
  /\ UNCHANGED <<deferred, polling>>

\* running() takes up the deferred launch without the gate.  It looks, warms up for
\* seconds, and only then clears the mark, so others may have looked as well.
SeeDeferredLaunch(p) ==
  /\ deferred /\ p \notin polling
  /\ polling' = polling \cup {p}
  /\ UNCHANGED <<audioVars, saverVars, step, launching, deferred, launched, loose>>

DeferredLaunch(p) ==
  /\ p \in polling /\ polling' = polling \ {p}
  /\ deferred' = FALSE
  /\ LaunchCommands
  /\ UNCHANGED step

LaunchInputOnly ==
  /\ step = "idle" /\ ~AppActive
  /\ app' = "input"
  /\ UNCHANGED <<default, stateVars, ctxVars, cap, saverVars, procVars>>

\* pause, of an app that is not terminated by it, and that runs on.  With commands
\* to run it registers their worker first.
Pause ==
  /\ step = "idle" /\ app = "app"
  /\ UNCHANGED <<audioVars, launching, deferred, polling, launched, loose>>
  /\ \/ RestoreSaver /\ UNCHANGED step
     \/ (\E w \in Pauses : DeferSaver(w)) /\ step' = "pausing"

PauseRestores ==
  /\ step = "pausing" /\ step' = "idle"
  /\ RestoreSaver
  /\ UNCHANGED <<audioVars, launching, deferred, polling, launched, loose>>

\* resume, which does not ask whether the app is still there.  Nobody waits for the
\* commands it runs for one.
Resume ==
  /\ step = "idle"
  /\ BeginSaver
  /\ loose' \in {loose, loose \/ app = "app"}
  /\ UNCHANGED <<audioVars, step, launching, deferred, polling, launched>>

\* A program the host started changes the setting: under a stream, while its app is
\* paused, or after the end of it.
AppWrites ==
  /\ launched \/ loose
  /\ ProgramWrites
  /\ UNCHANGED <<audioVars, procVars>>

LooseExit ==
  /\ loose /\ loose' = FALSE
  /\ UNCHANGED <<audioVars, saverVars, step, launching, deferred, polling, launched>>

Process ==
  \/ Terminate \/ TerminalRestore \/ TerminalRestored \/ EndApp \/ ClearApp
  \/ AssignApp \/ AppStarted \/ LaunchApp \/ LaunchInputOnly
  \/ \E p \in Pollers : SeeDeferredLaunch(p) \/ DeferredLaunch(p)
  \/ Pause \/ PauseRestores \/ Resume

Setting ==
  \/ AppWrites \/ LooseExit
  \/ /\ WorkerWrites \/ UserWrites \/ \E w \in Pauses : FinishSaver(w)
     /\ UNCHANGED <<audioVars, procVars>>

Next ==
  \/ Process \/ Setting
  \/ \E c \in Captures : Capture(c) /\ UNCHANGED <<saverVars, procVars>>

Spec == Init /\ [][Next]_vars
-----------------------------------------------------------------------------
Steps == {"idle", "restoring", "restored", "ending", "clearing", "assigning",
          "assigned", "commands", "failed", "pausing"}

\* Every variable has its type.
TypeOK ==
  /\ app \in {"none", "app", "input"} /\ default \in Outputs
  /\ kept \in Outputs \cup {"none"} /\ restorer \in Outputs \cup {"none"}
  /\ {terminal, handoff, restoring, overlapped} \subseteq BOOLEAN
  /\ ctx \in Contexts \cup {None}
  /\ refs \subseteq Captures /\ lock \in Captures \cup {None}
  /\ cap \in [Captures -> Pcs]
  /\ {saver, user, found} \subseteq Settings /\ before \in Settings \cup {"none"}
  /\ {active, failed, blind} \subseteq BOOLEAN
  /\ {launching, deferred, launched, loose} \subseteq BOOLEAN
  /\ pending \subseteq Pauses
  /\ step \in Steps /\ polling \subseteq Pollers

\* Who remembers the user's output and is bound to put it back.
ContextOwes == ctx # None /\ ctx.restore /\ ctx.memory = "user"
Owners ==
  {x \in {"context", "retained", "restorer"} :
     \/ x = "context" /\ ContextOwes
     \/ x = "retained" /\ kept = "user"
     \/ x = "restorer" /\ restorer = "user"}

\* A redirected output has exactly one owner that will put it back, and never
\* two, however captures come and go while apps end and follow each other;
\* and it is retained only for an app that can be resumed.  (Unless a context
\* was created during a terminal restore, which CreationWaits says never happens.)
SinkOwed ==
  ~overlapped =>
    /\ default = "stream" => Owners # {}
    /\ \A x, y \in Owners : x = y
    /\ kept # "none" => AppActive /\ ~terminal

\* No context is created while a terminal restore is under way, so none takes
\* the stream's output for the user's.
CreationWaits == ~overlapped

\* The mark of an app's end does not stick to its successor: an app that was
\* launched is resumable, or becomes so with the next capture.
TerminalLapses == step = "idle" /\ app = "app" /\ terminal => handoff

\* What is remembered of the screen saver is the setting as it was when it was last
\* nobody's to undo, however launches, pauses, their workers and resumptions follow
\* each other: never what an app did to it under a stream, or a pause's commands.
\* (That setting is the user's, unless a program changed it just then: see below.)
BaselineTrue == ~blind /\ before # "none" => before = found

\* A setting that was changed since is remembered, and will be undone: by the end of
\* the app or its pause, by a worker that is not done, or, when the write failed, at
\* the next attempt.  What programs do at other times is nobody's to undo.
SaverOwed == ~blind /\ saver # found => before = found /\ Covered

\* When the end of an app comes to undo the setting, with none but the app's own
\* programs there to have disabled it, it can: the user's is remembered.  No run checks
\* it: a pause without commands forgets the user's while the app runs on.
EndCanRestore ==
  step = "ending" /\ launched /\ ~loose /\ ~blind /\ ~failed
    => (saver = "off" /\ user = "on" => before = "on")
=============================================================================
