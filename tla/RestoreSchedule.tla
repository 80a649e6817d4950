-------------------------- MODULE RestoreSchedule --------------------------
(***************************************************************************)
(* The retry schedule of the display helper's desktop restore: the         *)
(* RestoreScheduler object (runtime_support.h) and the three places of the *)
(* state machine that drive it, i.e. REVERT, a failed attempt, a display   *)
(* event and the periodic tick (state_machine.cpp).                        *)
(*                                                                         *)
(* Time is counted in ticks of one second.  The code keeps deadlines; the  *)
(* model keeps what is left of each, so that the state space is finite     *)
(* although time never stops: windowLeft = -1 stands for now > window_until*)
(* and 0 for the last instant at which the window still counts as active.  *)
(***************************************************************************)
EXTENDS Integers, Sequences

CONSTANTS
  PrimaryWindow,  \* kRestoreWindowPrimary
  EventWindow,    \* kRestoreWindowEvent
  Backoff,        \* kRestoreBackoffProfile, as a sequence
  Grace,          \* grace of a client or disconnect REVERT
  Quiet           \* kRecoveryFeedbackQuietPeriod

ASSUME WindowAssumption ==
  /\ PrimaryWindow \in Nat \ {0}
  /\ EventWindow \in Nat \ {0}
  /\ EventWindow <= PrimaryWindow
  /\ Grace \in Nat
  /\ Quiet \in Nat \ {0}

ASSUME BackoffAssumption ==
  /\ Backoff \in Seq(Nat)
  /\ Len(Backoff) > 1
  /\ \A i \in 1..Len(Backoff) : Backoff[i] <= PrimaryWindow

VARIABLES
  mode,          \* "Waiting", "Recovery" (worker running) or "EventLoop"
  armed,         \* armed_
  reported,      \* window_exhausted_reported_
  windowLeft,    \* window_until_ - now, or -1
  nextIn,        \* next_allowed_ - now, or 0
  backoffIndex,  \* backoff_index_ + 1 (sequences start at 1)
  quietLeft,     \* recovery_event_feedback_quiet_until_ - now, or 0
  graceLeft,     \* what the running attempt still sleeps before restoring
  ticked,        \* handle_tick has run since the clock last moved
  attempts,      \* history: attempts begun in this window
  reports        \* history: expiry reports for this window

vars == <<mode, armed, reported, windowLeft, nextIn, backoffIndex, quietLeft,
          graceLeft, ticked, attempts, reports>>

history == <<attempts, reports>>

FlagsOK ==
  /\ armed \in BOOLEAN
  /\ reported \in BOOLEAN
  /\ ticked \in BOOLEAN

CountersOK ==
  /\ mode \in {"Waiting", "Recovery", "EventLoop"}
  /\ windowLeft \in -1..PrimaryWindow
  /\ nextIn \in 0..(PrimaryWindow + Grace)
  /\ backoffIndex \in 1..Len(Backoff)
  /\ quietLeft \in 0..Quiet
  /\ graceLeft \in 0..Grace
  /\ attempts \in Nat
  /\ reports \in Nat

TypeOK == FlagsOK /\ CountersOK

Init ==
  /\ mode = "Waiting"
  /\ armed = FALSE
  /\ reported = FALSE
  /\ windowLeft = -1
  /\ nextIn = 0
  /\ backoffIndex = 1
  /\ quietLeft = 0
  /\ graceLeft = 0
  /\ ticked = FALSE
  /\ attempts = 0
  /\ reports = 0

-----------------------------------------------------------------------------
(* RestoreScheduler *)

WindowActive == armed /\ windowLeft >= 0

\* Faulty variants, each one plausible slip away from the definition it is
\* named for; no action uses them.
AttemptBeforeClosing == WindowActive /\ windowLeft > 0 /\ nextIn = 0

ShouldAttempt == WindowActive /\ nextIn = 0

WindowJustExpired == armed /\ ~reported /\ windowLeft = -1

ArmPrimary(grace) ==
  /\ armed' = TRUE
  /\ windowLeft' = PrimaryWindow
  /\ nextIn' = grace
  /\ backoffIndex' = 1
  /\ reported' = FALSE

OnAttemptFailed ==
  /\ backoffIndex' = IF backoffIndex < Len(Backoff) THEN backoffIndex + 1
                                                    ELSE backoffIndex
  /\ nextIn' = Backoff[backoffIndex']

DisarmScheduler ==
  /\ armed' = FALSE
  /\ backoffIndex' = 1
  /\ reported' = FALSE
  /\ UNCHANGED <<windowLeft, nextIn>>

-----------------------------------------------------------------------------
(* The state machine's use of it *)

StartAttempt(grace) ==
  /\ mode' = "Recovery"
  /\ graceLeft' = grace

\* REVERT (explicit, disconnect or boot): handle_revert_command's last lines.
Revert(grace) ==
  /\ mode # "Recovery"
  /\ ArmPrimary(grace)
  /\ StartAttempt(grace)
  /\ attempts' = 1
  /\ reports' = 0
  /\ UNCHANGED <<quietLeft, ticked>>

\* RecoveryCompleted or RecoveryValidationCompleted without success.
AttemptFailed ==
  /\ mode = "Recovery"
  /\ graceLeft = 0
  /\ OnAttemptFailed
  /\ quietLeft' = Quiet
  /\ mode' = "EventLoop"
  /\ UNCHANGED <<armed, reported, windowLeft, graceLeft, ticked, attempts, reports>>

\* RecoveryValidationCompleted with success: the desktop is confirmed.
AttemptConfirmed ==
  /\ mode = "Recovery"
  /\ graceLeft = 0
  /\ DisarmScheduler
  /\ quietLeft' = 0
  /\ mode' = "Waiting"
  /\ UNCHANGED <<graceLeft, ticked, history>>

\* An APPLY takes the desktop over while restore attempts are paused.
ApplySupersedes ==
  /\ mode = "EventLoop"
  /\ DisarmScheduler
  /\ mode' = "Waiting"
  /\ UNCHANGED <<quietLeft, graceLeft, ticked, history>>

\* handle_display_event once every virtual-session branch has fallen through.
EventInQuietPeriod ==
  /\ mode = "EventLoop"
  /\ quietLeft > 0
  /\ quietLeft' = Quiet
  /\ UNCHANGED <<mode, armed, reported, windowLeft, nextIn, backoffIndex,
                 graceLeft, ticked, history>>

EventInOpenWindow ==
  /\ mode = "EventLoop"
  /\ quietLeft = 0
  /\ WindowActive
  /\ UNCHANGED vars

\* on_display_event, then the attempt should_attempt allows at once.
AnyArmedWindow == armed  \* faulty variant of the next definition
WindowNeedsEvent == armed /\ ~WindowActive

EventReopensWindow ==
  /\ mode = "EventLoop"
  /\ quietLeft = 0
  /\ WindowNeedsEvent
  /\ windowLeft' = EventWindow
  /\ nextIn' = 0
  /\ backoffIndex' = 1
  /\ reported' = FALSE
  /\ StartAttempt(0)
  /\ attempts' = IF WindowActive THEN attempts + 1 ELSE 1
  /\ reports' = 0
  /\ UNCHANGED <<armed, quietLeft, ticked>>

DisplayEvent == EventInQuietPeriod \/ EventInOpenWindow \/ EventReopensWindow

TickReportsExpiry ==
  /\ mode = "EventLoop"
  /\ WindowJustExpired
  /\ reported' = TRUE
  /\ reports' = reports + 1
  /\ ticked' = TRUE
  /\ UNCHANGED <<mode, armed, windowLeft, nextIn, backoffIndex, quietLeft,
                 graceLeft, attempts>>

TickAttempts ==
  /\ mode = "EventLoop"
  /\ ~WindowJustExpired
  /\ ShouldAttempt
  /\ StartAttempt(0)
  /\ attempts' = attempts + 1
  /\ ticked' = TRUE
  /\ UNCHANGED <<armed, reported, windowLeft, nextIn, backoffIndex, quietLeft,
                 reports>>

TickIdle ==
  /\ \/ mode # "EventLoop"
     \/ ~WindowJustExpired /\ ~ShouldAttempt
  /\ ~ticked
  /\ ticked' = TRUE
  /\ UNCHANGED <<mode, armed, reported, windowLeft, nextIn, backoffIndex,
                 quietLeft, graceLeft, history>>

Tick == TickReportsExpiry \/ TickAttempts \/ TickIdle

CloseWindow(n) == IF n >= 0 THEN n - 1 ELSE -1

\* One second passes.  The main loop polls every 100 ms, so it ticks at least
\* once in every second the clock leaves behind.
Advance ==
  LET CountDown(n) == IF n > 0 THEN n - 1 ELSE n IN
  /\ ticked
  /\ ticked' = FALSE
  /\ windowLeft' = CloseWindow(windowLeft)
  /\ nextIn' = CountDown(nextIn)
  /\ quietLeft' = CountDown(quietLeft)
  /\ graceLeft' = CountDown(graceLeft)
  /\ UNCHANGED <<mode, armed, reported, backoffIndex, attempts, reports>>

Next ==
  \/ \E grace \in {0, Grace} : Revert(grace)
  \/ AttemptFailed
  \/ AttemptConfirmed
  \/ ApplySupersedes
  \/ DisplayEvent
  \/ Tick
  \/ Advance

Fairness ==
  /\ WF_vars(Tick)
  /\ WF_vars(Advance)

Spec == Init /\ [][Next]_vars /\ Fairness

-----------------------------------------------------------------------------
(* Properties *)

\* What a window can hold: the n-th attempt waits for every back-off before it.
WaitBefore[n \in Nat] ==
  IF n <= 1 THEN 0
            ELSE WaitBefore[n - 1] + Backoff[IF n < Len(Backoff) THEN n ELSE Len(Backoff)]

\* However display events, failures and ticks interleave, one open window never
\* hosts more attempts than the back-off profile leaves room for: a restore whose
\* own notifications come back as events cannot turn into a restore storm.
AttemptsFitWindow ==
  attempts > 1 => WaitBefore[attempts] <= PrimaryWindow

\* window_just_expired is "true exactly once when the active window has just
\* expired": the golden-health counter it feeds counts windows, not polls.
ExpiryReportedOnce == reports <= 1

\* A failed restore whose next slot still lies inside the window is retried (or
\* taken over); the poll cannot step over the slot.
RetryHappens ==
  (mode = "EventLoop" /\ armed /\ nextIn <= windowLeft) ~> (mode # "EventLoop")
=============================================================================
