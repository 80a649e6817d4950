----------------------- MODULE RestoreScheduleProofs -----------------------
(* For every profile of windows and back-offs: the types of the schedule's  *)
(* state, and the "exactly once" of an expiry report.                       *)
EXTENDS RestoreSchedule, TLAPS

(* A report was made for this window only if the latch is set; a disarmed   *)
(* scheduler has no latch to consult, and none to set before it is re-armed.*)
ReportLatched ==
  /\ armed /\ ~reported => reports = 0
  /\ reports \in {0, 1}

IInv == TypeOK /\ ReportLatched

(* What the proofs need of the constants, in one place.                     *)
LEMMA ProfileFacts ==
  /\ PrimaryWindow \in Nat
  /\ EventWindow \in 0..PrimaryWindow
  /\ Grace \in Nat
  /\ Quiet \in Nat
  /\ Len(Backoff) \in Nat
  /\ Len(Backoff) > 1
  /\ \A i \in 1..Len(Backoff) : Backoff[i] \in 0..PrimaryWindow
<1>1. \A i \in 1..Len(Backoff) : Backoff[i] \in Nat
  BY BackoffAssumption DEF BackoffAssumption
<1> QED
  BY <1>1, WindowAssumption, BackoffAssumption DEF WindowAssumption, BackoffAssumption

(* The schedule starts typed, with nothing reported.                        *)
LEMMA InitIInv == Init => IInv
<1> SUFFICES ASSUME Init PROVE IInv
  OBVIOUS
<1>1. FlagsOK
  BY DEF Init, FlagsOK
<1>2. CountersOK
  BY ProfileFacts DEF Init, CountersOK
<1>3. ReportLatched
  BY DEF Init, ReportLatched
<1> QED
  BY <1>1, <1>2, <1>3 DEF IInv, TypeOK

(* Every step keeps the schedule's flags Boolean.                           *)
LEMMA NextFlags == FlagsOK /\ [Next]_vars => FlagsOK'
  BY DEF FlagsOK, Next, Revert, ArmPrimary, AttemptFailed, AttemptConfirmed,
         ApplySupersedes, DisarmScheduler, DisplayEvent, EventInQuietPeriod,
         EventInOpenWindow, EventReopensWindow, Tick, TickReportsExpiry,
         TickAttempts, TickIdle, Advance, vars

(* Every step keeps the schedule's counters in range.                       *)
LEMMA NextCounters == CountersOK /\ [Next]_vars => CountersOK'
<1> SUFFICES ASSUME CountersOK, [Next]_vars PROVE CountersOK'
  OBVIOUS
<1> USE ProfileFacts DEF CountersOK
<1>1. ASSUME NEW grace \in {0, Grace}, Revert(grace) PROVE CountersOK'
  BY <1>1 DEF Revert, ArmPrimary, StartAttempt
<1>2. CASE AttemptFailed
  <2>1. backoffIndex' \in 1..Len(Backoff)
    BY <1>2 DEF AttemptFailed, OnAttemptFailed
  <2>2. Backoff[backoffIndex'] \in 0..PrimaryWindow
    BY <2>1
  <2> QED
    BY <1>2, <2>1, <2>2 DEF AttemptFailed, OnAttemptFailed
<1>3. CASE AttemptConfirmed
  BY <1>3 DEF AttemptConfirmed, DisarmScheduler, history
<1>4. CASE ApplySupersedes
  BY <1>4 DEF ApplySupersedes, DisarmScheduler, history
<1>5. CASE DisplayEvent
  <2>1. CASE EventInQuietPeriod
    BY <2>1 DEF EventInQuietPeriod, history
  <2>2. CASE EventInOpenWindow
    BY <2>2 DEF EventInOpenWindow, vars
  <2>3. CASE EventReopensWindow
    BY <2>3 DEF EventReopensWindow, StartAttempt
  <2> QED
    BY <1>5, <2>1, <2>2, <2>3 DEF DisplayEvent
<1>6. CASE Tick
  <2>1. CASE TickReportsExpiry
    BY <2>1 DEF TickReportsExpiry
  <2>2. CASE TickAttempts
    BY <2>2 DEF TickAttempts, StartAttempt
  <2>3. CASE TickIdle
    BY <2>3 DEF TickIdle, history
  <2> QED
    BY <1>6, <2>1, <2>2, <2>3 DEF Tick
<1>7. CASE Advance
  BY <1>7 DEF Advance, CloseWindow
<1>8. CASE UNCHANGED vars
  BY <1>8 DEF vars
<1> QED
  BY <1>1, <1>2, <1>3, <1>4, <1>5, <1>6, <1>7, <1>8 DEF Next

(* Every step keeps a report tied to the latch.                             *)
LEMMA NextReportLatched == ReportLatched /\ [Next]_vars => ReportLatched'
<1> SUFFICES ASSUME ReportLatched, [Next]_vars PROVE ReportLatched'
  OBVIOUS
<1> USE DEF ReportLatched
<1>1. ASSUME NEW grace \in {0, Grace}, Revert(grace) PROVE ReportLatched'
  BY <1>1 DEF Revert
<1>2. CASE AttemptConfirmed \/ ApplySupersedes
  BY <1>2 DEF AttemptConfirmed, ApplySupersedes, DisarmScheduler, history
<1>3. CASE EventReopensWindow
  BY <1>3 DEF EventReopensWindow
<1>4. CASE TickReportsExpiry
  BY <1>4 DEF TickReportsExpiry, WindowJustExpired
<1>5. CASE UNCHANGED <<armed, reported, reports>>
  BY <1>5
<1> QED
  BY <1>1, <1>2, <1>3, <1>4, <1>5
  DEF Next, AttemptFailed, DisplayEvent, EventInQuietPeriod, EventInOpenWindow,
      Tick, TickAttempts, TickIdle, Advance, vars, history

(* Every step keeps the invariant.                                          *)
LEMMA NextIInv == IInv /\ [Next]_vars => IInv'
  BY NextFlags, NextCounters, NextReportLatched DEF IInv, TypeOK

(* The invariant holds throughout.                                          *)
THEOREM IInvHolds == Spec => []IInv
<1>1. Init => IInv
  BY InitIInv
<1>2. IInv /\ [Next]_vars => IInv'
  BY NextIInv
<1> QED
  BY <1>1, <1>2, PTL DEF Spec

(* Every variable of the schedule keeps its type: in particular the windows *)
(* never run past their bounds and the back-off index stays inside the      *)
(* profile.                                                                 *)
THEOREM TypeCorrect == Spec => []TypeOK
<1>1. IInv => TypeOK
  BY DEF IInv
<1> QED
  BY <1>1, IInvHolds, PTL

(* Whatever the windows, one window reports its expiry at most once.        *)
THEOREM ExpiryReportedOnceHolds == Spec => []ExpiryReportedOnce
<1>1. IInv => ExpiryReportedOnce
  BY DEF IInv, ReportLatched, ExpiryReportedOnce
<1> QED
  BY <1>1, IInvHolds, PTL
=============================================================================
