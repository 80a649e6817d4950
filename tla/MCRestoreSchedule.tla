------------------------- MODULE MCRestoreSchedule -------------------------
(* A scaled profile: the windows and the back-off keep the code's ordering  *)
(* (0 < 1 < 3 < window, event window shorter than the primary one).         *)
EXTENDS RestoreSchedule

MCBackoff == <<0, 1, 3>>
=============================================================================
