----------------------------- MODULE ScreenSaver -----------------------------
(***************************************************************************)
(* The user's screen saver setting, which the programs that the host       *)
(* starts may change, and what the host remembers of it                    *)
(* (screen_saver_state.h, and its use in platform/windows/misc.cpp, where  *)
(* every operation holds the one mutex).                                   *)
(***************************************************************************)
CONSTANT Pauses  \* the tokens of pause workers that may be alive together

Settings == {"on", "off"}

VARIABLES
  saver,    \* the system's setting
  active,   \* active_
  before,   \* before_app_, or "none"
  pending,  \* pending_: the pause workers that have not finished
  user,     \* history: what the user last chose
  found,    \* history: the setting when it was last nobody's to undo
  failed,   \* history: the last attempt to write the setting failed
  blind     \* history: programs may change a setting that nobody has read

historyVars == <<user, found, failed, blind>>
saverVars == <<saver, active, before, pending, historyVars>>

SaverInit ==
  /\ saver \in Settings /\ user = saver /\ found = saver
  /\ active = FALSE /\ before = "none" /\ pending = {}
  /\ failed = FALSE /\ blind = FALSE

\* Faulty variant: every launch reads the setting.
BeginsAfresh ==
  /\ active' = TRUE
  /\ \/ before' = saver /\ UNCHANGED blind
     \/ blind' = TRUE /\ UNCHANGED before
  /\ UNCHANGED <<saver, pending, user, found, failed>>

\* cache_screen_saver_state: an older baseline is kept.
BeginSaver ==
  /\ active' = TRUE
  /\ \/ before # "none" /\ UNCHANGED <<before, blind>>
     \/ before = "none" /\ before' = saver /\ UNCHANGED blind
     \/ before = "none" /\ blind' = TRUE /\ UNCHANGED before
  /\ UNCHANGED <<saver, pending, user, found, failed>>

\* Faulty variant: it restores what was never read.
RestoreUnread ==
  \/ /\ active'
     /\ UNCHANGED <<saver, before, failed>>
  \/ /\ ~active'
     /\ saver' = before /\ failed' = FALSE
     /\ before' = IF pending' = {} THEN "none" ELSE before
  \/ /\ ~active'
     /\ failed' = TRUE
     /\ UNCHANGED <<saver, before>>

\* Faulty variant: it forgets what workers may still have to restore.
RestoreForgets ==
  \/ /\ active' \/ before = "none"
     /\ UNCHANGED <<saver, before, failed>>
  \/ /\ ~active' /\ before # "none"
     /\ saver' = before /\ failed' = FALSE
     /\ before' = "none"
  \/ /\ ~active' /\ before # "none"
     /\ failed' = TRUE
     /\ UNCHANGED <<saver, before>>

RestoreIfInactive ==
  \/ /\ active' \/ before = "none"
     /\ UNCHANGED <<saver, before, failed>>
  \/ /\ ~active' /\ before # "none"
     /\ saver' = before /\ failed' = FALSE
     /\ before' = IF pending' = {} THEN "none" ELSE before
  \/ /\ ~active' /\ before # "none"
     /\ failed' = TRUE
     /\ UNCHANGED <<saver, before>>

RestoreSaver ==
  /\ active' = FALSE /\ UNCHANGED <<pending, user, found, blind>>
  /\ RestoreIfInactive

DeferSaver(w) ==
  /\ w \notin pending
  /\ pending' = pending \cup {w}
  /\ blind' = (blind \/ before = "none")
  /\ UNCHANGED <<saver, active, before, user, found, failed>>

FinishSaver(w) ==
  /\ w \in pending
  /\ pending' = pending \ {w} /\ UNCHANGED <<active, user, found, blind>>
  /\ RestoreIfInactive

\* Whoever is to undo what programs do to the setting: the end of the app or of
\* the stream, a pause worker, or the next attempt after one that failed.
Covered == active \/ pending # {} \/ failed

\* A program changes the setting.  With nobody to undo it, that is the setting which
\* the host finds the next time, whatever the user's is.
ProgramWrites ==
  /\ saver' \in Settings \ {saver}
  /\ found' = IF Covered THEN found ELSE saver'
  /\ UNCHANGED <<active, before, pending, user, failed, blind>>

\* The commands of a pause change it while they run.
WorkerWrites == pending # {} /\ ProgramWrites

\* The user changes it while the host remembers no other, whether a paused app is
\* running or not.  What that app changes itself is ProgramWrites.
UserWrites ==
  /\ before = "none" /\ ~active /\ pending = {}
  /\ saver' \in Settings /\ user' = saver' /\ found' = saver'
  /\ failed' = FALSE /\ blind' = FALSE
  /\ UNCHANGED <<active, before, pending>>
=============================================================================
