---------------------------- MODULE AudioLifecycle ----------------------------
(***************************************************************************)
(* Who owns the system's audio output (audio.cpp, audio_lifecycle_state.h).*)
(*                                                                         *)
(* A stream redirects the default output to its own sink and remembers the *)
(* user's.  The captures share one context; its last reference puts the    *)
(* user's output back, or retains it for the client to come back while the *)
(* app runs.  When the app ends a retained output is put back outside the  *)
(* lock.                                                                   *)
(***************************************************************************)
CONSTANTS Captures,  \* the audio threads of the sessions
          None

Outputs == {"user", "stream"}

\* audio_ctx_t: the output it remembers ("none" without an audio control),
\* restore_sink and sink_flag.
Contexts ==
  [memory : Outputs \cup {"none"}, restore : BOOLEAN, assigned : BOOLEAN]

ASSUME CapturesAssumption == None \notin Captures \cup Contexts

VARIABLES
  app,        \* _app_id > 0: "app", or "input" for the input-only app; else "none"
  default,    \* the system's default output: the user's or the stream's
  kept,       \* _retained, as the output its owner remembers, or "none"
  terminal,   \* _terminal_pending
  handoff,    \* _handoff_pending
  restoring,  \* _restore_in_progress
  restorer,   \* what a terminal restore is about to put back, or "none"
  ctx,        \* the audio_ctx_t that the captures share, or None
  refs,       \* the captures that hold a reference to it
  lock,       \* who holds the lock of safe::shared_t while it blocks
  cap,        \* where each capture is
  overlapped  \* history: a context was created during a terminal restore

stateVars == <<kept, terminal, handoff, restoring, restorer>>
ctxVars == <<ctx, refs, lock, overlapped>>
audioVars == <<app, default, stateVars, ctxVars, cap>>

Pcs == {"idle", "wait", "look", "reclaim", "create", "acquire", "route", "on",
        "stop", "retain", "restore"}

AppActive == app # "none"

AudioInit ==
  /\ app = "none" /\ default = "user"
  /\ kept = "none" /\ restorer = "none" /\ ctx = None /\ lock = None
  /\ terminal = FALSE /\ handoff = FALSE /\ restoring = FALSE /\ overlapped = FALSE
  /\ refs = {}
  /\ cap = [c \in Captures |-> "idle"]

At(c, pc) == cap[c] = pc
Moves(c, pc) == cap' = [cap EXCEPT ![c] = pc]

\* restore_sink: a default that is no longer the stream's is left alone, and
\* an owner that remembers the stream's own output has nothing to put back.
PutBack(output) ==
  default' = IF default = "stream" THEN output ELSE default
-----------------------------------------------------------------------------
(* A capture takes its reference; the first one constructs the context with *)
(* the lock of shared_t held.                                               *)

GetRef(c) ==
  /\ At(c, "idle") /\ lock = None
  /\ \/ /\ refs # {}
        /\ refs' = refs \cup {c} /\ Moves(c, "acquire")
        /\ UNCHANGED lock
     \/ /\ refs = {}
        /\ lock' = c /\ Moves(c, "wait")
        /\ UNCHANGED refs
  /\ UNCHANGED <<app, default, stateVars, ctx, overlapped>>

WaitForRestore(c) ==
  /\ At(c, "wait") /\ ~restoring
  /\ Moves(c, "look")
  /\ UNCHANGED <<app, default, stateVars, ctxVars>>

LookForRetained(c) ==
  /\ At(c, "look")
  /\ Moves(c, IF AppActive /\ ~terminal THEN "reclaim" ELSE "create")
  /\ UNCHANGED <<app, default, stateVars, ctxVars>>

\* The context is there: the reference is counted and the lock released.
Constructed(c, x) ==
  /\ ctx' = x /\ refs' = {c} /\ lock' = None
  /\ Moves(c, "acquire")

Reclaim(c) ==
  /\ At(c, "reclaim") /\ ~restoring
  /\ UNCHANGED <<app, default, terminal, handoff, restoring, restorer, overlapped>>
  /\ \/ /\ AppActive /\ ~terminal /\ kept # "none"
        /\ Constructed(c, [memory |-> kept, restore |-> TRUE, assigned |-> TRUE])
        /\ kept' = "none"
     \/ /\ ~(AppActive /\ ~terminal /\ kept # "none")
        /\ Moves(c, "create")
        /\ UNCHANGED <<kept, ctx, refs, lock>>

\* A context of its own, which asks the system for the user's output; or there
\* is no audio control to ask.
CreateControl(c) ==
  /\ At(c, "create")
  /\ \/ /\ Constructed(c, [memory |-> default, restore |-> FALSE, assigned |-> FALSE])
        /\ overlapped' = (overlapped \/ restoring)
     \/ /\ Constructed(c, [memory |-> "none", restore |-> FALSE, assigned |-> FALSE])
        /\ UNCHANGED overlapped
  /\ UNCHANGED <<app, default, stateVars>>
-----------------------------------------------------------------------------
(* A capture with a reference.                                              *)

\* Faulty variant: the mark of the last app's end stays.
AcquiredWithMark(c) ==
  /\ At(c, "acquire")
  /\ handoff' = FALSE
  /\ Moves(c, "route")
  /\ UNCHANGED <<app, default, kept, terminal, restoring, restorer, ctxVars>>

OwnerAcquired(c) ==
  /\ At(c, "acquire")
  /\ terminal' = (terminal /\ ~handoff) /\ handoff' = FALSE
  /\ Moves(c, "route")
  /\ UNCHANGED <<app, default, kept, restoring, restorer, ctxVars>>

\* Only the first capture of a context redirects the output.  It may capture
\* an output without routing to it, and set_sink may fail.
RouteOutput(c) ==
  /\ At(c, "route") /\ Moves(c, "on")
  /\ \/ /\ ctx.memory = "none" \/ ctx.assigned
        /\ UNCHANGED <<default, ctx>>
     \/ /\ ctx.memory # "none" /\ ~ctx.assigned
        /\ \/ /\ ctx' = [ctx EXCEPT !.assigned = TRUE]
              /\ UNCHANGED default
           \/ /\ ctx' = [ctx EXCEPT !.assigned = TRUE, !.restore = TRUE]
              /\ default' \in {default, "stream"}
  /\ UNCHANGED <<app, stateVars, refs, lock, overlapped>>

\* The session ends; the last reference destructs the context with the lock of
\* shared_t held.
DropRef(c) ==
  /\ At(c, "on") /\ lock = None
  /\ refs' = refs \ {c}
  /\ \/ /\ refs # {c} /\ Moves(c, "idle")
        /\ UNCHANGED <<ctx, lock>>
     \/ /\ refs = {c} /\ ~ctx.restore
        /\ ctx' = None /\ Moves(c, "idle")
        /\ UNCHANGED lock
     \/ /\ refs = {c} /\ ctx.restore
        /\ lock' = c /\ Moves(c, "stop")
        /\ UNCHANGED ctx
  /\ UNCHANGED <<app, default, stateVars, overlapped>>

ReleaseAction(c) ==
  /\ At(c, "stop")
  /\ Moves(c, IF AppActive /\ ~terminal THEN "retain" ELSE "restore")
  /\ UNCHANGED <<app, default, stateVars, ctxVars>>

Destructed(c) ==
  /\ ctx' = None /\ lock' = None
  /\ Moves(c, "idle")

\* Faulty variant: it does not ask whether the app has been told to end.
RetainsEnded(c) ==
  /\ At(c, "retain")
  /\ \/ /\ AppActive /\ kept = "none"
        /\ kept' = ctx.memory
        /\ Destructed(c)
     \/ /\ ~(AppActive /\ kept = "none")
        /\ Moves(c, "restore")
        /\ UNCHANGED <<kept, ctx, lock>>
  /\ UNCHANGED <<app, default, terminal, handoff, restoring, restorer, refs, overlapped>>

Retain(c) ==
  /\ At(c, "retain")
  /\ \/ /\ AppActive /\ ~terminal /\ kept = "none"
        /\ kept' = ctx.memory
        /\ Destructed(c)
     \/ /\ ~(AppActive /\ ~terminal /\ kept = "none")
        /\ Moves(c, "restore")
        /\ UNCHANGED <<kept, ctx, lock>>
  /\ UNCHANGED <<app, default, terminal, handoff, restoring, restorer, refs, overlapped>>

RestoreControl(c) ==
  /\ At(c, "restore")
  /\ PutBack(ctx.memory)
  /\ Destructed(c)
  /\ UNCHANGED <<app, stateVars, refs, overlapped>>

Capture(c) ==
  \/ GetRef(c) \/ WaitForRestore(c) \/ LookForRetained(c) \/ Reclaim(c)
  \/ CreateControl(c) \/ OwnerAcquired(c) \/ RouteOutput(c) \/ DropRef(c)
  \/ ReleaseAction(c) \/ Retain(c) \/ RestoreControl(c)
-----------------------------------------------------------------------------
(* What the app's life does to it.  Each is a part of an action of          *)
(* AppLifecycle, which says what becomes of the app.                        *)

BeginTerminal ==
  /\ terminal' = TRUE /\ handoff' = FALSE
  /\ \/ /\ ~restoring /\ kept # "none"
        /\ restoring' = TRUE /\ restorer' = kept /\ kept' = "none"
     \/ /\ restoring \/ kept = "none"
        /\ UNCHANGED <<kept, restoring, restorer>>
  /\ UNCHANGED <<default, ctxVars, cap>>

RestoreRetained ==
  /\ PutBack(restorer)
  /\ restorer' = "none"
  /\ UNCHANGED <<kept, terminal, handoff, restoring, ctxVars, cap>>

CompleteTerminalRestore ==
  /\ restoring' = FALSE
  /\ UNCHANGED <<default, kept, terminal, handoff, restorer, ctxVars, cap>>

HandOff ==
  /\ ~restoring
  /\ handoff' = TRUE
  /\ UNCHANGED <<default, kept, terminal, restoring, restorer, ctxVars, cap>>
=============================================================================
