-------------------------- MODULE AppLifecycleProofs --------------------------
(***************************************************************************)
(* For any captures, pause workers and pollers: the app's life and the two *)
(* settings keep their types, the user's audio output always has exactly   *)
(* one who will put it back, and the screen saver setting that the host    *)
(* found is remembered and owed whenever it is not the one there is.       *)
(***************************************************************************)
EXTENDS AppLifecycle, TLAPS

AudioTyped ==
  /\ app \in {"none", "app", "input"} /\ default \in Outputs
  /\ kept \in Outputs \cup {"none"} /\ restorer \in Outputs \cup {"none"}
  /\ terminal \in BOOLEAN /\ handoff \in BOOLEAN
  /\ restoring \in BOOLEAN /\ overlapped \in BOOLEAN
  /\ ctx \in Contexts \cup {None}
  /\ refs \subseteq Captures /\ lock \in Captures \cup {None}
  /\ cap \in [Captures -> Pcs]
  /\ step \in Steps

SaverTyped ==
  /\ saver \in Settings /\ user \in Settings /\ before \in Settings \cup {"none"}
  /\ found \in Settings
  /\ active \in BOOLEAN /\ failed \in BOOLEAN /\ blind \in BOOLEAN
  /\ pending \subseteq Pauses

ProcTyped ==
  /\ launching \in BOOLEAN /\ deferred \in BOOLEAN
  /\ launched \in BOOLEAN /\ loose \in BOOLEAN
  /\ polling \subseteq Pollers

Constructing == {"wait", "look", "reclaim", "create"}
Destructing == {"stop", "retain", "restore"}
Holding == {"acquire", "route", "on"}
Ending == {"restoring", "restored", "ending", "clearing", "assigning", "assigned"}

\* The lock of shared_t is held by the capture that constructs or destructs
\* the context, and the references are those of the captures past it.
LockInv ==
  /\ \A c \in Captures : cap[c] \in Constructing \cup Destructing <=> lock = c
  /\ \A c \in Captures : cap[c] \in Holding <=> c \in refs
  /\ lock # None => refs = {}

\* The context is there while it is referenced or destructed, and then nothing
\* is retained.
CtxInv ==
  /\ \A c \in Captures :
       /\ cap[c] \in Constructing => ctx = None
       /\ cap[c] \in Destructing => ctx # None /\ ctx.restore
       /\ cap[c] \in Holding => ctx # None
       /\ cap[c] = "create" => kept = "none"
  /\ lock = None /\ refs = {} => ctx = None
  /\ ctx # None => kept = "none" /\ (ctx.restore => ctx.memory # "none")

\* The mark of an app's end stands until its successor has started; what is
\* retained is handed to the terminal restore as soon as it is set.
StepInv ==
  /\ restoring <=> step \in {"restoring", "restored"}
  /\ restorer # "none" <=> step = "restoring"
  /\ step \in Ending => terminal /\ ~handoff
  /\ step \notin Ending /\ app = "app" /\ terminal => handoff
  /\ kept # "none" => app # "none" /\ ~terminal

\* Nobody takes the stream's output for the user's.
SinkInv ==
  ~overlapped =>
    /\ default = "stream" => ContextOwes \/ kept = "user" \/ restorer = "user"
    /\ ctx # None => ctx.memory # "stream"
    /\ kept # "stream" /\ restorer # "stream"
    /\ restoring /\ ctx # None => ctx.memory = "none"

\* Whoever is to undo what programs do to the screen saver has a baseline to
\* do it with, and a baseline is kept for nobody else.
SaverInv ==
  /\ BaselineTrue
  /\ SaverOwed
  /\ Covered /\ ~blind => before # "none"
  /\ before # "none" => Covered

IInv ==
  /\ AudioTyped /\ SaverTyped /\ ProcTyped
  /\ LockInv /\ CtxInv /\ StepInv /\ SinkInv /\ SaverInv
-----------------------------------------------------------------------------
(* The invariant holds at the start.                                        *)

LEMMA InitInv == Init => IInv
<1>1. ASSUME Init PROVE AudioTyped /\ SaverTyped /\ ProcTyped
  BY <1>1 DEF Init, AudioInit, SaverInit, AudioTyped, SaverTyped, ProcTyped,
              Outputs, Pcs, Steps, Settings
<1>2. ASSUME Init PROVE LockInv
  BY <1>2, CapturesAssumption
     DEF Init, AudioInit, LockInv, Constructing, Destructing, Holding
<1>3. ASSUME Init PROVE CtxInv
  BY <1>3 DEF Init, AudioInit, CtxInv, Constructing, Destructing, Holding
<1>4. ASSUME Init PROVE StepInv /\ SinkInv
  BY <1>4 DEF Init, AudioInit, StepInv, SinkInv, Ending, Outputs
<1>5. ASSUME Init PROVE SaverInv
  BY <1>5 DEF Init, SaverInit, SaverInv, BaselineTrue, SaverOwed, Covered
<1>6. QED
  BY <1>1, <1>2, <1>3, <1>4, <1>5 DEF IInv
-----------------------------------------------------------------------------
(* The captures.  The lock and the references tell where each of them is.   *)

AudioInv == AudioTyped /\ LockInv /\ CtxInv /\ StepInv /\ SinkInv

LEMMA GetRefStep ==
  ASSUME AudioInv, NEW c \in Captures, GetRef(c), UNCHANGED step
  PROVE  AudioInv'
<1> USE CapturesAssumption DEF GetRef, At, Moves, stateVars, ctxVars
<1>1. AudioTyped'
  BY DEF AudioInv, AudioTyped, Pcs
<1>2. LockInv'
  BY DEF AudioInv, AudioTyped, LockInv, Constructing, Destructing, Holding
<1>3. CtxInv'
  BY DEF AudioInv, AudioTyped, LockInv, CtxInv, Constructing, Destructing, Holding
<1>4. StepInv'
  BY DEF AudioInv, StepInv
<1>5. SinkInv'
  BY DEF AudioInv, SinkInv, ContextOwes
<1>6. QED
  BY <1>1, <1>2, <1>3, <1>4, <1>5 DEF AudioInv

LEMMA WaitForRestoreStep ==
  ASSUME AudioInv, NEW c \in Captures, WaitForRestore(c), UNCHANGED step
  PROVE  AudioInv'
<1> USE CapturesAssumption DEF WaitForRestore, At, Moves, stateVars, ctxVars
<1>1. AudioTyped'
  BY DEF AudioInv, AudioTyped, Pcs
<1>2. LockInv'
  BY DEF AudioInv, LockInv, Constructing, Holding
<1>3. CtxInv'
  BY DEF AudioInv, CtxInv, Constructing, Destructing, Holding
<1>4. StepInv'
  BY DEF AudioInv, StepInv
<1>5. SinkInv'
  BY DEF AudioInv, SinkInv, ContextOwes
<1>6. QED
  BY <1>1, <1>2, <1>3, <1>4, <1>5 DEF AudioInv

LEMMA LookForRetainedStep ==
  ASSUME AudioInv, NEW c \in Captures, LookForRetained(c), UNCHANGED step
  PROVE  AudioInv'
<1> USE CapturesAssumption DEF LookForRetained, At, Moves, stateVars, ctxVars, AppActive
<1>1. AudioTyped'
  BY DEF AudioInv, AudioTyped, Pcs
<1>2. LockInv'
  BY DEF AudioInv, LockInv, Constructing, Holding
<1>3. CtxInv'
  BY DEF AudioInv, CtxInv, StepInv, Constructing, Destructing, Holding
<1>4. StepInv'
  BY DEF AudioInv, StepInv
<1>5. SinkInv'
  BY DEF AudioInv, SinkInv, ContextOwes
<1>6. QED
  BY <1>1, <1>2, <1>3, <1>4, <1>5 DEF AudioInv

LEMMA ReclaimStep ==
  ASSUME AudioInv, NEW c \in Captures, Reclaim(c), UNCHANGED step
  PROVE  AudioInv'
<1> USE CapturesAssumption
    DEF Reclaim, At, Moves, AppActive
<1>1. CASE Constructed(c, [memory |-> kept, restore |-> TRUE, assigned |-> TRUE])
           /\ kept # "none" /\ kept' = "none"
  <2>1. /\ ctx' \in Contexts /\ ctx' # None
        /\ ctx'.memory = kept /\ ctx'.restore = TRUE
    <3>1. ctx' = [memory |-> kept, restore |-> TRUE, assigned |-> TRUE]
      BY <1>1 DEF Constructed
    <3>2. kept \in Outputs \cup {"none"}
      BY DEF AudioInv, AudioTyped
    <3>3. ctx' \in Contexts
      BY <3>1, <3>2 DEF Contexts
    <3>4. QED
      BY <3>1, <3>3
  <2>2. /\ refs' = {c} /\ lock' = None
        /\ cap[c] = "reclaim" /\ cap' = [cap EXCEPT ![c] = "acquire"]
    BY <1>1 DEF Constructed
  <2>3. /\ ~restoring /\ kept' = "none"
        /\ UNCHANGED <<app, default, terminal, handoff, restoring, restorer, overlapped>>
    BY <1>1
  <2> HIDE DEF Reclaim
  <2>4. AudioTyped'
    BY <2>1, <2>2, <2>3 DEF AudioInv, AudioTyped, Pcs
  <2>5. LockInv'
    BY <2>2 DEF AudioInv, AudioTyped, LockInv, Constructing, Destructing, Holding
  <2>6. CtxInv'
    BY <1>1, <2>1, <2>2, <2>3 DEF AudioInv, AudioTyped, LockInv, CtxInv, Pcs, Constructing,
                       Destructing, Holding
  <2>7. StepInv'
    BY <2>3 DEF AudioInv, StepInv
  <2>8. SinkInv'
    BY <1>1, <2>1, <2>3 DEF AudioInv, AudioTyped, SinkInv, ContextOwes, Outputs
  <2>9. QED
    BY <2>4, <2>5, <2>6, <2>7, <2>8 DEF AudioInv
<1>2. CASE ~(AppActive /\ ~terminal /\ kept # "none") /\ Moves(c, "create")
           /\ UNCHANGED <<kept, ctx, refs, lock>>
  <2>1. AudioTyped'
    BY <1>2 DEF AudioInv, AudioTyped, Pcs
  <2>2. LockInv'
    BY <1>2 DEF AudioInv, LockInv, Constructing, Holding
  <2>3. CtxInv'
    BY <1>2 DEF AudioInv, AudioTyped, CtxInv, StepInv, Pcs, Constructing, Destructing,
                Holding
  <2>4. StepInv' /\ SinkInv'
    BY <1>2 DEF AudioInv, StepInv, SinkInv, ContextOwes
  <2>5. QED
    BY <2>1, <2>2, <2>3, <2>4 DEF AudioInv
<1>3. QED
  BY <1>1, <1>2

LEMMA CreateControlStep ==
  ASSUME AudioInv, NEW c \in Captures, CreateControl(c), UNCHANGED step
  PROVE  AudioInv'
<1> USE CapturesAssumption
<1>1. PICK memory \in Outputs \cup {"none"} :
        /\ Constructed(c, [memory |-> memory, restore |-> FALSE, assigned |-> FALSE])
        /\ \/ memory = default /\ overlapped' = (overlapped \/ restoring)
           \/ memory = "none" /\ UNCHANGED overlapped
  BY DEF CreateControl, AudioInv, AudioTyped
<1>2. /\ ctx' \in Contexts /\ ctx' # None
      /\ ctx'.memory = memory /\ ctx'.restore = FALSE
  <2>1. ctx' = [memory |-> memory, restore |-> FALSE, assigned |-> FALSE]
    BY <1>1 DEF Constructed
  <2>2. ctx' \in Contexts
    BY <2>1 DEF Contexts
  <2>3. QED
    BY <2>1, <2>2
<1>3. /\ refs' = {c} /\ lock' = None /\ cap' = [cap EXCEPT ![c] = "acquire"]
      /\ cap[c] = "create" /\ UNCHANGED <<app, default, stateVars>>
  BY <1>1 DEF CreateControl, Constructed, At, Moves
<1>4. AudioTyped'
  <2>1. overlapped' \in BOOLEAN
    BY <1>1 DEF AudioInv, AudioTyped
  <2>2. QED
    BY <1>2, <1>3, <2>1 DEF AudioInv, AudioTyped, stateVars, Pcs
<1>5. LockInv'
  BY <1>3 DEF AudioInv, AudioTyped, LockInv, Constructing, Destructing, Holding
<1>6. CtxInv'
  BY <1>2, <1>3 DEF AudioInv, AudioTyped, LockInv, CtxInv, stateVars, Pcs, Constructing,
                    Destructing, Holding
<1>7. StepInv'
  BY <1>3 DEF AudioInv, StepInv, stateVars
<1>8. SinkInv'
  <2>1. ctx = None /\ kept = "none"
    BY <1>3 DEF AudioInv, CtxInv, Constructing
  <2>2. ~restoring => restorer = "none"
    BY DEF AudioInv, StepInv
  <2>3. QED
    BY <1>1, <1>2, <1>3, <2>1, <2>2
       DEF AudioInv, AudioTyped, SinkInv, ContextOwes, stateVars, Outputs
<1>9. QED
  BY <1>4, <1>5, <1>6, <1>7, <1>8 DEF AudioInv

LEMMA OwnerAcquiredStep ==
  ASSUME AudioInv, NEW c \in Captures, OwnerAcquired(c), UNCHANGED step
  PROVE  AudioInv'
<1> USE CapturesAssumption DEF OwnerAcquired, At, Moves, stateVars, ctxVars
<1>1. AudioTyped'
  <2>1. terminal' \in BOOLEAN /\ handoff' \in BOOLEAN
    OBVIOUS
  <2>2. QED
    BY <2>1 DEF AudioInv, AudioTyped, Pcs
<1>2. LockInv'
  BY DEF AudioInv, LockInv, Constructing, Destructing, Holding
<1>3. CtxInv'
  BY DEF AudioInv, CtxInv, Constructing, Destructing, Holding
<1>4. StepInv'
  BY DEF AudioInv, StepInv
<1>5. SinkInv'
  BY DEF AudioInv, SinkInv, ContextOwes
<1>6. QED
  BY <1>1, <1>2, <1>3, <1>4, <1>5 DEF AudioInv

LEMMA RouteOutputStep ==
  ASSUME AudioInv, NEW c \in Captures, RouteOutput(c), UNCHANGED step
  PROVE  AudioInv'
<1> USE CapturesAssumption
<1>1. ctx \in Contexts /\ ctx # None
  BY DEF RouteOutput, At, AudioInv, AudioTyped, CtxInv, Holding
<1>2. /\ ctx' \in Contexts /\ ctx'.memory = ctx.memory
      /\ \/ default' = default /\ ctx'.restore = ctx.restore
         \/ /\ ctx.memory # "none" /\ ctx'.restore = TRUE
            /\ default' \in {default, "stream"}
  BY <1>1 DEF RouteOutput, Contexts
<1>3. /\ cap' = [cap EXCEPT ![c] = "on"] /\ cap[c] = "route"
      /\ UNCHANGED <<app, stateVars, refs, lock, overlapped>>
  BY DEF RouteOutput, At, Moves
<1>4. ctx' # None
  BY <1>2
<1>5. AudioTyped'
  BY <1>2, <1>3 DEF AudioInv, AudioTyped, stateVars, Outputs, Pcs
<1>6. LockInv'
  BY <1>3 DEF AudioInv, LockInv, Constructing, Destructing, Holding
<1>7. CtxInv'
  BY <1>1, <1>2, <1>3, <1>4 DEF AudioInv, AudioTyped, LockInv, CtxInv, stateVars, Pcs,
                                Constructing, Destructing, Holding
<1>8. StepInv'
  BY <1>3 DEF AudioInv, StepInv, stateVars
<1>9. SinkInv'
  <2>1. ctx.memory \in Outputs \cup {"none"}
    BY <1>1 DEF Contexts
  <2>2. QED
    BY <1>1, <1>2, <1>3, <1>4, <2>1 DEF AudioInv, SinkInv, ContextOwes, stateVars, Outputs
<1>10. QED
  BY <1>5, <1>6, <1>7, <1>8, <1>9 DEF AudioInv

LEMMA DropRefStep ==
  ASSUME AudioInv, NEW c \in Captures, DropRef(c), UNCHANGED step
  PROVE  AudioInv'
<1> USE CapturesAssumption DEF DropRef, At, Moves, stateVars, ctxVars
<1>1. AudioTyped'
  BY DEF AudioInv, AudioTyped, Pcs
<1>2. LockInv'
  BY DEF AudioInv, AudioTyped, LockInv, Constructing, Destructing, Holding
<1>3. CtxInv'
  BY DEF AudioInv, AudioTyped, LockInv, CtxInv, Constructing, Destructing, Holding
<1>4. StepInv'
  BY DEF AudioInv, StepInv
<1>5. SinkInv'
  BY DEF AudioInv, SinkInv, ContextOwes
<1>6. QED
  BY <1>1, <1>2, <1>3, <1>4, <1>5 DEF AudioInv

LEMMA ReleaseActionStep ==
  ASSUME AudioInv, NEW c \in Captures, ReleaseAction(c), UNCHANGED step
  PROVE  AudioInv'
<1> USE CapturesAssumption DEF ReleaseAction, At, Moves, stateVars, ctxVars, AppActive
<1>1. AudioTyped'
  BY DEF AudioInv, AudioTyped, Pcs
<1>2. LockInv'
  BY DEF AudioInv, LockInv, Destructing, Holding
<1>3. CtxInv'
  BY DEF AudioInv, CtxInv, Constructing, Destructing
<1>4. StepInv'
  BY DEF AudioInv, StepInv
<1>5. SinkInv'
  BY DEF AudioInv, SinkInv, ContextOwes
<1>6. QED
  BY <1>1, <1>2, <1>3, <1>4, <1>5 DEF AudioInv

LEMMA RetainStep ==
  ASSUME AudioInv, NEW c \in Captures, Retain(c), UNCHANGED step
  PROVE  AudioInv'
<1> USE CapturesAssumption DEF Retain, At, Moves, stateVars, ctxVars, Destructed, AppActive
<1>1. AudioTyped'
  BY DEF AudioInv, AudioTyped, CtxInv, Contexts, Pcs, Destructing
<1>2. LockInv'
  BY DEF AudioInv, AudioTyped, LockInv, Constructing, Destructing, Holding
<1>3. CtxInv'
  BY DEF AudioInv, AudioTyped, LockInv, CtxInv, Constructing, Destructing, Holding
<1>4. StepInv'
  BY DEF AudioInv, StepInv
<1>5. SinkInv'
  BY DEF AudioInv, CtxInv, SinkInv, ContextOwes, Destructing
<1>6. QED
  BY <1>1, <1>2, <1>3, <1>4, <1>5 DEF AudioInv

LEMMA RestoreControlStep ==
  ASSUME AudioInv, NEW c \in Captures, RestoreControl(c), UNCHANGED step
  PROVE  AudioInv'
<1> USE CapturesAssumption DEF RestoreControl, At, Moves, stateVars, ctxVars, Destructed, PutBack
<1>1. AudioTyped'
  BY DEF AudioInv, AudioTyped, CtxInv, Contexts, Pcs, Destructing
<1>2. LockInv'
  BY DEF AudioInv, AudioTyped, LockInv, Constructing, Destructing, Holding
<1>3. CtxInv'
  BY DEF AudioInv, AudioTyped, LockInv, CtxInv, Destructing, Holding
<1>4. StepInv'
  BY DEF AudioInv, StepInv
<1>5. SinkInv'
  BY DEF AudioInv, SinkInv, ContextOwes
<1>6. QED
  BY <1>1, <1>2, <1>3, <1>4, <1>5 DEF AudioInv

LEMMA CaptureInv ==
  ASSUME AudioInv, NEW c \in Captures, Capture(c), UNCHANGED step
  PROVE  AudioInv'
BY GetRefStep, WaitForRestoreStep, LookForRetainedStep, ReclaimStep, CreateControlStep,
   OwnerAcquiredStep, RouteOutputStep, DropRefStep, ReleaseActionStep, RetainStep,
   RestoreControlStep DEF Capture
-----------------------------------------------------------------------------
(* The app.  What its steps do not touch keeps its invariant.               *)

LEMMA AudioUnchanged ==
  ASSUME AudioInv, UNCHANGED <<audioVars, step>>
  PROVE  AudioInv'
BY DEF AudioInv, audioVars, stateVars, ctxVars, AudioTyped, LockInv, CtxInv, StepInv,
       SinkInv, ContextOwes

LEMMA TerminateStep ==
  ASSUME AudioInv, Terminate
  PROVE  AudioInv'
<1> USE DEF Terminate, audioVars, stateVars, ctxVars, BeginTerminal
<1>1. AudioTyped'
  BY DEF AudioInv, AudioTyped, Steps
<1>2. LockInv'
  BY DEF AudioInv, LockInv
<1>3. CtxInv'
  BY DEF AudioInv, CtxInv
<1>4. StepInv'
  BY DEF AudioInv, StepInv, Ending
<1>5. SinkInv'
  BY DEF AudioInv, CtxInv, StepInv, SinkInv, ContextOwes
<1>6. QED
  BY <1>1, <1>2, <1>3, <1>4, <1>5 DEF AudioInv

LEMMA TerminalRestoreStep ==
  ASSUME AudioInv, TerminalRestore
  PROVE  AudioInv'
<1> USE DEF TerminalRestore, audioVars, stateVars, ctxVars, RestoreRetained, PutBack
<1>1. AudioTyped'
  BY DEF AudioInv, AudioTyped, StepInv, Steps
<1>2. LockInv'
  BY DEF AudioInv, LockInv
<1>3. CtxInv'
  BY DEF AudioInv, CtxInv
<1>4. StepInv'
  BY DEF AudioInv, StepInv, Ending
<1>5. SinkInv'
  BY DEF AudioInv, SinkInv
<1>6. QED
  BY <1>1, <1>2, <1>3, <1>4, <1>5 DEF AudioInv

LEMMA TerminalRestoredStep ==
  ASSUME AudioInv, TerminalRestored
  PROVE  AudioInv'
<1> USE DEF TerminalRestored, audioVars, stateVars, ctxVars, CompleteTerminalRestore
<1>1. AudioTyped'
  BY DEF AudioInv, AudioTyped, Steps
<1>2. LockInv'
  BY DEF AudioInv, LockInv
<1>3. CtxInv'
  BY DEF AudioInv, CtxInv
<1>4. StepInv'
  BY DEF AudioInv, StepInv, Ending
<1>5. SinkInv'
  BY DEF AudioInv, SinkInv, ContextOwes
<1>6. QED
  BY <1>1, <1>2, <1>3, <1>4, <1>5 DEF AudioInv

LEMMA EndAppStep ==
  ASSUME AudioInv, EndApp
  PROVE  AudioInv'
<1> USE DEF EndApp, audioVars, stateVars, ctxVars
<1>1. AudioTyped'
  BY DEF AudioInv, AudioTyped, Steps
<1>2. LockInv'
  BY DEF AudioInv, LockInv
<1>3. CtxInv'
  BY DEF AudioInv, CtxInv
<1>4. StepInv'
  BY DEF AudioInv, StepInv, Ending
<1>5. SinkInv'
  BY DEF AudioInv, SinkInv, ContextOwes
<1>6. QED
  BY <1>1, <1>2, <1>3, <1>4, <1>5 DEF AudioInv

LEMMA ClearAppStep ==
  ASSUME AudioInv, ClearApp
  PROVE  AudioInv'
<1> USE DEF ClearApp, audioVars, stateVars, ctxVars
<1>1. AudioTyped'
  BY DEF AudioInv, AudioTyped, Steps
<1>2. LockInv'
  BY DEF AudioInv, LockInv
<1>3. CtxInv'
  BY DEF AudioInv, CtxInv
<1>4. StepInv'
  BY DEF AudioInv, StepInv, Ending
<1>5. SinkInv'
  BY DEF AudioInv, SinkInv, ContextOwes
<1>6. QED
  BY <1>1, <1>2, <1>3, <1>4, <1>5 DEF AudioInv

LEMMA AssignAppStep ==
  ASSUME AudioInv, AssignApp
  PROVE  AudioInv'
<1> USE DEF AssignApp, audioVars, stateVars, ctxVars
<1>1. AudioTyped'
  BY DEF AudioInv, AudioTyped, Steps
<1>2. LockInv'
  BY DEF AudioInv, LockInv
<1>3. CtxInv'
  BY DEF AudioInv, CtxInv
<1>4. StepInv'
  BY DEF AudioInv, StepInv, Ending
<1>5. SinkInv'
  BY DEF AudioInv, SinkInv, ContextOwes
<1>6. QED
  BY <1>1, <1>2, <1>3, <1>4, <1>5 DEF AudioInv

LEMMA AppStartedStep ==
  ASSUME AudioInv, AppStarted
  PROVE  AudioInv'
<1> USE DEF AppStarted, audioVars, stateVars, ctxVars, HandOff
<1>1. AudioTyped'
  BY DEF AudioInv, AudioTyped, Steps
<1>2. LockInv'
  BY DEF AudioInv, LockInv
<1>3. CtxInv'
  BY DEF AudioInv, CtxInv
<1>4. StepInv'
  BY DEF AudioInv, StepInv, Ending
<1>5. SinkInv'
  BY DEF AudioInv, SinkInv, ContextOwes
<1>6. QED
  BY <1>1, <1>2, <1>3, <1>4, <1>5 DEF AudioInv

LEMMA LaunchAppStep ==
  ASSUME AudioInv, LaunchApp
  PROVE  AudioInv'
<1> USE DEF LaunchApp, audioVars, stateVars, ctxVars, LaunchCommands
<1>1. AudioTyped'
  BY DEF AudioInv, AudioTyped, Steps
<1>2. LockInv'
  BY DEF AudioInv, LockInv
<1>3. CtxInv'
  BY DEF AudioInv, CtxInv
<1>4. StepInv'
  BY DEF AudioInv, StepInv, Ending
<1>5. SinkInv'
  BY DEF AudioInv, SinkInv, ContextOwes
<1>6. QED
  BY <1>1, <1>2, <1>3, <1>4, <1>5 DEF AudioInv

LEMMA LaunchInputOnlyStep ==
  ASSUME AudioInv, LaunchInputOnly
  PROVE  AudioInv'
<1> USE DEF LaunchInputOnly, audioVars, stateVars, ctxVars, AppActive, procVars
<1>1. AudioTyped'
  BY DEF AudioInv, AudioTyped
<1>2. LockInv'
  BY DEF AudioInv, LockInv
<1>3. CtxInv'
  BY DEF AudioInv, CtxInv
<1>4. StepInv'
  BY DEF AudioInv, StepInv
<1>5. SinkInv'
  BY DEF AudioInv, SinkInv, ContextOwes
<1>6. QED
  BY <1>1, <1>2, <1>3, <1>4, <1>5 DEF AudioInv

LEMMA PauseStep ==
  ASSUME AudioInv, Pause
  PROVE  AudioInv'
<1> USE DEF Pause, audioVars, stateVars, ctxVars
<1>1. AudioTyped'
  BY DEF AudioInv, AudioTyped, Steps
<1>2. LockInv'
  BY DEF AudioInv, LockInv
<1>3. CtxInv'
  BY DEF AudioInv, CtxInv
<1>4. StepInv'
  BY DEF AudioInv, StepInv, Ending
<1>5. SinkInv'
  BY DEF AudioInv, SinkInv, ContextOwes
<1>6. QED
  BY <1>1, <1>2, <1>3, <1>4, <1>5 DEF AudioInv

LEMMA PauseRestoresStep ==
  ASSUME AudioInv, PauseRestores
  PROVE  AudioInv'
<1> USE DEF PauseRestores, audioVars, stateVars, ctxVars
<1>1. AudioTyped'
  BY DEF AudioInv, AudioTyped, Steps
<1>2. LockInv'
  BY DEF AudioInv, LockInv
<1>3. CtxInv'
  BY DEF AudioInv, CtxInv
<1>4. StepInv'
  BY DEF AudioInv, StepInv, Ending
<1>5. SinkInv'
  BY DEF AudioInv, SinkInv, ContextOwes
<1>6. QED
  BY <1>1, <1>2, <1>3, <1>4, <1>5 DEF AudioInv

-----------------------------------------------------------------------------
(* The screen saver.                                                        *)

SaverKept == SaverTyped /\ SaverInv

LEMMA SaverUnchanged ==
  ASSUME SaverKept, UNCHANGED saverVars
  PROVE  SaverKept'
BY DEF SaverKept, saverVars, historyVars, SaverTyped, SaverInv, BaselineTrue,
       SaverOwed, Covered

LEMMA BeginSaverStep ==
  ASSUME SaverKept, BeginSaver
  PROVE  SaverKept'
BY DEF SaverKept, BeginSaver, SaverTyped, SaverInv, BaselineTrue,
       SaverOwed, Covered, Settings

LEMMA RestoreSaverStep ==
  ASSUME SaverKept, RestoreSaver
  PROVE  SaverKept'
<1> USE DEF RestoreSaver, RestoreIfInactive
<1>1. SaverTyped'
  BY DEF SaverKept, SaverTyped
<1>2. SaverInv'
  BY DEF SaverKept, SaverInv, BaselineTrue, SaverOwed, Covered
<1>3. QED
  BY <1>1, <1>2 DEF SaverKept

LEMMA DeferSaverStep ==
  ASSUME SaverKept, NEW w \in Pauses, DeferSaver(w)
  PROVE  SaverKept'
<1> USE DEF DeferSaver
<1>1. SaverTyped'
  BY DEF SaverKept, SaverTyped
<1>2. SaverInv'
  BY DEF SaverKept, SaverInv, BaselineTrue, SaverOwed, Covered
<1>3. QED
  BY <1>1, <1>2 DEF SaverKept

LEMMA FinishSaverStep ==
  ASSUME SaverKept, NEW w \in Pauses, FinishSaver(w)
  PROVE  SaverKept'
<1> USE DEF FinishSaver, RestoreIfInactive
<1>1. SaverTyped'
  BY DEF SaverKept, SaverTyped
<1>2. SaverInv'
  BY DEF SaverKept, SaverInv, BaselineTrue, SaverOwed, Covered
<1>3. QED
  BY <1>1, <1>2 DEF SaverKept

LEMMA ProgramWritesStep ==
  ASSUME SaverKept, ProgramWrites
  PROVE  SaverKept'
<1> USE DEF ProgramWrites, Covered
<1>1. SaverTyped'
  BY DEF SaverKept, SaverTyped
<1>2. SaverInv'
  <2>1. CASE Covered
    BY <2>1 DEF SaverKept, SaverInv, BaselineTrue, SaverOwed
  <2>2. CASE ~Covered
    BY <2>2 DEF SaverKept, SaverInv, BaselineTrue, SaverOwed
  <2>3. QED
    BY <2>1, <2>2
<1>3. QED
  BY <1>1, <1>2 DEF SaverKept

LEMMA UserWritesStep ==
  ASSUME SaverKept, UserWrites
  PROVE  SaverKept'
BY DEF SaverKept, UserWrites, SaverTyped, SaverInv, BaselineTrue,
       SaverOwed, Covered
-----------------------------------------------------------------------------
LEMMA NextInv ==
  ASSUME IInv, [Next]_vars
  PROVE  IInv'
<1> USE DEF IInv
<1>1. AudioInv /\ SaverKept
  BY DEF AudioInv, SaverKept
<1>2. AudioInv'
  <2>1. CASE Process
    BY <2>1, <1>1, AudioUnchanged, TerminateStep, TerminalRestoreStep, TerminalRestoredStep,
       EndAppStep, ClearAppStep, AssignAppStep, AppStartedStep, LaunchAppStep,
       LaunchInputOnlyStep, PauseStep, PauseRestoresStep
       DEF Process, SeeDeferredLaunch, DeferredLaunch, LaunchCommands, Resume, procVars
  <2>2. CASE Setting
    BY <2>2, <1>1, AudioUnchanged DEF Setting, AppWrites, LooseExit, procVars
  <2>3. ASSUME NEW c \in Captures, Capture(c) /\ UNCHANGED <<saverVars, procVars>>
        PROVE  AudioInv'
    BY <2>3, <1>1, CaptureInv DEF procVars
  <2>4. CASE UNCHANGED vars
    BY <2>4, <1>1, AudioUnchanged DEF vars, procVars
  <2>5. QED
    BY <2>1, <2>2, <2>3, <2>4 DEF Next
<1>3. SaverKept'
  <2>1. CASE Process
    BY <2>1, <1>1, SaverUnchanged, BeginSaverStep, RestoreSaverStep, DeferSaverStep
       DEF Process, Terminate, TerminalRestore, TerminalRestored, EndApp, ClearApp,
           AssignApp, AppStarted, LaunchApp, SeeDeferredLaunch, DeferredLaunch,
           LaunchCommands, LaunchInputOnly, Pause, PauseRestores, Resume
  <2>2. CASE Setting
    BY <2>2, <1>1, ProgramWritesStep, UserWritesStep, FinishSaverStep, SaverUnchanged
       DEF Setting, AppWrites, WorkerWrites, LooseExit
  <2>3. CASE UNCHANGED saverVars
    BY <2>3, <1>1, SaverUnchanged
  <2>4. QED
    BY <2>1, <2>2, <2>3 DEF Next, vars
<1>4. ProcTyped'
  <2>1. CASE Process
    BY <2>1 DEF Process, Terminate, TerminalRestore, TerminalRestored, EndApp, ClearApp,
           AssignApp, AppStarted, LaunchApp, SeeDeferredLaunch, DeferredLaunch,
           LaunchCommands, LaunchInputOnly, Pause, PauseRestores, Resume, procVars,
           ProcTyped
  <2>2. CASE LooseExit
    BY <2>2 DEF LooseExit, ProcTyped
  <2>3. CASE UNCHANGED procVars
    BY <2>3 DEF procVars, ProcTyped
  <2>4. QED
    BY <2>1, <2>2, <2>3 DEF Next, vars, Setting, AppWrites
<1>5. QED
  BY <1>2, <1>3, <1>4 DEF AudioInv, SaverKept

LEMMA Inductive == Spec => []IInv
<1>1. Init => IInv
  BY InitInv
<1>2. IInv /\ [Next]_vars => IInv'
  BY NextInv
<1>3. QED
  BY <1>1, <1>2, PTL DEF Spec
-----------------------------------------------------------------------------
\* Every variable has its type, whichever captures and workers there are: in
\* particular, nothing that was never read is ever restored.
THEOREM TypeCorrect == Spec => []TypeOK
<1>1. IInv => TypeOK
  BY DEF IInv, AudioTyped, SaverTyped, ProcTyped, TypeOK
<1>2. QED
  BY <1>1, Inductive, PTL

\* The user's audio output has exactly one owner who will put it back, however
\* captures share the context while apps end and follow each other.
THEOREM SinkOwedHolds == Spec => []SinkOwed
<1>1. IInv => SinkOwed
  <2> SUFFICES ASSUME IInv, ~overlapped
               PROVE  /\ default = "stream" => Owners # {}
                      /\ \A x, y \in Owners : x = y
                      /\ kept # "none" => AppActive /\ ~terminal
    BY DEF SinkOwed
  <2>1. default = "stream" => Owners # {}
    BY DEF IInv, SinkInv, Owners
  <2>2. ~(ContextOwes /\ kept = "user")
    BY DEF IInv, CtxInv, ContextOwes
  <2>3. ~(ContextOwes /\ restorer = "user") /\ ~(kept = "user" /\ restorer = "user")
    BY DEF IInv, SinkInv, StepInv, Ending, ContextOwes
  <2>4. \A x, y \in Owners : x = y
    BY <2>2, <2>3 DEF Owners
  <2>5. kept # "none" => AppActive /\ ~terminal
    BY DEF IInv, StepInv, AppActive
  <2>6. QED
    BY <2>1, <2>4, <2>5
<1>2. QED
  BY <1>1, Inductive, PTL

\* The mark of an app's end does not stick to its successor.
THEOREM TerminalLapsesHolds == Spec => []TerminalLapses
<1>1. IInv => TerminalLapses
  BY DEF IInv, StepInv, Ending, TerminalLapses
<1>2. QED
  BY <1>1, Inductive, PTL

\* What is remembered of the screen saver is the setting as it was when it was last
\* nobody's to undo, whatever launches, pauses, workers, resumptions, ends of apps,
\* failed writes and programs that outlive them have come between.
THEOREM BaselineTrueHolds == Spec => []BaselineTrue
<1>1. IInv => BaselineTrue
  BY DEF IInv, SaverInv
<1>2. QED
  BY <1>1, Inductive, PTL

\* A screen saver that was changed since is remembered and will be undone.
THEOREM SaverOwedHolds == Spec => []SaverOwed
<1>1. IInv => SaverOwed
  BY DEF IInv, SaverInv
<1>2. QED
  BY <1>1, Inductive, PTL
=============================================================================
