--------------------------- MODULE WindowLifecycle ---------------------------
(***************************************************************************)
(* How gpui's App (crates/gpui/src/app.rs) opens, updates and closes its   *)
(* windows.  To update a window is to take it out of its slot, run a       *)
(* closure on it and put it back, or drop it if the closure removed it;    *)
(* closures nest, each on another window.  The observers told of a closed  *)
(* window run before the update that closed it is over, and may update,    *)
(* open and close windows themselves.  The end of the outermost update     *)
(* flushes the effects: here those that reach for a window.                *)
(*                                                                         *)
(* One observer stands for window_closed_observers, whose passes are those *)
(* of SubscriberSet; a frame of `stack` is a call in progress.             *)
(***************************************************************************)
EXTENDS Integers, Sequences, FiniteSets

CONSTANTS Windows,       \* bound: windows ever opened
          QuitOnEmpty,   \* what the quit mode says of the last window closing
          NewObservers,  \* how many callbacks observe_new has registered
          MaxFuel,       \* bound: operations of user code
          None           \* no window

ASSUME WindowsAssumption == None \notin Windows
ASSUME NumbersAssumption == NewObservers \in Nat /\ MaxFuel \in Nat
ASSUME QuitAssumption    == QuitOnEmpty \in BOOLEAN

VARIABLES
  slot,         \* App.windows: "empty" for a slot whose window is not in it
  removed,      \* windows whose `removed` flag is set
  updateStack,  \* window_update_stack
  stack,        \* calls in progress, innermost last
  flushing,     \* flushing_effects
  effects,      \* pending_effects
  applying,     \* the EntityCreated effect being applied
  focusDead,    \* a FocusRef without references is in focus_handles
  writeLocked,  \* focus_handles is locked by release_dropped_focus_handles
  visiting,     \* the windows it has yet to update
  halted,       \* "expect" if that of apply_entity_created_effect failed,
                \* "unwrap" if that of release_dropped_focus_handles did,
                \* "lock" if the main thread waits for its own write lock
  quit,         \* App::quit was called
  fuel,         \* operations user code may still make
  \* Auxiliary.
  told,         \* windows whose closing was observed
  early         \* windows removed before they were first in their slot

callVars == <<stack, updateStack>>
focusVars == <<focusDead, writeLocked, visiting>>
flushVars == <<flushing, effects, applying, halted>>
auxVars == <<told, early>>
vars == <<slot, removed, callVars, focusVars, flushVars, quit, fuel, auxVars>>

Frames == [op : {"app"}] \cup [op : {"update", "build", "draw", "closed"}, on : Windows]
Effects == [op : {"defer"}, on : Windows]
             \cup [op : {"created"}, on : Windows \cup {None}, left : 0 .. NewObservers]
NoEffect == [op |-> "none"]

TypeOK == /\ slot \in [Windows -> {"unborn", "empty", "in", "closed"}]
          /\ removed \subseteq Windows
          /\ updateStack \in Seq(Windows)
          /\ stack \in Seq(Frames)
          /\ flushing \in BOOLEAN
          /\ effects \in Seq(Effects)
          /\ applying \in Effects \cup {NoEffect}
          /\ focusDead \in BOOLEAN /\ writeLocked \in BOOLEAN
          /\ visiting \subseteq Windows
          /\ halted \in {"no", "expect", "unwrap", "lock"}
          /\ quit \in BOOLEAN
          /\ fuel \in 0 .. MaxFuel
          /\ told \subseteq Windows /\ early \subseteq Windows

Init == /\ slot = [w \in Windows |-> "unborn"] /\ removed = {}
        /\ updateStack = <<>> /\ stack = <<>>
        /\ flushing = FALSE /\ effects = <<>> /\ applying = NoEffect
        /\ focusDead = FALSE /\ writeLocked = FALSE /\ visiting = {}
        /\ halted = "no" /\ quit = FALSE /\ fuel = MaxFuel
        /\ told = {} /\ early = {}

Top     == stack[Len(stack)]
Pop(s)  == SubSeq(s, 1, Len(s) - 1)
Last(s) == IF s = <<>> THEN None ELSE s[Len(s)]

Running(op) == stack # <<>> /\ Top.op = op
PushFrame(f) == stack' = Append(stack, f)
Replace(f)   == stack' = Append(Pop(stack), f)

Idle == stack = <<>> /\ ~flushing /\ halted = "no"

------------------------------------------------------------------------------
(***************************************************************************)
(* User code: on an idle App, in a window's closure, while a window is     *)
(* built or drawn, or in the observer of a closed window.                  *)
(***************************************************************************)
UserCode == /\ Idle \/ (stack # <<>> /\ halted = "no")
            /\ fuel > 0
            /\ fuel' = fuel - 1

UpdateApp ==
  /\ Idle /\ UserCode
  /\ PushFrame([op |-> "app"])
  /\ UNCHANGED <<slot, removed, updateStack, focusVars, flushVars, quit, auxVars>>

Enter(w) == /\ slot[w] = "in"
            /\ updateStack' = Append(updateStack, w)
            /\ PushFrame([op |-> "update", on |-> w])

\* Mutant of EnterWindow: the window is updated in its slot.
EnterWindowInSlot(w) == Enter(w) /\ UNCHANGED slot

EnterWindow(w) == Enter(w) /\ slot' = [slot EXCEPT ![w] = "empty"]

\* Updating a window that is closed, being built or already being updated
\* is an error that changes nothing.
UpdateWindow(w) ==
  /\ UserCode
  /\ EnterWindow(w)
  /\ UNCHANGED <<removed, focusVars, flushVars, quit, auxVars>>

On(ops) == {stack[i].on : i \in {j \in DOMAIN stack : stack[j].op \in ops}}

RemoveWindow(w) ==
  /\ UserCode
  /\ w \in On({"update", "build", "draw"})
  /\ removed' = removed \cup {w}
  /\ early' = IF w \in On({"build", "draw"}) THEN early \cup {w} ELSE early
  /\ UNCHANGED <<slot, callVars, focusVars, flushVars, quit, told>>

\* A window the platform fails to open leaves its slot again at once, no
\* user code having run.
OpenWindow(w) ==
  /\ UserCode
  /\ slot[w] = "unborn"
  /\ slot' = [slot EXCEPT ![w] = "empty"]
  /\ updateStack' = Append(updateStack, w)
  /\ PushFrame([op |-> "build", on |-> w])
  /\ UNCHANGED <<removed, focusVars, flushVars, quit, auxVars>>

\* A new entity is announced to the window being updated.
NewEntity ==
  /\ UserCode
  /\ ~Idle
  /\ effects' = Append(effects, [op |-> "created", on |-> Last(updateStack), left |-> NewObservers])
  /\ UNCHANGED <<slot, removed, callVars, focusVars, flushing, applying, halted, quit, auxVars>>

\* The last reference to a focused element goes; FocusHandle::drop reads
\* focus_handles, as do clone and upgrade.  One such element at a time.
DropFocusHandle ==
  /\ UserCode
  /\ IF writeLocked THEN halted' = "lock" /\ UNCHANGED focusDead
     ELSE ~focusDead /\ focusDead' = TRUE /\ UNCHANGED halted
  /\ UNCHANGED <<slot, removed, callVars, writeLocked, visiting, flushing, effects, applying,
                 quit, auxVars>>

(***************************************************************************)
(* Returns.                                                                *)
(***************************************************************************)
\* finish_update: the outermost call flushes.
LeaveCall ==
  /\ stack' = Pop(stack)
  /\ flushing' = (flushing \/ Len(stack) = 1)

AppReturns ==
  /\ Running("app")
  /\ LeaveCall
  /\ UNCHANGED <<slot, removed, updateStack, focusVars, effects, applying, halted, quit, fuel, auxVars>>

\* Mutant of BuildReturns: the new window is not updated once more.
BuildReturnsWithoutDefer ==
  /\ Running("build")
  /\ updateStack' = Pop(updateStack)
  /\ Replace([op |-> "draw", on |-> Top.on])
  /\ UNCHANGED <<slot, removed, focusVars, flushVars, quit, fuel, auxVars>>

\* The root view is built: appearance_changed is deferred, then the window
\* draws, still not in its slot.
BuildReturns ==
  /\ Running("build")
  /\ updateStack' = Pop(updateStack)
  /\ effects' = Append(effects, [op |-> "defer", on |-> Top.on])
  /\ Replace([op |-> "draw", on |-> Top.on])
  /\ UNCHANGED <<slot, removed, focusVars, flushing, applying, halted, quit, fuel, auxVars>>

\* Mutant of DrawReturns: the window is not put in its slot.
DrawReturnsKeepingWindow ==
  /\ Running("draw")
  /\ LeaveCall
  /\ UNCHANGED <<slot, removed, updateStack, focusVars, effects, applying, halted, quit, fuel, auxVars>>

DrawReturns ==
  /\ Running("draw")
  /\ slot' = [slot EXCEPT ![Top.on] = "in"]
  /\ LeaveCall
  /\ UNCHANGED <<removed, updateStack, focusVars, effects, applying, halted, quit, fuel, auxVars>>

UpdateReturns ==
  /\ Running("update") /\ Top.on \notin removed
  /\ updateStack' = Pop(updateStack)
  /\ slot' = [slot EXCEPT ![Top.on] = "in"]
  /\ LeaveCall
  /\ UNCHANGED <<removed, focusVars, effects, applying, halted, quit, fuel, auxVars>>

NoWindows == \A w \in Windows : slot[w] \in {"unborn", "closed"}
Observing == \E i \in DOMAIN stack : stack[i].op = "closed"

\* Mutant of CloseWindow: it is over once the window is dropped.
CloseWindowUntold ==
  /\ Running("update") /\ Top.on \in removed
  /\ updateStack' = Pop(updateStack)
  /\ slot' = [slot EXCEPT ![Top.on] = "closed"]
  /\ LeaveCall
  /\ UNCHANGED <<removed, focusVars, effects, applying, halted, quit, fuel, auxVars>>

\* The observers run unless they are running already: their set is taken
\* while they do, so a window they close makes a pass over nothing.
CloseWindow ==
  /\ Running("update") /\ Top.on \in removed
  /\ updateStack' = Pop(updateStack)
  /\ slot' = [slot EXCEPT ![Top.on] = "closed"]
  /\ IF Observing
     THEN /\ quit' = (quit \/ (QuitOnEmpty /\ NoWindows'))
          /\ LeaveCall
          /\ UNCHANGED told
     ELSE /\ Replace([op |-> "closed", on |-> Top.on])
          /\ told' = told \cup {Top.on}
          /\ UNCHANGED <<quit, flushing>>
  /\ UNCHANGED <<removed, focusVars, effects, applying, halted, fuel, early>>

\* Mutant of ClosedReturns: the App quits when no window is in its slot.
ClosedReturnsCountingSlots ==
  /\ Running("closed")
  /\ quit' = (quit \/ (QuitOnEmpty /\ \A w \in Windows : slot[w] # "in"))
  /\ LeaveCall
  /\ UNCHANGED <<slot, removed, updateStack, focusVars, effects, applying, halted, fuel, auxVars>>

ClosedReturns ==
  /\ Running("closed")
  /\ quit' = (quit \/ (QuitOnEmpty /\ NoWindows))
  /\ LeaveCall
  /\ UNCHANGED <<slot, removed, updateStack, focusVars, effects, applying, halted, fuel, auxVars>>

(***************************************************************************)
(* flush_effects.                                                          *)
(***************************************************************************)
Flushing == flushing /\ stack = <<>> /\ halted = "no"

\* release_dropped_focus_handles.
BeginRelease ==
  /\ Flushing /\ applying = NoEffect
  /\ focusDead /\ ~writeLocked
  /\ writeLocked' = TRUE
  /\ visiting' = {w \in Windows : slot[w] \in {"empty", "in"}}
  /\ UNCHANGED <<slot, removed, callVars, focusDead, flushVars, quit, fuel, auxVars>>

\* Each window is updated, to be blurred if its focus is gone; one that was
\* removed while it was built or drawn is closed by that.
Visit(w) ==
  /\ Flushing
  /\ w \in visiting
  /\ visiting' = visiting \ {w}
  /\ halted' = IF slot[w] = "in" THEN halted ELSE "unwrap"
  /\ IF slot[w] = "in" /\ w \in removed
     THEN /\ slot' = [slot EXCEPT ![w] = "closed"]
          /\ PushFrame([op |-> "closed", on |-> w])
          /\ told' = told \cup {w}
     ELSE UNCHANGED <<slot, stack, told>>
  /\ UNCHANGED <<removed, updateStack, focusDead, writeLocked, flushing, effects, applying, quit,
                 fuel, early>>

EndRelease ==
  /\ Flushing /\ writeLocked /\ visiting = {}
  /\ writeLocked' = FALSE
  /\ focusDead' = FALSE
  /\ UNCHANGED <<slot, removed, callVars, visiting, flushVars, quit, fuel, auxVars>>

NextEffect == Flushing /\ applying = NoEffect /\ ~focusDead

\* A closure deferred for a window that is gone does nothing.
ApplyDefer ==
  /\ NextEffect
  /\ effects # <<>> /\ Head(effects).op = "defer"
  /\ effects' = Tail(effects)
  /\ LET w == Head(effects).on
     IN  IF slot[w] = "in" THEN EnterWindow(w) ELSE UNCHANGED <<slot, callVars>>
  /\ UNCHANGED <<removed, focusVars, flushing, applying, halted, quit, fuel, auxVars>>

ApplyCreated ==
  /\ NextEffect
  /\ effects # <<>> /\ Head(effects).op = "created"
  /\ applying' = Head(effects)
  /\ effects' = Tail(effects)
  /\ UNCHANGED <<slot, removed, callVars, focusVars, flushing, halted, quit, fuel, auxVars>>

UpdateForCreated ==
  /\ Flushing /\ applying # NoEffect
  /\ IF applying.on = None
     THEN PushFrame([op |-> "app"]) /\ UNCHANGED <<slot, updateStack, halted>>
     ELSE IF slot[applying.on] = "in"
          THEN EnterWindow(applying.on) /\ UNCHANGED halted
          ELSE halted' = "expect" /\ UNCHANGED <<slot, callVars>>
  /\ applying' = [applying EXCEPT !.left = @ - 1]
  /\ UNCHANGED <<removed, focusVars, flushing, effects, quit, fuel, auxVars>>

\* Each observer of the entity's type updates the window it was made in,
\* and expects it to be there.
CallNewObserver == UpdateForCreated /\ applying.left > 0

CreatedDone ==
  /\ Flushing /\ applying # NoEffect /\ applying.left = 0
  /\ applying' = NoEffect
  /\ UNCHANGED <<slot, removed, callVars, focusVars, flushing, effects, halted, quit, fuel, auxVars>>

FlushEnds ==
  /\ NextEffect /\ effects = <<>>
  /\ flushing' = FALSE
  /\ UNCHANGED <<slot, removed, callVars, focusVars, effects, applying, halted, quit, fuel, auxVars>>

------------------------------------------------------------------------------
UserStep == \/ UpdateApp \/ NewEntity \/ DropFocusHandle
            \/ \E w \in Windows : UpdateWindow(w) \/ RemoveWindow(w) \/ OpenWindow(w)

Returns == \/ AppReturns \/ BuildReturns \/ DrawReturns
           \/ UpdateReturns \/ CloseWindow \/ ClosedReturns

FlushStep == \/ BeginRelease \/ \E w \in Windows : Visit(w)
             \/ EndRelease \/ ApplyDefer \/ ApplyCreated
             \/ CallNewObserver \/ CreatedDone \/ FlushEnds

Next == UserStep \/ (Returns /\ halted = "no") \/ FlushStep

Spec == Init /\ [][Next]_vars
------------------------------------------------------------------------------
(***************************************************************************)
(* Properties.                                                             *)
(***************************************************************************)

\* What update_window_id rests on: between the calls of a flush every window
\* is back in its slot and off window_update_stack, however the calls before
\* it nested, opened and closed windows.
WindowsBackWhenFlushing ==
  Flushing => updateStack = <<>> /\ \A w \in Windows : slot[w] # "empty"

\* A window is updated by one call at a time, the windows on
\* window_update_stack being those being built or updated, in that order.
UpdatedOnce ==
  LET calls == {j \in DOMAIN stack : stack[j].op \in {"build", "update"}}
  IN  /\ \A i, j \in DOMAIN updateStack : updateStack[i] = updateStack[j] => i = j
      /\ {updateStack[i] : i \in DOMAIN updateStack} = {stack[j].on : j \in calls}
      /\ \A j, k \in calls : \A i, l \in DOMAIN updateStack :
           j < k /\ stack[j].on = updateStack[i] /\ stack[k].on = updateStack[l] => i < l

\* Types, and both of these.
Consistent == TypeOK /\ WindowsBackWhenFlushing /\ UpdatedOnce

\* remove_window works whenever it is called, during the construction or the
\* first drawing of the window too: an idle App has no removed window left.
RemovedGoesAway == Idle => \A w \in removed : slot[w] = "closed"

\* With a quit mode that says so, the App quits once its last window is
\* closed, in whatever order nested calls close windows and observers open
\* others; it quits at no other time, as while a window is out of its slot.
QuitsWithLast ==
  /\ [](Idle /\ QuitOnEmpty /\ NoWindows /\ removed # {} => quit)
  /\ [][quit' # quit => NoWindows']_vars

\* Every closing is observed but for those of windows closed by an observer,
\* directly or in the calls it makes, whose pass finds the set taken.
ClosedIsObserved ==
  [][\A w \in Windows : slot'[w] = "closed" /\ slot[w] # "closed"
       => w \in told' \/ \E c \in Windows \ {w} : slot[c] = "closed" /\ Observing]_vars

\* Three things stop the App, and each because a window was removed: the
\* expect of apply_entity_created_effect, if the window the entity was made
\* in has been; and in release_dropped_focus_handles, if it closes a window
\* that was removed before it was in its slot, the unwrap, when observers of
\* that close another one, and the write lock, when they use a focus handle.
HaltsIfRemoved ==
  /\ halted = "expect" => applying.on \in removed /\ slot[applying.on] = "closed"
  /\ halted = "unwrap" => \E w \in early : slot[w] = "closed"
  /\ halted = "lock"   => stack[1].op = "closed" /\ stack[1].on \in early
=============================================================================
