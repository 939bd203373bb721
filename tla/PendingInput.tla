------------------------------ MODULE PendingInput ------------------------------
(***************************************************************************)
(* The keystrokes a window holds because more may make a binding of them   *)
(* (crates/gpui/src/window.rs): it runs or replays them when the next      *)
(* keystroke decides, or after a second, and drops them when the focus     *)
(* moves.  Handlers and observers may move the focus and dispatch          *)
(* keystrokes themselves, in the middle of all this.                       *)
(*                                                                         *)
(* Left out: which listeners a keystroke or an action reaches, input       *)
(* handlers (but for the timer they ask for), keystrokes the platform      *)
(* prefers as text, the redraw before a dispatch, changes of the keymap.   *)
(***************************************************************************)
EXTENDS Keymap

CONSTANTS Keys,
          Focuses,   \* what can be focused, each with its key context
          NoFocus,   \* the context of the root, when nothing is focused
          Keymaps,   \* bound: the keymaps
          MaxTyped,  \* bound: keystrokes
          Fuel(_)    \* bound: operations of user code, under a keymap

ASSUME FocusAssumption == NoFocus \notin Focuses
ASSUME KeymapAssumption == \A km \in Keymaps : \A i \in DOMAIN km : km[i].keys \in Seq(Keys)
ASSUME BoundAssumption == MaxTyped \in Nat /\ \A km \in Keymaps : Fuel(km) \in Nat

Contexts == Focuses \cup {NoFocus}
Strokes  == [n : 1 .. MaxTyped, key : Keys]

VARIABLES
  keymap,     \* the App's keymap
  focus,      \* Window::focus
  pending,    \* Window::pending_input
  notifyDue,  \* focus has deferred pending_input_changed
  stack,      \* calls in progress, innermost last
  fuel,       \* operations user code may still make
  \* Auxiliary.
  seen,       \* the keystrokes pending when the observers were last called
  typed,      \* the keys of all keystrokes so far
  handled,    \* the chunks that bindings or listeners were given, in order
  left,       \* keystrokes that were pending when the focus moved
  nested,     \* keystrokes that handlers dispatched
  consumed,   \* keystrokes that interceptors kept for themselves
  odd         \* "timeout" after one, "blur" after one, "nested" after a
              \* keystroke that an observer of pending input dispatched

inputVars == <<keymap, focus, pending, notifyDue>>
logVars   == <<left, nested, consumed, odd>>
ghostVars == <<seen, typed, handled, logVars>>
vars == <<inputVars, stack, fuel, ghostVars>>

\* `whole`, auxiliary: in this focus, no keystrokes before these were replayed.
NoInput == [keys |-> <<>>, focus |-> NoFocus, timed |-> FALSE, whole |-> TRUE]

Frames ==
  [op : {"key"}, step : {"intercept", "stopped", "decided", "replay", "handle", "observe", "return"},
   key : Strokes, path : Contexts, timed : BOOLEAN, whole : BOOLEAN,
   replay : Seq(Seq(Strokes)), pending : Seq(Strokes), last : Seq(Strokes)]
  \cup [op : {"timer"}, step : {"observe", "decided", "replay"}, replay : Seq(Seq(Strokes))]
  \cup [op : {"deferred"}, step : {"observe"}]

TypeOK == /\ focus \in Contexts
          /\ pending \in [keys : Seq(Strokes), focus : Contexts, timed : BOOLEAN, whole : BOOLEAN]
          /\ pending.keys = <<>> => pending = NoInput
          /\ notifyDue \in BOOLEAN
          /\ stack \in Seq(Frames)
          /\ fuel \in 0 .. Fuel(keymap)
          /\ seen \in Seq(Strokes)
          /\ typed \in Seq(Keys) /\ Len(typed) <= MaxTyped
          /\ handled \in Seq(Seq(Strokes))
          /\ left \cup nested \cup consumed \subseteq 1 .. Len(typed)
          /\ odd \subseteq {"timeout", "blur", "nested"}

Init == /\ keymap \in Keymaps /\ focus \in Contexts
        /\ pending = NoInput /\ notifyDue = FALSE
        /\ stack = <<>> /\ fuel = Fuel(keymap)
        /\ seen = <<>> /\ typed = <<>> /\ handled = <<>>
        /\ left = {} /\ nested = {} /\ consumed = {} /\ odd = {}

Top      == stack[Len(stack)]
Under    == SubSeq(stack, 1, Len(stack) - 1)
In(step) == stack # <<>> /\ Top.step = step
Goto(f)  == stack' = Append(Under, f)
Idle     == stack = <<>> /\ ~notifyDue

Numbers(ks) == {ks[i].n : i \in DOMAIN ks}

------------------------------------------------------------------------------
(***************************************************************************)
(* User code: an update of an idle App, interceptors, action handlers,     *)
(* listeners, observers.                                                   *)
(***************************************************************************)
Observing == \E i \in DOMAIN stack : stack[i].step = "observe"

\* A nested pass of the interceptors finds their set taken.
Intercepting == In("intercept") /\ \A i \in 1 .. Len(stack) - 1 : stack[i].step # "intercept"

Handler  == Intercepting \/ In("stopped") \/ In("replay") \/ In("handle") \/ In("observe")
UserCode == (Idle \/ Handler) /\ fuel > 0 /\ fuel' = fuel - 1

Moves(f) ==
  /\ UserCode
  /\ focus # f
  /\ focus' = f
  /\ left' = left \cup Numbers(pending.keys)
  /\ UNCHANGED <<keymap, stack, seen, typed, handled, nested, consumed>>

\* Window::focus drops what is pending, and defers the news of it.
FocusOn(f) ==
  Moves(f) /\ pending' = NoInput /\ notifyDue' = TRUE /\ UNCHANGED odd

\* blur does neither.
Blur == Moves(NoFocus) /\ odd' = odd \cup {"blur"} /\ UNCHANGED <<pending, notifyDue>>

------------------------------------------------------------------------------
(***************************************************************************)
(* dispatch_key_event.                                                     *)
(***************************************************************************)

\* The path to the focused element is taken before the interceptors run.
Begin(k) ==
  /\ Len(typed) < MaxTyped
  /\ typed' = Append(typed, k)
  /\ stack' = Append(stack,
       [op |-> "key", step |-> "intercept", key |-> [n |-> Len(typed'), key |-> k], path |-> focus,
        timed |-> FALSE, whole |-> TRUE, replay |-> <<>>, pending |-> <<>>, last |-> <<>>])

Type(k) ==
  /\ Idle
  /\ Begin(k)
  /\ UNCHANGED <<inputVars, fuel, seen, handled, logVars>>

\* A handler calls dispatch_keystroke.
DispatchKeystroke(k) ==
  /\ Handler /\ UserCode
  /\ Begin(k)
  /\ nested' = nested \cup {Len(typed')}
  /\ odd' = IF Observing THEN odd \cup {"nested"} ELSE odd
  /\ UNCHANGED <<inputVars, seen, handled, left, consumed>>

\* An interceptor stops the event, and no binding gets it: only the first
\* listener that captures keys.
Consume ==
  /\ Intercepting
  /\ consumed' = consumed \cup {Top.key.n}
  /\ Goto([Top EXCEPT !.step = "stopped"])
  /\ UNCHANGED <<inputVars, fuel, seen, typed, handled, left, nested, odd>>

Decide(current) ==
  LET r == DispatchKey(keymap, Top.path, current.keys, Top.key)
  IN  /\ pending' = NoInput
      /\ \E text \in BOOLEAN : Goto(
           [Top EXCEPT !.step = "decided",
             !.replay = r.replay, !.pending = r.pending, !.last = r.last,
             !.timed = current.timed \/ text \/ IsBound(keymap, Top.path, r.pending),
             !.whole = (current.whole /\ r.replay = <<>>) \/ Len(r.pending) = 1])
      /\ UNCHANGED <<keymap, focus, notifyDue, fuel, ghostVars>>

\* Mutant of DispatchStroke: the focus is not compared.
DispatchStrokeInAnyFocus == In("intercept") /\ Decide(pending)

\* pending_input is taken, and dropped if the focus has left it.
DispatchStroke ==
  /\ In("intercept")
  /\ Decide(IF pending.focus \notin {NoFocus, focus} THEN NoInput ELSE pending)

ReplayChunk(i) ==
  /\ In("decided") \/ In("replay")
  /\ Top.replay # <<>>
  /\ handled' = Append(handled, Top.replay[i])
  /\ Goto([Top EXCEPT !.step = "replay", !.replay = RemoveAt(@, i)])
  /\ UNCHANGED <<inputVars, fuel, seen, typed, logVars>>

\* Mutant of Replay: a stack of chunks.
ReplayLast == stack # <<>> /\ "replay" \in DOMAIN Top /\ ReplayChunk(Len(Top.replay))

\* replay_pending_input, chunk by chunk.
Replay == ReplayChunk(1)

Replayed == (In("decided") \/ In("replay")) /\ Top.replay = <<>>

\* pending_input_changed, whose observers are not called while they run.
Changed(f, keys) ==
  IF Observing THEN Goto([f EXCEPT !.step = "return"]) /\ UNCHANGED seen
  ELSE Goto([f EXCEPT !.step = "observe"]) /\ seen' = keys

HoldFor(timed) ==
  /\ Replayed /\ Top.op = "key" /\ Top.pending # <<>>
  /\ pending' = [keys |-> Top.pending, focus |-> focus, timed |-> timed,
                 whole |-> Top.whole /\ focus = Top.path]
  /\ Changed([Top EXCEPT !.pending = <<>>], Top.pending)
  /\ UNCHANGED <<keymap, focus, notifyDue, fuel, typed, handled, logVars>>

\* Mutant of Hold: what the keystrokes before asked for is forgotten.
HoldIfBound == HoldFor(IsBound(keymap, Top.path, Top.pending))

\* The keystrokes are pending, for the element that is focused now, with a
\* timer if these or the ones before are a binding, or text.
Hold == HoldFor(Top.timed)

\* The actions of the bindings or, if none stops it, the listeners.
Handle ==
  /\ Replayed /\ Top.op = "key" /\ Top.pending = <<>>
  /\ handled' = Append(handled, Top.last)
  /\ Goto([Top EXCEPT !.step = "handle", !.last = <<>>])
  /\ UNCHANGED <<inputVars, fuel, seen, typed, logVars>>

\* Mutant of Handled: the observers are not told.
HandledQuietly ==
  /\ In("handle")
  /\ Goto([Top EXCEPT !.step = "return"])
  /\ UNCHANGED <<inputVars, fuel, ghostVars>>

Handled ==
  /\ In("handle")
  /\ Changed(Top, pending.keys)
  /\ UNCHANGED <<inputVars, fuel, typed, handled, logVars>>

Return ==
  /\ \/ In("return") \/ In("stopped")
     \/ In("observe") /\ Top.op # "timer"
     \/ Replayed /\ Top.op = "timer"
  /\ stack' = Under
  /\ UNCHANGED <<inputVars, fuel, ghostVars>>

------------------------------------------------------------------------------
(***************************************************************************)
(* The timer, which goes with the input it was set for, and deferred calls.*)
(***************************************************************************)
Expire(replay) ==
  /\ Idle /\ pending.timed
  /\ pending' = NoInput
  /\ odd' = odd \cup {"timeout"}
  /\ IF pending.focus = focus
     THEN /\ stack' = <<[op |-> "timer", step |-> "observe", replay |-> replay]>>
          /\ seen' = <<>>
     ELSE UNCHANGED <<stack, seen>>
  /\ UNCHANGED <<keymap, focus, notifyDue, fuel, typed, handled, left, nested, consumed>>

\* Mutant of TimerFires: one chunk alone is replayed.
TimerFiresOnce == Expire(SubSeq(FlushDispatch(keymap, focus, pending.keys), 1, 1))

\* What is replayed is decided before the observers run.  A timer that finds
\* another focus drops what it was set for, and tells nobody.
TimerFires == Expire(FlushDispatch(keymap, focus, pending.keys))

TimerObserved ==
  /\ In("observe") /\ Top.op = "timer"
  /\ Goto([Top EXCEPT !.step = "decided"])
  /\ UNCHANGED <<inputVars, fuel, ghostVars>>

NotifyDeferred ==
  /\ stack = <<>> /\ notifyDue
  /\ notifyDue' = FALSE
  /\ stack' = <<[op |-> "deferred", step |-> "observe"]>>
  /\ seen' = pending.keys
  /\ UNCHANGED <<keymap, focus, pending, fuel, typed, handled, logVars>>

UserStep == \/ Blur \/ \E f \in Focuses : FocusOn(f)
            \/ \E k \in Keys : Type(k) \/ DispatchKeystroke(k)

Step == \/ Consume \/ DispatchStroke \/ Replay \/ Hold \/ Handle \/ Handled
        \/ TimerObserved \/ NotifyDeferred \/ Return

Next == UserStep \/ Step \/ TimerFires

Spec == Init /\ [][Next]_vars

\* Calls return, deferred ones are made and timers fire.
FairSpec == Spec /\ WF_vars(Step) /\ WF_vars(TimerFires)
------------------------------------------------------------------------------
(***************************************************************************)
(* Properties.                                                             *)
(***************************************************************************)
InChunks(chunks) == UNION {Numbers(chunks[i]) : i \in DOMAIN chunks}
HandledStrokes   == InChunks(handled)
InCall(f) == CASE f.op = "key"   -> {f.key.n} \cup InChunks(f.replay) \cup Numbers(f.pending) \cup Numbers(f.last)
               [] f.op = "timer" -> InChunks(f.replay)
               [] OTHER -> {}
InCalls == UNION {InCall(stack[i]) : i \in DOMAIN stack}

\* A keystroke is handled, or consumed, or still held, by the window or a
\* call, unless the focus moved while it was pending: neither what follows it
\* nor a timer loses it, whatever handlers do.  Those handlers dispatch
\* themselves may go: a call that holds its own overwrites them.
NothingLost ==
  \A n \in 1 .. Len(typed) :
    n \in HandledStrokes \cup consumed \cup Numbers(pending.keys) \cup InCalls \cup left \cup nested

\* Types, in particular that no timer outlives what it was set for, and this.
Consistent == TypeOK /\ NothingLost

\* Keystrokes that handlers do not dispatch are handled in the order they
\* were typed in, each once.
HandledInOrder ==
  \A i, j \in DOMAIN handled : \A p \in DOMAIN handled[i], q \in DOMAIN handled[j] :
    LET m == handled[i][p].n
        n == handled[j][q].n
    IN  (i < j \/ (i = j /\ p < q)) /\ {m, n} \cap nested = {} => m < n

\* What was pending when the focus moved is dropped for good: no binding of
\* another element runs with it, and none of the old one's, blur included.
LeftIsDropped == left \cap HandledStrokes = {}

Text == [i \in DOMAIN typed |-> [n |-> i, key |-> typed[i]]]
Undisturbed ==
  fuel = Fuel(keymap) /\ consumed = {} /\ "timeout" \notin odd /\ PrefixClosed(keymap, focus)

\* Unless user code steps in, or a timer, the text typed means what it means
\* read from the left, and what is pending is what that leaves, if no binding
\* hides another of which it is a prefix: starting over in the middle of what
\* is pending makes no difference.
AsTyped ==
  stack = <<>> /\ Undisturbed =>
    Read(keymap, focus, Text) = [chunks |-> handled, rest |-> pending.keys]

\* When the App is idle, the observers have seen what is pending, unless they
\* dispatched keystrokes themselves, or a blur left it to be dropped by the
\* timer.
ObserversKnow == Idle /\ odd \cap {"blur", "nested"} = {} => seen = pending.keys

\* What is held, once nobody types any more, contains no binding: a timer runs
\* it.  That is so unless keystrokes before it were replayed, when its own
\* prefixes are not tried, or the focus moved while it was dispatched.
BoundInputRuns ==
  <>[](stack = <<>> /\ (pending.whole => \A n \in 1 .. Len(pending.keys) :
                          ~IsBound(keymap, pending.focus, SubSeq(pending.keys, 1, n))))
=============================================================================
