------------------------------ MODULE WindowFrames ------------------------------
(***************************************************************************)
(* What makes a window redraw, and what it recycles when it does           *)
(* (crates/gpui/src: window.rs, view.rs, app.rs).  A view that changes     *)
(* calls notify; if a window accessed it in its last draw, that window's   *)
(* invalidator is told, and the next frame request draws: every view again *)
(* but the cached ones that are not marked.                                *)
(*                                                                         *)
(* A view is shown by one window, at one place of its tree, and read by    *)
(* any; whether its parent shows it is up to each rendering.  A view may   *)
(* have the focus of its window, which the frame that shows it records.    *)
(* Left out: the Notify effects of AppEffects, focus within views, tab     *)
(* stops, prompts, drags and tooltips, the inspector, surfaces, the        *)
(* throttle of a hot system (a request it drops changes nothing here) and  *)
(* entities that are no view, tracked like views and never recycled.       *)
(***************************************************************************)
EXTENDS Integers, Sequences, FiniteSets

CONSTANTS MaxWindow, \* bound: windows ever opened
          Views,     \* bound: views
          Path,      \* of a view: its window, the views around it, itself
          Cached,    \* the views their parent shows by AnyView::cached
          Read,      \* bound: the views whose state other views read
          Focusable, \* the views with a focus handle, which show no other
          MaxFuel    \* bound: operations of user code

Windows == 1 .. MaxWindow  \* in the order they are opened

Home(v)     == Head(Path[v])
Around(v)   == {Path[v][i] : i \in 2 .. Len(Path[v])}
Inside(v)   == {u \in Views : v \in Around(u)}
Children(x) == {v \in Views : Path[v][Len(Path[v]) - 1] = x}

ASSUME PathAssumption ==
  /\ Windows \cap Views = {}
  /\ \A v \in Views :
       /\ Path[v] \in Seq(Windows \cup Views) /\ Len(Path[v]) > 1
       /\ Head(Path[v]) \in Windows /\ Path[v][Len(Path[v])] = v
       /\ \A i \in 2 .. Len(Path[v]) :
            Path[v][i] \in Views /\ Path[Path[v][i]] = SubSeq(Path[v], 1, i)
ASSUME FocusAssumption == Focusable \subseteq {v \in Views : Children(v) = {}}
ASSUME CachedAssumption ==
  Cached \subseteq {v \in Views : Len(Path[v]) > 2} /\ Read \subseteq Views /\ MaxFuel \in Nat /\ MaxWindow \in Nat

VARIABLES
  open,         \* windows opened
  dirty,        \* WindowInvalidatorInner::dirty, as a set of windows
  drawing,      \* the windows whose draw_phase is not None
  dirtyViews,   \* WindowInvalidatorInner::dirty_views
  refreshing,   \* Window::refreshing, as a set of windows
  needsPresent, \* Window::needs_present, as a set of windows
  shown,        \* the views of rendered_frame
  nextFrame,    \* the views of next_frame
  cache,        \* AnyViewState::accessed_entities
  callbacks,    \* next_frame_callbacks: the views they notify
  accessed,     \* EntityMap::accessed_entities, while a window draws
  tracked,      \* App::tracked_entities
  trackers,     \* App::window_invalidators_by_entity
  refreshAll,   \* a RefreshWindows effect is pending
  focus,        \* Window::focus, as the set of views focused in their windows
  nextFocus,    \* the focus of next_frame
  shownFocus,   \* the focus of rendered_frame
  stack,        \* frame requests, draws and renderings, innermost last
  fuel,         \* operations user code may still make
  \* Auxiliary.
  mark,         \* of a view since it was rendered: "fresh", or "due" if it
                \* was notified or its window refreshed, "delayed" if
                \* notified only while the window drew, and "unseen" if the
                \* window did not even track it then
  lost,         \* views that the draw which last rendered them, or a later
                \* one that showed them, need not have noted as accessed
  astray        \* windows whose focus moved while they drew it last

dirtVars  == <<dirty, dirtyViews>>
drawVars  == <<drawing, refreshing, needsPresent, shown, nextFrame, cache>>
trackVars == <<accessed, tracked, trackers>>
focusVars == <<focus, nextFocus, shownFocus, astray>>
auxVars   == <<mark, lost>>
vars == <<open, dirtVars, drawVars, callbacks, trackVars, focusVars, refreshAll, stack, fuel, auxVars>>

Frames ==
  [op : {"request"}, on : Windows]
    \cup [op : {"draw"}, on : Windows, step : {"prepaint", "paint"},
          marked : SUBSET Views, left : SUBSET Views]
    \cup [op : {"view"}, on : Views, left : SUBSET Views, before : SUBSET Views,
          seen : SUBSET Views, was : BOOLEAN]

TypeOK == /\ open \subseteq Windows
          /\ dirty \subseteq Windows
          /\ drawing \subseteq Windows
          /\ dirtyViews \in [Windows -> SUBSET Views]
          /\ refreshing \subseteq Windows
          /\ needsPresent \subseteq Windows
          /\ shown \in [Windows -> SUBSET Views]
          /\ nextFrame \in [Windows -> SUBSET Views]
          /\ \A w \in Windows \ drawing : nextFrame[w] = {}
          /\ cache \in [Cached -> SUBSET Views]
          /\ callbacks \subseteq Views
          /\ accessed \subseteq Views
          /\ tracked \in [Windows -> SUBSET Views]
          /\ trackers \in [Views -> SUBSET Windows]
          /\ focus \subseteq Focusable /\ nextFocus \subseteq Focusable
          /\ shownFocus \subseteq Focusable /\ astray \subseteq Windows
          /\ refreshAll \in BOOLEAN
          /\ stack \in Seq(Frames)
          /\ fuel \in 0 .. MaxFuel
          /\ mark \in [Views -> {"fresh", "unseen", "delayed", "due"}]
          /\ lost \subseteq Views

\* A new window is dirty.
Init == /\ open = {} /\ dirty = Windows /\ drawing = {}
        /\ dirtyViews = [w \in Windows |-> {}]
        /\ refreshing = {} /\ needsPresent = {}
        /\ shown = [w \in Windows |-> {}] /\ nextFrame = [w \in Windows |-> {}]
        /\ cache = [v \in Cached |-> {}] /\ callbacks = {} /\ accessed = {}
        /\ tracked = [w \in Windows |-> {}] /\ trackers = [v \in Views |-> {}]
        /\ focus = {} /\ nextFocus = {} /\ shownFocus = {} /\ astray = {}
        /\ refreshAll = FALSE /\ stack = <<>> /\ fuel = MaxFuel
        /\ mark = [v \in Views |-> "fresh"] /\ lost = {}

Top        == stack[Len(stack)]
Under      == SubSeq(stack, 1, Len(stack) - 1)
Running(op) == stack # <<>> /\ Top.op = op
Replace(f) == stack' = Append(Under, f)

\* The draw in progress, and its window.
Draw == LET ds == {i \in DOMAIN stack : stack[i].op = "draw"}
        IN  stack[CHOOSE i \in ds : \A j \in ds : j <= i]

------------------------------------------------------------------------------
(***************************************************************************)
(* Notify.                                                                 *)
(***************************************************************************)

\* Auxiliary: the views vs are notified.
MarkNotified(vs) ==
  mark' = [v \in Views |->
    IF v \notin vs \cap (shown[Home(v)] \cup nextFrame[Home(v)]) THEN mark[v]
    ELSE IF Home(v) \notin drawing \/ mark[v] = "due" THEN "due"
    ELSE IF Home(v) \in trackers[v] \/ mark[v] = "delayed" THEN "delayed" ELSE "unseen"]

\* Mutant of Invalidate: a window that draws drops the notify.
InvalidateUnlessDrawing(vs) ==
  /\ dirtyViews' = [w \in Windows |-> dirtyViews[w] \cup
                      {v \in vs : w \in trackers[v] \ drawing}]
  /\ dirty' = dirty \cup {w \in Windows \ drawing : \E v \in vs : w \in trackers[v]}
  /\ MarkNotified(vs)

\* App::notify for each of vs: the windows that track it mark it, and are
\* dirty unless they are drawing.
Invalidate(vs) ==
  /\ dirtyViews' = [w \in Windows |-> dirtyViews[w] \cup {v \in vs : w \in trackers[v]}]
  /\ dirty' = dirty \cup {w \in Windows \ drawing : \E v \in vs : w \in trackers[v]}
  /\ MarkNotified(vs)

(***************************************************************************)
(* User code: in an update or an observer, in a rendering or, once all is  *)
(* rendered, while the elements paint.                                     *)
(***************************************************************************)
Rendering == Running("view") \/ (Running("draw") /\ Top.step = "paint")
UserCode  == /\ (stack = <<>> /\ open # {}) \/ Rendering
             /\ fuel > 0
             /\ fuel' = fuel - 1

Notify(v) ==
  /\ UserCode
  /\ Invalidate({v})
  /\ UNCHANGED <<open, focusVars, drawVars, callbacks, trackVars, refreshAll, stack, lost>>

\* Entities read or updated outside of a draw are forgotten when one begins.
Access(v) ==
  /\ UserCode /\ Rendering
  /\ v \in Read \ accessed
  /\ accessed' = accessed \cup {v}
  /\ UNCHANGED <<open, focusVars, dirtVars, drawVars, callbacks, tracked, trackers, refreshAll, stack, auxVars>>

RequestAnimationFrame ==
  /\ UserCode /\ Running("view")
  /\ callbacks' = callbacks \cup {Top.on}
  /\ UNCHANGED <<open, focusVars, dirtVars, drawVars, trackVars, refreshAll, stack, auxVars>>

MarkRefreshed(ws) ==
  mark' = [v \in Views |-> IF v \in UNION {shown[w] : w \in ws} THEN "due" ELSE mark[v]]

\* Window::refresh, which a draw ignores.
DoRefresh(w) ==
  IF w \in drawing THEN UNCHANGED <<refreshing, dirty, mark>>
  ELSE /\ refreshing' = refreshing \cup {w}
       /\ dirty' = dirty \cup {w}
       /\ MarkRefreshed({w})

Refresh(w) ==
  /\ UserCode
  /\ w \in open \ drawing
  /\ DoRefresh(w)
  /\ UNCHANGED <<open, focusVars, dirtyViews, drawing, needsPresent, shown, nextFrame, cache,
                 callbacks, trackVars, refreshAll, stack, lost>>

SetFocus(w, vs) ==
  /\ UserCode
  /\ w \in open \cup drawing
  /\ focus' = {v \in focus : Home(v) # w} \cup vs
  /\ astray' = IF w \in drawing THEN astray \cup {w} ELSE astray
  /\ UNCHANGED <<open, nextFocus, shownFocus, dirtyViews, drawing, needsPresent, shown, nextFrame,
                 cache, callbacks, trackVars, refreshAll, stack, lost>>

\* Mutant of MoveFocus: the window is not refreshed.
MoveFocusUnseen(w, vs) == SetFocus(w, vs) /\ UNCHANGED <<refreshing, dirty, mark>>

\* Window::focus and blur.
MoveFocus(w, vs) == SetFocus(w, vs) /\ DoRefresh(w)

Focus(v) == v \in Focusable \ focus /\ MoveFocus(Home(v), {v})
Blur(w)  == MoveFocus(w, {})

RefreshWindows ==
  /\ UserCode
  /\ refreshAll' = TRUE
  /\ UNCHANGED <<open, focusVars, dirtVars, drawVars, callbacks, trackVars, stack, auxVars>>

\* Effects are flushed between updates.
ApplyRefresh ==
  /\ refreshAll /\ stack = <<>>
  /\ refreshAll' = FALSE
  /\ refreshing' = refreshing \cup open
  /\ dirty' = dirty \cup open
  /\ MarkRefreshed(open)
  /\ UNCHANGED <<open, focusVars, dirtyViews, drawing, needsPresent, shown, nextFrame, cache, callbacks,
                 trackVars, stack, fuel, lost>>

------------------------------------------------------------------------------
(***************************************************************************)
(* draw.                                                                   *)
(***************************************************************************)

\* Window::draw takes the marks: a marked view that the last frame showed
\* is rendered again with the views around it.
BeginDraw(w, calls) ==
  /\ stack' = Append(calls,
       [op |-> "draw", on |-> w, step |-> "prepaint", left |-> Children(w),
        marked |-> UNION {Around(v) : v \in dirtyViews[w] \cap shown[w]}])
  /\ dirtyViews' = [dirtyViews EXCEPT ![w] = {}]
  /\ dirty' = dirty \ {w}
  /\ drawing' = drawing \cup {w}
  /\ nextFrame' = [nextFrame EXCEPT ![w] = {}]
  /\ nextFocus' = {v \in nextFocus : Home(v) # w}
  /\ astray' = astray \ {w}
  /\ accessed' = {}

\* The window or the rendering of a view shows v: uncached views first,
\* which are rendered for their layout.
Shows(v) == /\ Running("view") \/ (Running("draw") /\ Top.step = "prepaint")
            /\ v \in Top.left
Shown(v) == [Top EXCEPT !.left = (IF v \in Cached THEN @ \cap Cached ELSE @) \ {v}]

\* The focus that next_frame finds among the views vs as they are prepainted.
FindFocus(vs) ==
  nextFocus' = IF vs \cap focus = {} THEN nextFocus
               ELSE {v \in nextFocus : \A u \in vs : Home(v) # Home(u)} \cup (vs \cap focus)

Render(v) ==
  LET around == (Around(v) \cap Cached) \ {v}
  IN  /\ Shows(v)
      /\ stack' = Append(Append(Under, Shown(v)),
           [op |-> "view", on |-> v, left |-> Children(v), before |-> accessed,
            seen |-> IF around # {} THEN Top.seen ELSE IF v \in Cached THEN accessed ELSE {},
            was |-> Home(v) \in refreshing])
      /\ refreshing' = IF v \in Cached THEN refreshing \cup {Home(v)} ELSE refreshing
      /\ nextFrame' = [nextFrame EXCEPT ![Home(v)] = @ \cup {v}]
      /\ accessed' = accessed \cup {v}
      /\ mark' = [mark EXCEPT ![v] = "fresh"]
      /\ lost' = IF v \in stack'[Len(stack')].seen THEN lost \cup {v} ELSE lost \ {v}
      /\ UNCHANGED <<open, focusVars, dirtVars, drawing, needsPresent, shown, cache, callbacks, tracked,
                     trackers, refreshAll, fuel>>

Recycle(v) ==
  LET w == Home(v)
  IN  /\ Shows(v) /\ v \in Cached
      /\ Replace(Shown(v))
      /\ nextFrame' = [nextFrame EXCEPT ![w] = @ \cup (Inside(v) \cap shown[w])]
      /\ accessed' = accessed \cup cache[v]
      /\ FindFocus(Inside(v) \cap shown[w])
      /\ UNCHANGED <<open, focus, shownFocus, astray, dirtVars, drawing, refreshing, needsPresent, shown, cache, callbacks,
                     tracked, trackers, refreshAll, fuel, auxVars>>

\* Mutant of Reuse: refreshing does not reach the views inside.
ReuseInRefresh(v) ==
  Recycle(v) /\ v \in shown[Home(v)] \ Draw.marked

\* AnyView::prepaint recycles a cached view the last frame showed, with the
\* views inside, and says it accessed what they did.  It may render instead,
\* as when its bounds changed.
Reuse(v) ==
  /\ Recycle(v)
  /\ v \in shown[Home(v)] \ Draw.marked
  /\ Home(v) \notin refreshing

EndView(seen) ==
  /\ Running("view")
  /\ stack' = Under
  /\ FindFocus({Top.on})
  /\ cache' = IF Top.on \in Cached THEN [cache EXCEPT ![Top.on] = seen] ELSE cache
  /\ refreshing' = IF Top.was THEN refreshing ELSE refreshing \ {Home(Top.on)}
  /\ UNCHANGED <<open, focus, shownFocus, astray, dirtVars, drawing, needsPresent, shown, nextFrame, callbacks, trackVars,
                 refreshAll, fuel, auxVars>>

\* Mutant of ViewDone: only the view itself counts as accessed.
ViewDoneAlone == EndView({Top.on})

\* What a cached view accessed is what was not accessed before it.
ViewDone == EndView(accessed \ Top.before)

Paint ==
  /\ Running("draw") /\ Top.step = "prepaint" /\ Top.left = {}
  /\ Replace([Top EXCEPT !.step = "paint", !.marked = {}])
  /\ UNCHANGED <<open, focusVars, dirtVars, drawVars, callbacks, trackVars, refreshAll, fuel, auxVars>>

\* Mutant of Track: what the window no longer accesses stays tracked.
TrackMore(w) ==
  /\ trackers' = [v \in Views |->
       IF v \in accessed THEN trackers[v] \cup {w} ELSE trackers[v]]
  /\ tracked' = [tracked EXCEPT ![w] = accessed]

\* record_entities_accessed: the window leaves the trackers of what it
\* tracked and joins those of what it accessed.
Track(w) ==
  /\ trackers' = [v \in Views |->
       IF v \in accessed THEN trackers[v] \cup {w}
       ELSE IF v \in tracked[w] THEN trackers[v] \ {w} ELSE trackers[v]]
  /\ tracked' = [tracked EXCEPT ![w] = accessed]

SwapFrames(w) ==
  /\ shown' = [shown EXCEPT ![w] = nextFrame[w]]
  /\ nextFrame' = [nextFrame EXCEPT ![w] = {}]
  /\ shownFocus' = {v \in shownFocus : Home(v) # w} \cup {v \in nextFocus : Home(v) = w}
  /\ nextFocus' = {v \in nextFocus : Home(v) # w}

\* The frames are swapped and what the last one alone had is dropped.  A
\* frame request presents what it drew, other draws do not.
DrawDone ==
  /\ Running("draw") /\ Top.step = "paint"
  /\ SwapFrames(Top.on)
  /\ LET gone == {v \in Views : Home(v) = Top.on} \ nextFrame[Top.on]
     IN  /\ cache' = [v \in Cached |-> IF v \in gone THEN {} ELSE cache[v]]
         /\ mark' = [v \in Views |-> IF v \in gone THEN "fresh" ELSE mark[v]]
         /\ lost' = lost \ gone
  /\ Track(Top.on)
  /\ refreshing' = refreshing \ {Top.on}
  /\ drawing' = drawing \ {Top.on}
  /\ LET requested == Under # <<>> /\ Under[Len(Under)] = [op |-> "request", on |-> Top.on]
     IN  /\ stack' = IF requested THEN SubSeq(Under, 1, Len(Under) - 1) ELSE Under
         /\ needsPresent' = IF requested THEN needsPresent \ {Top.on}
                            ELSE needsPresent \cup {Top.on}
  /\ open' = open \cup {Top.on}
  /\ accessed' = IF drawing = {Top.on} THEN {} ELSE accessed
  /\ UNCHANGED <<focus, astray, dirtVars, callbacks, refreshAll, fuel>>

\* open_window draws the new window before it returns, whatever calls it,
\* and what the draws around it had noted as accessed is cleared.
OpenWindow(w) ==
  /\ UserCode \/ (open \cup drawing = {} /\ UNCHANGED fuel)
  /\ w = Cardinality(open \cup drawing) + 1
  /\ BeginDraw(w, stack)
  /\ lost' = lost \cup UNION {nextFrame[u] : u \in drawing}
  /\ UNCHANGED <<open, focus, shownFocus, refreshing, needsPresent, shown, cache, callbacks, tracked, trackers,
                 refreshAll, mark>>

------------------------------------------------------------------------------
(***************************************************************************)
(* Frame requests.                                                         *)
(***************************************************************************)

Request(w, vs) ==
  /\ stack = <<>> /\ ~refreshAll
  /\ w \in open
  /\ stack' = <<[op |-> "request", on |-> w]>>
  /\ callbacks' = callbacks \ {v \in callbacks : Home(v) = w}
  /\ Invalidate(vs)
  /\ UNCHANGED <<open, focusVars, drawVars, trackVars, refreshAll, fuel, lost>>

\* The platform asks a window for a frame: it runs the callbacks first.
RequestFrame(w) == Request(w, {v \in callbacks : Home(v) = w})

Redraw(w) ==
  /\ BeginDraw(w, stack)
  /\ UNCHANGED <<open, focus, shownFocus, refreshing, needsPresent, shown, cache, callbacks, tracked, trackers,
                 refreshAll, fuel, auxVars>>

\* A dirty window draws, as does any when the request forces it to.
DrawFrame == Running("request") /\ Redraw(Top.on)

\* A key event draws a dirty window before it is dispatched, by the platform
\* or by user code.
DrawForKey(w) == stack = <<>> /\ w \in open \cap dirty /\ Redraw(w)

\* Mutant of SkipFrame: a frame that needs presenting is taken for drawn.
EndRequest ==
  /\ Running("request")
  /\ stack' = <<>>
  /\ needsPresent' = needsPresent \ {Top.on}
  /\ UNCHANGED <<open, focusVars, dirtVars, drawing, refreshing, shown, nextFrame, cache, callbacks,
                 trackVars, refreshAll, fuel, auxVars>>

\* Otherwise it presents what it has drawn, or does nothing.
PresentFrame ==
  /\ Running("request")
  /\ Top.on \notin dirty
  /\ EndRequest

------------------------------------------------------------------------------
UserStep == \/ RequestAnimationFrame \/ RefreshWindows
            \/ \E v \in Views : Notify(v) \/ Access(v)
            \/ \E v \in Focusable : Focus(v)
            \/ \E w \in Windows : Refresh(w) \/ Blur(w) \/ OpenWindow(w)

FrameStep == \/ DrawFrame \/ PresentFrame \/ ApplyRefresh
             \/ \E v \in Views : Render(v) \/ Reuse(v)
             \/ ViewDone \/ Paint \/ DrawDone

Next == UserStep \/ FrameStep \/ \E w \in Windows : RequestFrame(w) \/ DrawForKey(w)

Spec == Init /\ [][Next]_vars

\* What began is carried on, and the platform asks every window for frames.
FairSpec == Spec /\ WF_vars(FrameStep) /\ \A w \in Windows : SF_vars(RequestFrame(w))
------------------------------------------------------------------------------
(***************************************************************************)
(* Properties.                                                             *)
(***************************************************************************)
\* There are two ways to lose track of a view that is shown, until it is
\* rendered again: it was accessed, in the draw that rendered it, before the
\* rendering of the cached view around it, or another window was opened in
\* the draw after it had been rendered or recycled.
Waits(v, marks) == /\ Home(v) \notin drawing /\ v \in shown[Home(v)] \ lost
                   /\ mark[v] \in marks

\* The next draw of a window renders again what changed after it was
\* rendered, even if it changed while the window was drawing.
StaleIsMarked ==
  \A v \in Views : Waits(v, {"due", "delayed"}) =>
    v \in dirtyViews[Home(v)] \/ Home(v) \in refreshing

\* The frame a window shows does not have its focus, which focus listeners
\* and key bindings wait for.
FocusWaits(w) ==
  w \in open \ drawing /\ {v \in shownFocus : Home(v) = w} # focus \cap shown[w]

\* If it changed outside of a draw of its window, there will be a next draw;
\* so there is if the focus moved, unless that was in a draw, by a focus
\* listener or by what had been rendered when the frame had its focus.
StaleIsDue ==
  /\ \A v \in Views : Waits(v, {"due"}) => Home(v) \in dirty
  /\ \A w \in Windows : FocusWaits(w) => w \in dirty \cup astray

\* window_invalidators_by_entity and tracked_entities are each other's
\* inverse, whichever windows draw inside the draw of another.
TrackersAgree == \A v \in Views, w \in Windows : w \in trackers[v] <=> v \in tracked[w]

\* Types, and this.
Consistent == TypeOK /\ TrackersAgree

\* Once user code is done, every view that changed outside of a draw of its
\* window is rendered again or taken off it, and what was drawn is presented,
\* the first frame of a new window too, with the focus that was set outside of
\* a draw.
ChangesReachScreen ==
  <>[](/\ needsPresent = {}
       /\ \A v \in Views : ~Waits(v, {"due"})
       /\ \A w \in Windows \ astray : ~FocusWaits(w))

\* The doc of AnyView::cached: a view is recycled "if [Context::notify] has
\* not been called since it was rendered".  What is notified while its window
\* draws is left aside.
RecycledOnlyUnnotified ==
  [][\A v \in Cached : LET w == Home(v)
                        IN  v \in nextFrame'[w] \ nextFrame[w] => mark'[v] # "due"]_vars
=============================================================================
