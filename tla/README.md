# A TLA+ development of gpui

gpui is a UI framework: an `App` owns all entities and windows, runs on one main
thread, and reacts to changes by effects that it queues and flushes; a platform
crate per operating system hands it events and runs its tasks. This directory
holds TLA+ models of the parts of it whose correctness rests on the *order* in
which things happen, the TLC configurations that check them on small instances,
and TLAPS proofs of what matters most for every instance.

Paths below are relative to `crates/` unless they start with another directory;
`app.rs` is `gpui/src/app.rs`. `PROJECT.json` maps every definition to the lines
it models, and lists runs, mutants, findings, hazards and theorems.

Run from this directory:

    tlc -workers 2 -config AppEffects.cfg MCAppEffects.tla
    tlapm EntityMapProofs.tla

## 1. Inventory

### The parts of the system

| part | state | operations | interacts with |
|---|---|---|---|
| subscription sets (`gpui/src/subscription.rs`) | `subscribers` (by emitter and id), `next_subscriber_id`, the `active` and `dropped` cells, the `Subscription` values | insert, activate, drop, detach, join, `retain`, `remove` | owned by the App: observers, listeners, release, quit, new-entity, closed-window callbacks. Callbacks re-enter the set |
| entity map (`gpui/src/app/entity_map.rs`) | `entities`, `EntityRefCounts` (counts, dropped ids) behind an `RwLock`, handles on any thread | reserve, insert, lease, end_lease, take_dropped; clone, drop, downgrade, upgrade | updates lease entities; flushes release them |
| effect cycle (`app.rs`) | `pending_updates`, `flushing_effects`, `pending_effects`, `pending_notifications` | update, new, observe, subscribe, notify, emit, defer, `flush_effects` | entity map, subscription sets, windows |
| windows (`app.rs`) | `windows` slots, `window_update_stack`, `removed`, quit mode | open_window, update_window_id, remove_window, quit, observers | effects that reach for a window |
| system window tabs (`app.rs`, hooks in `gpui/src/window.rs`) | `tab_groups` | add_tab, remove_tab, move_tab_to_new_window, merge_all_windows | callbacks of AppKit through `gpui_macos` |
| priority queue (`gpui/src/queue.rs`) | three FIFOs, a lock, a condition variable, receiver and sender counts | send, pop, try_pop, iterators | dispatchers of Linux, Windows, web |
| Linux dispatcher (`gpui_linux/src/linux/dispatcher.rs`) | workers, the ping source, the event loop, the timer thread | dispatch, dispatch_on_main_thread, dispatch_after, process_events | queue, executors, clients |
| window frames (`gpui/src/window.rs`) | `WindowInvalidator` (dirty, phase, marked views), the last and the next frame, `refreshing`, `needs_present`, tracked entities | notify, refresh, draw, frame requests, animation frames | effects (`notify`), views, the entity map's accesses |
| view caching (`gpui/src/view.rs`) | cached ranges, accessed entities | request_layout, prepaint, paint | entity map, frames |
| keymap, pending input (`gpui/src/keymap*`, `key_dispatch.rs`, `window.rs`) | the keymap, pending keystrokes and their timer, the focus | bindings_for_input, dispatch_key, flush_dispatch, dispatch_key_event, focus, blur | interceptors, actions, listeners, observers of pending input |
| focus handles (`gpui/src/window.rs`, `app.rs` 1494-1514) | reference counts behind a lock | clone, drop, release_dropped_focus_handles | windows, flush |
| tab stops (`gpui/src/tab_stop.rs`) | an ordered map over `sum_tree` | insert, next, prev, replay | focus |
| bounds tree (`gpui/src/bounds_tree.rs`) | an R-tree of bounds with orders | insert, clear | scene |
| list (`gpui/src/elements/list.rs`) | `sum_tree` of items, scroll position | splice, reset, scroll_to | layout |
| executors, scheduler (`gpui/src/executor.rs`, `platform_scheduler.rs`, `scheduler/`) | tasks, sessions, a test clock | spawn, block, timers | dispatchers |
| Windows and web dispatchers (`gpui_windows`, `gpui_web`) | `wake_posted` and posted messages; the mailbox's signal word and the promise of its waker loop | dispatch_on_main_thread, run_foreground_task, post, the waker loop | queue, native loops |
| renderers, atlases, text, elements, styles, assets, bindings, macros, network, demos | data for a GPU or an operating system | | |

### Which behaviours are hard

* **Reentrancy.** Everything that touches the App is on one thread, but user
  code runs in the middle of almost every operation: callbacks of a pass over a
  set insert into that set, cancel their neighbours and start passes of their
  own; closing a window calls observers that close and open windows; release
  callbacks create entities. `take()`-and-put-back is the framework's answer
  everywhere (subscribers, entities, windows), and a thing that is out is
  invisible to whoever looks for it meanwhile.
* **Deferred work.** What a call does may happen at the end of the outermost
  update: activation of observers, notifications (coalesced), events, releases,
  window updates. Between the two, the thing it is about may go.
* **Threads.** Handles are cloned, dropped and upgraded anywhere; runnables are
  dispatched from anywhere to sleeping workers and to an event loop that sleeps
  in `epoll_wait`. The hazards are lost wakeups, double releases, dangling
  handles.
* **Copies of outside state.** The tab controller mirrors AppKit's groups
  through callbacks; the dirty flags of a window mirror what it last drew.
* **Failure.** The program persists nothing and talks to no peer, so there is no
  recovery to model; what fails is an `expect`, an `unwrap` or a `borrow_mut`
  that an unusual order makes wrong.

What makes each component correct: *subscription sets* - one owner per callback,
none lost, none called after its cancellation; *entity map* - counters are the
numbers of handles, no handle dangles, each entity is released once; *effect
cycle* - no notification or event owed to a live subscriber is lost or
reordered, flushes never nest and end; *windows* - one update of a window at a
time, every window back in its slot when effects flush, removal works whenever
it is called, the App quits exactly with its last window; *tabs* - the mirror is
exact; *frames* - what changed is rendered again and what was drawn is shown;
*keystrokes* - each is handled once, in order, and a text means what it says
under the keymap; *queue and dispatchers* - every runnable runs once, on its
thread, and nobody sleeps on it.

`PROJECT.json` lists the hazards line by line, those no property covers yet
included, each with the reason.

## 2. Modules

| module | what it is |
|---|---|
| `SubscriberSet` | the set and its passes, with callbacks that re-enter them |
| `Subscriptions` | abstract: what a user of a `Subscription` may rely on |
| `SubscriberSetProofs` | proofs about `SubscriberSet`, and its refinement of `Subscriptions` |
| `EntityMap` | handles, counters, releases, leases, on several threads |
| `SharedOwnership` | abstract: shared ownership with one release |
| `EntityMapProofs` | proofs about `EntityMap`, and its refinement of `SharedOwnership` |
| `AppEffects` | updates and `flush_effects`; instantiates `SubscriberSet` |
| `AppEffectsProofs` | proofs about `AppEffects` |
| `WindowLifecycle` | windows opened, updated, removed and closed inside each other, and the release of focus handles |
| `WindowLifecycleProofs` | proofs about `WindowLifecycle` |
| `WindowFrames` | what makes a window redraw, and what it recycles when it does |
| `WindowFramesProofs` | proofs about `WindowFrames` |
| `Keymap` | pure: what keystrokes mean under a keymap, with a reference definition |
| `PendingInput` | keystrokes pending, replayed, timed out; the focus; uses `Keymap` |
| `PendingInputProofs` | proofs about `Keymap` and `PendingInput` |
| `TabGroups` | the tab controller, next to AppKit's groups |
| `TabGroupsProofs` | proofs about `TabGroups` |
| `PriorityQueue` | the contents of a priority queue, and a pop's coins |
| `LinuxDispatcher` | workers, event loop and timers around two such queues |
| `RunOnce` | abstract: what a dispatcher promises about a runnable |
| `MainThreadWake` | how a runnable wakes the main thread on Windows and on the web |
| `DispatcherProofs` | proofs about `LinuxDispatcher`, its refinement of `RunOnce`, and `MainThreadWake` |
| `MC*` | instances for TLC: symmetry sets, functions, kinds of subscriptions |

In all of them a step is what the code does between two points at which other
code can run: user code, for what is on the main thread; another thread's
critical section, for the rest. A "mutant" is an alternative form of a
definition that a plausible bug would give it; `PROJECT.json` pairs one with
every property, and TLC finds the property violated with it. Mutants are not
part of any specification.

### SubscriberSet

`stored` is the map of active and inert subscribers by key. A key that is absent
and one whose map a pass has taken behave alike in every operation (`insert` and
the end of `retain` both use `get_or_insert_default`), and both are `{}`.
`active` and `dropped` are the shared cells of each subscription; `handles` are
the `Subscription` values, sets of ids because `join` merges two.

A pass is a frame of `stack`. `RetainBegin` moves the subscribers of a key into
the frame; `RetainSkip`, `RetainDiscard` and `RetainCall` are the three ways the
loop deals with the next id, in ascending order (a `BTreeMap`); `RetainDecline`
is the closure that answers false without calling anyone, because the observer's
weak handle did not upgrade; `RetainReturn(keep)` is the callback's answer, with
the check of `dropped` that follows; `RetainEnd` merges what is left with what
was inserted meanwhile. `Remove*` is the lazy iterator of `remove`, whose filter
is on `active` alone. `Discard` is a `remove` whose result is dropped. Whenever
a callback runs (`UserRuns`), every operation of a user may happen, a nested
pass included.

`Released` separates the sets the App makes `remove` passes over
(`release_listeners`, `quit_observers`) from those it makes `retain` passes
over: no set gets both. Not modelled: a callback that owns a `Subscription` of
its own set and is dropped while the set is borrowed (a hazard in
`PROJECT.json`).

### EntityMap

A handle is a member of `Handles`; `refers` and `owner` say to what and where: a
thread, the value of another entity, or a `Slot`. `Main` reaches values only
when they are leased or being released. The `RwLock` of the counters is held
across two atomic operations in two places, which are states of a thread's `pc`:
`"upgrading"`, between the load and the compare-exchange of
`atomic_incr_if_not_zero` (a reader), and `"last"`, between the decrement that
reached zero and the push into `dropped_entity_ids` (an upgradable reader that
waits for the readers to go). The compare-exchange compares values, as the code
does, so a count that moved and came back is accepted.

`TakeDropped` is the whole of `take_dropped`, allowed outside updates, where
`release_dropped_entities` calls it; a released value is `"releasing"` while its
callbacks run, and the handles it owns go one by one when it is dropped. Ids are
generational in the code and are never reused in the model.

### AppEffects

`pendingUpdates`, `flushing`, `effects` and `pendingNotify` are the App's
fields; `phase` is the point `flush_effects` has reached, and `batch` what
`take_dropped` gave it. All subscriber sets are one `SubscriberSet` (an
`INSTANCE`), keyed by topic: `<<"notify", e>>`, `<<"emit", e>>`, `<<"release",
e>>`, `<<"created", type>>`. The effects modelled are Notify and
NotifyGlobalObservers, Emit, EntityCreated, Defer, with the deferred activation
of a subscription a Defer of its own kind. User code runs in updates, nested to
`MaxNest`, in deferred closures and in callbacks of passes; every operation it
makes uses up `fuel`. `Release` may happen in any phase, for handles are dropped
on any thread.

`Shutdown` is the flush that `App::shutdown` makes: it is not the end of an
update and `flushing_effects` is not set, so an update in one of its callbacks
flushes inside it. `suspended` is shutdown's flush meanwhile: where it was, the
effect it was applying and what it was releasing. `FlushEnd` resumes it, or ends
the flush; after shutdown's, the phase is `"over"`. An effect that the inner
flush applies while the outer pass has the subscribers of its topic out of the
set misses those: `lost` (auxiliary) says which, and the properties leave out no
others.

`owed` and `early` are auxiliary: what each subscription has coming, and which
were inert when their emitter notified while none of its notifications was
queued. `ObserversHearNotify` is about `early`: an observer is activated by an
effect of its own, so one made in an update hears a notify that comes later in
it, unless a notification queued *before* the observer was made coalesces with
it; that case is the exception the property names. `Consistent` joins the types
with `PendingNotifyIsQueued` and `FlushIsOutermost`.

### WindowLifecycle

`slot` is the map `windows`: unborn, in, empty (taken out to be updated or
reserved to be built), closed. A frame of `stack` is a call in progress: an
`App::update`, an `update_window_id`, the construction and the first drawing of
a window, and the callbacks of `on_window_closed`. `UpdateReturns` and
`CloseWindow` are the two ends of `update_window_id`; `ClosedReturns` is the
test that quits; `BuildReturns` defers the update that removes a window removed
during its construction. The observer of closings is one callback, standing for
a `retain` pass of `SubscriberSet`: a nested pass over the same set calls nobody,
which is the exception in `ClosedIsObserved`.

`release_dropped_focus_handles` is `BeginRelease`, a `Visit` of every window and
`EndRelease`, with the write lock on `focus_handles` held throughout
(`writeLocked`). A visit closes a window that was removed while it was built or
drawn (`early`), for that window comes into its slot with its flag set. Its
closing runs observers: one that drops, clones or upgrades a focus handle waits
for the lock its own thread holds, and one that closes a window still to be
visited makes the `unwrap` fail. `halted` says which; `HaltsIfRemoved` says that
these, and the `expect` of `apply_entity_created_effect`, need a removed window.

### WindowFrames

The tree of views is a constant, `Path`: a view has one window and one place,
and whether its parent shows it is up to each rendering. Paths agree: the path of a view begins with
that of each view on it. `dirty`, `drawing`,
`dirtyViews`, `refreshing` and `needsPresent` are the fields of the window and of
its `WindowInvalidator`; `shown` and `nextFrame` are `rendered_frame` and
`next_frame`, as sets of views; `cache` is the set of entities a cached view says
it accessed; `tracked` and `trackers` are the App's two maps between windows and
entities. A draw is a frame of `stack`, and so is every rendering in it, so that
user code in a rendering may notify, access, and open a window that draws before
it returns. `Redraw` is a draw of a dirty window, by a frame request (`DrawFrame`) or
by the dispatch of a key event, which draws first and presents nothing
(`DrawForKey`). `Invalidate` is `App::notify` with `invalidate_view`: a window that
draws marks the view and stays clean. `Render` and `Reuse` are the two branches
of `AnyView::prepaint`; `Focus` and `Blur` are `Window::focus` and `blur`, which
refresh the window unless it draws; `FindFocus` is the focus that the next frame
records when the focused view is prepainted or recycled; `DrawDone` swaps the frames, drops the state that only
the last frame had, and `Track` records what was accessed: the window leaves the
trackers of what it had tracked and joins those of what it accessed.

`astray` is auxiliary and names the windows whose focus moved in their own draw,
which asks for no frame. `mark` is auxiliary too: whether a view changed after it was rendered, outside of a
draw (`"due"`), in a draw (`"delayed"`), or in one of a window that had lost
track of it. `lost` names the views of which a window need not know that it shows
them, until they are rendered again: those that were accessed before the rendering
of the cached view around them (`detect_accessed_entities` is a difference of
sets), and those that a draw had rendered or recycled when another window was
opened in it, which clears what it had accessed.

### Keymap and PendingInput

A keymap is a sequence of bindings, each with the depth of its predicate in
every context. `Bound` and `Pending` are what `bindings_for_input` returns;
`PrefixLength`, `FlushDispatch` and `DispatchKey` are `replay_prefix`,
`flush_dispatch` and `dispatch_key`. `Read` is the reference: what the same text
means read from the left, one keystroke at a time, as chunks and what is left of
which more may come.

In `PendingInput` a frame of `stack` is a keystroke being dispatched, the timer's
callback or a deferred one, with what `dispatch_key` decided as its fields: what
is pending is a local of the call while its interceptors and replayed handlers
run, and those may type, move the focus or blur. A keystroke that an interceptor
consumes still reaches the first listener that captures keys (`"stopped"`), which
may do the same. `typed`, `handled`, `left`,
`nested` and `consumed` are auxiliary and number the keystrokes, so that a
property can say of each what became of it.

### TabGroups

`tabGroups` is the controller's table; each of its operators is the table an
operation leaves. `native` is AppKit, external: what it does is taken from what
the code asks of it. A close has two halves, since observers of the first may
open windows before the second. Groups are bags, as nothing in the code keeps
them from naming a window twice. A move or merge that finds the App borrowed is
`late`: it waits for a timer and is applied by `Retry` to what the table is then.
`overtaken` (auxiliary) says that the tabs changed while one waited, the one case
besides `add_tab`'s in which the mirror need not be exact once nothing is late.
Assumed: one tabbing identifier, a visible tab bar, an App that is not borrowed
when a window closes (`on_close` would panic in its second half).

### PriorityQueue and LinuxDispatcher

`PriorityQueue` is pure: three FIFOs and, for `pop_inner`, which outcomes its
coins allow. A coin of weight `w` out of mass `m` may come up false exactly if
`w < m`; the masses are computed as the code reduces them, and `MayPopNothing`
says that no coin need come up true. The generator is seeded, its draws are
taken to be any.

`LinuxDispatcher` has two queues, `pool` and `main`. A critical section of a
queue's lock is one step. A dispatch by thread `t` is `sending[t]`, in the order
of the code: `CountReceivers` (outside the lock), `SendPool` or `SendMain` (push
and `notify_one`), and for the main thread `Ping` (after the lock). A worker is
`"recv"`, `"asleep"` in the condition variable, `"woken"` but without the lock
yet, running, or panicked by the unwrap of `pop`. A woken worker looks at the
queue again and may find that an awake one was faster. The event loop polls, and
when pinged it reads the ping (`ReadPing`), takes runnables under the lock one
by one (`Take`), sees the queue empty (`DrainEnds`) and pings itself if it took
any. Handlers of other events may run before and after the drain (until
`HandlersEnd`) and dispatch runnables too; those taken were inserted as idle
callbacks and run at the end of the iteration (`Idle`), as the X11 and Wayland
clients do. `Stop` is `LoopSignal::stop`, `DropReceiver` the end of the loop's
sources, after which sends to it forget their runnables.

Each runnable is dispatched once, by any thread that runs user code: a task that
is woken again is another runnable of the model. Nothing catches the panic of
one (`RunnablePanics`): its thread is unwound, a worker's receiver is dropped,
the timer thread takes its timers with it, the main thread ends the loop. A
dispatch to a pool without workers panics in its caller (`DispatchPanics`).
`KeepsPromise` says that all this implements `RunOnce`: a runnable waits, one
thread of its kind runs it, once, and it is given up only when none is left.

### MainThreadWake

Windows and the web share a protocol: a runnable is queued, then a flag that all
senders share is set, and whoever set it wakes the main thread. `platform` is
chosen once. On Windows `Swap` is `wake_posted.swap(true)`, `PostMessage` may
fail (it is logged, and the flag stays set), and `run_foreground_task` pops,
clears the flag (`Clear`), pops once more (`Recheck`) and sets it again if it
found a runnable; out of time, it posts itself a message, and clears the flag if
it cannot. On the web `Store` and `NotifyWaiter` are `post`, and the loop drains,
stores 0 and waits with `Atomics.waitAsync(signal, 0)`: if that finds another
value it returns no promise, and the loop ends. `lost` is auxiliary and names the
three things that can leave a runnable behind.

## 3. Runs

| run | distinct states | shows |
|---|---|---|
| `SubscriberSet` | 583k | `OneOwner`, `NoSubscriberLost`, `OutermostPassReachesAll`, and that the set implements `Subscriptions` (`KeepsPromise`) |
| `SubscriberSet_Removed` | violation | a cancelled release callback is called, against the doc of `Subscription` |
| `EntityMap` | 361k | `CountIsHandles`, `UnreferencedListedOnce`, and that the map implements `SharedOwnership` (`KeepsPromise`) |
| `AppEffects` | 370k | `Consistent`, `OwedIsPending`, `ReleasedIsForgotten`, `ObserversHearNotify`, `EventsInOrder`, `UnreferencedReleased`, `OwedDelivered` |
| `WindowLifecycle` | 1.1M | `Consistent`, `RemovedGoesAway`, `QuitsWithLast`, `HaltsIfRemoved`, `ClosedIsObserved` |
| `WindowFrames` | 935k | `StaleIsMarked`, `StaleIsDue`, `Consistent`, `ChangesReachScreen` |
| `WindowFrames_Recycled` | violation | a cached view that was notified is recycled, against the doc of `AnyView::cached` |
| `PendingInput` | 1.0M | `Consistent`, `HandledInOrder`, `LeftIsDropped`, `AsTyped`, `ObserversKnow`, `BoundInputRuns` |
| `TabGroups` | 1.2M | `Consistent` |
| `TabGroups_AddTab` | violation | `add_tab` reuses the id of a group and loses its tabs |
| `LinuxDispatcher` | 566k | `SleepersAreNotNeeded`, `QueuedIsPinged`, `NoWorkerPanics`, `DispatchedRuns`, and that the dispatcher implements `RunOnce` (`KeepsPromise`) |
| `MainThreadWake` | 3.9k | `QueuedIsWoken`, `FlagHasWake`, `AsleepIsNotified`, `ExitsOnlyRaced`, `SentRuns` |

A `Consistent` includes its module's `TypeOK`; for the modules without one the
types are proved.

### Bounds

* `SubscriberSet`: three subscriptions are the fewest with which one is running,
  one is waiting and one is inserted or cancelled by the callback; depth two
  nests a pass in a pass, over the same emitter or another; one key of the three
  is of a set with `remove` passes. The proofs have none of these bounds.
* `EntityMap`: two threads make every race of the counters (each involves one
  that upgrades or drops and one that does the opposite or drains the list); two
  entities, so that one may own a handle to the other; three handles, so that a
  count goes down while two are left.
* `AppEffects`: two entities and a global, two subscriptions, updates nested
  twice, and passes twice, the most that shutdown nests. `MaxFuel = 6` operations
  of user code are enough for: create, observe, notify, notify again in a
  callback, drop, and one of a second entity or of the global. Events are numbered
  up to `MaxFuel`. The safety properties are proved without these bounds.
* `WindowLifecycle`: three windows (one updated, one updated or closed inside
  it, one opened by an observer), eight operations, one unreferenced focus handle
  at a time (they are alike, and one release visits every window). The proofs
  have none of these bounds.
* `WindowFrames`: two windows; in the first a root shows a cached view with an
  uncached one inside, the least tree in which a cached view hides another; the
  second has a root alone, and may be drawn within a draw of the first. Three
  operations of user code suffice for: an access by the parent, notify in a draw, notify
  again, or to move the focus to the innermost view, off it and back; in between, every view may be shown, recycled or rendered, or not.
* `PendingInput`: every pair of bindings over two keys up to three keystrokes
  long (the keys are alike, so the first begins with `a`), and three larger
  keymaps with contexts and a `NoAction` in which user code makes an operation
  too; four keystrokes, one more than the longest word of a pair.
* `MainThreadWake`: three senders (one that sets the flag, one that finds it
  set, one that comes while the main thread goes to sleep), two failures. The
  proofs have neither bound.
* `TabGroups`: four windows, for two groups of two, or three and one alone; ids
  to 4; one late callback at a time, overtaken by any other.
* `LinuxDispatcher`: two workers (one asleep, one that may take what the other
  was woken for). Of the runnables, each of which may dispatch the rest, either
  two background ones of different priorities, two foreground ones (one drained
  while the other is being sent) and a delayed one are dispatched, or three
  background ones, a foreground and a delayed one (`Together`): two that panic
  and unwind both workers, and one dispatched then. The proofs have none of
  these bounds.

Symmetry is used where only invariants and action properties are checked
(`EntityMap` over handles, windows in `WindowLifecycle` and `TabGroups`), and no
property or constant tells the symmetric values apart. (`QuitsWithLast` is an
invariant and an action property.)

`CHECK_DEADLOCK FALSE` is everywhere, for the system really may stop: an App
with no event to handle is idle; in the models, ids, fuel and undispatched
runnables run out; after a failed `expect` nothing more happens.

### Fairness

Safety needs none; a run that also checks liveness uses one `FairSpec` for all its
properties. `AppEffects!FairSpec` assumes weak fairness of `FlushStep` and of
`Returns`: `flush_effects` is a loop without waits on the main thread, and user
code returns. Nothing says that user code stops asking for more: that is the
bound `MaxFuel`, so the liveness properties are about callbacks that eventually
produce no more effects, which the code needs (`flush_effects` loops while there
are any).

`WindowFrames!FairSpec` assumes weak fairness of `FrameStep` (a draw that began
is carried on, on the main thread) and strong fairness of every window's
`RequestFrame`: the platform's frame callback of each window fires again and
again, if only between other work. `PendingInput!FairSpec` assumes weak fairness
of `Step` (calls return) and `TimerFires` (a one-second timer fires if nothing
else is going on); nobody need type. `WakeFairSpec` of `MainThreadWake` assumes weak
fairness of the main thread and of each sender, and strong fairness of a pop, as
`run_foreground_task` is not out of time before its first pop every time.

`LinuxDispatcher!FairSpec` assumes weak fairness of each thread's `Send`, of
each worker's `Work`, of `RunLoop` and of `RunTimer`: the operating system
schedules every thread, a lock that is free is obtained, runnables return and
timers fire. There is none for `Dispatch`, `Stop` or panics (user code need not make
them), for spurious wakeups or for `DropReceiver`, nor strong fairness: the
coins of a pop need not be fair for `DispatchedRuns`, because finitely many
runnables are dispatched. Against an endless supply of high priority runnables,
a low one is run only with probability one, which TLA+ does not express.

## 4. Findings

Three places where the code does something else than a doc comment says are runs
that expect a violation.

1. **Tabs lost by `add_tab`** (`app.rs:490`). A new group gets the number of
   groups as its id; after a move or a close that id may be another group's,
   which is replaced.
2. **A notified view is recycled** (`app.rs:950`). A cached view counts as
   accessed only what was not accessed before it in the draw. If its parent read
   its entity first, the next draw that recycles it stops tracking that entity,
   and later notifies of it mark nothing.
3. **A dropped `Subscription` that is called** (`subscription.rs:100`). The
   iterator of `remove` looks at `active` alone: a release or quit callback that
   drops the `Subscription` of a later one of the same pass comes too late.

Others are exceptions written into properties that hold, so that the runs show
there are no more of them:

* `KeepsPromise` of `SubscriberSet` holds with the third of these as its only
  exception: a cancellation counts unless a `remove` pass has taken the
  subscription out of the map (`Cancelled`).
* `ObserversHearNotify`: notify, observe, notify, in one update, calls nobody
  (`app.rs:2312`).
* `ClosedIsObserved`: a window closed by a callback of `on_window_closed` starts
  a pass over a set whose subscribers are taken (`app.rs:1594`).
* `HaltsIfRemoved`: the `expect` of an entity announced to a window the same
  update removed (`app.rs:1568`), and the deadlock and the failed `unwrap` of
  `release_dropped_focus_handles` (`app.rs:1506`) described above.
* `StaleIsDue` leaves out what is notified while its window draws: the view is
  marked and nothing asks for a frame (`window.rs:200`); and a focus moved while
  its window draws, as by a focus listener (`window.rs:4758`). It and
  `StaleIsMarked` leave out the views in `lost`, among them those of a draw in
  which another window is opened (`window.rs:5918`), until they are rendered again.
* `OwedIsPending` and `OwedDelivered` leave out what shutdown's flush loses to a
  flush inside it (`app.rs:854`); `UnreferencedReleased` leaves out an entity that
  another thread drops after a flush looked for the last time or between updates:
  it waits for an update that nothing asks for (`entity_map.rs:352`).
* `MirrorsNative` leaves out late callbacks that others overtook
  (`window.rs:4366`).
* `ObserversKnow` leaves out `blur` (`window.rs`), which, unlike `focus`, tells
  no observer that pending input will be dropped.
* `ExitsOnlyRaced`: a post between the last pop of the web's waker loop and its
  sleep ends the loop (`gpui_web/src/dispatcher.rs:107`); `FlagHasWake`: a failed
  `PostMessageW` leaves `wake_posted` set
  (`gpui_windows/src/dispatcher.rs:132`).

## 5. Proofs

What is proved holds for every value of the constants that the `ASSUME`s of the
module allow: any number of entities, handles, threads, subscriptions, nested
passes, workers and runnables. The
properties among the conjuncts of an inductive invariant are those the runs check.

**`EntityMapProofs`.** Assumptions: `Main` is a thread, `Handles` is finite (a
counter counts them), `None` is no entity, and owners are told apart. The
inductive invariant adds `BusyTargetCounted` to the properties: the entity that
an upgrade or a last drop in progress is about is still counted, since
`take_dropped` needs the lock to itself, and an upgrade in progress has loaded a
count that is not zero. So the compare-exchange is sound even when the count
moved and came back. The cardinality lemmas say what adding and removing one
handle does to the set of handles of an entity. Proved: `TypeOK`,
`CountIsHandles`, `HandleKeepsEntity`, `UnreferencedListedOnce`, `TablesAgree`,
and `KeepsPromise`: every step of `EntityMap` is a step or a stutter of
`SharedOwnership`.

**`SubscriberSetProofs`.** The invariant is `TypeOK /\ OneOwner /\
NoSubscriberLost /\ RemoveKeepsNone`, the last because a `remove` pass hands its
subscribers out for good and puts none back. The argument is about frames: only
the top one changes, or one is pushed or popped, and lemmas on sequences say
what stays below. Proved: `TypeOK`, `OneOwner`, `NoSubscriberLost`. On top of it
stands `NoneMissed`: what was live when an outermost pass began, and still is,
has been called or is next; it was active then, and activation is for good, so
the pass skips none of it. From it follows `OutermostPassReachesAll`.

Its refinement, `KeepsPromise`: every step of the set is a step or a
stutter of `Subscriptions`. It rests on the invariant above and on `Proper`: the
kind of a pass is that of its key; every frame below the top one runs a callback;
what has an owner has not ended; the callback a pass runs belongs to an active
subscription; and a release listener that was cancelled is in no map, since only
`retain` puts cancelled subscribers back. The last is what keeps a subscription
that is over from living again when `remove` takes its key. All steps of a pass
are of three kinds (`Passes`, `Calls`, `Returns`), which are the stutter or
`Finish`, `Invoke` and `Return` of the abstract module.

**`AppEffectsProofs`.** Assumptions: no type of globals is an entity, and the
bounds are numbers. The inductive invariant `FlushInv` has four parts besides
types and `Bounded` (an event's number is that of an operation). `Levels` relates
the phase of a flush, and of the one `shutdown` suspends, to the effect being
applied, to the batch being released and to the frame of its pass, and keeps
`FlushIsOutermost`: frames are counted by the flushes that are in a pass, and a
flush is suspended only while its callback or closure runs. `Queue` says that
`pending_notifications` is the set of queued `Notify` effects and that an
emitter, and an entity's `EntityCreated`, is queued once. `HandlesCounted` gives
the counter of every entity as the sum of its holders: user code, its queued
`EntityCreated`, and a callback of either flush; so no counter is taken below
zero, and an entity whose callback runs is referenced. From these comes
`Consistent`. For `ReleasedIsForgotten` the invariant adds `Lists`: who is listed
for release is dead, born and without handles; who is dead and not listed is
forgotten; and the entity whose release listeners a flush calls has lost its
observers before. It is inductive because the dead stay dead (`DeadSteps`),
nobody leaves a list before being forgotten (`TakenSteps`), and nothing is put
back into the sets of a dead entity but by a pass made for it, which cannot be
suspended, since the callback of a suspended pass holds a handle (`DeadTopics`,
`DeadPasses`). The lemmas about `SubscriberSet` say again, for the sets of the
App, which types and which frames each operation keeps.

What reaches subscribers rests on `Owned`: a subscription that goes on is in the
map under its own key or in one frame, and one that has ended is in neither, so
that a pass which begins for an effect finds all whom it serves, unless the pass
of a suspended flush has them. `Comes(i, n)` says where the effect `n` is that
subscription `i` is to get: queued, applied by the pass on top that has `i` still
to visit, or by the suspended one. `ComesNext` is the heart of it: a step of
any kind keeps that, or is the call itself; an effect that leaves the queue
(`AppliedFinds`) goes to a pass that has taken `i`, and inside a suspended pass
over the same topic the pair is `lost`, or `i` is still to be called for the
notification the outer pass carries. `OwedIsPending` follows, as what is owed is
owed to active subscriptions (`OwedIsActive`) and is queued then or before. For
`ObserversHearNotify` the invariant is about the order of the queue: whoever is
not active has its activation queued (`InertIsQueued`), before the notification
it waits for (`EarlyIsComing`), and once it is active that notification comes to
it; `InShutdown`, which once true stays so, leaves out shutdown's flush, after
which the App is never idle. For `EventsInOrder` it is
`EventsSorted`: numbers in the queue rise and follow those being applied, so an
earlier event still owed could come only from a second frame that holds the same
listener, and `Owned` excludes that. Proved: `Consistent`, `ReleasedIsForgotten`,
`OwedIsPending`, `ObserversHearNotify`, `EventsInOrder`, that is every safety
property of the run.

**`DispatcherProofs`, Linux.** The invariant is `TypeOK /\ CountIsReceivers /\
RunningRuns /\ MainRuns /\ SleepersAreNotNeeded /\ QueuedIsPinged /\
NoWorkerPanics`: `receivers` is a function of the state of the loop, so no drop
takes it below zero; a worker has a runnable only while it is in `"runs"`, so a
panic unwinds no worker that was woken for a runnable; and the main thread runs
user code only where a panic leaves one receiver (`MainRuns`).
`SleepersAreNotNeeded` is inductive as it stands: a push adds one to the queue
and wakes one sleeper if there is any; an awake worker that takes a runnable
leaves one fewer; a woken worker that takes one removes one from both sides; and
none goes to sleep while the queue has an element. `NoWorkerPanics` rests on
`SomeCoinComesUp`: the last FIFO that has an element is offered with a mass
equal to its weight. Proved: `TypeOK`, `SleepersAreNotNeeded`, `QueuedIsPinged`,
`NoWorkerPanics`.

Its refinement, `KeepsPromise`: every step of the dispatcher is a step or a
stutter of `RunOnce`. Besides the invariant above it rests on two. `Placed`: a
runnable is in one place at a time (not sent yet, on the way to the timer, in one
FIFO of the pool or of the main queue, or with one thread), and once in it; it
needs lemmas on FIFOs and queues, that a push adds and a pop takes exactly one.
`FallenRest`: a thread a panic has unwound runs no more. That a runnable is lost
only when nobody is left to run it follows from the earlier invariant: by
`CountIsReceivers` a foreground runnable dropped by `send` has no event loop,
and a dispatch panics only when the pool has no worker.

**`DispatcherProofs`, Windows and web.** The invariant adds to the five properties' safety
part three facts: while `run_foreground_task` is past its clearing of the flag
and has not popped, a flag that is set has a wake of its own
(`RecheckedHasWake`); a runnable whose sender has not queued it is not in the
queue, and one in the queue was sent (`UnpoppedIsSent`); and the flag is set when
the waker loop is about to wait only because of a race (`SetIsRaced`). Proved:
`TypeOK`, `QueuedIsWoken`, `FlagHasWake`, `AsleepIsNotified`, `ExitsOnlyRaced`.

**`WindowLifecycleProofs`.** The invariant has two halves. `Held` is about the
stack of calls: a window is in one call at most, it is out of its slot exactly
while it is, and `window_update_stack` lists the windows of the calls that push
it, in their order (`UpdatedOnce`). One lemma for each of the ways a step changes
the stack (a frame pushed, popped or replaced) shows that it stays. `Owed` is
about what is still to come: a window that is drawn for the first time has an
update deferred (`DrawnDefers`), so one that was removed will be updated once
more, is being updated, or is closed (`RemovedCloses`); a removed window that is
in its slot was removed early; the lock on the focus handles is held only in a
flush, and then the outermost call, if any, closes a window removed early
(`LockedVisits`), which is why a window still to be visited is open unless such a
window was closed (`VisitedIsOpen`); and if every window is closed the App has
quit or an observer is running (`LastQuits`). Proved, for any number of windows,
of observers and of operations, and any nesting of calls: `Consistent`,
`RemovedGoesAway`, `QuitsWithLast`, `ClosedIsObserved`, `HaltsIfRemoved`, that is
every property of the run.

**`WindowFramesProofs`.** Assumptions: paths agree and end with their view, no
window is a view, only leaves take the focus and only views inside others are
cached. The proof goes in five layers, each of which uses the ones before.
`Sound`: types, and the shape of the stack, in which a rendering stands on the
draw or rendering of what its view is in, a window is drawn once at a time, and
a frame holds the views around each of its views. From it and from the agreement
of the App's two maps comes `Consistent`. `RenderingsOK`: renderings are nested
as their views are, all inside the prepaint of their draw, and a rendering that
was made to refresh its window holds the cached views inside it to that.
`Accounted` is about what is recycled: the record of a cached view holds the
views inside it that the frame shows, but for those in `lost` (`CacheFilled`), so
that a window tracks all it shows but those (`KeepsTrack`). `MarksOK` strengthens
`StaleIsMarked`, which says nothing of a window that draws: what a draw has put
in the next frame has changed only since the draw began, and is marked for the
next (`FreshInDraw`); what it has yet to put there and changed before is marked,
with the views around it, or the window refreshes, so it is rendered and not
recycled (`StaleInDraw`). `FocusOK` says that the frame to come has found the
focus among the views it has prepainted, and gives the rest of `StaleIsDue`.
Proved: `Consistent`, `StaleIsMarked`, `StaleIsDue`, that is every safety property
of the run, with no bound on windows, views, operations or on draws inside draws.

**`TabGroupsProofs`.** Assumption: finitely many windows. The invariant has two
parts besides types. `NativeTabs`: AppKit's groups part the windows that are open
or closing, whatever the controller does. `Mirrors`, under the two conditions of
`MirrorsNative`: no tab is listed twice, the tabs listed are those AppKit has, and
the table is behind AppKit by one callback at most (`Behind`), whose window is
open, and which the callback would catch up with. A close keeps that, as taking a
window away commutes with moving another out (`WithoutTwo`). The lemmas about the
controller say of each operation what groups it leaves, as a set of sets:
`remove_tab` takes the window from all, `move_tab_to_new_window` uses an id that
is not in use (`MoveTargetFresh`, `MaxExists`), `merge_all_windows` sums the
groups, which is their union if no tab is listed twice (`MergeSets`), and
`add_tab` finds the group it is to join, or makes one. Proved: `Consistent`.

**`PendingInputProofs`.** Assumptions: the context of the root is no focus, the
keys of a binding are a sequence of keys, and the bounds are numbers. `Flushed` and `Dispatched` are recursive functions over
the number of keystrokes left. That such a definition defines a function is
proved from the least number at which it would not (`RecursionExists`), and in
the same way that `flush_dispatch` and `dispatch_key` lose no keystroke, make up
none and keep their order, whatever the bindings (`FlushDispatchIs`,
`DispatchKeyIs`). The invariant says of the whole state what those say of one
call. `Ordered`: what is handled comes before what is pending and what any call
holds; a call's replay before what it is to hold or handle; and the keystrokes of
a call before those of the calls under it only if a handler dispatched them, so
that the order of the others is the order of typing. `Accounted`: every keystroke
is somewhere. `Overwritten` is why `Hold`, which replaces what is pending, loses
nothing: while a call decides, what becomes pending was dispatched by a handler
or left by a `blur`. `Dropped`: what is left is held nowhere but in
`pending_input`, and there only with another focus than the present one, so that
the next keystroke or the timer drops it. `Told`: only an observer's own
keystroke finds the observers running, and while the observers are behind, a call
or a deferred one is still to tell them. A step changes the innermost call
(`TopChanges`), ends it (`UnderIs`) or begins one (`BeginIs`, `FirstIs`), and the
lemmas `OrderedGoto`, `OrderedPop` and `OrderedPush` say what that does to the
order of the rest.

`AsTyped` compares what `dispatch_key` computes with another recursive
definition. Three facts carry it. A chunk that was read stays when the text goes
on, so reading goes on from what was left (`ReadOn`). If no binding hides another
of which it is a prefix, more may come of every prefix of a word that may be
continued or is bound (`PendingPrefixes`, `BoundPrefixes`), so the longest bound
prefix of what was pending, which `replay_prefix` takes, is the chunk that reading
from the left would take (`ReplayedIsRead`). Hence `dispatch_key`, of what was
left and one keystroke, leaves what reading leaves of both (`DispatchReads`,
`OneMore`), though it starts over with the rest taken as a whole. The invariant
`Reads` says where the chunks are meanwhile: until something disturbs it there is
one call at most, and what was handled followed by what that call still has to
hand over is what the text typed means. Proved: `Consistent`, `HandledInOrder`,
`LeftIsDropped`, `AsTyped`, `ObserversKnow`, that is every safety property of the
run.

**Model-checked only.** Liveness under fairness (`UnreferencedReleased`,
`OwedDelivered`, `ChangesReachScreen`, `BoundInputRuns`, `DispatchedRuns`, `SentRuns`) is out of
this prover's reach. Every other property of the passing runs is a theorem.

## 6. Not modelled

`PROJECT.json` gives the reason for each component. In short: layout, painting,
text, styles and geometry are data and float arithmetic without a protocol; the
platform crates are bindings, of whose protocols the tab callbacks and the three
dispatchers are modelled; executors wrap the `async-task` crate over a
dispatcher; macros and demos have no run-time state of the framework. Inside the
modelled components: the quit observers' futures and their timeout, the order of
tab stops, `Unbind` and changes of the keymap, the dispatch tree, `on_close` while
the App is borrowed, and the end of the senders of a queue.

## 7. Plan

What is left, in order of what the framework depends on most. A run that is
replaced by one of a module that composes it goes, so that the whole stays
checkable in minutes.

1. `MainThreadWake` as another implementation of `RunOnce`; the headless client
   and the drop of senders in `LinuxDispatcher`.
2. `Unbind`, base keymaps and the dispatch tree, with the frames that
   `DrawForKey` of `WindowFrames` draws before a keystroke, in `Keymap` and
   `PendingInput`.
3. A callback that owns a `Subscription` of its own set, in `SubscriberSet`.
4. Tab stops, `BoundsTree` and the state of `list` as algorithms against
   reference definitions.
