------------------------------- MODULE TabGroups -------------------------------
(***************************************************************************)
(* gpui's SystemWindowTabController (crates/gpui/src/app.rs): the App's    *)
(* own table of the native tab groups of macOS windows, kept up to date by *)
(* the callbacks of open, close, move and merge.                           *)
(*                                                                         *)
(* AppKit is external: `native` are its tab groups.  The tab bar is shown, *)
(* so that a window alone is a group of one, and all windows share a       *)
(* tabbing identifier.  A move or merge that finds the App borrowed is     *)
(* tried again a millisecond later; a close does not find it so (it would  *)
(* panic).  The order of tabs is left out: a group is a bag, since nothing *)
(* in the code keeps it from listing a window twice.                       *)
(***************************************************************************)
EXTENDS Integers, Bags, FiniteSetsExt, Functions

CONSTANTS Windows,    \* bound: windows ever opened
          MaxGroupId, \* bound: ids that moves give to groups
          MaxLate     \* bound: callbacks waiting to be tried again

ASSUME GroupsAssumption == IsFiniteSet(Windows) /\ MaxGroupId \in Nat /\ MaxLate \in Nat

VARIABLES
  tabGroups,  \* tab_groups, a function on the group ids in use
  native,     \* external: AppKit's tab groups
  open,       \* windows the App has
  closing,    \* closed for the App, not yet by AppKit
  closed,
  late,       \* callbacks that found the App borrowed and wait for a timer
  \* Auxiliary.
  overwrote,  \* add_tab has replaced a group
  overtaken   \* a late callback was: its tabs have changed since

vars == <<tabGroups, native, open, closing, closed, late, overwrote, overtaken>>

Calls == [op : {"move", "merge"}, on : Windows]

GroupIds == DOMAIN tabGroups
Tabs(g)  == BagToSet(tabGroups[g])
Listed   == UNION {Tabs(g) : g \in GroupIds}

Init == /\ tabGroups = <<>>
        /\ native = {} /\ open = {} /\ closing = {} /\ closed = {}
        /\ late = {}
        /\ overwrote = FALSE /\ overtaken = FALSE

------------------------------------------------------------------------------
(***************************************************************************)
(* The controller.  Each operator is the table it leaves.                  *)
(***************************************************************************)
\* tab_groups.insert replaces a group that has the id already.
Put(groups, g, tabs) ==
  [h \in DOMAIN groups \cup {g} |-> IF h = g THEN tabs ELSE groups[h]]

\* The id of a new group is the number of groups.
NewGroupId == Cardinality(GroupIds)

\* The groups that are the other tabs of w.
Matching(w, tabs) == {g \in GroupIds : tabGroups[g] = SetToBag(tabs \ {w})}

AddTab(w, tabs) ==
  IF Matching(w, tabs) # {}
  THEN LET g == CHOOSE g \in Matching(w, tabs) : TRUE
       IN  Put(tabGroups, g, tabGroups[g] (+) SetToBag({w}))
  ELSE Put(tabGroups, NewGroupId, SetToBag(tabs))

\* The first tab of the window goes, in every group.
RemoveTab(w) ==
  LET rest == [g \in GroupIds |-> tabGroups[g] (-) SetToBag({w})]
  IN  Restrict(rest, {g \in GroupIds : rest[g] # EmptyBag})

\* Mutant of MoveTarget: numbered as add_tab numbers its groups.
MoveTargetCounting(w) == Cardinality(DOMAIN RemoveTab(w))

MoveTarget(w) == LET ids == DOMAIN RemoveTab(w) IN IF ids = {} THEN 0 ELSE Max(ids) + 1

MoveTab(w) ==
  IF w \in Listed THEN Put(RemoveTab(w), MoveTarget(w), SetToBag({w})) ELSE tabGroups

\* The sum of the groups.
Places(w) == UNION {{g} \X (1 .. tabGroups[g][w]) : g \in {h \in GroupIds : w \in Tabs(h)}}
AllTabs   == [w \in Listed |-> Cardinality(Places(w))]

\* Two tabs of one window have different activation times: both stay.
MergeTabs(w) == IF w \in Listed THEN Put(<<>>, 0, AllTabs) ELSE tabGroups

Apply(call) == IF call.op = "move" THEN MoveTab(call.on) ELSE MergeTabs(call.on)

(***************************************************************************)
(* What happens to windows.                                                *)
(***************************************************************************)
NativeWithout(w) == {n \ {w} : n \in native} \ {{}}

\* Auxiliary: tabs change while calls wait.
Overtakes(calls) == overtaken' = (overtaken \/ calls # {})

\* AppKit makes the new window a tab of the group n, or a group of its own
\* when n is empty; the App asks it for the tabs.
OpenWindow(w, n) ==
  /\ w \notin open \cup closing \cup closed
  /\ native' = (native \ {n}) \cup {n \cup {w}}
  /\ open' = open \cup {w}
  /\ tabGroups' = AddTab(w, n \cup {w})
  /\ overwrote' = (overwrote \/ (Matching(w, n \cup {w}) = {} /\ NewGroupId \in GroupIds))
  /\ Overtakes(late)
  /\ UNCHANGED <<closing, closed, late>>

\* remove_window, called by the program, or by the first half of on_close:
\* the observers of closed windows may now open one.
CloseWindow(w) ==
  /\ w \in open
  /\ open' = open \ {w} /\ closing' = closing \cup {w}
  /\ Overtakes({call \in late : call.on = w})
  /\ UNCHANGED <<tabGroups, native, closed, late, overwrote>>

\* The second half of on_close, then AppKit's own.
WindowClosed(w) ==
  /\ w \in closing
  /\ closing' = closing \ {w} /\ closed' = closed \cup {w}
  /\ native' = NativeWithout(w)
  /\ tabGroups' = RemoveTab(w)
  /\ UNCHANGED <<open, late, overwrote, overtaken>>

\* AppKit has moved or merged, and calls back: at once the controller does
\* the same, unless the App is borrowed.
CallBack(call) ==
  /\ \/ tabGroups' = Apply(call) /\ UNCHANGED late
     \/ /\ Cardinality(late) < MaxLate
        /\ late' = late \cup {call} /\ UNCHANGED tabGroups
  /\ Overtakes(late)
  /\ UNCHANGED <<open, closing, closed, overwrote>>

MoveTabToNewWindow(w) ==
  /\ w \in open /\ MoveTarget(w) <= MaxGroupId
  /\ native' = NativeWithout(w) \cup {{w}}
  /\ CallBack([op |-> "move", on |-> w])

MergeAllWindows(w) ==
  /\ w \in open
  /\ native' = {UNION native}
  /\ CallBack([op |-> "merge", on |-> w])

\* The timer fired: the callback is made if its window is still there.
Retry(call) ==
  /\ call \in late
  /\ late' = late \ {call}
  /\ tabGroups' = IF call.on \in open THEN Apply(call) ELSE tabGroups
  /\ UNCHANGED <<native, open, closing, closed, overwrote, overtaken>>

Next == \/ \E w \in Windows : \/ \E n \in native \cup {{}} : OpenWindow(w, n)
                              \/ CloseWindow(w) \/ WindowClosed(w)
                              \/ MoveTabToNewWindow(w) \/ MergeAllWindows(w)
        \/ \E call \in Calls : Retry(call)

Spec == Init /\ [][Next]_vars
------------------------------------------------------------------------------
(***************************************************************************)
(* Properties.                                                             *)
(***************************************************************************)
TypeOK == /\ GroupIds \subseteq Nat /\ IsFiniteSet(GroupIds)
          /\ \A g \in GroupIds : IsABag(tabGroups[g]) /\ Tabs(g) \in (SUBSET Windows) \ {{}}
          /\ \A n \in native : n \in (SUBSET Windows) \ {{}}
          /\ open \subseteq Windows /\ closing \subseteq Windows /\ closed \subseteq Windows
          /\ late \subseteq Calls
          /\ overwrote \in BOOLEAN /\ overtaken \in BOOLEAN

\* As long as add_tab has met no id in use and a late callback was overtaken
\* by nothing but closes of other windows, the table mirrors AppKit once no
\* callback is late: each native group is listed once, whole, and a closed
\* window nowhere.
MirrorsNative ==
  late = {} /\ ~overwrote /\ ~overtaken
             => /\ {tabGroups[g] : g \in GroupIds} = {SetToBag(n) : n \in native}
                /\ Cardinality(GroupIds) = Cardinality(native)

\* Types, and this.
Consistent == TypeOK /\ MirrorsNative

\* The doc comment of add_tab: "Insert a tab into a tab group", which takes
\* no other tab away.
AddKeepsTabs == [][ ~(open' \subseteq open) => Listed \subseteq Listed' ]_vars
=============================================================================
