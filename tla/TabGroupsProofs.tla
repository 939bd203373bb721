---------------------------- MODULE TabGroupsProofs ----------------------------
(***************************************************************************)
(* What TabGroups keeps, for any number of windows: the controller's table *)
(* mirrors AppKit's tab groups until add_tab meets an id in use or a late  *)
(* callback is overtaken.                                                  *)
(***************************************************************************)
EXTENDS TabGroups, FiniteSetTheorems, TLAPS

------------------------------------------------------------------------------
(***************************************************************************)
(* Bags.                                                                   *)
(***************************************************************************)
\* The bag of a set is a bag of its elements, and of no other set.
LEMMA SetBag ==
  ASSUME NEW S
  PROVE  IsABag(SetToBag(S)) /\ BagToSet(SetToBag(S)) = S
  BY DEF IsABag, SetToBag, BagToSet

\* One more.
LEMMA BagAdd ==
  ASSUME NEW B, IsABag(B), NEW w
  PROVE  IsABag(B (+) SetToBag({w})) /\ BagToSet(B (+) SetToBag({w})) = BagToSet(B) \cup {w}
  BY DEF IsABag, SetToBag, BagToSet, (+)

\* One less.
LEMMA BagRemove ==
  ASSUME NEW B, IsABag(B), NEW w
  PROVE  IsABag(B (-) SetToBag({w})) /\ BagToSet(B (-) SetToBag({w})) \subseteq BagToSet(B)
  BY DEF IsABag, SetToBag, BagToSet, (-)

\* A set that gets an element it does not have, as a bag.
LEMMA SetAdd ==
  ASSUME NEW S, NEW w, w \notin S
  PROVE  SetToBag(S) (+) SetToBag({w}) = SetToBag(S \cup {w})
  BY DEF SetToBag, (+)

\* A set that loses an element.
LEMMA SetRemove ==
  ASSUME NEW S, NEW w
  PROVE  SetToBag(S) (-) SetToBag({w}) = SetToBag(S \ {w})
  BY DEF SetToBag, (-)

\* A bag that is empty has no elements.
LEMMA BagEmpty ==
  ASSUME NEW B, IsABag(B)
  PROVE  B = EmptyBag <=> BagToSet(B) = {}
  BY DEF IsABag, SetToBag, BagToSet, EmptyBag

------------------------------------------------------------------------------
(***************************************************************************)
(* Tables.                                                                 *)
(***************************************************************************)
\* A table of groups, as TypeOK has it.
Table(t) == /\ DOMAIN t \subseteq Nat /\ IsFiniteSet(DOMAIN t)
            /\ \A g \in DOMAIN t : IsABag(t[g]) /\ BagToSet(t[g]) \in (SUBSET Windows) \ {{}}

\* The groups, as sets of tabs.
TabSets(t) == {BagToSet(t[g]) : g \in DOMAIN t}

\* No tab is listed twice.
Distinct(t) ==
  \A g \in DOMAIN t : /\ t[g] = SetToBag(BagToSet(t[g]))
                      /\ \A h \in DOMAIN t : g # h => BagToSet(t[g]) \cap BagToSet(t[h]) = {}

\* Groups without a window, which leaves no empty one.
Without(w, T) == {s \ {w} : s \in T} \ {{}}

\* What is listed is what the groups hold.
LEMMA ListedIs == Listed = UNION TabSets(tabGroups)
  BY DEF Listed, TabSets, Tabs, GroupIds

\* A group put into a table makes a table.
LEMMA PutTable ==
  ASSUME NEW t, Table(t), NEW g \in Nat, NEW tabs, IsABag(tabs),
         BagToSet(tabs) \subseteq Windows, BagToSet(tabs) # {}
  PROVE  Table(Put(t, g, tabs))
<1>1. IsFiniteSet(DOMAIN t \cup {g})
  BY FS_AddElement DEF Table
<1>2. ASSUME NEW h \in DOMAIN t \cup {g}
      PROVE  IsABag(Put(t, g, tabs)[h]) /\ BagToSet(Put(t, g, tabs)[h]) \in (SUBSET Windows) \ {{}}
  <2>1. CASE h = g
    <3>1. Put(t, g, tabs)[h] = tabs
      BY <2>1 DEF Put
    <3> QED
      BY <3>1
  <2>2. CASE h # g
    <3>1. Put(t, g, tabs)[h] = t[h] /\ h \in DOMAIN t
      BY <2>2 DEF Put
    <3> QED
      BY <3>1 DEF Table
  <2> QED
    BY <2>1, <2>2
<1>3. DOMAIN t \cup {g} \subseteq Nat
  BY DEF Table
<1>4. DOMAIN Put(t, g, tabs) = DOMAIN t \cup {g}
  BY DEF Put
<1> QED
  BY <1>1, <1>2, <1>3, <1>4 DEF Table

\* The set of groups after an insertion under an id not in use.
LEMMA PutFresh ==
  ASSUME NEW t, NEW g, NEW s, g \notin DOMAIN t
  PROVE  TabSets(Put(t, g, SetToBag(s))) = TabSets(t) \cup {s}
<1>1. DOMAIN Put(t, g, SetToBag(s)) = DOMAIN t \cup {g}
  BY DEF Put
<1>2. BagToSet(Put(t, g, SetToBag(s))[g]) = s
  <2>1. Put(t, g, SetToBag(s))[g] = SetToBag(s)
    BY DEF Put
  <2> QED
    BY <2>1, SetBag
<1>3. \A h \in DOMAIN t : Put(t, g, SetToBag(s))[h] = t[h]
  BY DEF Put
<1> QED
  BY <1>1, <1>2, <1>3 DEF TabSets

\* And one that replaces a group.
LEMMA PutOver ==
  ASSUME NEW t, NEW g \in DOMAIN t, NEW s,
         \A h \in DOMAIN t \ {g} : BagToSet(t[h]) # BagToSet(t[g])
  PROVE  TabSets(Put(t, g, SetToBag(s))) = (TabSets(t) \ {BagToSet(t[g])}) \cup {s}
<1> DEFINE p == Put(t, g, SetToBag(s))
<1>1. DOMAIN p = DOMAIN t /\ p[g] = SetToBag(s) /\ \A h \in DOMAIN t \ {g} : p[h] = t[h]
  BY DEF Put
<1>2. BagToSet(p[g]) = s
  BY <1>1, SetBag
<1> HIDE DEF p
<1>3. TabSets(p) = {BagToSet(t[h]) : h \in DOMAIN t \ {g}} \cup {s}
  BY <1>1, <1>2 DEF TabSets
<1>4. TabSets(t) \ {BagToSet(t[g])} = {BagToSet(t[h]) : h \in DOMAIN t \ {g}}
  BY DEF TabSets
<1> QED
  BY <1>3, <1>4 DEF p

\* If the new group shares nothing with the others, no tab is listed twice.
LEMMA PutDistinct ==
  ASSUME NEW t, Distinct(t), NEW g, NEW s, \A h \in DOMAIN t \ {g} : BagToSet(t[h]) \cap s = {}
  PROVE  Distinct(Put(t, g, SetToBag(s)))
<1> DEFINE p == Put(t, g, SetToBag(s))
<1>1. DOMAIN p = DOMAIN t \cup {g}
  BY DEF Put
<1>2. p[g] = SetToBag(s) /\ BagToSet(p[g]) = s
  <2>1. p[g] = SetToBag(s)
    BY DEF Put
  <2> QED
    BY <2>1, SetBag
<1>3. \A h \in DOMAIN t \ {g} : p[h] = t[h]
  BY DEF Put
<1> HIDE DEF p
<1>4. ASSUME NEW h \in DOMAIN t \cup {g}
      PROVE  p[h] = SetToBag(BagToSet(p[h]))
  BY <1>2, <1>3 DEF Distinct
<1>5. ASSUME NEW h \in DOMAIN t \cup {g}, NEW i \in DOMAIN t \cup {g}, h # i
      PROVE  BagToSet(p[h]) \cap BagToSet(p[i]) = {}
  <2>1. CASE h = g
    BY <1>2, <1>3, <1>5, <2>1
  <2>2. CASE i = g
    BY <1>2, <1>3, <1>5, <2>2
  <2>3. CASE h # g /\ i # g
    BY <1>3, <1>5, <2>3 DEF Distinct
  <2> QED
    BY <2>1, <2>2, <2>3
<1>6. Distinct(p)
  BY <1>1, <1>4, <1>5 DEF Distinct
<1> QED
  BY <1>6 DEF p

\* The empty table.
LEMMA NoTable ==
  Table(<<>>) /\ Distinct(<<>>) /\ TabSets(<<>>) = {} /\ DOMAIN <<>> = {}
<1>1. DOMAIN <<>> = {}
  OBVIOUS
<1> QED
  BY <1>1, FS_EmptySet DEF Table, Distinct, TabSets

------------------------------------------------------------------------------
(***************************************************************************)
(* remove_tab.                                                             *)
(***************************************************************************)
\* What a group is left with.
Rest(w, g) == tabGroups[g] (-) SetToBag({w})

\* The groups that are left something.
LEMMA RemoveTabIs ==
  ASSUME NEW w
  PROVE  /\ DOMAIN RemoveTab(w) = {g \in GroupIds : Rest(w, g) # EmptyBag}
         /\ \A g \in DOMAIN RemoveTab(w) : g \in GroupIds /\ RemoveTab(w)[g] = Rest(w, g)
  BY DEF RemoveTab, Rest, Restrict

\* A table stays one.
LEMMA RemoveTable ==
  ASSUME Table(tabGroups), NEW w
  PROVE  Table(RemoveTab(w))
<1>1. DOMAIN RemoveTab(w) \subseteq DOMAIN tabGroups
  BY RemoveTabIs DEF GroupIds
<1>2. DOMAIN RemoveTab(w) \subseteq Nat /\ IsFiniteSet(DOMAIN RemoveTab(w))
  BY <1>1, FS_Subset DEF Table
<1>3. ASSUME NEW g \in DOMAIN RemoveTab(w)
      PROVE  /\ IsABag(RemoveTab(w)[g])
             /\ BagToSet(RemoveTab(w)[g]) \in (SUBSET Windows) \ {{}}
  <2>1. g \in DOMAIN tabGroups /\ RemoveTab(w)[g] = Rest(w, g) /\ Rest(w, g) # EmptyBag
    BY RemoveTabIs DEF GroupIds
  <2>2. IsABag(tabGroups[g]) /\ BagToSet(tabGroups[g]) \subseteq Windows
    BY <2>1 DEF Table
  <2>3. IsABag(Rest(w, g)) /\ BagToSet(Rest(w, g)) \subseteq BagToSet(tabGroups[g])
    BY <2>2, BagRemove DEF Rest
  <2>4. BagToSet(Rest(w, g)) # {}
    BY <2>1, <2>3, BagEmpty
  <2> QED
    BY <2>1, <2>2, <2>3, <2>4
<1> QED
  BY <1>2, <1>3 DEF Table

\* Each group loses the window.
LEMMA RemoveSets ==
  ASSUME Distinct(tabGroups), NEW w
  PROVE  Distinct(RemoveTab(w)) /\ TabSets(RemoveTab(w)) = Without(w, TabSets(tabGroups))
<1>1. ASSUME NEW g \in DOMAIN tabGroups
      PROVE  /\ Rest(w, g) = SetToBag(BagToSet(tabGroups[g]) \ {w})
             /\ BagToSet(Rest(w, g)) = BagToSet(tabGroups[g]) \ {w}
             /\ IsABag(Rest(w, g))
  <2>1. tabGroups[g] = SetToBag(BagToSet(tabGroups[g]))
    BY DEF Distinct
  <2>2. Rest(w, g) = SetToBag(BagToSet(tabGroups[g]) \ {w})
    BY <2>1, SetRemove DEF Rest
  <2> QED
    BY <2>2, SetBag
<1>2. DOMAIN RemoveTab(w) = {g \in DOMAIN tabGroups : BagToSet(Rest(w, g)) # {}}
  BY <1>1, RemoveTabIs, BagEmpty DEF GroupIds
<1>3. \A g \in DOMAIN RemoveTab(w) : g \in DOMAIN tabGroups /\ RemoveTab(w)[g] = Rest(w, g)
  BY RemoveTabIs DEF GroupIds
<1>4. Distinct(RemoveTab(w))
  <2>1. ASSUME NEW g \in DOMAIN RemoveTab(w)
        PROVE  RemoveTab(w)[g] = SetToBag(BagToSet(RemoveTab(w)[g]))
    BY <1>1, <1>3
  <2>2. ASSUME NEW g \in DOMAIN RemoveTab(w), NEW h \in DOMAIN RemoveTab(w), g # h
        PROVE  BagToSet(RemoveTab(w)[g]) \cap BagToSet(RemoveTab(w)[h]) = {}
    <3>1. BagToSet(tabGroups[g]) \cap BagToSet(tabGroups[h]) = {}
      BY <1>3, <2>2 DEF Distinct
    <3> QED
      BY <1>1, <1>3, <3>1
  <2> QED
    BY <2>1, <2>2 DEF Distinct
<1>5. ASSUME NEW s
      PROVE  s \in TabSets(RemoveTab(w)) <=> s \in Without(w, TabSets(tabGroups))
  <2>1. s \in TabSets(RemoveTab(w)) <=> \E g \in DOMAIN RemoveTab(w) : s = BagToSet(Rest(w, g))
    BY <1>3 DEF TabSets
  <2>2. s \in TabSets(RemoveTab(w))
          <=> \E g \in DOMAIN tabGroups : s = BagToSet(tabGroups[g]) \ {w} /\ s # {}
    BY <1>1, <1>2, <2>1
  <2>3. s \in Without(w, TabSets(tabGroups))
          <=> s # {} /\ \E g \in DOMAIN tabGroups : s = BagToSet(tabGroups[g]) \ {w}
    BY DEF Without, TabSets
  <2> QED
    BY <2>2, <2>3
<1> QED
  BY <1>4, <1>5

------------------------------------------------------------------------------
(***************************************************************************)
(* add_tab.                                                                *)
(***************************************************************************)
\* A table stays one.
LEMMA AddTable ==
  ASSUME Table(tabGroups), NEW w \in Windows, NEW tabs \in SUBSET Windows, w \in tabs
  PROVE  Table(AddTab(w, tabs))
<1>1. CASE Matching(w, tabs) # {}
  <2>1. PICK g \in Matching(w, tabs) :
          AddTab(w, tabs) = Put(tabGroups, g, tabGroups[g] (+) SetToBag({w}))
    BY <1>1 DEF AddTab
  <2>2. g \in Nat /\ IsABag(tabGroups[g]) /\ BagToSet(tabGroups[g]) \subseteq Windows
    BY DEF Matching, GroupIds, Table
  <2>3. /\ IsABag(tabGroups[g] (+) SetToBag({w}))
        /\ BagToSet(tabGroups[g] (+) SetToBag({w})) = BagToSet(tabGroups[g]) \cup {w}
    BY <2>2, BagAdd
  <2> QED
    BY <2>1, <2>2, <2>3, PutTable
<1>2. CASE Matching(w, tabs) = {}
  <2>1. NewGroupId \in Nat
    BY FS_CardinalityType DEF NewGroupId, GroupIds, Table
  <2>2. IsABag(SetToBag(tabs)) /\ BagToSet(SetToBag(tabs)) = tabs
    BY SetBag
  <2>3. Table(Put(tabGroups, NewGroupId, SetToBag(tabs)))
    BY <2>1, <2>2, PutTable
  <2> QED
    BY <1>2, <2>3 DEF AddTab
<1> QED
  BY <1>1, <1>2

\* The window joins a group, or makes one, if no group has the id of that.
LEMMA AddSets ==
  ASSUME Table(tabGroups), Distinct(tabGroups), NEW w, w \notin Listed,
         NEW n \in TabSets(tabGroups) \cup {{}},
         Matching(w, n \cup {w}) = {} => NewGroupId \notin GroupIds
  PROVE  /\ Distinct(AddTab(w, n \cup {w}))
         /\ TabSets(AddTab(w, n \cup {w})) = (TabSets(tabGroups) \ {n}) \cup {n \cup {w}}
<1>1. \A h \in DOMAIN tabGroups : w \notin BagToSet(tabGroups[h])
  BY DEF Listed, Tabs, GroupIds
<1>2. (n \cup {w}) \ {w} = n
  BY <1>1 DEF TabSets
<1>3. Matching(w, n \cup {w}) = {g \in DOMAIN tabGroups : tabGroups[g] = SetToBag(n)}
  BY <1>2 DEF Matching, GroupIds
<1>4. \A g \in DOMAIN tabGroups : BagToSet(tabGroups[g]) # {}
  BY DEF Table
<1>5. CASE n = {}
  <2>1. ASSUME NEW g \in DOMAIN tabGroups, tabGroups[g] = SetToBag(n)
        PROVE  FALSE
    <3>1. BagToSet(tabGroups[g]) = n
      BY <2>1, SetBag
    <3> QED
      BY <1>4, <1>5, <3>1
  <2>2. Matching(w, n \cup {w}) = {}
    BY <1>3, <2>1
  <2>3. NewGroupId \notin DOMAIN tabGroups
    BY <2>2 DEF GroupIds
  <2>4. AddTab(w, n \cup {w}) = Put(tabGroups, NewGroupId, SetToBag(n \cup {w}))
    BY <2>2 DEF AddTab
  <2>5. Distinct(AddTab(w, n \cup {w}))
    <3>1. \A h \in DOMAIN tabGroups : BagToSet(tabGroups[h]) \cap (n \cup {w}) = {}
      BY <1>1, <1>5
    <3> QED
      BY <2>4, <3>1, PutDistinct
  <2>6. TabSets(AddTab(w, n \cup {w})) = TabSets(tabGroups) \cup {n \cup {w}}
    BY <2>3, <2>4, PutFresh
  <2>7. TabSets(tabGroups) \ {n} = TabSets(tabGroups)
    BY <1>4, <1>5 DEF TabSets
  <2> QED
    BY <2>5, <2>6, <2>7
<1>6. CASE n # {}
  <2>1. PICK h \in DOMAIN tabGroups : n = BagToSet(tabGroups[h])
    BY <1>6 DEF TabSets
  <2>2. tabGroups[h] = SetToBag(n)
    BY <2>1 DEF Distinct
  <2>3. PICK g \in Matching(w, n \cup {w}) :
          AddTab(w, n \cup {w}) = Put(tabGroups, g, tabGroups[g] (+) SetToBag({w}))
    BY <1>3, <2>2 DEF AddTab
  <2>4. g \in DOMAIN tabGroups /\ tabGroups[g] = SetToBag(n) /\ BagToSet(tabGroups[g]) = n
    BY <1>3, <2>3, SetBag
  <2>5. w \notin n
    BY <1>1, <2>1
  <2>6. AddTab(w, n \cup {w}) = Put(tabGroups, g, SetToBag(n \cup {w}))
    BY <2>3, <2>4, <2>5, SetAdd
  <2>7. \A i \in DOMAIN tabGroups \ {g} : BagToSet(tabGroups[i]) \cap n = {}
    BY <2>4 DEF Distinct
  <2>8. Distinct(AddTab(w, n \cup {w}))
    <3>1. \A i \in DOMAIN tabGroups \ {g} : BagToSet(tabGroups[i]) \cap (n \cup {w}) = {}
      BY <1>1, <2>7
    <3> QED
      BY <2>6, <3>1, PutDistinct
  <2>9. TabSets(AddTab(w, n \cup {w})) = (TabSets(tabGroups) \ {n}) \cup {n \cup {w}}
    <3>1. \A i \in DOMAIN tabGroups \ {g} : BagToSet(tabGroups[i]) # n
      BY <1>6, <2>7
    <3>2. \A i \in DOMAIN tabGroups \ {g} : BagToSet(tabGroups[i]) # BagToSet(tabGroups[g])
      BY <2>4, <3>1
    <3>3. TabSets(Put(tabGroups, g, SetToBag(n \cup {w})))
            = (TabSets(tabGroups) \ {BagToSet(tabGroups[g])}) \cup {n \cup {w}}
      <4>1. PICK i \in DOMAIN tabGroups : i = g
        BY <2>4
      <4>2. \A j \in DOMAIN tabGroups \ {i} : BagToSet(tabGroups[j]) # BagToSet(tabGroups[i])
        BY <3>2, <4>1
      <4>3. \A s : TabSets(Put(tabGroups, i, SetToBag(s)))
                    = (TabSets(tabGroups) \ {BagToSet(tabGroups[i])}) \cup {s}
        BY <4>2, PutOver
      <4> QED
        BY <4>1, <4>3
    <3> QED
      BY <2>4, <2>6, <3>3
  <2> QED
    BY <2>8, <2>9
<1> QED
  BY <1>5, <1>6

------------------------------------------------------------------------------
(***************************************************************************)
(* move_tab_to_new_window.                                                 *)
(***************************************************************************)
\* A finite set of naturals has a maximum, if it is not empty.
LEMMA MaxExists ==
  ASSUME NEW S \in SUBSET Nat, IsFiniteSet(S), S # {}
  PROVE  \E m \in S : \A k \in S : m >= k
<1> DEFINE Bad == {U \in SUBSET S : U # {} /\ ~\E m \in U : \A k \in U : m >= k}
<1> SUFFICES ASSUME S \in Bad
             PROVE  FALSE
  OBVIOUS
<1>1. IsWellFoundedOn(StrictSubsetOrdering(S), SUBSET S)
  BY FS_StrictSubsetOrderingWellFounded, FS_FiniteSubsetsOfFinite
<1>2. Bad \subseteq SUBSET S /\ Bad # {}
  OBVIOUS
<1>3. PICK U \in Bad : \A V \in Bad : <<V, U>> \notin StrictSubsetOrdering(S)
  <2> HIDE DEF Bad
  <2> QED
    BY <1>1, <1>2, WFMin
<1>4. U \in SUBSET S /\ U # {} /\ ~\E m \in U : \A k \in U : m >= k
  BY <1>3
<1>5. PICK x \in U : TRUE
  BY <1>4
<1>6. CASE U \ {x} = {}
  <2>1. x \in Nat /\ U = {x}
    BY <1>4, <1>5, <1>6
  <2>2. x >= x
    BY <2>1
  <2> QED
    BY <1>4, <2>1, <2>2
<1>7. CASE U \ {x} # {}
  <2>1. U \ {x} \in SUBSET S /\ U \ {x} # U
    BY <1>4, <1>5
  <2>2. <<U \ {x}, U>> \in StrictSubsetOrdering(S)
    BY <1>4, <2>1 DEF StrictSubsetOrdering
  <2>3. U \ {x} \notin Bad
    BY <1>3, <2>2
  <2>4. PICK m \in U \ {x} : \A k \in U \ {x} : m >= k
    BY <1>7, <2>1, <2>3
  <2>5. x \in Nat /\ m \in Nat /\ U \subseteq Nat
    BY <1>4, <1>5, <2>4
  <2>6. CASE m >= x
    <3>1. \A k \in U : m >= k
      BY <2>4, <2>6
    <3> QED
      BY <1>4, <2>4, <3>1
  <2>7. CASE ~(m >= x)
    <3>1. ASSUME NEW k \in U
          PROVE  x >= k
      <4>1. k \in Nat /\ (k = x \/ m >= k)
        BY <2>4, <2>5
      <4> QED
        BY <2>5, <2>7, <4>1
    <3> QED
      BY <1>4, <1>5, <3>1
  <2> QED
    BY <2>6, <2>7
<1> QED
  BY <1>6, <1>7

\* The id of a moved tab's group is not in use.
LEMMA MoveTargetFresh ==
  ASSUME Table(tabGroups), NEW w
  PROVE  MoveTarget(w) \in Nat /\ MoveTarget(w) \notin DOMAIN RemoveTab(w)
<1> DEFINE ids == DOMAIN RemoveTab(w)
<1>1. ids \in SUBSET Nat /\ IsFiniteSet(ids)
  BY RemoveTable DEF Table
<1>2. MoveTarget(w) = IF ids = {} THEN 0 ELSE Max(ids) + 1
  BY DEF MoveTarget
<1> HIDE DEF ids
<1>3. CASE ids = {}
  BY <1>2, <1>3 DEF ids
<1>4. CASE ids # {}
  <2>1. \E m \in ids : \A k \in ids : m >= k
    BY <1>1, <1>4, MaxExists
  <2>2. Max(ids) \in ids /\ \A k \in ids : Max(ids) >= k
    BY <2>1 DEF Max
  <2>3. PICK m \in Nat : m = Max(ids)
    BY <1>1, <2>2
  <2>4. m + 1 \in Nat /\ m + 1 \notin ids
    <3>1. CASE m + 1 \in ids
      <4>1. m >= m + 1
        BY <2>2, <2>3, <3>1
      <4> QED
        BY <4>1
    <3> QED
      BY <3>1
  <2>5. MoveTarget(w) = m + 1
    BY <1>2, <1>4, <2>3
  <2> QED
    BY <2>4, <2>5 DEF ids
<1> QED
  BY <1>3, <1>4

\* A table stays one.
LEMMA MoveTable ==
  ASSUME Table(tabGroups), NEW w \in Windows
  PROVE  Table(MoveTab(w))
<1>1. Table(RemoveTab(w)) /\ MoveTarget(w) \in Nat
  BY RemoveTable, MoveTargetFresh
<1>2. IsABag(SetToBag({w})) /\ BagToSet(SetToBag({w})) = {w}
  BY SetBag
<1>3. Table(Put(RemoveTab(w), MoveTarget(w), SetToBag({w})))
  BY <1>1, <1>2, PutTable
<1> QED
  BY <1>3 DEF MoveTab

\* The window leaves its group for one of its own.
LEMMA MoveSets ==
  ASSUME Table(tabGroups), Distinct(tabGroups), NEW w \in Listed
  PROVE  /\ Distinct(MoveTab(w))
         /\ TabSets(MoveTab(w)) = Without(w, TabSets(tabGroups)) \cup {{w}}
<1>1. /\ Distinct(RemoveTab(w))
      /\ TabSets(RemoveTab(w)) = Without(w, TabSets(tabGroups))
  BY RemoveSets
<1>2. MoveTab(w) = Put(RemoveTab(w), MoveTarget(w), SetToBag({w}))
  BY DEF MoveTab
<1>3. MoveTarget(w) \notin DOMAIN RemoveTab(w)
  BY MoveTargetFresh
<1>4. \A s \in TabSets(RemoveTab(w)) : w \notin s
  BY <1>1 DEF Without
<1>5. \A h \in DOMAIN RemoveTab(w) : BagToSet(RemoveTab(w)[h]) \cap {w} = {}
  BY <1>4 DEF TabSets
<1>6. Distinct(MoveTab(w))
  BY <1>1, <1>2, <1>5, PutDistinct
<1>7. TabSets(MoveTab(w)) = TabSets(RemoveTab(w)) \cup {{w}}
  BY <1>2, <1>3, PutFresh
<1> QED
  BY <1>1, <1>6, <1>7

------------------------------------------------------------------------------
(***************************************************************************)
(* merge_all_windows.                                                      *)
(***************************************************************************)
\* A listed window has finitely many places, and at least one.
LEMMA PlacesFinite ==
  ASSUME Table(tabGroups), NEW w \in Listed
  PROVE  IsFiniteSet(Places(w)) /\ Places(w) # {}
<1> DEFINE G == {h \in GroupIds : w \in Tabs(h)}
           f == [g \in G |-> {g} \X (1 .. tabGroups[g][w])]
           I == {{g} \X (1 .. tabGroups[g][w]) : g \in G}
<1>1. IsFiniteSet(G)
  <2>1. G \subseteq DOMAIN tabGroups /\ IsFiniteSet(DOMAIN tabGroups)
    BY DEF Table, GroupIds
  <2> QED
    BY <2>1, FS_Subset
<1>2. IsFiniteSet(I)
  <2>1. f \in Surjection(G, I)
    BY DEF Surjection
  <2> HIDE DEF f, G, I
  <2> QED
    BY <1>1, <2>1, FS_Surjection
<1>3. ASSUME NEW g \in G
      PROVE  tabGroups[g][w] \in Nat /\ tabGroups[g][w] > 0
  <2>1. IsABag(tabGroups[g]) /\ w \in DOMAIN tabGroups[g]
    BY DEF Table, GroupIds, Tabs, BagToSet
  <2> QED
    BY <2>1 DEF IsABag
<1>4. ASSUME NEW T \in I
      PROVE  IsFiniteSet(T)
  <2>1. PICK g \in G : T = {g} \X (1 .. tabGroups[g][w])
    OBVIOUS
  <2>2. IsFiniteSet({g}) /\ IsFiniteSet(1 .. tabGroups[g][w])
    <3>1. 1 \in Int /\ tabGroups[g][w] \in Int
      BY <1>3
    <3>2. IsFiniteSet(1 .. tabGroups[g][w])
      BY <3>1, FS_Interval
    <3> QED
      BY <3>2, FS_Singleton
  <2> QED
    BY <2>1, <2>2, FS_Product
<1>5. Places(w) = UNION I
  BY DEF Places
<1>6. IsFiniteSet(Places(w))
  <2> HIDE DEF I
  <2> QED
    BY <1>2, <1>4, <1>5, FS_UNION
<1>7. PICK g \in G : TRUE
  BY DEF Listed
<1>8. 1 \in 1 .. tabGroups[g][w]
  BY <1>3
<1>9. <<g, 1>> \in {g} \X (1 .. tabGroups[g][w])
  BY <1>8
<1> QED
  BY <1>5, <1>6, <1>7, <1>9

\* All tabs make a bag.
LEMMA AllTabsBag ==
  ASSUME Table(tabGroups)
  PROVE  IsABag(AllTabs) /\ BagToSet(AllTabs) = Listed /\ Listed \subseteq Windows
<1>1. ASSUME NEW w \in Listed
      PROVE  Cardinality(Places(w)) \in Nat /\ Cardinality(Places(w)) > 0
  <2>1. IsFiniteSet(Places(w)) /\ Places(w) # {}
    BY PlacesFinite
  <2>2. Cardinality(Places(w)) \in Nat /\ Cardinality(Places(w)) # 0
    BY <2>1, FS_CardinalityType, FS_EmptySet
  <2> QED
    BY <2>2
<1>2. IsABag(AllTabs) /\ BagToSet(AllTabs) = Listed
  BY <1>1 DEF AllTabs, IsABag, BagToSet
<1> QED
  BY <1>2 DEF Listed, Table, GroupIds, Tabs

\* A table stays one.
LEMMA MergeTable ==
  ASSUME Table(tabGroups), NEW w
  PROVE  Table(MergeTabs(w))
<1>1. CASE w \in Listed
  <2>1. Table(Put(<<>>, 0, AllTabs))
    BY <1>1, AllTabsBag, NoTable, PutTable
  <2> QED
    BY <1>1, <2>1 DEF MergeTabs
<1>2. CASE w \notin Listed
  BY <1>2 DEF MergeTabs
<1> QED
  BY <1>1, <1>2

\* If no tab was listed twice, none is.
LEMMA MergeSets ==
  ASSUME Table(tabGroups), Distinct(tabGroups), NEW w \in Listed
  PROVE  Distinct(MergeTabs(w)) /\ TabSets(MergeTabs(w)) = {Listed}
<1>1. ASSUME NEW v \in Listed
      PROVE  Cardinality(Places(v)) = 1
  <2>1. PICK g \in GroupIds : v \in Tabs(g)
    BY DEF Listed
  <2>2. \A h \in GroupIds : v \in Tabs(h) => h = g
    BY <2>1 DEF Distinct, Tabs, GroupIds
  <2>3. tabGroups[g] = SetToBag(Tabs(g))
    BY DEF Distinct, Tabs, GroupIds
  <2>4. tabGroups[g][v] = 1
    BY <2>1, <2>3 DEF SetToBag
  <2>5. {h \in GroupIds : v \in Tabs(h)} = {g}
    BY <2>1, <2>2
  <2>6. Places(v) = {g} \X (1 .. 1)
    BY <2>4, <2>5 DEF Places
  <2>7. 1 .. 1 = {1}
    OBVIOUS
  <2>8. Places(v) = {<<g, 1>>}
    BY <2>6, <2>7
  <2> QED
    BY <2>8, FS_Singleton
<1>2. AllTabs = SetToBag(Listed)
  BY <1>1 DEF AllTabs, SetToBag
<1>3. MergeTabs(w) = Put(<<>>, 0, SetToBag(Listed))
  BY <1>2 DEF MergeTabs
<1>4. Distinct(MergeTabs(w))
  BY <1>3, NoTable, PutDistinct
<1>5. TabSets(MergeTabs(w)) = {} \cup {Listed}
  BY <1>3, NoTable, PutFresh
<1> QED
  BY <1>4, <1>5

------------------------------------------------------------------------------
(***************************************************************************)
(* The invariant.                                                          *)
(***************************************************************************)
\* AppKit's groups part the windows that it has.
NativeTabs == /\ \A n, m \in native : n # m => n \cap m = {}
              /\ UNION native = open \cup closing
              /\ open \cap closing = {} /\ closed \cap (open \cup closing) = {}

\* How far the table is behind AppKit: one callback at most.
Behind ==
  \/ late = {} /\ native = TabSets(tabGroups)
  \/ \E w \in open : /\ late = {[op |-> "move", on |-> w]}
                     /\ native = Without(w, TabSets(tabGroups)) \cup {{w}}
  \/ \E w \in open : late = {[op |-> "merge", on |-> w]} /\ native = {Listed}

Mirrors == ~overwrote /\ ~overtaken
             => Distinct(tabGroups) /\ Listed = open \cup closing /\ Behind

IInv == TypeOK /\ NativeTabs /\ Mirrors

\* The types of all but the table.
OtherTypes == /\ \A n \in native : n \in (SUBSET Windows) \ {{}}
              /\ open \subseteq Windows /\ closing \subseteq Windows /\ closed \subseteq Windows
              /\ late \subseteq Calls
              /\ overwrote \in BOOLEAN /\ overtaken \in BOOLEAN

\* TypeOK, in these two parts.
LEMMA TypeIs == TypeOK <=> Table(tabGroups) /\ OtherTypes
  BY DEF TypeOK, Table, OtherTypes, GroupIds, Tabs

\* Groups without a window are apart if they were, and hold what they held.
LEMMA WithoutIs ==
  ASSUME NEW T, NEW w
  PROVE  /\ UNION Without(w, T) = (UNION T) \ {w}
         /\ {} \notin Without(w, T)
         /\ (\A n, m \in T : n # m => n \cap m = {})
              => \A n, m \in Without(w, T) : n # m => n \cap m = {}
<1>1. UNION Without(w, T) \subseteq (UNION T) \ {w}
  BY DEF Without
<1>2. ASSUME NEW v \in (UNION T) \ {w}
      PROVE  v \in UNION Without(w, T)
  <2>1. PICK s \in T : v \in s
    OBVIOUS
  <2>2. s \ {w} \in Without(w, T) /\ v \in s \ {w}
    BY <2>1 DEF Without
  <2> QED
    BY <2>2
<1>3. ASSUME \A n, m \in T : n # m => n \cap m = {},
             NEW n \in Without(w, T), NEW m \in Without(w, T), n # m
      PROVE  n \cap m = {}
  <2>1. PICK s \in T, u \in T : n = s \ {w} /\ m = u \ {w}
    BY DEF Without
  <2>2. s # u
    BY <1>3, <2>1
  <2>3. s \cap u = {}
    BY <1>3, <2>2
  <2> QED
    BY <2>1, <2>3
<1>4. {} \notin Without(w, T)
  BY DEF Without
<1> QED
  BY <1>1, <1>2, <1>3, <1>4

\* Two windows leave in any order.
LEMMA WithoutTwo ==
  ASSUME NEW T, NEW v, NEW w, v # w
  PROVE  Without(w, Without(v, T) \cup {{v}}) = Without(v, Without(w, T)) \cup {{v}}
<1>1. ASSUME NEW s
      PROVE  s \in Without(w, Without(v, T)) <=> s # {} /\ \E u \in T : s = (u \ {v}) \ {w}
  BY DEF Without
<1>2. ASSUME NEW s
      PROVE  s \in Without(v, Without(w, T)) <=> s # {} /\ \E u \in T : s = (u \ {w}) \ {v}
  BY DEF Without
<1>3. \A u : (u \ {w}) \ {v} = (u \ {v}) \ {w}
  OBVIOUS
<1>4. Without(w, Without(v, T)) = Without(v, Without(w, T))
  BY <1>1, <1>2, <1>3
<1>5. {v} \ {w} = {v} /\ {v} # {}
  OBVIOUS
<1>6. Without(w, Without(v, T) \cup {{v}}) = Without(w, Without(v, T)) \cup {{v}}
  BY <1>5 DEF Without
<1> QED
  BY <1>4, <1>6

\* Where no callback is late, it is enough that the groups are the same.
LEMMA CaughtUp ==
  ASSUME Distinct(tabGroups)', late' = {}, native' = TabSets(tabGroups)', NativeTabs'
  PROVE  Mirrors'
<1>1. Listed' = UNION (TabSets(tabGroups)')
  BY DEF Listed, TabSets, Tabs, GroupIds
<1>2. Listed' = (open \cup closing)'
  BY <1>1 DEF NativeTabs
<1> QED
  BY <1>2 DEF Mirrors, Behind

\* Nothing is listed at first.
LEMMA InitInv == Init => IInv
<1> SUFFICES ASSUME Init
             PROVE  IInv
  OBVIOUS
<1>1. Table(tabGroups) /\ Distinct(tabGroups) /\ TabSets(tabGroups) = {} /\ Listed = {}
  BY NoTable, ListedIs DEF Init
<1>2. TypeOK
  BY <1>1, TypeIs DEF Init, OtherTypes
<1>3. NativeTabs
  BY DEF Init, NativeTabs
<1>4. Mirrors
  BY <1>1 DEF Init, Mirrors, Behind
<1> QED
  BY <1>2, <1>3, <1>4 DEF IInv

\* A window opens: its group, or the lack of one, is found by its tabs.
LEMMA OpenStep ==
  ASSUME IInv, NEW w \in Windows, NEW n \in native \cup {{}}, OpenWindow(w, n)
  PROVE  IInv'
<1>1. Table(tabGroups) /\ OtherTypes /\ NativeTabs /\ Mirrors
  BY TypeIs DEF IInv
<1>2. w \notin open \cup closing \cup closed /\ w \notin UNION native
  BY <1>1 DEF OpenWindow, NativeTabs
<1>3. n \cup {w} \in SUBSET Windows /\ w \notin n
  BY <1>1, <1>2 DEF OtherTypes
<1>4. Table(tabGroups)'
  <2>1. Table(AddTab(w, n \cup {w}))
    BY <1>1, <1>3, AddTable
  <2>2. tabGroups' = AddTab(w, n \cup {w})
    BY DEF OpenWindow
  <2>3. Table(tabGroups')
    BY <2>1, <2>2
  <2> QED
    BY <2>3 DEF Table
<1>5. OtherTypes'
  BY <1>1, <1>3 DEF OpenWindow, OtherTypes, Overtakes
<1>6. NativeTabs'
  <2>1. native' = (native \ {n}) \cup {n \cup {w}} /\ open' = open \cup {w}
        /\ closing' = closing /\ closed' = closed
    BY DEF OpenWindow
  <2>2. UNION native' = (UNION native) \cup {w}
    BY <2>1
  <2>3. ASSUME NEW m \in native, m # n
        PROVE  m \cap (n \cup {w}) = {}
    BY <1>1, <1>2, <2>3 DEF NativeTabs
  <2>4. \A a, b \in native' : a # b => a \cap b = {}
    <3>1. \A a, b \in native : a # b => a \cap b = {}
      BY <1>1 DEF NativeTabs
    <3> QED
      BY <2>1, <2>3, <3>1
  <2> QED
    BY <1>1, <1>2, <2>1, <2>2, <2>4 DEF NativeTabs
<1>7. ASSUME ~overwrote', ~overtaken'
      PROVE  Mirrors'
  <2>1. /\ late = {} /\ ~overwrote /\ ~overtaken
        /\ Matching(w, n \cup {w}) = {} => NewGroupId \notin GroupIds
    BY <1>7 DEF OpenWindow, Overtakes
  <2>2. Distinct(tabGroups) /\ Listed = open \cup closing /\ native = TabSets(tabGroups)
    BY <1>1, <2>1 DEF Mirrors, Behind
  <2>3. w \notin Listed
    BY <1>2, <2>2
  <2>4. /\ Distinct(AddTab(w, n \cup {w}))
        /\ TabSets(AddTab(w, n \cup {w})) = (native \ {n}) \cup {n \cup {w}}
    BY <1>1, <2>1, <2>2, <2>3, AddSets
  <2>5. /\ tabGroups' = AddTab(w, n \cup {w}) /\ native' = (native \ {n}) \cup {n \cup {w}}
        /\ late' = {}
    BY <2>1 DEF OpenWindow
  <2>6. Distinct(tabGroups') /\ TabSets(tabGroups') = native'
    BY <2>4, <2>5
  <2> QED
    BY <1>6, <2>5, <2>6, CaughtUp DEF Distinct, TabSets
<1>8. Mirrors'
  BY <1>7 DEF Mirrors
<1>9. TypeOK'
  BY <1>4, <1>5 DEF TypeOK, Table, OtherTypes, GroupIds, Tabs
<1> QED
  BY <1>6, <1>8, <1>9 DEF IInv

\* The App closes a window on which no callback is late, or overtakes one.
LEMMA CloseStep ==
  ASSUME IInv, NEW w \in Windows, CloseWindow(w)
  PROVE  IInv'
<1>1. /\ w \in open /\ open' = open \ {w} /\ closing' = closing \cup {w}
      /\ UNCHANGED <<tabGroups, native, closed, late, overwrote>>
      /\ overtaken' = (overtaken \/ {call \in late : call.on = w} # {})
  BY DEF CloseWindow, Overtakes
<1>2. TypeOK /\ NativeTabs /\ Mirrors
  BY DEF IInv
<1>3. TypeOK'
  BY <1>1, <1>2 DEF TypeOK, GroupIds, Tabs
<1>4. NativeTabs'
  BY <1>1, <1>2 DEF NativeTabs
<1>5. ASSUME ~overwrote', ~overtaken'
      PROVE  Mirrors'
  <2>1. ~overwrote /\ ~overtaken /\ \A call \in late : call.on # w
    BY <1>1, <1>5
  <2>2. Distinct(tabGroups) /\ Listed = open \cup closing /\ Behind
    BY <1>2, <2>1 DEF Mirrors
  <2>3. Distinct(tabGroups)' /\ Listed' = Listed
    BY <1>1, <2>2 DEF Distinct, Listed, Tabs, GroupIds
  <2>4. Listed' = open' \cup closing'
    BY <1>1, <2>2, <2>3
  <2>5. Behind'
    <3>1. CASE late = {} /\ native = TabSets(tabGroups)
      BY <1>1, <3>1 DEF Behind
    <3>2. ASSUME NEW v \in open, late = {[op |-> "move", on |-> v]},
                 native = Without(v, TabSets(tabGroups)) \cup {{v}}
          PROVE  Behind'
      <4>1. v # w
        BY <2>1, <3>2
      <4>2. v \in open'
        BY <1>1, <4>1
      <4> QED
        BY <1>1, <3>2, <4>2 DEF Behind
    <3>3. ASSUME NEW v \in open, late = {[op |-> "merge", on |-> v]}, native = {Listed}
          PROVE  Behind'
      <4>1. v # w
        BY <2>1, <3>3
      <4>2. v \in open'
        BY <1>1, <4>1
      <4>3. late' = {[op |-> "merge", on |-> v]} /\ native' = {Listed'}
        BY <1>1, <2>3, <3>3
      <4> QED
        BY <4>2, <4>3 DEF Behind
    <3> QED
      BY <2>2, <3>1, <3>2, <3>3 DEF Behind
  <2> QED
    BY <2>3, <2>4, <2>5 DEF Mirrors
<1>6. Mirrors'
  BY <1>5 DEF Mirrors
<1> QED
  BY <1>3, <1>4, <1>6 DEF IInv

\* AppKit's groups when a window leaves, or leaves for a group of its own.
LEMMA NativeWithoutIs ==
  ASSUME OtherTypes, NativeTabs, NEW w
  PROVE  /\ NativeWithout(w) = Without(w, native)
         /\ UNION NativeWithout(w) = (open \cup closing) \ {w}
         /\ \A n \in NativeWithout(w) : n \in (SUBSET Windows) \ {{}} /\ w \notin n
         /\ \A n, m \in NativeWithout(w) : n # m => n \cap m = {}
<1>1. NativeWithout(w) = Without(w, native)
  BY DEF NativeWithout, Without
<1>2. \A n \in Without(w, native) : n \in (SUBSET Windows) \ {{}} /\ w \notin n
  BY DEF Without, OtherTypes
<1>3. UNION Without(w, native) = (UNION native) \ {w}
  BY WithoutIs
<1>4. \A n, m \in Without(w, native) : n # m => n \cap m = {}
  <2>1. \A n, m \in native : n # m => n \cap m = {}
    BY DEF NativeTabs
  <2> QED
    BY <2>1, WithoutIs
<1> QED
  BY <1>1, <1>2, <1>3, <1>4 DEF NativeTabs

\* AppKit closes it: both sides lose it, and the late callback of another
\* window has the same to catch up with.
LEMMA ClosedStep ==
  ASSUME IInv, NEW w \in Windows, WindowClosed(w)
  PROVE  IInv'
<1>1. /\ w \in closing /\ closing' = closing \ {w} /\ closed' = closed \cup {w}
      /\ native' = NativeWithout(w) /\ tabGroups' = RemoveTab(w)
      /\ UNCHANGED <<open, late, overwrote, overtaken>>
  BY DEF WindowClosed
<1>2. Table(tabGroups) /\ OtherTypes /\ NativeTabs /\ Mirrors
  BY TypeIs DEF IInv
<1>3. Table(tabGroups')
  BY <1>1, <1>2, RemoveTable
<1>4. OtherTypes'
  BY <1>1, <1>2, NativeWithoutIs DEF OtherTypes
<1>5. NativeTabs'
  <2>1. /\ UNION native' = (open \cup closing) \ {w}
        /\ \A n, m \in native' : n # m => n \cap m = {}
    BY <1>1, <1>2, NativeWithoutIs
  <2>2. w \notin open
    BY <1>1, <1>2 DEF NativeTabs
  <2> QED
    BY <1>1, <1>2, <2>1, <2>2 DEF NativeTabs
<1>6. ASSUME ~overwrote', ~overtaken'
      PROVE  Mirrors'
  <2>1. Distinct(tabGroups) /\ Listed = open \cup closing /\ Behind
    BY <1>1, <1>2, <1>6 DEF Mirrors
  <2>2. Distinct(tabGroups') /\ TabSets(tabGroups') = Without(w, TabSets(tabGroups))
    BY <1>1, <2>1, RemoveSets
  <2>3. native' = Without(w, native)
    BY <1>1, <1>2, NativeWithoutIs
  <2>4. Listed' = Listed \ {w}
    <3>1. Listed' = UNION TabSets(tabGroups')
      BY DEF Listed, TabSets, Tabs, GroupIds
    <3>2. UNION Without(w, TabSets(tabGroups)) = (UNION TabSets(tabGroups)) \ {w}
      BY WithoutIs
    <3> QED
      BY <2>2, <3>1, <3>2, ListedIs
  <2>5. Listed' = open' \cup closing'
    BY <1>1, <1>2, <2>1, <2>4 DEF NativeTabs
  <2>6. Behind'
    <3>1. CASE late = {} /\ native = TabSets(tabGroups)
      BY <1>1, <2>2, <2>3, <3>1 DEF Behind, TabSets
    <3>2. ASSUME NEW v \in open, late = {[op |-> "move", on |-> v]},
                 native = Without(v, TabSets(tabGroups)) \cup {{v}}
          PROVE  Behind'
      <4>1. v # w
        BY <1>1, <1>2 DEF NativeTabs
      <4>2. native' = Without(v, Without(w, TabSets(tabGroups))) \cup {{v}}
        BY <2>3, <3>2, <4>1, WithoutTwo
      <4>3. native' = Without(v, TabSets(tabGroups')) \cup {{v}}
        BY <2>2, <4>2
      <4>4. v \in open' /\ late' = {[op |-> "move", on |-> v]}
        BY <1>1, <3>2
      <4> QED
        BY <4>3, <4>4 DEF Behind, TabSets
    <3>3. ASSUME NEW v \in open, late = {[op |-> "merge", on |-> v]}, native = {Listed}
          PROVE  Behind'
      <4>1. v # w /\ v \in Listed
        BY <1>1, <1>2, <2>1 DEF NativeTabs
      <4>2. native' = {Listed \ {w}}
        BY <2>3, <3>3, <4>1 DEF Without
      <4>3. v \in open' /\ late' = {[op |-> "merge", on |-> v]} /\ native' = {Listed'}
        BY <1>1, <2>4, <3>3, <4>2
      <4> QED
        BY <4>3 DEF Behind
    <3> QED
      BY <2>1, <3>1, <3>2, <3>3 DEF Behind
  <2>7. Distinct(tabGroups)'
    BY <2>2 DEF Distinct
  <2> QED
    BY <2>5, <2>6, <2>7 DEF Mirrors
<1>7. Mirrors'
  BY <1>6 DEF Mirrors
<1>8. TypeOK'
  BY <1>3, <1>4 DEF TypeOK, Table, OtherTypes, GroupIds, Tabs
<1> QED
  BY <1>5, <1>7, <1>8 DEF IInv

\* AppKit moves a tab: told at once, or behind by that.
LEMMA MoveStep ==
  ASSUME IInv, NEW w \in Windows, MoveTabToNewWindow(w)
  PROVE  IInv'
<1> DEFINE call == [op |-> "move", on |-> w]
<1>1. /\ w \in open /\ native' = NativeWithout(w) \cup {{w}}
      /\ \/ tabGroups' = MoveTab(w) /\ late' = late
         \/ late' = late \cup {call} /\ tabGroups' = tabGroups
      /\ overtaken' = (overtaken \/ late # {})
      /\ UNCHANGED <<open, closing, closed, overwrote>>
  BY DEF MoveTabToNewWindow, CallBack, Apply, Overtakes
<1>2. Table(tabGroups) /\ OtherTypes /\ NativeTabs /\ Mirrors
  BY TypeIs DEF IInv
<1>3. Table(tabGroups')
  <2>1. Table(MoveTab(w))
    BY <1>2, MoveTable
  <2>2. tabGroups' = MoveTab(w) \/ tabGroups' = tabGroups
    BY <1>1
  <2> QED
    BY <1>2, <2>1, <2>2
<1>4. OtherTypes'
  <2>1. call \in Calls
    BY DEF Calls
  <2>2. \A n \in native' : n \in (SUBSET Windows) \ {{}}
    BY <1>1, <1>2, NativeWithoutIs
  <2>3. late' \subseteq Calls /\ overtaken' \in BOOLEAN
    BY <1>1, <1>2, <2>1 DEF OtherTypes
  <2> QED
    BY <1>1, <1>2, <2>2, <2>3 DEF OtherTypes
<1>5. NativeTabs'
  <2>1. UNION native' = open \cup closing
    <3>1. UNION NativeWithout(w) = (open \cup closing) \ {w}
      BY <1>2, NativeWithoutIs
    <3>2. UNION native' = (UNION NativeWithout(w)) \cup {w}
      BY <1>1
    <3> QED
      BY <1>1, <3>1, <3>2
  <2>2. \A n, m \in native' : n # m => n \cap m = {}
    <3>1. \A n \in NativeWithout(w) : n \cap {w} = {}
      BY <1>2, NativeWithoutIs
    <3>2. \A n, m \in NativeWithout(w) : n # m => n \cap m = {}
      BY <1>2, NativeWithoutIs
    <3> QED
      BY <1>1, <3>1, <3>2
  <2> QED
    BY <1>1, <1>2, <2>1, <2>2 DEF NativeTabs
<1>6. ASSUME ~overwrote', ~overtaken'
      PROVE  Mirrors'
  <2>1. late = {} /\ ~overwrote /\ ~overtaken
    BY <1>1, <1>6
  <2>2. Distinct(tabGroups) /\ Listed = open \cup closing /\ native = TabSets(tabGroups)
    BY <1>2, <2>1 DEF Mirrors, Behind
  <2>3. native' = Without(w, TabSets(tabGroups)) \cup {{w}}
    BY <1>1, <1>2, <2>2, NativeWithoutIs
  <2>4. CASE tabGroups' = MoveTab(w) /\ late' = late
    <3>1. w \in Listed
      BY <1>1, <2>2
    <3>2. Distinct(tabGroups') /\ TabSets(tabGroups') = native'
      BY <1>2, <2>2, <2>3, <2>4, <3>1, MoveSets
    <3> QED
      BY <1>5, <2>1, <2>4, <3>2, CaughtUp DEF Distinct, TabSets
  <2>5. CASE late' = late \cup {call} /\ tabGroups' = tabGroups
    <3>1. w \in open' /\ late' = {call} /\ native' = Without(w, TabSets(tabGroups')) \cup {{w}}
      BY <1>1, <2>1, <2>3, <2>5
    <3>2. Behind'
      BY <3>1 DEF Behind, TabSets
    <3>3. Distinct(tabGroups)' /\ Listed' = Listed
      BY <2>2, <2>5 DEF Distinct, Listed, Tabs, GroupIds
    <3> QED
      BY <1>1, <2>2, <3>2, <3>3 DEF Mirrors
  <2> QED
    BY <1>1, <2>4, <2>5
<1>7. Mirrors'
  BY <1>6 DEF Mirrors
<1>8. TypeOK'
  BY <1>3, <1>4 DEF TypeOK, Table, OtherTypes, GroupIds, Tabs
<1> QED
  BY <1>5, <1>7, <1>8 DEF IInv

\* AppKit merges: likewise.
LEMMA MergeStep ==
  ASSUME IInv, NEW w \in Windows, MergeAllWindows(w)
  PROVE  IInv'
<1> DEFINE call == [op |-> "merge", on |-> w]
<1>1. /\ w \in open /\ native' = {UNION native}
      /\ \/ tabGroups' = MergeTabs(w) /\ late' = late
         \/ late' = late \cup {call} /\ tabGroups' = tabGroups
      /\ overtaken' = (overtaken \/ late # {})
      /\ UNCHANGED <<open, closing, closed, overwrote>>
  BY DEF MergeAllWindows, CallBack, Apply, Overtakes
<1>2. Table(tabGroups) /\ OtherTypes /\ NativeTabs /\ Mirrors
  BY TypeIs DEF IInv
<1>3. Table(tabGroups')
  <2>1. Table(MergeTabs(w))
    BY <1>2, MergeTable
  <2>2. tabGroups' = MergeTabs(w) \/ tabGroups' = tabGroups
    BY <1>1
  <2> QED
    BY <1>2, <2>1, <2>2
<1>4. OtherTypes'
  <2>1. call \in Calls
    BY DEF Calls
  <2>2. UNION native \subseteq Windows /\ UNION native # {}
    BY <1>1, <1>2 DEF OtherTypes, NativeTabs
  <2>3. late' \subseteq Calls /\ overtaken' \in BOOLEAN
    BY <1>1, <1>2, <2>1 DEF OtherTypes
  <2> QED
    BY <1>1, <1>2, <2>2, <2>3 DEF OtherTypes
<1>5. NativeTabs'
  BY <1>1, <1>2 DEF NativeTabs
<1>6. ASSUME ~overwrote', ~overtaken'
      PROVE  Mirrors'
  <2>1. late = {} /\ ~overwrote /\ ~overtaken
    BY <1>1, <1>6
  <2>2. Distinct(tabGroups) /\ Listed = open \cup closing
    BY <1>2, <2>1 DEF Mirrors
  <2>3. native' = {Listed}
    BY <1>1, <1>2, <2>2 DEF NativeTabs
  <2>4. CASE tabGroups' = MergeTabs(w) /\ late' = late
    <3>1. w \in Listed
      BY <1>1, <2>2
    <3>2. Distinct(tabGroups') /\ TabSets(tabGroups') = native'
      BY <1>2, <2>2, <2>3, <2>4, <3>1, MergeSets
    <3> QED
      BY <1>5, <2>1, <2>4, <3>2, CaughtUp DEF Distinct, TabSets
  <2>5. CASE late' = late \cup {call} /\ tabGroups' = tabGroups
    <3>1. Distinct(tabGroups)' /\ Listed' = Listed
      BY <2>2, <2>5 DEF Distinct, Listed, Tabs, GroupIds
    <3>2. w \in open' /\ late' = {call} /\ native' = {Listed'}
      BY <1>1, <2>1, <2>3, <2>5, <3>1
    <3>3. Behind'
      BY <3>2 DEF Behind
    <3> QED
      BY <1>1, <2>2, <3>1, <3>3 DEF Mirrors
  <2> QED
    BY <1>1, <2>4, <2>5
<1>7. Mirrors'
  BY <1>6 DEF Mirrors
<1>8. TypeOK'
  BY <1>3, <1>4 DEF TypeOK, Table, OtherTypes, GroupIds, Tabs
<1> QED
  BY <1>5, <1>7, <1>8 DEF IInv

\* A late callback catches up.
LEMMA RetryStep ==
  ASSUME IInv, NEW call \in Calls, Retry(call)
  PROVE  IInv'
<1>1. /\ call \in late /\ late' = late \ {call}
      /\ tabGroups' = IF call.on \in open THEN Apply(call) ELSE tabGroups
      /\ UNCHANGED <<native, open, closing, closed, overwrote, overtaken>>
  BY DEF Retry
<1>2. Table(tabGroups) /\ OtherTypes /\ NativeTabs /\ Mirrors
  BY TypeIs DEF IInv
<1>3. Table(tabGroups')
  <2>1. call.on \in Windows
    BY DEF Calls
  <2>2. Table(MoveTab(call.on)) /\ Table(MergeTabs(call.on))
    BY <1>2, <2>1, MoveTable, MergeTable
  <2>3. \/ tabGroups' = MoveTab(call.on) \/ tabGroups' = MergeTabs(call.on)
        \/ tabGroups' = tabGroups
    BY <1>1 DEF Apply
  <2> QED
    BY <1>2, <2>2, <2>3
<1>4. OtherTypes'
  BY <1>1, <1>2 DEF OtherTypes
<1>5. NativeTabs'
  BY <1>1, <1>2 DEF NativeTabs
<1>6. ASSUME ~overwrote', ~overtaken'
      PROVE  Mirrors'
  <2>1. Distinct(tabGroups) /\ Listed = open \cup closing /\ Behind
    BY <1>1, <1>2, <1>6 DEF Mirrors
  <2>2. ASSUME NEW w \in open, late = {[op |-> "move", on |-> w]},
               native = Without(w, TabSets(tabGroups)) \cup {{w}}
        PROVE  Distinct(tabGroups') /\ TabSets(tabGroups') = native' /\ late' = {}
    <3>1. call.op = "move" /\ call.on = w /\ late' = {}
      BY <1>1, <2>2
    <3>2. tabGroups' = MoveTab(w)
      BY <1>1, <2>2, <3>1 DEF Apply
    <3>3. w \in Listed
      BY <2>1, <2>2
    <3>4. Distinct(MoveTab(w)) /\ TabSets(MoveTab(w)) = native
      BY <1>2, <2>1, <2>2, <3>3, MoveSets
    <3> QED
      BY <1>1, <3>1, <3>2, <3>4
  <2>3. ASSUME NEW w \in open, late = {[op |-> "merge", on |-> w]}, native = {Listed}
        PROVE  Distinct(tabGroups') /\ TabSets(tabGroups') = native' /\ late' = {}
    <3>1. call.op = "merge" /\ call.on = w /\ late' = {}
      BY <1>1, <2>3
    <3>2. tabGroups' = MergeTabs(w)
      BY <1>1, <2>3, <3>1 DEF Apply
    <3>3. w \in Listed
      BY <2>1, <2>3
    <3>4. Distinct(MergeTabs(w)) /\ TabSets(MergeTabs(w)) = native
      BY <1>2, <2>1, <2>3, <3>3, MergeSets
    <3> QED
      BY <1>1, <3>1, <3>2, <3>4
  <2>4. Distinct(tabGroups') /\ TabSets(tabGroups') = native' /\ late' = {}
    BY <1>1, <2>1, <2>2, <2>3 DEF Behind
  <2> QED
    BY <1>5, <2>4, CaughtUp DEF Distinct, TabSets
<1>7. Mirrors'
  BY <1>6 DEF Mirrors
<1>8. TypeOK'
  BY <1>3, <1>4 DEF TypeOK, Table, OtherTypes, GroupIds, Tabs
<1> QED
  BY <1>5, <1>7, <1>8 DEF IInv

\* No step breaks the invariant.
LEMMA Inductive == IInv /\ [Next]_vars => IInv'
<1> SUFFICES ASSUME IInv, [Next]_vars
             PROVE  IInv'
  OBVIOUS
<1>1. ASSUME NEW w \in Windows, NEW n \in native \cup {{}}, OpenWindow(w, n)
      PROVE  IInv'
  BY <1>1, OpenStep
<1>2. ASSUME NEW w \in Windows, CloseWindow(w)
      PROVE  IInv'
  BY <1>2, CloseStep
<1>3. ASSUME NEW w \in Windows, WindowClosed(w)
      PROVE  IInv'
  BY <1>3, ClosedStep
<1>4. ASSUME NEW w \in Windows, MoveTabToNewWindow(w)
      PROVE  IInv'
  BY <1>4, MoveStep
<1>5. ASSUME NEW w \in Windows, MergeAllWindows(w)
      PROVE  IInv'
  BY <1>5, MergeStep
<1>6. ASSUME NEW call \in Calls, Retry(call)
      PROVE  IInv'
  BY <1>6, RetryStep
<1>7. CASE UNCHANGED vars
  <2>1. TypeOK' /\ NativeTabs'
    BY <1>7 DEF vars, IInv, TypeOK, NativeTabs, Tabs, GroupIds
  <2>2. Distinct(tabGroups)' = Distinct(tabGroups) /\ Listed' = Listed
    BY <1>7 DEF vars, Distinct, Listed, Tabs, GroupIds
  <2>3. TabSets(tabGroups)' = TabSets(tabGroups)
    BY <1>7 DEF vars, TabSets
  <2>4. Behind' = Behind
    BY <1>7, <2>2, <2>3 DEF vars, Behind
  <2>5. Mirrors'
    BY <1>7, <2>2, <2>4 DEF vars, IInv, Mirrors
  <2> QED
    BY <2>1, <2>5 DEF IInv
<1> QED
  BY <1>1, <1>2, <1>3, <1>4, <1>5, <1>6, <1>7 DEF Next

------------------------------------------------------------------------------
(***************************************************************************)
(* The theorem.                                                            *)
(***************************************************************************)
\* What the invariant says of a table that no callback will change.
LEMMA InvMirrors == IInv => MirrorsNative
<1> SUFFICES ASSUME IInv, late = {}, ~overwrote, ~overtaken
             PROVE  /\ {tabGroups[g] : g \in GroupIds} = {SetToBag(n) : n \in native}
                    /\ Cardinality(GroupIds) = Cardinality(native)
  BY DEF MirrorsNative
<1>1. /\ Distinct(tabGroups) /\ native = TabSets(tabGroups) /\ Table(tabGroups)
  BY TypeIs DEF IInv, Mirrors, Behind
<1>2. \A g \in GroupIds : tabGroups[g] = SetToBag(Tabs(g)) /\ Tabs(g) # {}
  BY <1>1 DEF Distinct, Table, GroupIds, Tabs
<1>3. native = {Tabs(g) : g \in GroupIds}
  BY <1>1 DEF TabSets, GroupIds, Tabs
<1>4. {tabGroups[g] : g \in GroupIds} = {SetToBag(n) : n \in native}
  BY <1>2, <1>3
<1>5. \A g, h \in GroupIds : Tabs(g) = Tabs(h) => g = h
  <2>1. \A g, h \in GroupIds : g # h => Tabs(g) \cap Tabs(h) = {}
    BY <1>1 DEF Distinct, GroupIds, Tabs
  <2> QED
    BY <1>2, <2>1
<1>6. [g \in GroupIds |-> Tabs(g)] \in Bijection(GroupIds, native)
  BY <1>3, <1>5 DEF Bijection, Injection, Surjection, IsInjective
<1>7. IsFiniteSet(GroupIds)
  BY <1>1 DEF Table, GroupIds
<1>8. Cardinality(GroupIds) = Cardinality(native)
  <2>1. ExistsBijection(GroupIds, native)
    BY <1>6 DEF ExistsBijection
  <2> QED
    BY <1>7, <2>1, FS_Bijection
<1> QED
  BY <1>4, <1>8

\* Consistent: until add_tab meets an id in use or a late callback is
\* overtaken, the table mirrors AppKit's groups once no callback is late:
\* each native group is listed once, whole, a closed window nowhere.
THEOREM TabsMirrored == Spec => []Consistent
<1>1. IInv => Consistent
  BY InvMirrors DEF IInv, Consistent
<1> QED
  BY <1>1, InitInv, Inductive, PTL DEF Spec
=============================================================================
