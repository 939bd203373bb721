-------------------------- MODULE PendingInputProofs --------------------------
(***************************************************************************)
(* What PendingInput keeps, for any keymaps, any number of keystrokes and  *)
(* of operations of user code, and any nesting of dispatches: no keystroke *)
(* is lost, those that handlers do not dispatch are handled in order, what *)
(* the focus has left is dropped, the observers know what is pending, and  *)
(* text typed without interference means what it does read from the left.  *)
(***************************************************************************)
EXTENDS PendingInput, SequenceTheorems, FiniteSetTheorems, TLAPS

------------------------------------------------------------------------------
(***************************************************************************)
(* Sequences of keystrokes, and of chunks of them, in the order a relation *)
(* has: R is a set of pairs.                                               *)
(***************************************************************************)
All(cs) == UNION {Range(cs[i]) : i \in DOMAIN cs}

InOrder(R, ks) == \A p, q \in DOMAIN ks : p < q => <<ks[p], ks[q]>> \in R

ChunksInOrder(R, cs) ==
  \A i, j \in DOMAIN cs : \A p \in DOMAIN cs[i], q \in DOMAIN cs[j] :
    i < j \/ (i = j /\ p < q) => <<cs[i][p], cs[j][q]>> \in R

Across(R, A, B) == \A x \in A, y \in B : <<x, y>> \in R

------------------------------------------------------------------------------
(***************************************************************************)
(* The invariant.                                                          *)
(***************************************************************************)
\* No keystroke is the same as another, and those of no handler are in the
\* order they were typed in.
Order(ns) == {p \in Strokes \X Strokes :
                p[1].n # p[2].n /\ (p[1].n \notin ns /\ p[2].n \notin ns => p[1].n < p[2].n)}

\* The keystrokes a call holds.
Held(f) == CASE f.op = "key" /\ f.step = "intercept" -> {f.key}
             [] f.op = "key" /\ f.step # "intercept" ->
                  All(f.replay) \cup Range(f.pending) \cup Range(f.last)
             [] f.op = "timer" -> All(f.replay)
             [] f.op = "deferred" -> {}

\* A call that decides or replays a keystroke, which may be about to hold
\* others; one that will tell the observers; one that does not hold any.
Deciding(f) == f.op = "key" /\ f.step \in {"decided", "replay"}
Tells(f)    == f.op = "key" /\ f.step \in {"decided", "replay", "handle"}

FrameOK(f) ==
  f.op = "key" =>
    /\ f.step \in {"intercept", "stopped", "handle", "observe", "return"}
         => f.replay = <<>> /\ f.pending = <<>> /\ f.last = <<>>
    /\ f.pending = <<>> \/ f.last = <<>>

FrameSorted(R, f) ==
  /\ f.op \in {"key", "timer"} => ChunksInOrder(R, f.replay)
  /\ f.op = "key" => /\ InOrder(R, f.pending) /\ InOrder(R, f.last)
                     /\ Across(R, All(f.replay), Range(f.pending) \cup Range(f.last))

\* What comes before the keystrokes of a call, and may be typed as they were
\* only if that call is the first and has not decided yet.
Waits(ns, A, f, first) ==
  \A x \in A, y \in Held(f) :
    /\ <<x, y>> \in Order(ns)
    /\ x.n \notin ns /\ y.n \notin ns => first /\ f.step = "intercept"

HeldBy == UNION {Held(stack[i]) : i \in DOMAIN stack}

Shapes == keymap \in Keymaps /\ \A i \in DOMAIN stack : FrameOK(stack[i])

Known == \A x \in All(handled) \cup Range(pending.keys) \cup HeldBy :
           x \in Strokes /\ x.n <= Len(typed)

\* Chunks that were handled, keystrokes that are pending and calls.
Ordered(ns, h, p, st) ==
  /\ ChunksInOrder(Order(ns), h) /\ InOrder(Order(ns), p)
  /\ Across(Order(ns), All(h), Range(p))
  /\ \A i \in DOMAIN st : /\ FrameSorted(Order(ns), st[i])
                          /\ Across(Order(ns), All(h), Held(st[i]))
                          /\ Waits(ns, Range(p), st[i], i = 1)
  /\ \A i, j \in DOMAIN st : i < j => Waits(ns, Held(st[j]), st[i], i = 1)

Dropped == /\ left \cap (HandledStrokes \cup {x.n : x \in HeldBy}) = {}
           /\ pending.keys # <<>> =>
                \/ pending.focus = focus /\ left \cap Numbers(pending.keys) = {}
                \/ /\ pending.focus # focus /\ focus = NoFocus
                   /\ Numbers(pending.keys) \subseteq left /\ "blur" \in odd

Accounted ==
  \A n \in 1 .. Len(typed) :
    n \in HandledStrokes \cup consumed \cup Numbers(pending.keys) \cup {x.n : x \in HeldBy} \cup left \cup nested

Overwritten ==
  \A i \in DOMAIN stack : Deciding(stack[i]) =>
    /\ Numbers(pending.keys) \subseteq nested \cup left
    /\ \A j \in DOMAIN stack : j > i => \A x \in Held(stack[j]) : x.n \in nested

Told == /\ \A i \in DOMAIN stack : i < Len(stack) /\ stack[i].step = "observe" => "nested" \in odd
        /\ odd \cap {"blur", "nested"} = {} =>
             seen = pending.keys \/ notifyDue \/ \E i \in DOMAIN stack : Tells(stack[i])

IInv == TypeOK /\ Shapes /\ Known /\ Ordered(nested, handled, pending.keys, stack)
        /\ Dropped /\ Accounted /\ Overwritten /\ Told

------------------------------------------------------------------------------
(***************************************************************************)
(* What is flushed and dispatched.                                         *)
(***************************************************************************)
\* A finite set of naturals has a maximum, if it is not empty.
LEMMA MaxExists ==
  ASSUME NEW S \in SUBSET Nat, IsFiniteSet(S), S # {}
  PROVE  \E m \in S : \A k \in S : m >= k
<1> DEFINE Bad == {U \in SUBSET S : U # {} /\ ~\E m \in U : \A k \in U : m >= k}
<1> SUFFICES ASSUME S \in Bad
             PROVE  FALSE
  OBVIOUS
<1>1. IsWellFoundedOn(StrictSubsetOrdering(S), SUBSET S)
  BY FS_StrictSubsetOrderingWellFounded, FS_FiniteSubsetsOfFinite
<1>2. Bad \subseteq SUBSET S /\ Bad # {}
  OBVIOUS
<1>3. PICK U \in Bad : \A V \in Bad : <<V, U>> \notin StrictSubsetOrdering(S)
  <2> HIDE DEF Bad
  <2> QED
    BY <1>1, <1>2, WFMin
<1>4. U \in SUBSET S /\ U # {} /\ ~\E m \in U : \A k \in U : m >= k
  BY <1>3
<1>5. PICK x \in U : TRUE
  BY <1>4
<1>6. CASE U \ {x} = {}
  <2>1. x \in Nat /\ U = {x}
    BY <1>4, <1>5, <1>6
  <2>2. x >= x
    BY <2>1
  <2> QED
    BY <1>4, <2>1, <2>2
<1>7. CASE U \ {x} # {}
  <2>1. U \ {x} \in SUBSET S /\ U \ {x} # U
    BY <1>4, <1>5
  <2>2. <<U \ {x}, U>> \in StrictSubsetOrdering(S)
    BY <1>4, <2>1 DEF StrictSubsetOrdering
  <2>3. U \ {x} \notin Bad
    BY <1>3, <2>2
  <2>4. PICK m \in U \ {x} : \A k \in U \ {x} : m >= k
    BY <1>7, <2>1, <2>3
  <2>5. x \in Nat /\ m \in Nat /\ U \subseteq Nat
    BY <1>4, <1>5, <2>4
  <2>6. CASE m >= x
    <3>1. \A k \in U : m >= k
      BY <2>4, <2>6
    <3> QED
      BY <1>4, <2>4, <3>1
  <2>7. CASE ~(m >= x)
    <3>1. ASSUME NEW k \in U
          PROVE  x >= k
      <4>1. k \in Nat /\ (k = x \/ m >= k)
        BY <2>4, <2>5
      <4> QED
        BY <2>5, <2>7, <4>1
    <3> QED
      BY <1>4, <1>5, <3>1
  <2> QED
    BY <2>6, <2>7
<1> QED
  BY <1>6, <1>7

\* A prefix that is replayed is of one keystroke at least.
LEMMA PrefixIs ==
  ASSUME NEW km, NEW c, NEW S, NEW ks \in Seq(S), ks # <<>>
  PROVE  PrefixLength(km, c, ks) \in 1 .. Len(ks)
<1> DEFINE N == {n \in 1 .. Len(ks) : n = 1 \/ IsBound(km, c, SubSeq(ks, 1, n))}
<1>1. Len(ks) \in Nat /\ Len(ks) > 0
  BY EmptySeq, LenProperties
<1>2. 1 \in N /\ N \in SUBSET (1 .. Len(ks)) /\ N \in SUBSET Nat
  BY <1>1
<1>3. IsFiniteSet(N)
  <2>1. IsFiniteSet(1 .. Len(ks))
    BY <1>1, FS_Interval
  <2> HIDE DEF N
  <2> QED
    BY <1>2, <2>1, FS_Subset
<1>4. PrefixLength(km, c, ks) = Max(N)
  BY DEF PrefixLength
<1> HIDE DEF N
<1>5. \E m \in N : \A k \in N : m >= k
  BY <1>2, <1>3, MaxExists
<1>6. Max(N) \in N
  BY <1>5 DEF Max
<1> QED
  BY <1>2, <1>4, <1>6

\* The last keystrokes.
LEMMA LatestIs ==
  ASSUME NEW S, NEW ks \in Seq(S), NEW m \in 0 .. Len(ks)
  PROVE  /\ Latest(ks, m) \in Seq(S) /\ Len(Latest(ks, m)) = m
         /\ \A i \in 1 .. m : Latest(ks, m)[i] = ks[Len(ks) - m + i]
<1>1. Len(ks) \in Nat /\ m \in Nat /\ Len(ks) - m \in Nat
  BY LenProperties
<1>2. PICK d \in Nat : d = Len(ks) - m
  BY <1>1
<1>3. d + 1 \in 1 .. Len(ks) + 1 /\ Len(ks) \in d + 1 - 1 .. Len(ks) /\ Len(ks) = d + m
  BY <1>1, <1>2
<1>4. /\ SubSeq(ks, d + 1, Len(ks)) \in Seq(S)
      /\ Len(SubSeq(ks, d + 1, Len(ks))) = Len(ks) - (d + 1) + 1
      /\ \A i \in 1 .. Len(ks) - (d + 1) + 1 : SubSeq(ks, d + 1, Len(ks))[i] = ks[d + 1 + i - 1]
  BY <1>1, <1>3, SubSeqProperties
<1>5. Len(ks) - (d + 1) + 1 = m
  BY <1>1, <1>3
<1>6. Latest(ks, m) = SubSeq(ks, d + 1, Len(ks))
  BY <1>2 DEF Latest
<1>7. \A i \in 1 .. m : d + 1 + i - 1 = Len(ks) - m + i
  BY <1>1, <1>2
<1> QED
  BY <1>4, <1>5, <1>6, <1>7
\* What holds of a number if it does of all smaller ones holds of all.
LEMMA Upto ==
  ASSUME NEW N \in Nat, NEW G, \A m \in 0 .. N : (\A i \in 0 .. m - 1 : i \in G) => m \in G
  PROVE  \A m \in 0 .. N : m \in G
<1> DEFINE Good == {k \in 0 .. N : \A i \in 0 .. k : i \in G}
<1>1. 0 \in Good
  OBVIOUS
<1>2. PICK k \in Good : \A i \in Good : k >= i
  <2>1. Good \in SUBSET Nat /\ Good \in SUBSET (0 .. N)
    OBVIOUS
  <2>2. IsFiniteSet(0 .. N)
    BY FS_Interval
  <2> HIDE DEF Good
  <2> QED
    BY <1>1, <2>1, <2>2, FS_Subset, MaxExists
<1>3. k \in 0 .. N /\ \A i \in 0 .. k : i \in G
  OBVIOUS
<1>4. ASSUME k < N
      PROVE  FALSE
  <2>1. k + 1 \in 0 .. N /\ k \in Nat
    BY <1>3, <1>4
  <2>2. \A i \in 0 .. (k + 1) - 1 : i \in G
    BY <1>3
  <2>3. k + 1 \in G
    BY <2>1, <2>2
  <2>4. \A i \in 0 .. k + 1 : i \in 0 .. k \/ i = k + 1
    BY <2>1
  <2>5. k + 1 \in Good
    BY <1>3, <2>1, <2>3, <2>4
  <2>6. k >= k + 1
    <3> HIDE DEF Good
    <3> QED
      BY <1>2, <2>5
  <2> QED
    BY <2>1, <2>6
<1>5. k = N
  BY <1>3, <1>4
<1> QED
  BY <1>3, <1>5

\* A definition that goes back to smaller numbers until it stops is one.
GoesBack(N, V, Stop, to, base, step) ==
  \A m \in 0 .. N :
    IF m \in Stop THEN base[m] \in V
    ELSE to[m] \in 0 .. m - 1 /\ \A v \in V : step[m][v] \in V

Follows(f, N, Stop, to, base, step) ==
  \A m \in 0 .. N : f[m] = IF m \in Stop THEN base[m] ELSE step[m][f[to[m]]]

LEMMA RecursionExists ==
  ASSUME NEW N \in Nat, NEW V, NEW Stop, NEW to, NEW base, NEW step,
         GoesBack(N, V, Stop, to, base, step)
  PROVE  \E f \in [0 .. N -> V] : Follows(f, N, Stop, to, base, step)
<1>0. \A m \in 0 .. N : IF m \in Stop THEN base[m] \in V
        ELSE to[m] \in 0 .. m - 1 /\ \A v \in V : step[m][v] \in V
  BY DEF GoesBack
<1> DEFINE Is(f, k) == f \in [0 .. k -> V] /\
             \A m \in 0 .. k : f[m] = IF m \in Stop THEN base[m] ELSE step[m][f[to[m]]]
           Good == {k \in 0 .. N : \E f : Is(f, k)}
<1>1. ASSUME NEW m \in 0 .. N, \A i \in 0 .. m - 1 : i \in Good
      PROVE  m \in Good
  <2>1. m \in Nat
    OBVIOUS
  <2>2. CASE m = 0
    <3>01. 0 \in 0 .. N /\ ~\E i \in 0 .. 0 - 1 : TRUE
      OBVIOUS
    <3>1. 0 \in 0 .. N /\ 0 \in Stop /\ base[0] \in V
      BY <1>0, <3>01
    <3>2. \A i \in 0 .. 0 : i = 0
      OBVIOUS
    <3>3. Is([i \in 0 .. 0 |-> base[i]], 0)
      BY <3>1, <3>2
    <3> HIDE DEF Is
    <3> QED
      BY <2>2, <3>1, <3>3
  <2>3. CASE m # 0
    <3>1. m - 1 \in 0 .. m - 1 /\ m - 1 \in Nat /\ (m - 1) + 1 = m
      BY <2>1, <2>3
    <3>2. PICK f : Is(f, m - 1)
      <4>1. m - 1 \in Good
        BY <1>1, <3>1
      <4> QED
        BY <4>1
    <3> DEFINE e == IF m \in Stop THEN base[m] ELSE step[m][f[to[m]]]
               g == [i \in 0 .. m |-> IF i = m THEN e ELSE f[i]]
    <3>3. \A i \in 0 .. m : i = m \/ i \in 0 .. m - 1
      BY <2>1
    <3>4. \A i \in 0 .. m - 1 : i \in 0 .. m /\ i # m /\ i \in 0 .. N
      BY <2>1
    <3>5. m \notin Stop => to[m] \in 0 .. m - 1
      BY <1>0
    <3>6. f \in [0 .. m - 1 -> V] /\
          \A i \in 0 .. m - 1 : f[i] = IF i \in Stop THEN base[i] ELSE step[i][f[to[i]]]
      BY <3>2
    <3>7. e \in V
      <4>1. m \notin Stop => f[to[m]] \in V
        BY <3>5, <3>6
      <4> QED
        BY <1>0, <4>1
    <3>8. m \in 0 .. m
      BY <2>1
    <3> HIDE DEF e
    <3>9. g[m] = e /\ \A i \in 0 .. m - 1 : g[i] = f[i]
      BY <3>4, <3>8
    <3>10. g \in [0 .. m -> V]
      BY <3>3, <3>6, <3>7
    <3> HIDE DEF g
    <3>11. ASSUME NEW i \in 0 .. m
           PROVE  g[i] = IF i \in Stop THEN base[i] ELSE step[i][g[to[i]]]
      <4>1. CASE i = m
        <5>1. m \notin Stop => g[to[m]] = f[to[m]]
          BY <3>5, <3>9
        <5> QED
          BY <3>9, <4>1, <5>1 DEF e
      <4>2. CASE i \in 0 .. m - 1
        <5>1. i \notin Stop => to[i] \in 0 .. m - 1
          <6>1. i \notin Stop => to[i] \in 0 .. i - 1
            BY <1>0, <3>4, <4>2
          <6>2. \A j \in 0 .. i - 1 : j \in 0 .. m - 1
            BY <2>1, <4>2
          <6> QED
            BY <6>1, <6>2
        <5>2. i \notin Stop => g[to[i]] = f[to[i]]
          BY <3>9, <5>1
        <5> QED
          BY <3>6, <3>9, <4>2, <5>2
      <4> QED
        BY <3>3, <4>1, <4>2
    <3>12. Is(g, m)
      BY <3>10, <3>11
    <3> HIDE DEF Is
    <3> QED
      BY <3>12
  <2> QED
    BY <2>2, <2>3
<1>2. \A m \in 0 .. N : m \in Good
  <2> HIDE DEF Good
  <2> QED
    BY <1>1, Upto
<1>3. N \in 0 .. N
  OBVIOUS
<1>4. \E f : Is(f, N)
  BY <1>2, <1>3
<1> QED
  BY <1>4 DEF Follows

\* The prefix that the last m keystrokes leave to a replay.
LEMMA ChunkIs ==
  ASSUME NEW km, NEW c, NEW S, NEW ks \in Seq(S), NEW m \in 1 .. Len(ks)
  PROVE  LET n == PrefixLength(km, c, Latest(ks, m))
         IN  /\ n \in 1 .. m
             /\ m - n \in 0 .. m - 1
             /\ SubSeq(Latest(ks, m), 1, n) \in Seq(S)
<1>1. m \in 0 .. Len(ks) /\ m # 0 /\ m \in Nat
  BY LenProperties
<1>2. Latest(ks, m) \in Seq(S) /\ Len(Latest(ks, m)) = m
  BY <1>1, LatestIs
<1>3. Latest(ks, m) # <<>>
  BY <1>1, <1>2, EmptySeq
<1>4. PICK n : n = PrefixLength(km, c, Latest(ks, m))
  OBVIOUS
<1>5. n \in 1 .. m
  BY <1>2, <1>3, <1>4, PrefixIs
<1>6. SubSeq(Latest(ks, m), 1, n) \in Seq(S)
  BY <1>1, <1>2, <1>5, SubSeqProperties
<1>7. m - n \in 0 .. m - 1
  BY <1>1, <1>5
<1> QED
  BY <1>4, <1>5, <1>6, <1>7

LEMMA FlushedIs ==
  ASSUME NEW km, NEW c, NEW S, NEW ks \in Seq(S)
  PROVE  /\ Flushed(km, c, ks) \in [0 .. Len(ks) -> Seq(Seq(S))]
         /\ Flushed(km, c, ks)[0] = <<>>
         /\ \A m \in 1 .. Len(ks) :
              LET n == PrefixLength(km, c, Latest(ks, m))
              IN  Flushed(km, c, ks)[m] = <<SubSeq(Latest(ks, m), 1, n)>> \o Flushed(km, c, ks)[m - n]
<1> DEFINE P(m) == PrefixLength(km, c, Latest(ks, m))
           C(m) == SubSeq(Latest(ks, m), 1, P(m))
           Is(f) == f = [m \in 0 .. Len(ks) |-> IF m = 0 THEN <<>> ELSE <<C(m)>> \o f[m - P(m)]]
           V == Seq(Seq(S))
<1>1. PICK N \in Nat : N = Len(ks)
  BY LenProperties
<1>2. ASSUME NEW m \in 1 .. N
      PROVE  P(m) \in 1 .. m /\ m - P(m) \in 0 .. m - 1 /\ C(m) \in Seq(S)
  BY <1>1, ChunkIs
<1> HIDE DEF P, C
<1>3. PICK to : to = [m \in 0 .. N |-> m - P(m)]
  OBVIOUS
<1>4. PICK base : base = [m \in 0 .. N |-> <<>>]
  OBVIOUS
<1>5. PICK step : step = [m \in 0 .. N |-> [v \in V |-> <<C(m)>> \o v]]
  OBVIOUS
<1>6. \A m \in 0 .. N : m \notin {0} => m \in 1 .. N
  OBVIOUS
<1>7. \A m \in 0 .. N : base[m] \in V
  BY <1>4
<1>8. ASSUME NEW m \in 0 .. N, m \notin {0}
      PROVE  to[m] \in 0 .. m - 1 /\ \A v \in V : step[m][v] \in V /\ step[m][v] = <<C(m)>> \o v
  <2>1. <<C(m)>> \in Seq(Seq(S))
    BY <1>2, <1>6, <1>8
  <2>2. \A v \in V : <<C(m)>> \o v \in V
    BY <2>1, ConcatProperties
  <2> QED
    BY <1>2, <1>3, <1>5, <1>6, <1>8, <2>2
<1>80. <<>> \in V
  OBVIOUS
<1> HIDE DEF V
<1>81. PICK Stop : Stop = {0}
  OBVIOUS
<1>82. GoesBack(N, V, Stop, to, base, step)
  BY <1>7, <1>8, <1>81 DEF GoesBack
<1>83. \E f \in [0 .. N -> V] : Follows(f, N, Stop, to, base, step)
  BY <1>1, <1>82, RecursionExists
<1>9. PICK f \in [0 .. N -> V] :
        \A m \in 0 .. N : f[m] = IF m \in {0} THEN base[m] ELSE step[m][f[to[m]]]
  BY <1>81, <1>83 DEF Follows
<1>10. ASSUME NEW m \in 0 .. N
       PROVE  f[m] = IF m = 0 THEN <<>> ELSE <<C(m)>> \o f[m - P(m)]
  <2>1. CASE m = 0
    BY <1>4, <1>9, <2>1
  <2>2. CASE m # 0
    <3>1. to[m] \in 0 .. m - 1 /\ to[m] = m - P(m)
      BY <1>3, <1>8, <2>2
    <3>2. to[m] \in 0 .. N
      BY <3>1
    <3>3. f[to[m]] \in V
      BY <1>9, <3>2
    <3> QED
      BY <1>8, <1>9, <2>2, <3>1, <3>3
  <2> QED
    BY <2>1, <2>2
<1>11. Is(f)
  BY <1>1, <1>9, <1>10
<1>12. Flushed(km, c, ks) = CHOOSE g : Is(g)
  BY DEF Flushed, P, C
<1>13. Is(Flushed(km, c, ks))
  <2> HIDE DEF Is
  <2> QED
    BY <1>11, <1>12
<1> DEFINE F == Flushed(km, c, ks)
<1>14. F = [m \in 0 .. N |-> IF m = 0 THEN <<>> ELSE <<C(m)>> \o F[m - P(m)]]
  BY <1>1, <1>13
<1> HIDE DEF F
<1>15. DOMAIN F = 0 .. N /\ F[0] = <<>> /\ \A m \in 1 .. N : F[m] = <<C(m)>> \o F[m - P(m)]
  <2>1. 0 \in 0 .. N /\ \A m \in 1 .. N : m \in 0 .. N /\ m # 0
    OBVIOUS
  <2> QED
    BY <1>14, <2>1
<1>16. \A m \in 0 .. N : F[m] \in V
  <2> DEFINE G == {m \in 0 .. N : F[m] \in V}
  <2>1. ASSUME NEW m \in 0 .. N, \A i \in 0 .. m - 1 : i \in G
        PROVE  m \in G
    <3>1. CASE m = 0
      BY <1>15, <1>80, <3>1
    <3>2. CASE m # 0
      <4>1. m \in 1 .. N
        BY <3>2
      <4>2. m - P(m) \in 0 .. m - 1 /\ C(m) \in Seq(S)
        BY <1>2, <4>1
      <4>3. F[m - P(m)] \in Seq(Seq(S))
        BY <2>1, <4>2 DEF V
      <4>4. <<C(m)>> \in Seq(Seq(S))
        BY <4>2
      <4>5. <<C(m)>> \o F[m - P(m)] \in Seq(Seq(S))
        BY <4>3, <4>4, ConcatProperties
      <4> QED
        BY <1>15, <4>1, <4>5 DEF V
    <3> QED
      BY <3>1, <3>2
  <2>2. \A m \in 0 .. N : m \in G
    <3> HIDE DEF G
    <3> QED
      BY <2>1, Upto
  <2> QED
    BY <2>2
<1>17. F \in [0 .. N -> V]
  BY <1>14, <1>15, <1>16
<1> QED
  BY <1>1, <1>15, <1>17 DEF F, P, C, V

\* What is dispatched: all of the last m and the new one are pending, or all
\* are the last chunk, or a prefix is replayed and the rest dispatched.
Dispatches(S) == [replay : Seq(Seq(S)), pending : Seq(S), last : Seq(S)]

DispatchSteps(D, km, c, ks, k) ==
  \A m \in 0 .. Len(ks) :
    LET all == Append(Latest(ks, m), k)
        n   == PrefixLength(km, c, Latest(ks, m))
    IN  \/ /\ Pending(km, c, Word(all))
           /\ D[m] = [replay |-> <<>>, pending |-> all, last |-> <<>>]
        \/ /\ ~Pending(km, c, Word(all)) /\ (IsBound(km, c, all) \/ m = 0)
           /\ D[m] = [replay |-> <<>>, pending |-> <<>>, last |-> all]
        \/ /\ ~Pending(km, c, Word(all)) /\ ~IsBound(km, c, all) /\ m # 0
           /\ D[m] = [replay |-> <<SubSeq(Latest(ks, m), 1, n)>> \o D[m - n].replay,
                      pending |-> D[m - n].pending, last |-> D[m - n].last]

LEMMA DispatchedIs ==
  ASSUME NEW km, NEW c, NEW S, NEW ks \in Seq(S), NEW k \in S
  PROVE  /\ Dispatched(km, c, ks, k) \in [0 .. Len(ks) -> Dispatches(S)]
         /\ DispatchSteps(Dispatched(km, c, ks, k), km, c, ks, k)
<1> DEFINE P(m) == PrefixLength(km, c, Latest(ks, m))
           C(m) == SubSeq(Latest(ks, m), 1, P(m))
           A(m) == Append(Latest(ks, m), k)
           Pend(m) == Pending(km, c, Word(A(m)))
           Run(m)  == IsBound(km, c, A(m))
           Go(m, v) == [replay |-> <<C(m)>> \o v.replay, pending |-> v.pending, last |-> v.last]
           First0(m) == [replay |-> <<>>, pending |-> A(m), last |-> <<>>]
           Last0(m)  == [replay |-> <<>>, pending |-> <<>>, last |-> A(m)]
           Is(f) == f = [m \in 0 .. Len(ks) |->
                           IF Pend(m) THEN First0(m)
                           ELSE IF Run(m) \/ m = 0 THEN Last0(m)
                           ELSE Go(m, f[m - P(m)])]
           V == Dispatches(S)
<1>1. PICK N \in Nat : N = Len(ks)
  BY LenProperties
<1>2. ASSUME NEW m \in 1 .. N
      PROVE  P(m) \in 1 .. m /\ m - P(m) \in 0 .. m - 1 /\ C(m) \in Seq(S)
  BY <1>1, ChunkIs
<1>3. ASSUME NEW m \in 0 .. N
      PROVE  First0(m) \in V /\ Last0(m) \in V
  <2>1. Latest(ks, m) \in Seq(S)
    BY <1>1, LatestIs
  <2>2. A(m) \in Seq(S) /\ <<>> \in Seq(S) /\ <<>> \in Seq(Seq(S))
    BY <2>1, AppendProperties
  <2> HIDE DEF A
  <2> QED
    BY <2>2 DEF Dispatches
<1>4. ASSUME NEW m \in 1 .. N, NEW v \in V
      PROVE  Go(m, v) \in V
  <2>1. <<C(m)>> \in Seq(Seq(S))
    <3> HIDE DEF C
    <3> QED
      BY <1>2
  <2>2. v.replay \in Seq(Seq(S)) /\ v.pending \in Seq(S) /\ v.last \in Seq(S)
    BY DEF Dispatches
  <2>3. <<C(m)>> \o v.replay \in Seq(Seq(S))
    BY <2>1, <2>2, ConcatProperties
  <2> HIDE DEF C
  <2> QED
    BY <2>2, <2>3 DEF Dispatches
<1> HIDE DEF Pend, Run, Go, First0, Last0, V
<1>5. PICK to : to = [m \in 0 .. N |-> m - P(m)]
  OBVIOUS
<1>6. PICK base : base = [m \in 0 .. N |-> IF Pend(m) THEN First0(m) ELSE Last0(m)]
  OBVIOUS
<1>7. PICK step : step = [m \in 0 .. N |-> [v \in V |-> Go(m, v)]]
  OBVIOUS
<1>8. PICK Stop : Stop = {m \in 0 .. N : Pend(m) \/ Run(m) \/ m = 0}
  OBVIOUS
<1> HIDE DEF P
<1>9. GoesBack(N, V, Stop, to, base, step)
  <2> SUFFICES ASSUME NEW m \in 0 .. N
               PROVE  IF m \in Stop THEN base[m] \in V
                      ELSE to[m] \in 0 .. m - 1 /\ \A v \in V : step[m][v] \in V
    BY DEF GoesBack
  <2>1. base[m] \in V
    BY <1>3, <1>6
  <2>2. ASSUME m \notin Stop
        PROVE  to[m] \in 0 .. m - 1 /\ \A v \in V : step[m][v] \in V
    <3>1. m \in 1 .. N
      BY <1>8, <2>2
    <3>2. to[m] \in 0 .. m - 1
      BY <1>2, <1>5, <3>1
    <3>3. \A v \in V : step[m][v] \in V
      BY <1>4, <1>7, <3>1
    <3> QED
      BY <3>2, <3>3
  <2> QED
    BY <2>1, <2>2
<1>10. \E f \in [0 .. N -> V] : Follows(f, N, Stop, to, base, step)
  BY <1>1, <1>9, RecursionExists
<1>11. PICK f \in [0 .. N -> V] :
         \A m \in 0 .. N : f[m] = IF m \in Stop THEN base[m] ELSE step[m][f[to[m]]]
  BY <1>10 DEF Follows
<1>12. ASSUME NEW m \in 0 .. N
       PROVE  f[m] = IF Pend(m) THEN First0(m)
                     ELSE IF Run(m) \/ m = 0 THEN Last0(m)
                     ELSE Go(m, f[m - P(m)])
  <2>1. CASE m \in Stop
    BY <1>6, <1>8, <1>11, <2>1
  <2>2. CASE m \notin Stop
    <3>1. m \in 1 .. N /\ ~Pend(m) /\ ~Run(m) /\ m # 0
      BY <1>8, <2>2
    <3>2. to[m] = m - P(m) /\ to[m] \in 0 .. N
      BY <1>2, <1>5, <3>1
    <3>3. f[to[m]] \in V
      BY <1>11, <3>2
    <3>4. step[m][f[to[m]]] = Go(m, f[to[m]])
      BY <1>7, <3>3
    <3> QED
      BY <1>11, <2>2, <3>1, <3>2, <3>4
  <2> QED
    BY <2>1, <2>2
<1>13. Is(f)
  BY <1>1, <1>11, <1>12
<1>14. Dispatched(km, c, ks, k) = CHOOSE g : Is(g)
  BY DEF Dispatched, P, C, A, Pend, Run, First0, Last0, Go
<1>15. Is(Dispatched(km, c, ks, k))
  <2> HIDE DEF Is
  <2> QED
    BY <1>13, <1>14
<1> DEFINE D == Dispatched(km, c, ks, k)
<1>16. D = [m \in 0 .. N |->
              IF Pend(m) THEN First0(m) ELSE IF Run(m) \/ m = 0 THEN Last0(m) ELSE Go(m, D[m - P(m)])]
  BY <1>1, <1>15
<1> HIDE DEF D
<1>17. ASSUME NEW m \in 0 .. N
       PROVE  \/ Pend(m) /\ D[m] = First0(m)
              \/ ~Pend(m) /\ (Run(m) \/ m = 0) /\ D[m] = Last0(m)
              \/ ~Pend(m) /\ ~Run(m) /\ m # 0 /\ D[m] = Go(m, D[m - P(m)])
  BY <1>16
<1>18. \A m \in 0 .. N : D[m] \in V
  <2> DEFINE G == {m \in 0 .. N : D[m] \in V}
  <2>1. ASSUME NEW m \in 0 .. N, \A i \in 0 .. m - 1 : i \in G
        PROVE  m \in G
    <3>1. CASE D[m] = First0(m) \/ D[m] = Last0(m)
      BY <1>3, <3>1
    <3>2. CASE m # 0 /\ D[m] = Go(m, D[m - P(m)])
      <4>1. m \in 1 .. N
        BY <3>2
      <4>2. m - P(m) \in 0 .. m - 1
        BY <1>2, <4>1
      <4>3. D[m - P(m)] \in V
        BY <2>1, <4>2
      <4> QED
        BY <1>4, <3>2, <4>1, <4>3
    <3> QED
      BY <1>17, <3>1, <3>2
  <2>2. \A m \in 0 .. N : m \in G
    <3> HIDE DEF G
    <3> QED
      BY <1>1, <2>1, Upto
  <2> QED
    BY <2>2
<1>19. D \in [0 .. N -> V]
  <2>1. DOMAIN D = 0 .. N /\ D = [m \in 0 .. N |-> D[m]]
    BY <1>16
  <2> QED
    BY <1>18, <2>1
<1> QED
  BY <1>1, <1>17, <1>19 DEF D, P, C, A, V, Pend, Run, First0, Last0, Go, DispatchSteps

------------------------------------------------------------------------------
(***************************************************************************)
(* w is u with v after it.                                                 *)
(***************************************************************************)
JoinedAt(w, u, v, m, n) ==
  /\ DOMAIN u = 1 .. m /\ DOMAIN v = 1 .. n /\ DOMAIN w = 1 .. m + n
  /\ \A i \in 1 .. m : i \in DOMAIN w /\ w[i] = u[i]
  /\ \A i \in 1 .. n : m + i \in DOMAIN w /\ w[m + i] = v[i]
  /\ \A i \in DOMAIN w : i \in DOMAIN u \/ \E j \in DOMAIN v : i = m + j

Joined(w, u, v) == \E m, n \in Nat : JoinedAt(w, u, v, m, n)

LEMMA JoinedRange ==
  ASSUME NEW w, NEW u, NEW v, Joined(w, u, v)
  PROVE  Range(w) = Range(u) \cup Range(v) /\ All(w) = All(u) \cup All(v)
<1>0. PICK m \in Nat, n \in Nat : JoinedAt(w, u, v, m, n)
  BY DEF Joined
<1>1. m \in Nat /\ n \in Nat /\ JoinedAt(w, u, v, m, n)
  BY <1>0
<1> USE DEF JoinedAt
<1>2. \A x : x \in Range(w) <=> \E i \in DOMAIN w : w[i] = x
  BY DEF Range
<1>3. \A x : x \in Range(u) <=> \E i \in DOMAIN u : u[i] = x
  BY DEF Range
<1>4. \A x : x \in Range(v) <=> \E i \in DOMAIN v : v[i] = x
  BY DEF Range
<1>5. \A x : x \in All(w) <=> \E i \in DOMAIN w : x \in Range(w[i])
  BY DEF All
<1>6. \A x : x \in All(u) <=> \E i \in DOMAIN u : x \in Range(u[i])
  BY DEF All
<1>7. \A x : x \in All(v) <=> \E i \in DOMAIN v : x \in Range(v[i])
  BY DEF All
<1>8. \A i \in DOMAIN u : i \in DOMAIN w /\ w[i] = u[i]
  BY <1>1
<1>9. \A i \in DOMAIN v : \E j \in DOMAIN w : w[j] = v[i]
  BY <1>1
<1>10. \A i \in DOMAIN w : (i \in DOMAIN u /\ w[i] = u[i]) \/ \E j \in DOMAIN v : w[i] = v[j]
  BY <1>1
<1>11. \A x : x \in Range(w) <=> x \in Range(u) \cup Range(v)
  BY <1>2, <1>3, <1>4, <1>8, <1>9, <1>10
<1>12. \A x : x \in All(w) <=> x \in All(u) \cup All(v)
  BY <1>5, <1>6, <1>7, <1>8, <1>9, <1>10
<1> QED
  BY <1>11, <1>12

LEMMA JoinedInOrder ==
  ASSUME NEW R, NEW w, NEW u, NEW v, Joined(w, u, v)
  PROVE  InOrder(R, w) <=> InOrder(R, u) /\ InOrder(R, v) /\ Across(R, Range(u), Range(v))
<1>0. PICK m \in Nat, n \in Nat : JoinedAt(w, u, v, m, n)
  BY DEF Joined
<1>1. m \in Nat /\ n \in Nat /\ JoinedAt(w, u, v, m, n)
  BY <1>0
<1> USE DEF JoinedAt
<1>2. ASSUME InOrder(R, w)
      PROVE  InOrder(R, u)
  BY <1>1, <1>2 DEF InOrder
<1>3. ASSUME InOrder(R, w)
      PROVE  InOrder(R, v)
  <2> SUFFICES ASSUME NEW p \in DOMAIN v, NEW q \in DOMAIN v, p < q
               PROVE  <<v[p], v[q]>> \in R
    BY DEF InOrder
  <2>1. m + p < m + q /\ m + p \in DOMAIN w /\ m + q \in DOMAIN w
    BY <1>1
  <2> QED
    BY <1>1, <1>3, <2>1 DEF InOrder
<1>4. ASSUME InOrder(R, w)
      PROVE  Across(R, Range(u), Range(v))
  <2> SUFFICES ASSUME NEW p \in DOMAIN u, NEW q \in DOMAIN v
               PROVE  <<u[p], v[q]>> \in R
    BY DEF Across, Range
  <2>1. p < m + q /\ p \in DOMAIN w /\ m + q \in DOMAIN w
    BY <1>1
  <2> QED
    BY <1>1, <1>4, <2>1 DEF InOrder
<1>5. ASSUME InOrder(R, u), InOrder(R, v), Across(R, Range(u), Range(v))
      PROVE  InOrder(R, w)
  <2> SUFFICES ASSUME NEW p \in DOMAIN w, NEW q \in DOMAIN w, p < q
               PROVE  <<w[p], w[q]>> \in R
    BY DEF InOrder
  <2>1. \A i \in DOMAIN u, j \in DOMAIN v : <<u[i], v[j]>> \in R
    BY <1>5 DEF Across, Range
  <2>2. CASE p \in DOMAIN u /\ q \in DOMAIN u
    BY <1>1, <1>5, <2>2 DEF InOrder
  <2>3. CASE p \in DOMAIN u /\ \E j \in DOMAIN v : q = m + j
    BY <1>1, <2>1, <2>3
  <2>4. ASSUME NEW i \in DOMAIN v, p = m + i, q \in DOMAIN u
        PROVE  FALSE
    BY <1>1, <2>4
  <2>5. ASSUME NEW i \in DOMAIN v, NEW j \in DOMAIN v, p = m + i, q = m + j
        PROVE  <<w[p], w[q]>> \in R
    <3>1. i < j
      BY <1>1, <2>5
    <3> QED
      BY <1>1, <1>5, <2>5, <3>1 DEF InOrder
  <2> QED
    BY <1>1, <2>2, <2>3, <2>4, <2>5
<1> QED
  BY <1>2, <1>3, <1>4, <1>5

LEMMA JoinedChunks ==
  ASSUME NEW R, NEW w, NEW u, NEW v, Joined(w, u, v)
  PROVE  ChunksInOrder(R, w) <=>
           ChunksInOrder(R, u) /\ ChunksInOrder(R, v) /\ Across(R, All(u), All(v))
<1>0. PICK m \in Nat, n \in Nat : JoinedAt(w, u, v, m, n)
  BY DEF Joined
<1>1. m \in Nat /\ n \in Nat /\ JoinedAt(w, u, v, m, n)
  BY <1>0
<1> USE DEF JoinedAt
<1> DEFINE Pair(cs, i, j) == \A p \in DOMAIN cs[i], q \in DOMAIN cs[j] :
                               i < j \/ (i = j /\ p < q) => <<cs[i][p], cs[j][q]>> \in R
<1>2. \A cs : ChunksInOrder(R, cs) <=> \A i, j \in DOMAIN cs : Pair(cs, i, j)
  BY DEF ChunksInOrder
<1>3. \A i, j \in DOMAIN u : Pair(w, i, j) <=> Pair(u, i, j)
  BY <1>1
<1>4. ASSUME NEW i \in DOMAIN v, NEW j \in DOMAIN v
      PROVE  Pair(w, m + i, m + j) <=> Pair(v, i, j)
  <2>1. (m + i < m + j <=> i < j) /\ (m + i = m + j <=> i = j)
    BY <1>1
  <2>2. w[m + i] = v[i] /\ w[m + j] = v[j]
    BY <1>1
  <2> QED
    BY <2>1, <2>2
<1>5. ASSUME NEW i \in DOMAIN u, NEW j \in DOMAIN v
      PROVE  /\ Pair(w, i, m + j) <=> \A x \in Range(u[i]), y \in Range(v[j]) : <<x, y>> \in R
             /\ Pair(w, m + j, i)
  <2>1. i < m + j /\ ~(m + j < i) /\ i # m + j
    BY <1>1
  <2>2. w[m + j] = v[j] /\ w[i] = u[i]
    BY <1>1
  <2> QED
    BY <2>1, <2>2 DEF Range
<1>6. Across(R, All(u), All(v)) <=> \A i \in DOMAIN u, j \in DOMAIN v : Pair(w, i, m + j)
  <2>1. Across(R, All(u), All(v)) <=>
          \A i \in DOMAIN u, j \in DOMAIN v : \A x \in Range(u[i]), y \in Range(v[j]) : <<x, y>> \in R
    BY DEF Across, All
  <2> HIDE DEF Pair
  <2> QED
    BY <1>5, <2>1
<1> HIDE DEF Pair
<1>7. \A i \in DOMAIN u : i \in DOMAIN w
  BY <1>1
<1>8. \A i \in DOMAIN v : m + i \in DOMAIN w
  BY <1>1
<1>9. \A i \in DOMAIN w : i \in DOMAIN u \/ \E j \in DOMAIN v : i = m + j
  BY <1>1
<1>10. ASSUME ChunksInOrder(R, w)
       PROVE  ChunksInOrder(R, u) /\ ChunksInOrder(R, v) /\ Across(R, All(u), All(v))
  BY <1>2, <1>3, <1>4, <1>6, <1>7, <1>8, <1>10
<1>11. ASSUME ChunksInOrder(R, u), ChunksInOrder(R, v), Across(R, All(u), All(v))
       PROVE  ChunksInOrder(R, w)
  <2>1. \A i, j \in DOMAIN u : Pair(w, i, j)
    BY <1>2, <1>3, <1>11
  <2>2. \A i, j \in DOMAIN v : Pair(w, m + i, m + j)
    BY <1>2, <1>4, <1>11
  <2>3. \A i \in DOMAIN u, j \in DOMAIN v : Pair(w, i, m + j) /\ Pair(w, m + j, i)
    BY <1>5, <1>6, <1>11
  <2>4. \A i, j \in DOMAIN w : Pair(w, i, j)
    BY <1>9, <2>1, <2>2, <2>3
  <2> QED
    BY <1>2, <2>4
<1> QED
  BY <1>10, <1>11

\* Empty sequences, and those of one.
LEMMA Few ==
  /\ Range(<<>>) = {} /\ All(<<>>) = {}
  /\ \A R : InOrder(R, <<>>) /\ ChunksInOrder(R, <<>>)
  /\ \A x : Range(<<x>>) = {x} /\ All(<<x>>) = Range(x)
  /\ \A R, x : InOrder(R, <<x>>) /\ (ChunksInOrder(R, <<x>>) <=> InOrder(R, x))
<1>1. Range(<<>>) = {} /\ All(<<>>) = {}
  BY DEF Range, All
<1>2. \A R : InOrder(R, <<>>) /\ ChunksInOrder(R, <<>>)
  BY DEF InOrder, ChunksInOrder
<1>3. ASSUME NEW x
      PROVE  DOMAIN <<x>> = {1} /\ <<x>>[1] = x
  OBVIOUS
<1>4. ASSUME NEW x
      PROVE  Range(<<x>>) = {x} /\ All(<<x>>) = Range(x)
  <2>1. Range(<<x>>) = {x}
    BY <1>3 DEF Range
  <2>2. All(<<x>>) = Range(x)
    BY <1>3 DEF All
  <2> QED
    BY <2>1, <2>2
<1>5. ASSUME NEW R, NEW x
      PROVE  InOrder(R, <<x>>) /\ (ChunksInOrder(R, <<x>>) <=> InOrder(R, x))
  <2>1. PICK w : w = <<x>>
    OBVIOUS
  <2>2. DOMAIN w = {1} /\ w[1] = x
    BY <1>3, <2>1
  <2>3. InOrder(R, w)
    BY <2>2 DEF InOrder
  <2>4. ChunksInOrder(R, w) <=> \A p, q \in DOMAIN x : 1 < 1 \/ p < q => <<x[p], x[q]>> \in R
    BY <2>2 DEF ChunksInOrder
  <2>5. ChunksInOrder(R, w) <=> InOrder(R, x)
    BY <2>4 DEF InOrder
  <2> QED
    BY <2>1, <2>3, <2>5
<1> QED
  BY <1>1, <1>2, <1>4, <1>5

LEMMA ConcatIs ==
  ASSUME NEW S, NEW u \in Seq(S), NEW v \in Seq(S)
  PROVE  u \o v \in Seq(S) /\ Joined(u \o v, u, v)
<1>1. PICK m \in Nat, n \in Nat : m = Len(u) /\ n = Len(v)
  BY LenProperties
<1>2. /\ u \o v \in Seq(S) /\ Len(u \o v) = m + n
      /\ \A i \in 1 .. m + n : (u \o v)[i] = IF i <= m THEN u[i] ELSE v[i - m]
  BY <1>1, ConcatProperties
<1>3. DOMAIN u = 1 .. m /\ DOMAIN v = 1 .. n /\ DOMAIN (u \o v) = 1 .. m + n
  BY <1>1, <1>2, LenProperties
<1>4. \A i \in 1 .. m : i \in 1 .. m + n /\ i <= m
  BY <1>1
<1>5. \A i \in 1 .. n : m + i \in 1 .. m + n /\ ~(m + i <= m) /\ (m + i) - m = i
  BY <1>1
<1>6. \A i \in 1 .. m : (u \o v)[i] = u[i]
  BY <1>2, <1>4
<1>7. \A i \in 1 .. n : (u \o v)[m + i] = v[i]
  BY <1>2, <1>5
<1>8. \A i \in 1 .. m + n : i \in 1 .. m \/ (i - m \in 1 .. n /\ i = m + (i - m))
  BY <1>1
<1>9. JoinedAt(u \o v, u, v, m, n)
  BY <1>3, <1>4, <1>5, <1>6, <1>7, <1>8 DEF JoinedAt
<1> QED
  BY <1>1, <1>2, <1>9 DEF Joined

LEMMA AppendIs ==
  ASSUME NEW S, NEW u \in Seq(S), NEW x \in S
  PROVE  Append(u, x) \in Seq(S) /\ Joined(Append(u, x), u, <<x>>)
<1>1. <<x>> \in Seq(S)
  OBVIOUS
<1> QED
  BY <1>1, ConcatIs, AppendIsConcat

------------------------------------------------------------------------------
(***************************************************************************)
(* What is flushed and dispatched has the same keystrokes in the same      *)
(* order.                                                                  *)
(***************************************************************************)
LEMMA LatestSplit ==
  ASSUME NEW S, NEW ks \in Seq(S), NEW m \in 1 .. Len(ks), NEW n \in 1 .. m
  PROVE  Joined(Latest(ks, m), SubSeq(Latest(ks, m), 1, n), Latest(ks, m - n))
<1>1. PICK N \in Nat : N = Len(ks)
  BY LenProperties
<1>2. PICK d : d = m - n
  OBVIOUS
<1>3. m \in 0 .. N /\ m \in Nat /\ n \in Nat /\ d \in Nat /\ d \in 0 .. N /\ n + d = m /\ m <= N /\ 1 <= n
  BY <1>1, <1>2
<1>4. PICK w : w = Latest(ks, m)
  OBVIOUS
<1>5. PICK v : v = Latest(ks, d)
  OBVIOUS
<1>6. w \in Seq(S) /\ Len(w) = m /\ \A i \in 1 .. m : w[i] = ks[N - m + i]
  BY <1>1, <1>3, <1>4, LatestIs
<1>7. v \in Seq(S) /\ Len(v) = d /\ \A i \in 1 .. d : v[i] = ks[N - d + i]
  BY <1>1, <1>3, <1>5, LatestIs
<1>8. PICK u : u = SubSeq(w, 1, n)
  OBVIOUS
<1>9. u \in Seq(S) /\ Len(u) = n /\ \A i \in 1 .. n : u[i] = w[i]
  <2>1. \A i \in 1 .. n : w[i] \in S
    BY <1>3, <1>6, LenProperties, ElementOfSeq
  <2>2. /\ SubSeq(w, 1, n) \in Seq(S)
        /\ Len(SubSeq(w, 1, n)) = IF 1 <= n THEN n - 1 + 1 ELSE 0
        /\ \A i \in 1 .. n - 1 + 1 : SubSeq(w, 1, n)[i] = w[1 + i - 1]
    BY <1>3, <2>1, SubSeqProperties
  <2>3. n - 1 + 1 = n /\ \A i \in 1 .. n : 1 + i - 1 = i
    BY <1>3
  <2> QED
    BY <1>3, <1>8, <2>2, <2>3
<1>10. DOMAIN u = 1 .. n /\ DOMAIN v = 1 .. d /\ DOMAIN w = 1 .. n + d
  BY <1>3, <1>6, <1>7, <1>9, LenProperties
<1>11. \A i \in 1 .. n : i \in 1 .. n + d
  BY <1>3
<1>12. \A i \in 1 .. d : n + i \in 1 .. n + d /\ N - m + (n + i) = N - d + i
  BY <1>1, <1>3
<1>13. \A i \in 1 .. n + d : i \in 1 .. n \/ (i - n \in 1 .. d /\ i = n + (i - n))
  BY <1>3
<1>14. \A i \in 1 .. d : w[n + i] = v[i]
  BY <1>3, <1>6, <1>7, <1>12
<1>15. JoinedAt(w, u, v, n, d)
  BY <1>9, <1>10, <1>11, <1>12, <1>13, <1>14 DEF JoinedAt
<1> QED
  BY <1>2, <1>3, <1>4, <1>5, <1>8, <1>15 DEF Joined

LEMMA LatestAll ==
  ASSUME NEW S, NEW ks \in Seq(S)
  PROVE  Latest(ks, Len(ks)) = ks /\ Latest(ks, 0) = <<>>
<1>1. PICK N \in Nat : N = Len(ks)
  BY LenProperties
<1>2. N \in 0 .. N /\ 0 \in 0 .. N /\ \A i \in 1 .. N : N - N + i = i
  BY <1>1
<1>3. Latest(ks, N) \in Seq(S) /\ Len(Latest(ks, N)) = N /\ \A i \in 1 .. N : Latest(ks, N)[i] = ks[i]
  <2>1. Len(ks) \in 0 .. Len(ks)
    BY <1>1
  <2>2. /\ Latest(ks, Len(ks)) \in Seq(S) /\ Len(Latest(ks, Len(ks))) = Len(ks)
        /\ \A i \in 1 .. Len(ks) : Latest(ks, Len(ks))[i] = ks[Len(ks) - Len(ks) + i]
    BY <2>1, LatestIs
  <2> QED
    BY <1>1, <1>2, <2>2
<1>4. Latest(ks, 0) \in Seq(S) /\ Len(Latest(ks, 0)) = 0
  BY <1>1, <1>2, LatestIs
<1> QED
  BY <1>1, <1>3, <1>4, SeqEqual, EmptySeq

LEMMA FlushDispatchIs ==
  ASSUME NEW km, NEW c, NEW S, NEW ks \in Seq(S)
  PROVE  /\ FlushDispatch(km, c, ks) \in Seq(Seq(S))
         /\ All(FlushDispatch(km, c, ks)) = Range(ks)
         /\ \A R : InOrder(R, ks) => ChunksInOrder(R, FlushDispatch(km, c, ks))
<1> DEFINE P(m) == PrefixLength(km, c, Latest(ks, m))
           C(m) == SubSeq(Latest(ks, m), 1, P(m))
<1>1. PICK N \in Nat : N = Len(ks)
  BY LenProperties
<1>2. PICK F : F = Flushed(km, c, ks)
  OBVIOUS
<1>3. /\ F \in [0 .. N -> Seq(Seq(S))] /\ F[0] = <<>>
      /\ \A m \in 1 .. N : F[m] = <<C(m)>> \o F[m - P(m)]
  BY <1>1, <1>2, FlushedIs
<1>4. ASSUME NEW m \in 1 .. N
      PROVE  P(m) \in 1 .. m /\ m - P(m) \in 0 .. m - 1 /\ C(m) \in Seq(S)
  BY <1>1, ChunkIs
<1>5. ASSUME NEW m \in 1 .. N
      PROVE  Joined(Latest(ks, m), C(m), Latest(ks, m - P(m)))
  <2>1. PICK n : n = P(m)
    OBVIOUS
  <2>2. n \in 1 .. m
    BY <1>4, <2>1
  <2>3. Joined(Latest(ks, m), SubSeq(Latest(ks, m), 1, n), Latest(ks, m - n))
    BY <1>1, <2>2, LatestSplit
  <2> QED
    BY <2>1, <2>3
<1> HIDE DEF P, C
<1> DEFINE Right(m) == /\ All(F[m]) = Range(Latest(ks, m))
                       /\ \A R : InOrder(R, Latest(ks, m)) => ChunksInOrder(R, F[m])
           G == {m \in 0 .. N : Right(m)}
<1>6. ASSUME NEW m \in 0 .. N, \A i \in 0 .. m - 1 : i \in G
      PROVE  m \in G
  <2>1. CASE m = 0
    <3>1. Latest(ks, m) = <<>> /\ F[m] = <<>>
      BY <1>3, <2>1, LatestAll
    <3> QED
      BY <3>1, Few
  <2>2. CASE m # 0
    <3>1. m \in 1 .. N
      BY <2>2
    <3>2. PICK i : i = m - P(m)
      OBVIOUS
    <3>3. i \in 0 .. m - 1 /\ i \in 0 .. N /\ C(m) \in Seq(S)
      BY <1>4, <3>1, <3>2
    <3>4. Right(i)
      BY <1>6, <3>3
    <3>5. F[i] \in Seq(Seq(S)) /\ <<C(m)>> \in Seq(Seq(S))
      BY <1>3, <3>3
    <3>6. PICK f : f = F[i]
      OBVIOUS
    <3>7. PICK ch : ch = <<C(m)>>
      OBVIOUS
    <3>8. F[m] = ch \o f
      BY <1>3, <3>1, <3>2, <3>6, <3>7
    <3>9. Joined(ch \o f, ch, f)
      BY <3>5, <3>6, <3>7, ConcatIs
    <3>10. Joined(Latest(ks, m), C(m), Latest(ks, i))
      BY <1>5, <3>1, <3>2
    <3>11. All(F[m]) = Range(C(m)) \cup Range(Latest(ks, i))
      <4>1. All(F[m]) = All(ch) \cup All(f)
        BY <3>8, <3>9, JoinedRange
      <4>2. All(ch) = Range(C(m))
        BY <3>7, Few
      <4> QED
        BY <3>4, <3>6, <4>1, <4>2
    <3>12. All(F[m]) = Range(Latest(ks, m))
      BY <3>10, <3>11, JoinedRange
    <3>13. ASSUME NEW R, InOrder(R, Latest(ks, m))
           PROVE  ChunksInOrder(R, F[m])
      <4>1. InOrder(R, C(m)) /\ InOrder(R, Latest(ks, i)) /\ Across(R, Range(C(m)), Range(Latest(ks, i)))
        BY <3>10, <3>13, JoinedInOrder
      <4>2. ChunksInOrder(R, f)
        BY <3>4, <3>6, <4>1
      <4>3. ChunksInOrder(R, ch)
        BY <3>7, <4>1, Few
      <4>4. All(ch) = Range(C(m)) /\ All(f) = Range(Latest(ks, i))
        BY <3>4, <3>6, <3>7, Few
      <4> QED
        BY <3>8, <3>9, <4>1, <4>2, <4>3, <4>4, JoinedChunks
    <3> QED
      BY <3>12, <3>13
  <2> QED
    BY <2>1, <2>2
<1>7. \A m \in 0 .. N : m \in G
  <2> HIDE DEF G
  <2> QED
    BY <1>1, <1>6, Upto
<1>8. N \in 0 .. N
  BY <1>1
<1>9. Right(N) /\ F[N] \in Seq(Seq(S))
  BY <1>3, <1>7, <1>8
<1>10. Latest(ks, N) = ks /\ FlushDispatch(km, c, ks) = F[N]
  BY <1>1, <1>2, LatestAll DEF FlushDispatch
<1> QED
  BY <1>9, <1>10

\* What is replayed comes before the rest.
DispatchOrdered(R, d) ==
  /\ ChunksInOrder(R, d.replay) /\ InOrder(R, d.pending) /\ InOrder(R, d.last)
  /\ Across(R, All(d.replay), Range(d.pending) \cup Range(d.last))

DispatchRight(S, ks, k, d) ==
  /\ d \in Dispatches(S)
  /\ d.pending = <<>> \/ d.last = <<>>
  /\ All(d.replay) \cup Range(d.pending) \cup Range(d.last) = Range(ks) \cup {k}
  /\ \A R : InOrder(R, ks) /\ Across(R, Range(ks), {k}) => DispatchOrdered(R, d)

LEMMA DispatchKeyIs ==
  ASSUME NEW km, NEW c, NEW S, NEW ks \in Seq(S), NEW k \in S
  PROVE  DispatchRight(S, ks, k, DispatchKey(km, c, ks, k))
<1> DEFINE P(m) == PrefixLength(km, c, Latest(ks, m))
           C(m) == SubSeq(Latest(ks, m), 1, P(m))
           A(m) == Append(Latest(ks, m), k)
           D == Dispatched(km, c, ks, k)
           N == Len(ks)
<1>1. N \in Nat
  BY LenProperties
<1>3. /\ D \in [0 .. N -> Dispatches(S)]
      /\ \A m \in 0 .. N :
           \/ D[m] = [replay |-> <<>>, pending |-> A(m), last |-> <<>>]
           \/ D[m] = [replay |-> <<>>, pending |-> <<>>, last |-> A(m)]
           \/ /\ m # 0
              /\ D[m] = [replay |-> <<C(m)>> \o D[m - P(m)].replay,
                         pending |-> D[m - P(m)].pending, last |-> D[m - P(m)].last]
  <2>1. DispatchSteps(D, km, c, ks, k) /\ D \in [0 .. N -> Dispatches(S)]
    BY DispatchedIs
  <2> HIDE DEF D
  <2> QED
    BY <2>1 DEF DispatchSteps
<1>4. ASSUME NEW m \in 1 .. N
      PROVE  P(m) \in 1 .. m /\ m - P(m) \in 0 .. m - 1 /\ C(m) \in Seq(S)
  BY <1>1, ChunkIs
<1>5. ASSUME NEW m \in 1 .. N
      PROVE  Joined(Latest(ks, m), C(m), Latest(ks, m - P(m)))
  <2>1. PICK n : n = P(m)
    OBVIOUS
  <2>2. n \in 1 .. m
    BY <1>4, <2>1
  <2>3. Joined(Latest(ks, m), SubSeq(Latest(ks, m), 1, n), Latest(ks, m - n))
    BY <1>1, <2>2, LatestSplit
  <2> QED
    BY <2>1, <2>3
<1>6. ASSUME NEW m \in 0 .. N
      PROVE  Joined(A(m), Latest(ks, m), <<k>>)
  BY <1>1, LatestIs, AppendIs
<1>61. Latest(ks, N) = ks /\ DispatchKey(km, c, ks, k) = D[N]
  BY LatestAll DEF DispatchKey
<1> HIDE DEF P, C, A, D, N
<1> DEFINE Sum(d) == All(d.replay) \cup Range(d.pending) \cup Range(d.last)
           Right(m) == /\ D[m].pending = <<>> \/ D[m].last = <<>>
                       /\ Sum(D[m]) = Range(Latest(ks, m)) \cup {k}
                       /\ \A R : InOrder(R, Latest(ks, m)) /\ Across(R, Range(Latest(ks, m)), {k})
                                   => DispatchOrdered(R, D[m])
           G == {m \in 0 .. N : Right(m)}
<1>7. ASSUME NEW m \in 0 .. N, NEW d, d = D[m], d.replay = <<>>,
             \/ d.pending = A(m) /\ d.last = <<>>
             \/ d.pending = <<>> /\ d.last = A(m)
      PROVE  Right(m)
  <2>1. Range(A(m)) = Range(Latest(ks, m)) \cup {k}
    BY <1>6, JoinedRange, Few
  <2>2. Sum(d) = Range(A(m))
    BY <1>7, Few
  <2>3. ASSUME NEW R, InOrder(R, Latest(ks, m)), Across(R, Range(Latest(ks, m)), {k})
        PROVE  DispatchOrdered(R, d)
    <3>1. InOrder(R, A(m))
      <4>1. Across(R, Range(Latest(ks, m)), Range(<<k>>)) /\ InOrder(R, <<k>>)
        BY <2>3, Few
      <4> QED
        BY <1>6, <2>3, <4>1, JoinedInOrder
    <3>2. Across(R, {}, Range(d.pending) \cup Range(d.last))
      BY DEF Across
    <3>3. ChunksInOrder(R, <<>>) /\ InOrder(R, <<>>) /\ All(<<>>) = {}
      BY Few
    <3> QED
      BY <1>7, <3>1, <3>2, <3>3 DEF DispatchOrdered
  <2> HIDE DEF Sum
  <2> QED
    BY <1>7, <2>1, <2>2, <2>3
<1>8. ASSUME NEW m \in 1 .. N, NEW i \in 0 .. N, i = m - P(m), Right(i),
             D[m] = [replay |-> <<C(m)>> \o D[i].replay, pending |-> D[i].pending, last |-> D[i].last]
      PROVE  Right(m)
  <2>1. PICK d : d = D[i]
    OBVIOUS
  <2>2. PICK e : e = D[m]
    OBVIOUS
  <2>3. PICK ch : ch = <<C(m)>>
    OBVIOUS
  <2>4. e.replay = ch \o d.replay /\ e.pending = d.pending /\ e.last = d.last
    BY <1>8, <2>1, <2>2, <2>3
  <2>5. d.replay \in Seq(Seq(S)) /\ ch \in Seq(Seq(S))
    <3>1. C(m) \in Seq(S) /\ D[i] \in Dispatches(S)
      BY <1>3, <1>4
    <3> QED
      BY <2>1, <2>3, <3>1 DEF Dispatches
  <2>6. Joined(e.replay, ch, d.replay)
    BY <2>4, <2>5, ConcatIs
  <2>7. Joined(Latest(ks, m), C(m), Latest(ks, i))
    BY <1>5, <1>8
  <2>8. All(ch) = Range(C(m))
    BY <2>3, Few
  <2>9. All(e.replay) = Range(C(m)) \cup All(d.replay)
    BY <2>6, <2>8, JoinedRange
  <2>10. Range(Latest(ks, m)) = Range(C(m)) \cup Range(Latest(ks, i))
    BY <2>7, JoinedRange
  <2>11. Sum(d) = Range(Latest(ks, i)) \cup {k}
    BY <1>8, <2>1
  <2>12. Sum(e) = Range(Latest(ks, m)) \cup {k}
    BY <2>4, <2>9, <2>10, <2>11
  <2>13. ASSUME NEW R, InOrder(R, Latest(ks, m)), Across(R, Range(Latest(ks, m)), {k})
         PROVE  DispatchOrdered(R, e)
    <3>1. InOrder(R, C(m)) /\ InOrder(R, Latest(ks, i)) /\ Across(R, Range(C(m)), Range(Latest(ks, i)))
      BY <2>7, <2>13, JoinedInOrder
    <3>2. Across(R, Range(Latest(ks, i)), {k}) /\ Across(R, Range(C(m)), {k})
      BY <2>10, <2>13 DEF Across
    <3>3. DispatchOrdered(R, d)
      BY <1>8, <2>1, <3>1, <3>2
    <3>4. Across(R, Range(C(m)), Sum(d))
      BY <2>11, <3>1, <3>2 DEF Across
    <3>5. ChunksInOrder(R, e.replay)
      <4>1. ChunksInOrder(R, ch)
        BY <2>3, <3>1, Few
      <4>2. Across(R, All(ch), All(d.replay))
        BY <2>8, <3>4 DEF Across
      <4> QED
        BY <2>6, <3>3, <4>1, <4>2, JoinedChunks DEF DispatchOrdered
    <3>6. Across(R, All(e.replay), Range(d.pending) \cup Range(d.last))
      BY <2>9, <3>3, <3>4 DEF Across, DispatchOrdered
    <3> QED
      BY <2>4, <3>3, <3>5, <3>6 DEF DispatchOrdered
  <2> HIDE DEF Sum
  <2> QED
    BY <1>8, <2>1, <2>2, <2>4, <2>12, <2>13
<1>9. ASSUME NEW m \in 0 .. N, \A i \in 0 .. m - 1 : i \in G
      PROVE  m \in G
  <2>1. CASE D[m] = [replay |-> <<>>, pending |-> A(m), last |-> <<>>]
    <3> HIDE DEF Right
    <3> QED
      BY <1>7, <2>1
  <2>2. CASE D[m] = [replay |-> <<>>, pending |-> <<>>, last |-> A(m)]
    <3> HIDE DEF Right
    <3> QED
      BY <1>7, <2>2
  <2>3. CASE /\ m # 0
             /\ D[m] = [replay |-> <<C(m)>> \o D[m - P(m)].replay,
                        pending |-> D[m - P(m)].pending, last |-> D[m - P(m)].last]
    <3>1. m \in 1 .. N
      BY <2>3
    <3>2. m - P(m) \in 0 .. m - 1 /\ \A i \in 0 .. m - 1 : i \in 0 .. N
      BY <1>1, <1>4, <3>1
    <3> HIDE DEF Right
    <3>3. Right(m - P(m))
      BY <1>9, <3>2
    <3> QED
      BY <1>8, <2>3, <3>1, <3>2, <3>3
  <2> QED
    BY <1>3, <2>1, <2>2, <2>3
<1>10. \A m \in 0 .. N : m \in G
  <2> HIDE DEF G
  <2> QED
    BY <1>1, <1>9, Upto
<1>11. N \in 0 .. N
  BY <1>1
<1>12. Right(N) /\ D[N] \in Dispatches(S)
  BY <1>3, <1>10, <1>11
<1> QED
  BY <1>12, <1>61 DEF DispatchRight

------------------------------------------------------------------------------
(***************************************************************************)
(* Calls, and the stack of them.                                           *)
(***************************************************************************)
KeySteps  == {"intercept", "stopped", "decided", "replay", "handle", "observe", "return"}
KeyFrames ==
  [op : {"key"}, step : KeySteps, key : Strokes, path : Contexts, timed : BOOLEAN, whole : BOOLEAN,
   replay : Seq(Seq(Strokes)), pending : Seq(Strokes), last : Seq(Strokes)]
TimerFrames == [op : {"timer"}, step : {"observe", "decided", "replay"}, replay : Seq(Seq(Strokes))]

LEMMA FramesAre ==
  /\ KeyFrames \subseteq Frames /\ TimerFrames \subseteq Frames
  /\ [op |-> "deferred", step |-> "observe"] \in Frames
  /\ \A f \in Frames : \/ f \in KeyFrames
                       \/ f \in TimerFrames
                       \/ f = [op |-> "deferred", step |-> "observe"]
BY DEF Frames, KeyFrames, TimerFrames, KeySteps

LEMMA KeyFrameIs ==
  ASSUME NEW f \in KeyFrames
  PROVE  /\ f.op = "key" /\ f.step \in KeySteps /\ f.key \in Strokes /\ f.path \in Contexts
         /\ f.timed \in BOOLEAN /\ f.whole \in BOOLEAN
         /\ f.replay \in Seq(Seq(Strokes)) /\ f.pending \in Seq(Strokes) /\ f.last \in Seq(Strokes)
BY DEF KeyFrames

LEMMA TimerFrameIs ==
  ASSUME NEW f \in TimerFrames
  PROVE  /\ f.op = "timer" /\ f.step \in {"observe", "decided", "replay"}
         /\ f.replay \in Seq(Seq(Strokes)) /\ DOMAIN f = {"op", "step", "replay"}
BY DEF TimerFrames

\* The kinds of calls, told apart by op.
LEMMA OpIs ==
  ASSUME NEW f \in Frames
  PROVE  /\ f.op \in {"key", "timer", "deferred"}
         /\ f.op = "key" => f \in KeyFrames
         /\ f.op = "timer" => f \in TimerFrames
         /\ f.op = "deferred" => f.step = "observe"
         /\ f.step \in {"intercept", "stopped", "handle", "return"} => f \in KeyFrames
         /\ f.step \in {"decided", "replay"} => f \in KeyFrames \cup TimerFrames
<1>1. CASE f \in KeyFrames
  BY <1>1, KeyFrameIs DEF KeySteps
<1>2. CASE f \in TimerFrames
  BY <1>2, TimerFrameIs
<1>3. CASE f = [op |-> "deferred", step |-> "observe"]
  BY <1>3
<1> QED
  BY <1>1, <1>2, <1>3, FramesAre

\* All but the innermost.
Outer(s) == SubSeq(s, 1, Len(s) - 1)

Replaced(s, t, f) ==
  /\ t # <<>> /\ Len(t) = Len(s) /\ DOMAIN t = DOMAIN s
  /\ Len(s) \in DOMAIN s /\ t[Len(s)] = f
  /\ \A i \in DOMAIN s : i \in Nat /\ i <= Len(s) /\ (i # Len(s) => t[i] = s[i])

LEMMA GotoIs ==
  ASSUME NEW S, NEW s \in Seq(S), Len(s) \in DOMAIN s, NEW f \in S, NEW t, t = Append(Outer(s), f)
  PROVE  t \in Seq(S) /\ Replaced(s, t, f)
<1>1. PICK N \in Nat : N = Len(s) /\ N >= 1
  BY LenProperties
<1>2. PICK M \in Nat : M = N - 1
  BY <1>1
<1>3. PICK u : u = SubSeq(s, 1, M)
  OBVIOUS
<1>4. u \in Seq(S) /\ Len(u) = M /\ \A i \in 1 .. M : u[i] = s[i]
  <2>1. \A i \in 1 .. M : s[i] \in S
    BY <1>1, <1>2, ElementOfSeq
  <2>2. /\ SubSeq(s, 1, M) \in Seq(S)
        /\ Len(SubSeq(s, 1, M)) = IF 1 <= M THEN M - 1 + 1 ELSE 0
        /\ \A i \in 1 .. M - 1 + 1 : SubSeq(s, 1, M)[i] = s[1 + i - 1]
    BY <1>2, <2>1, SubSeqProperties
  <2>3. M - 1 + 1 = M /\ (\A i \in 1 .. M : 1 + i - 1 = i) /\ (~(1 <= M) => M = 0)
    BY <1>2
  <2> QED
    BY <1>3, <2>2, <2>3
<1>5. t = Append(u, f)
  BY <1>1, <1>2, <1>3 DEF Outer
<1>6. /\ t \in Seq(S) /\ t # <<>> /\ Len(t) = M + 1
      /\ \A i \in 1 .. M : t[i] = u[i]
      /\ t[M + 1] = f
  BY <1>4, <1>5, AppendProperties
<1>7. M + 1 = N /\ \A i \in 1 .. N : i \in Nat /\ i <= N /\ (i # N => i \in 1 .. M)
  BY <1>1, <1>2
<1>8. DOMAIN s = 1 .. N /\ DOMAIN t = 1 .. N /\ N \in 1 .. N
  BY <1>1, <1>6, <1>7, LenProperties
<1> QED
  BY <1>1, <1>4, <1>6, <1>7, <1>8 DEF Replaced

Popped(s, t) ==
  /\ Len(t) = Len(s) - 1 /\ DOMAIN t = DOMAIN s \ {Len(s)}
  /\ Len(s) \in DOMAIN s /\ Len(s) \in Nat
  /\ \A i \in DOMAIN t : i \in Nat /\ i < Len(s) /\ t[i] = s[i]

LEMMA PopIs ==
  ASSUME NEW S, NEW s \in Seq(S), Len(s) \in DOMAIN s, NEW t, t = Outer(s)
  PROVE  t \in Seq(S) /\ Popped(s, t)
<1>1. PICK N \in Nat : N = Len(s) /\ N >= 1
  BY LenProperties
<1>2. PICK M \in Nat : M = N - 1
  BY <1>1
<1>3. t = SubSeq(s, 1, M)
  BY <1>1, <1>2 DEF Outer
<1>4. t \in Seq(S) /\ Len(t) = M /\ \A i \in 1 .. M : t[i] = s[i]
  <2>1. \A i \in 1 .. M : s[i] \in S
    BY <1>1, <1>2, ElementOfSeq
  <2>2. /\ SubSeq(s, 1, M) \in Seq(S)
        /\ Len(SubSeq(s, 1, M)) = IF 1 <= M THEN M - 1 + 1 ELSE 0
        /\ \A i \in 1 .. M - 1 + 1 : SubSeq(s, 1, M)[i] = s[1 + i - 1]
    BY <1>2, <2>1, SubSeqProperties
  <2>3. M - 1 + 1 = M /\ (\A i \in 1 .. M : 1 + i - 1 = i) /\ (~(1 <= M) => M = 0)
    BY <1>2
  <2> QED
    BY <1>3, <2>2, <2>3
<1>5. DOMAIN s = 1 .. N /\ DOMAIN t = 1 .. M
  BY <1>1, <1>4, LenProperties
<1>6. 1 .. M = (1 .. N) \ {N} /\ N \in 1 .. N /\ \A i \in 1 .. M : i \in Nat /\ i < N
  BY <1>1, <1>2
<1> QED
  BY <1>1, <1>2, <1>4, <1>5, <1>6 DEF Popped

LEMMA PushIs ==
  ASSUME NEW S, NEW s \in Seq(S), NEW f \in S, NEW t, t = Append(s, f)
  PROVE  /\ t \in Seq(S) /\ Len(t) = Len(s) + 1 /\ Len(s) \in Nat
         /\ DOMAIN t = DOMAIN s \cup {Len(s) + 1} /\ t[Len(s) + 1] = f
         /\ \A i \in DOMAIN s : i \in Nat /\ i <= Len(s) /\ t[i] = s[i]
<1>1. PICK N \in Nat : N = Len(s)
  BY LenProperties
<1>2. t \in Seq(S) /\ Len(t) = N + 1 /\ t[N + 1] = f /\ \A i \in 1 .. N : t[i] = s[i]
  BY <1>1, AppendProperties
<1>3. DOMAIN s = 1 .. N /\ DOMAIN t = 1 .. N + 1
  BY <1>1, <1>2, LenProperties
<1>4. 1 .. N + 1 = (1 .. N) \cup {N + 1} /\ \A i \in 1 .. N : i \in Nat /\ i <= N
  BY <1>1
<1> QED
  BY <1>1, <1>2, <1>3, <1>4

------------------------------------------------------------------------------
(***************************************************************************)
(* The order of everything, as calls come and go.                          *)
(***************************************************************************)
LEMMA OrderIs ==
  ASSUME NEW ns, NEW x \in Strokes, NEW y \in Strokes
  PROVE  <<x, y>> \in Order(ns) <=> x.n # y.n /\ (x.n \notin ns /\ y.n \notin ns => x.n < y.n)
BY DEF Order

LEMMA OrderedGrows ==
  ASSUME NEW ns, NEW ms, ns \subseteq ms, NEW h, NEW p, NEW s, Ordered(ns, h, p, s)
  PROVE  Ordered(ms, h, p, s)
<1>1. PICK R : R = Order(ns)
  OBVIOUS
<1>2. PICK Q : Q = Order(ms)
  OBVIOUS
<1>3. R \subseteq Q
  BY <1>1, <1>2 DEF Order
<1>4. \A ks : InOrder(R, ks) => InOrder(Q, ks)
  BY <1>3 DEF InOrder
<1>5. \A cs : ChunksInOrder(R, cs) => ChunksInOrder(Q, cs)
  BY <1>3 DEF ChunksInOrder
<1>6. \A A, B : Across(R, A, B) => Across(Q, A, B)
  BY <1>3 DEF Across
<1>7. \A f : FrameSorted(R, f) => FrameSorted(Q, f)
  BY <1>4, <1>5, <1>6 DEF FrameSorted
<1>8. \A A, f, b : Waits(ns, A, f, b) => Waits(ms, A, f, b)
  BY <1>1, <1>2, <1>3 DEF Waits
<1> QED
  BY <1>1, <1>2, <1>4, <1>5, <1>6, <1>7, <1>8 DEF Ordered

\* The innermost call, which held `held`, becomes f, as p becomes q and h
\* becomes g: it takes what is pending or lets go of what it holds.
Moved(ns, h, p, held, g, q, f, first) ==
  /\ All(h) \subseteq All(g) /\ All(g) \subseteq All(h) \cup held
  /\ Range(q) \cup Held(f) \subseteq Range(p) \cup held
  /\ ChunksInOrder(Order(ns), g) /\ InOrder(Order(ns), q) /\ FrameSorted(Order(ns), f)
  /\ Across(Order(ns), All(g), Range(q)) /\ Across(Order(ns), All(g), Held(f))
  /\ Waits(ns, Range(q), f, first)

\* The other calls wait for all of that as before.
LEMMA OrderedGoto ==
  ASSUME NEW ns, NEW h, NEW p, NEW s, NEW g, NEW q, NEW t, NEW f,
         Ordered(ns, h, p, s), Replaced(s, t, f), Len(s) \in Nat,
         Moved(ns, h, p, Held(s[Len(s)]), g, q, f, Len(s) = 1)
  PROVE  Ordered(ns, g, q, t)
<1> DEFINE L == Len(s)
<1>0. /\ All(g) \subseteq All(h) \cup Held(s[L])
      /\ Range(q) \cup Held(f) \subseteq Range(p) \cup Held(s[L])
      /\ ChunksInOrder(Order(ns), g) /\ InOrder(Order(ns), q) /\ FrameSorted(Order(ns), f)
      /\ Across(Order(ns), All(g), Range(q)) /\ Across(Order(ns), All(g), Held(f))
      /\ Waits(ns, Range(q), f, L = 1)
  BY DEF Moved
<1>00. /\ L \in Nat /\ DOMAIN t = DOMAIN s /\ L \in DOMAIN s /\ t[L] = f
       /\ \A i \in DOMAIN s : i \in Nat /\ i <= L /\ (i # L => t[i] = s[i])
  BY DEF Replaced
<1> HIDE DEF L
<1>1. ASSUME NEW i \in DOMAIN t
      PROVE  /\ FrameSorted(Order(ns), t[i])
             /\ Across(Order(ns), All(g), Held(t[i]))
             /\ Waits(ns, Range(q), t[i], i = 1)
  <2>1. CASE i = L
    BY <1>0, <1>00, <2>1
  <2>2. CASE i # L
    <3>1. i \in DOMAIN s /\ i < L /\ i # L /\ L \in DOMAIN s /\ t[i] = s[i]
      BY <1>00, <2>2
    <3>2. /\ FrameSorted(Order(ns), s[i])
          /\ Across(Order(ns), All(h), Held(s[i]))
          /\ Waits(ns, Range(p), s[i], i = 1)
          /\ Waits(ns, Held(s[L]), s[i], i = 1)
      BY <3>1 DEF Ordered
    <3>3. Across(Order(ns), All(g), Held(s[i]))
      BY <1>0, <3>2 DEF Across, Waits
    <3>4. Waits(ns, Range(q), s[i], i = 1)
      BY <1>0, <3>2 DEF Waits
    <3> QED
      BY <3>1, <3>2, <3>3, <3>4
  <2> QED
    BY <2>1, <2>2
<1>2. ASSUME NEW i \in DOMAIN t, NEW j \in DOMAIN t, i < j
      PROVE  Waits(ns, Held(t[j]), t[i], i = 1)
  <2>1. i \in DOMAIN s /\ j \in DOMAIN s /\ i < L /\ i # L /\ t[i] = s[i]
    BY <1>00, <1>2
  <2>2. Waits(ns, Held(s[j]), s[i], i = 1) /\ Waits(ns, Range(p), s[i], i = 1)
    BY <1>00, <1>2, <2>1 DEF Ordered
  <2>3. CASE j = L
    <3>1. Waits(ns, Held(t[L]), s[i], i = 1)
      BY <1>0, <1>00, <2>2, <2>3 DEF Waits
    <3> QED
      BY <2>1, <2>3, <3>1
  <2>4. CASE j # L
    BY <1>00, <2>1, <2>2, <2>4
  <2> QED
    BY <2>3, <2>4
<1> QED
  BY <1>0, <1>1, <1>2 DEF Ordered

\* A call begins.
LEMMA OrderedPush ==
  ASSUME NEW ns, NEW h, NEW p, NEW s, NEW q, NEW t, NEW N \in Nat, NEW f,
         Ordered(ns, h, p, s),
         DOMAIN t = DOMAIN s \cup {N + 1}, t[N + 1] = f,
         \A i \in DOMAIN s : i \in Nat /\ i <= N /\ t[i] = s[i],
         InOrder(Order(ns), q), Range(q) \subseteq Range(p),
         FrameSorted(Order(ns), f), Across(Order(ns), All(h), Held(f)),
         Waits(ns, Range(q), f, N + 1 = 1),
         \A i \in DOMAIN s : Waits(ns, Held(f), s[i], i = 1)
  PROVE  Ordered(ns, h, q, t)
<1>1. Across(Order(ns), All(h), Range(q)) /\ ChunksInOrder(Order(ns), h)
  BY DEF Ordered, Across
<1>2. ASSUME NEW i \in DOMAIN t
      PROVE  /\ FrameSorted(Order(ns), t[i])
             /\ Across(Order(ns), All(h), Held(t[i]))
             /\ Waits(ns, Range(q), t[i], i = 1)
  <2>1. CASE i = N + 1
    BY <2>1
  <2>2. CASE i \in DOMAIN s
    <3>1. /\ FrameSorted(Order(ns), s[i])
          /\ Across(Order(ns), All(h), Held(s[i]))
          /\ Waits(ns, Range(p), s[i], i = 1)
      BY <2>2 DEF Ordered
    <3>2. Waits(ns, Range(q), s[i], i = 1)
      BY <3>1 DEF Waits
    <3> QED
      BY <2>2, <3>1, <3>2
  <2> QED
    BY <2>1, <2>2
<1>3. ASSUME NEW i \in DOMAIN t, NEW j \in DOMAIN t, i < j
      PROVE  Waits(ns, Held(t[j]), t[i], i = 1)
  <2>1. i \in DOMAIN s /\ t[i] = s[i]
    <3>1. CASE i = N + 1 /\ j = N + 1
      BY <1>3, <3>1
    <3>2. CASE i = N + 1 /\ j \in DOMAIN s
      BY <1>3, <3>2
    <3> QED
      BY <3>1, <3>2
  <2>2. CASE j = N + 1
    BY <2>1, <2>2
  <2>3. CASE j \in DOMAIN s
    BY <1>3, <2>1, <2>3 DEF Ordered
  <2> QED
    BY <2>2, <2>3
<1> QED
  BY <1>1, <1>2, <1>3 DEF Ordered

\* Calls return, and what is pending is dropped.
LEMMA OrderedPop ==
  ASSUME NEW ns, NEW h, NEW p, NEW s, NEW q, NEW t,
         Ordered(ns, h, p, s),
         DOMAIN t \subseteq DOMAIN s, \A i \in DOMAIN t : t[i] = s[i],
         InOrder(Order(ns), q), Range(q) \subseteq Range(p)
  PROVE  Ordered(ns, h, q, t)
<1>1. Across(Order(ns), All(h), Range(q)) /\ ChunksInOrder(Order(ns), h)
  BY DEF Ordered, Across
<1>2. ASSUME NEW i \in DOMAIN t
      PROVE  /\ FrameSorted(Order(ns), t[i])
             /\ Across(Order(ns), All(h), Held(t[i]))
             /\ Waits(ns, Range(q), t[i], i = 1)
  <2>1. /\ FrameSorted(Order(ns), s[i])
        /\ Across(Order(ns), All(h), Held(s[i]))
        /\ Waits(ns, Range(p), s[i], i = 1)
    BY DEF Ordered
  <2>2. Waits(ns, Range(q), s[i], i = 1)
    BY <2>1 DEF Waits
  <2> QED
    BY <2>1, <2>2
<1>3. ASSUME NEW i \in DOMAIN t, NEW j \in DOMAIN t, i < j
      PROVE  Waits(ns, Held(t[j]), t[i], i = 1)
  BY <1>3 DEF Ordered
<1> QED
  BY <1>1, <1>2, <1>3 DEF Ordered

------------------------------------------------------------------------------
(***************************************************************************)
(* Keystrokes and their numbers.                                           *)
(***************************************************************************)
LEMMA RangeTypes ==
  ASSUME NEW S
  PROVE  /\ \A ks \in Seq(S) : Range(ks) \subseteq S
         /\ \A cs \in Seq(Seq(S)) : All(cs) \subseteq S
<1>1. ASSUME NEW T, NEW ks \in Seq(T)
      PROVE  Range(ks) \subseteq T
  <2>1. DOMAIN ks = 1 .. Len(ks)
    BY LenProperties
  <2>2. \A i \in 1 .. Len(ks) : ks[i] \in T
    BY ElementOfSeq
  <2> QED
    BY <2>1, <2>2 DEF Range
<1>2. ASSUME NEW cs \in Seq(Seq(S))
      PROVE  All(cs) \subseteq S
  <2>1. \A i \in DOMAIN cs : cs[i] \in Seq(S)
    BY <1>1 DEF Range
  <2>2. \A i \in DOMAIN cs : Range(cs[i]) \subseteq S
    BY <1>1, <2>1
  <2> QED
    BY <2>2 DEF All
<1> QED
  BY <1>1, <1>2

LEMMA NumbersAre ==
  /\ \A ks : Numbers(ks) = {x.n : x \in Range(ks)}
  /\ \A cs : InChunks(cs) = {x.n : x \in All(cs)}
<1>1. \A ks : Numbers(ks) = {x.n : x \in Range(ks)}
  BY DEF Numbers, Range
<1>2. ASSUME NEW cs
      PROVE  InChunks(cs) = {x.n : x \in All(cs)}
  <2>1. \A m : m \in InChunks(cs) <=> \E i \in DOMAIN cs : m \in Numbers(cs[i])
    BY DEF InChunks
  <2>2. \A i \in DOMAIN cs : \A m : m \in Numbers(cs[i]) <=> \E x \in Range(cs[i]) : m = x.n
    BY <1>1
  <2>3. \A x : x \in All(cs) <=> \E i \in DOMAIN cs : x \in Range(cs[i])
    BY DEF All
  <2> QED
    BY <2>1, <2>2, <2>3
<1> QED
  BY <1>1, <1>2

LEMMA HeldIs ==
  ASSUME NEW f \in Frames
  PROVE  /\ Held(f) \subseteq Strokes
         /\ f \in KeyFrames /\ f.step = "intercept" => Held(f) = {f.key}
         /\ f \in KeyFrames /\ f.step # "intercept" =>
              Held(f) = All(f.replay) \cup Range(f.pending) \cup Range(f.last)
         /\ f \in TimerFrames => Held(f) = All(f.replay)
         /\ f.op = "deferred" => Held(f) = {}
<1>1. CASE f \in KeyFrames
  <2>1. f.op = "key" /\ f \notin TimerFrames
    BY <1>1, KeyFrameIs, TimerFrameIs
  <2>2. CASE f.step = "intercept"
    <3>1. Held(f) = {f.key}
      BY <2>1, <2>2 DEF Held
    <3> QED
      BY <1>1, <2>1, <2>2, <3>1, KeyFrameIs
  <2>3. CASE f.step # "intercept"
    <3>1. Held(f) = All(f.replay) \cup Range(f.pending) \cup Range(f.last)
      BY <2>1, <2>3 DEF Held
    <3>2. All(f.replay) \subseteq Strokes /\ Range(f.pending) \subseteq Strokes /\ Range(f.last) \subseteq Strokes
      BY <1>1, KeyFrameIs, RangeTypes
    <3> QED
      BY <1>1, <2>1, <2>3, <3>1, <3>2
  <2> QED
    BY <2>2, <2>3
<1>2. CASE f \in TimerFrames
  <2>1. f.op = "timer" /\ f \notin KeyFrames
    BY <1>2, KeyFrameIs, TimerFrameIs
  <2>2. Held(f) = All(f.replay)
    BY <2>1 DEF Held
  <2>3. All(f.replay) \subseteq Strokes
    BY <1>2, TimerFrameIs, RangeTypes
  <2> QED
    BY <1>2, <2>1, <2>2, <2>3
<1>3. CASE f = [op |-> "deferred", step |-> "observe"]
  <2>1. f.op = "deferred"
    BY <1>3
  <2>2. Held(f) = {} /\ f \notin KeyFrames /\ f \notin TimerFrames
    BY <2>1, KeyFrameIs, TimerFrameIs DEF Held
  <2> QED
    BY <2>1, <2>2
<1> QED
  BY <1>1, <1>2, <1>3, FramesAre

HeldNumbers == {x.n : x \in HeldBy}

\* No two of the handled, the pending and the held are the same keystroke.
LEMMA Distinct ==
  ASSUME IInv
  PROVE  /\ HandledStrokes \cup Numbers(pending.keys) \cup HeldNumbers \subseteq 1 .. Len(typed)
         /\ HandledStrokes \cap Numbers(pending.keys) = {}
         /\ HandledStrokes \cap HeldNumbers = {}
         /\ Numbers(pending.keys) \cap HeldNumbers = {}
<1>1. HandledStrokes = {x.n : x \in All(handled)} /\ Numbers(pending.keys) = {x.n : x \in Range(pending.keys)}
  BY NumbersAre DEF HandledStrokes
<1>2. \A x \in All(handled) \cup Range(pending.keys) \cup HeldBy : x.n \in 1 .. Len(typed)
  <2>1. Len(typed) \in Nat
    BY LenProperties DEF IInv, TypeOK
  <2>2. \A x \in All(handled) \cup Range(pending.keys) \cup HeldBy : x \in Strokes /\ x.n <= Len(typed)
    BY DEF IInv, Known
  <2>3. \A x \in Strokes : x.n \in Nat /\ 1 <= x.n
    BY BoundAssumption DEF Strokes
  <2> QED
    BY <2>1, <2>2, <2>3
<1>3. \A x, y : <<x, y>> \in Order(nested) => x.n # y.n
  BY DEF Order
<1>4. Across(Order(nested), All(handled), Range(pending.keys))
  BY DEF IInv, Ordered
<1>5. \A x \in All(handled), y \in HeldBy : <<x, y>> \in Order(nested)
  BY DEF IInv, Ordered, Across, HeldBy
<1>6. \A x \in Range(pending.keys), y \in HeldBy : <<x, y>> \in Order(nested)
  BY DEF IInv, Ordered, Waits, HeldBy
<1>7. HandledStrokes \cup Numbers(pending.keys) \cup HeldNumbers \subseteq 1 .. Len(typed)
  BY <1>1, <1>2 DEF HeldNumbers
<1>8. HandledStrokes \cap Numbers(pending.keys) = {}
  BY <1>1, <1>3, <1>4 DEF Across
<1>9. HandledStrokes \cap HeldNumbers = {}
  BY <1>1, <1>3, <1>5 DEF HeldNumbers
<1>10. Numbers(pending.keys) \cap HeldNumbers = {}
  BY <1>1, <1>3, <1>6 DEF HeldNumbers
<1> QED
  BY <1>7, <1>8, <1>9, <1>10

\* Nothing is pending.
LEMMA NoInputIs ==
  /\ NoInput \in [keys : Seq(Strokes), focus : Contexts, timed : BOOLEAN, whole : BOOLEAN]
  /\ NoInput.keys = <<>> /\ Range(NoInput.keys) = {} /\ Numbers(NoInput.keys) = {}
  /\ \A R : InOrder(R, NoInput.keys)
<1>1. NoInput \in [keys : Seq(Strokes), focus : Contexts, timed : BOOLEAN, whole : BOOLEAN]
  BY DEF NoInput, Contexts
<1>2. NoInput.keys = <<>>
  BY DEF NoInput
<1>3. Range(<<>>) = {} /\ \A R : InOrder(R, <<>>)
  BY Few
<1>4. Numbers(<<>>) = {}
  BY DEF Numbers
<1> QED
  BY <1>1, <1>2, <1>3, <1>4

------------------------------------------------------------------------------
(***************************************************************************)
(* Each step keeps the invariant.                                          *)
(***************************************************************************)
LEMMA InitIInv == Init => IInv
<1> SUFFICES ASSUME Init
             PROVE  IInv
  OBVIOUS
<1>1. /\ keymap \in Keymaps /\ focus \in Contexts /\ pending = NoInput /\ notifyDue = FALSE
      /\ stack = <<>> /\ fuel = Fuel(keymap) /\ seen = <<>> /\ typed = <<>> /\ handled = <<>>
      /\ left = {} /\ nested = {} /\ consumed = {} /\ odd = {}
  BY DEF Init
<1>2. Len(typed) = 0 /\ DOMAIN stack = {}
  BY <1>1
<1>3. TypeOK
  <2>1. fuel \in 0 .. Fuel(keymap) /\ Len(typed) <= MaxTyped
    BY <1>1, <1>2, BoundAssumption
  <2>2. /\ stack \in Seq(Frames) /\ seen \in Seq(Strokes)
        /\ typed \in Seq(Keys) /\ handled \in Seq(Seq(Strokes))
    BY <1>1, EmptySeq
  <2>3. left \cup nested \cup consumed \subseteq 1 .. Len(typed) /\ odd \subseteq {"timeout", "blur", "nested"}
    BY <1>1
  <2> QED
    BY <1>1, <2>1, <2>2, <2>3, NoInputIs DEF TypeOK
<1>4. HeldBy = {} /\ All(handled) = {} /\ Range(pending.keys) = {}
  BY <1>1, <1>2, NoInputIs, Few DEF HeldBy
<1>5. Shapes /\ Overwritten
  BY <1>1, <1>2 DEF Shapes, Overwritten
<1>6. Known
  BY <1>4 DEF Known
<1>7. Ordered(nested, handled, pending.keys, stack)
  <2>1. ChunksInOrder(Order(nested), handled) /\ InOrder(Order(nested), pending.keys)
    BY <1>1, NoInputIs, Few
  <2>2. Across(Order(nested), All(handled), Range(pending.keys))
    BY <1>4 DEF Across
  <2> QED
    BY <1>2, <2>1, <2>2 DEF Ordered
<1>8. Dropped
  BY <1>1, NoInputIs DEF Dropped
<1>9. Accounted
  <2>1. 1 .. Len(typed) = {}
    BY <1>2
  <2> QED
    BY <2>1 DEF Accounted
<1>10. Told
  BY <1>1, <1>2, NoInputIs DEF Told
<1> QED
  BY <1>3, <1>5, <1>6, <1>7, <1>8, <1>9, <1>10 DEF IInv

\* What user code uses up.
LEMMA FuelIs ==
  ASSUME IInv, UserCode, UNCHANGED keymap
  PROVE  fuel' \in 0 .. Fuel(keymap')
<1>1. Fuel(keymap) \in Nat /\ fuel \in 0 .. Fuel(keymap)
  BY BoundAssumption DEF IInv, Shapes, TypeOK
<1>2. fuel > 0 /\ fuel' = fuel - 1
  BY DEF UserCode
<1> QED
  BY <1>1, <1>2

\* The focus moves, and what is pending is dropped, or stays to be left.
LEMMA MovesIs ==
  ASSUME IInv, NEW f \in Contexts, Moves(f),
         pending' = pending \/ pending' = NoInput,
         pending'.keys # <<>> => f = NoFocus /\ "blur" \in odd',
         notifyDue' \in BOOLEAN, odd \subseteq odd', odd' \subseteq {"timeout", "blur", "nested"},
         notifyDue' \/ "blur" \in odd'
  PROVE  IInv'
<1>1. /\ focus # f /\ focus' = f /\ left' = left \cup Numbers(pending.keys)
      /\ UNCHANGED <<keymap, stack, seen, typed, handled, nested, consumed>>
  BY DEF Moves
<1>2. /\ HandledStrokes \cup Numbers(pending.keys) \cup HeldNumbers \subseteq 1 .. Len(typed)
      /\ HandledStrokes \cap Numbers(pending.keys) = {}
      /\ Numbers(pending.keys) \cap HeldNumbers = {}
  BY Distinct
<1>3. HeldBy' = HeldBy /\ HandledStrokes' = HandledStrokes
  BY <1>1 DEF HeldBy, HandledStrokes
<1>4. Range(pending'.keys) \subseteq Range(pending.keys) /\ Numbers(pending'.keys) \subseteq Numbers(pending.keys)
  BY NoInputIs
<1>5. TypeOK'
  <2>1. fuel' \in 0 .. Fuel(keymap')
    BY <1>1, FuelIs DEF Moves
  <2>2. left' \cup nested' \cup consumed' \subseteq 1 .. Len(typed')
    BY <1>1, <1>2 DEF IInv, TypeOK
  <2>3. /\ pending' \in [keys : Seq(Strokes), focus : Contexts, timed : BOOLEAN, whole : BOOLEAN]
        /\ pending'.keys = <<>> => pending' = NoInput
    BY NoInputIs DEF IInv, TypeOK
  <2> QED
    BY <1>1, <2>1, <2>2, <2>3 DEF IInv, TypeOK
<1>6. Shapes'
  BY <1>1 DEF IInv, Shapes
<1>7. Known'
  BY <1>1, <1>3, <1>4 DEF IInv, Known
<1>8. Ordered(nested, handled, pending.keys, stack)'
  <2>1. InOrder(Order(nested), pending'.keys)
    BY NoInputIs DEF IInv, Ordered
  <2>2. Ordered(nested, handled, pending.keys, stack)
    BY DEF IInv
  <2>3. Ordered(nested, handled, pending'.keys, stack)
    BY <1>4, <2>1, <2>2, OrderedPop
  <2> QED
    BY <1>1, <2>3
<1>9. Dropped'
  <2>1. left' \cap (HandledStrokes' \cup {x.n : x \in HeldBy'}) = {}
    BY <1>1, <1>2, <1>3 DEF IInv, Dropped, HeldNumbers
  <2>2. ASSUME pending'.keys # <<>>
        PROVE  pending'.focus # focus' /\ focus' = NoFocus /\ Numbers(pending'.keys) \subseteq left' /\ "blur" \in odd'
    <3>1. pending' = pending /\ f = NoFocus /\ "blur" \in odd' /\ pending.keys # <<>>
      BY <2>2, NoInputIs
    <3>2. pending.focus = focus
      BY <1>1, <3>1 DEF IInv, Dropped
    <3> QED
      BY <1>1, <3>1, <3>2
  <2> QED
    BY <2>1, <2>2 DEF Dropped
<1>10. Accounted'
  BY <1>1, <1>3 DEF IInv, Accounted
<1>11. Overwritten'
  BY <1>1, <1>4 DEF IInv, Overwritten
<1>12. Told'
  BY <1>1 DEF IInv, Told
<1> QED
  BY <1>5, <1>6, <1>7, <1>8, <1>9, <1>10, <1>11, <1>12 DEF IInv

LEMMA FocusOnIInv == ASSUME IInv, NEW f \in Focuses, FocusOn(f) PROVE IInv'
<1>1. f \in Contexts /\ f # NoFocus
  BY FocusAssumption DEF Contexts
<1>2. Moves(f) /\ pending' = NoInput /\ notifyDue' = TRUE /\ odd' = odd
  BY DEF FocusOn
<1>3. odd' \subseteq {"timeout", "blur", "nested"}
  BY <1>2 DEF IInv, TypeOK
<1>4. pending'.keys = <<>>
  BY <1>2, NoInputIs
<1> QED
  BY <1>1, <1>2, <1>3, <1>4, MovesIs

LEMMA BlurIInv == ASSUME IInv, Blur PROVE IInv'
<1>1. NoFocus \in Contexts
  BY DEF Contexts
<1>2. Moves(NoFocus) /\ odd' = odd \cup {"blur"} /\ pending' = pending /\ notifyDue' = notifyDue
  BY DEF Blur
<1>3. odd' \subseteq {"timeout", "blur", "nested"} /\ notifyDue' \in BOOLEAN
  BY <1>2 DEF IInv, TypeOK
<1> QED
  BY <1>1, <1>2, <1>3, MovesIs

\* A call that begins is with the interceptors.
Beginning(k) ==
  [op |-> "key", step |-> "intercept", key |-> [n |-> Len(typed'), key |-> k], path |-> focus,
   timed |-> FALSE, whole |-> TRUE, replay |-> <<>>, pending |-> <<>>, last |-> <<>>]

LEMMA BeginIs ==
  ASSUME IInv, NEW k \in Keys, Begin(k),
         UNCHANGED <<keymap, focus, pending, notifyDue, seen, handled, left, consumed>>,
         nested' = nested \/ nested' = nested \cup {Len(typed')},
         stack = <<>> \/ Len(typed') \in nested',
         fuel' \in 0 .. Fuel(keymap'),
         odd \subseteq odd', odd' \subseteq {"timeout", "blur", "nested"},
         Observing => "nested" \in odd'
  PROVE  IInv'
<1> DEFINE f == Beginning(k)
<1>1. Len(typed) < MaxTyped /\ typed' = Append(typed, k) /\ stack' = Append(stack, f)
  BY DEF Begin, Beginning
<1>2. PICK N \in Nat : N = Len(stack)
  BY LenProperties DEF IInv, TypeOK
<1>3. /\ typed' \in Seq(Keys) /\ Len(typed') = Len(typed) + 1 /\ Len(typed) \in Nat
      /\ Len(typed') \in 1 .. MaxTyped
  <2>1. typed' \in Seq(Keys) /\ Len(typed') = Len(typed) + 1 /\ Len(typed) \in Nat
    BY <1>1, AppendProperties, LenProperties DEF IInv, TypeOK
  <2> QED
    BY <1>1, <2>1, BoundAssumption
<1>4. f \in KeyFrames /\ f \in Frames
  <2>1. [n |-> Len(typed'), key |-> k] \in Strokes
    BY <1>3 DEF Strokes
  <2>2. focus \in Contexts
    BY DEF IInv, TypeOK
  <2>3. f \in KeyFrames
    BY <2>1, <2>2 DEF Beginning, KeyFrames, KeySteps
  <2> QED
    BY <2>3, FramesAre
<1>5. f.op = "key" /\ f.step = "intercept" /\ f.replay = <<>> /\ f.pending = <<>> /\ f.last = <<>> /\ f.key.n = Len(typed')
  BY DEF Beginning
<1>6. Held(f) = {f.key} /\ f.key \in Strokes
  BY <1>4, <1>5, HeldIs, KeyFrameIs
<1> HIDE DEF f
<1>7. /\ stack' \in Seq(Frames) /\ Len(stack') = N + 1
      /\ DOMAIN stack' = DOMAIN stack \cup {N + 1} /\ stack'[N + 1] = f
      /\ \A i \in DOMAIN stack : i \in Nat /\ i <= N /\ stack'[i] = stack[i]
  <2>1. stack \in Seq(Frames)
    BY DEF IInv, TypeOK
  <2> QED
    BY <1>1, <1>2, <1>4, <2>1, PushIs
<1>8. HeldBy' = HeldBy \cup {f.key}
  <2>1. HeldBy' = UNION {Held(stack'[i]) : i \in DOMAIN stack'}
    BY DEF HeldBy
  <2>2. \A x : x \in HeldBy' <=> \E i \in DOMAIN stack' : x \in Held(stack'[i])
    BY <2>1
  <2>3. \A x : x \in HeldBy <=> \E i \in DOMAIN stack : x \in Held(stack[i])
    BY DEF HeldBy
  <2>4. \A x : x \in HeldBy' <=> x \in HeldBy \cup {f.key}
    BY <1>6, <1>7, <2>2, <2>3
  <2> QED
    BY <2>4
<1>9. \A x \in All(handled) \cup Range(pending.keys) \cup HeldBy : x \in Strokes /\ x.n < f.key.n
  <2>1. \A x \in All(handled) \cup Range(pending.keys) \cup HeldBy : x \in Strokes /\ x.n <= Len(typed)
    BY DEF IInv, Known
  <2>2. \A x \in Strokes : x.n \in Nat
    BY BoundAssumption DEF Strokes
  <2> QED
    BY <1>3, <1>5, <2>1, <2>2
<1>10. nested \subseteq nested'
  OBVIOUS
<1>11. N = 0 \/ f.key.n \in nested'
  BY <1>2, <1>5
<1>12. \A i \in DOMAIN stack : f.key.n \in nested'
  <2>1. stack = <<>> => DOMAIN stack = {}
    OBVIOUS
  <2> QED
    BY <1>5, <2>1
<1>13. TypeOK'
  <2>1. left' \cup nested' \cup consumed' \subseteq 1 .. Len(typed')
    BY <1>3 DEF IInv, TypeOK
  <2>2. Len(typed') <= MaxTyped
    BY <1>3, BoundAssumption
  <2> QED
    BY <1>3, <1>7, <2>1, <2>2 DEF IInv, TypeOK
<1>14. Shapes'
  <2>1. FrameOK(f)
    BY <1>5 DEF FrameOK
  <2> QED
    BY <1>7, <2>1 DEF IInv, Shapes
<1>15. Known'
  <2>1. \A x \in All(handled) \cup Range(pending.keys) \cup HeldBy : x \in Strokes /\ x.n <= Len(typed')
    <3>1. \A x \in Strokes : x.n \in Nat
      BY BoundAssumption DEF Strokes
    <3> QED
      BY <1>3, <1>5, <1>9, <3>1
  <2>2. f.key.n <= Len(typed')
    BY <1>3, <1>5
  <2> QED
    BY <1>6, <1>8, <2>1, <2>2 DEF Known
<1>16. Ordered(nested, handled, pending.keys, stack)'
  <2>1. Ordered(nested', handled, pending.keys, stack)
    BY <1>10, OrderedGrows DEF IInv
  <2>2. \A x \in All(handled) \cup Range(pending.keys) \cup HeldBy : <<x, f.key>> \in Order(nested')
    <3>1. \A x \in Strokes : x.n \in Nat
      BY BoundAssumption DEF Strokes
    <3>2. \A x \in All(handled) \cup Range(pending.keys) \cup HeldBy :
            x \in Strokes /\ x.n # f.key.n /\ x.n < f.key.n
      BY <1>6, <1>9, <3>1
    <3> QED
      BY <1>6, <3>2, OrderIs
  <2>3. FrameSorted(Order(nested'), f)
    <3>1. Across(Order(nested'), All(<<>>), Range(<<>>) \cup Range(<<>>))
      BY Few DEF Across
    <3> QED
      BY <1>5, <3>1, Few DEF FrameSorted
  <2>4. Across(Order(nested'), All(handled), Held(f))
    BY <1>6, <2>2 DEF Across
  <2>5. Waits(nested', Range(pending.keys), f, N + 1 = 1)
    BY <1>5, <1>6, <1>11, <2>2 DEF Waits
  <2>6. ASSUME NEW i \in DOMAIN stack
        PROVE  Waits(nested', Held(f), stack[i], i = 1)
    <3>1. \A y \in Held(stack[i]) : y \in HeldBy
      BY DEF HeldBy
    <3>2. \A y \in Held(stack[i]) : <<f.key, y>> \in Order(nested')
      <4>1. \A y \in Strokes : y.n \in Nat
        BY BoundAssumption DEF Strokes
      <4>2. f.key.n \in Nat
        BY <1>6, <4>1
      <4>3. \A y \in Held(stack[i]) : y \in Strokes /\ y.n # f.key.n
        BY <1>9, <3>1, <4>1, <4>2
      <4> QED
        BY <1>6, <1>12, <4>3, OrderIs
    <3> QED
      BY <1>6, <1>12, <3>2 DEF Waits
  <2>7. InOrder(Order(nested'), pending.keys)
    BY <2>1 DEF Ordered
  <2>8. Ordered(nested', handled, pending.keys, stack')
    BY <1>7, <2>1, <2>3, <2>4, <2>5, <2>6, <2>7, OrderedPush
  <2> QED
    BY <2>8
<1>17. Dropped'
  <2>1. left \subseteq 1 .. Len(typed)
    BY DEF IInv, TypeOK
  <2>2. f.key.n \notin left
    BY <1>3, <1>5, <2>1
  <2>3. HandledStrokes' = HandledStrokes
    BY DEF HandledStrokes
  <2> QED
    BY <1>8, <2>2, <2>3 DEF IInv, Dropped
<1>18. Accounted'
  <2>1. HandledStrokes' = HandledStrokes
    BY DEF HandledStrokes
  <2>2. 1 .. Len(typed') = (1 .. Len(typed)) \cup {f.key.n}
    BY <1>3, <1>5
  <2>3. \A n \in 1 .. Len(typed) :
          n \in HandledStrokes \cup consumed \cup Numbers(pending.keys) \cup {x.n : x \in HeldBy} \cup left \cup nested
    BY DEF IInv, Accounted
  <2> QED
    BY <1>8, <1>10, <2>1, <2>2, <2>3 DEF Accounted
<1>19. Overwritten'
  <2>1. ~Deciding(f)
    BY <1>5 DEF Deciding
  <2>2. \A x \in Held(f) : \A i \in DOMAIN stack : x.n \in nested'
    BY <1>6, <1>12
  <2> QED
    BY <1>7, <1>10, <2>1, <2>2 DEF IInv, Overwritten
<1>20. Told'
  <2>1. ASSUME NEW i \in DOMAIN stack', i < Len(stack'), stack'[i].step = "observe"
        PROVE  "nested" \in odd'
    <3>1. i \in DOMAIN stack
      BY <1>7, <2>1
    <3> QED
      BY <1>7, <2>1, <3>1 DEF Observing
  <2>2. ASSUME odd' \cap {"blur", "nested"} = {}
        PROVE  seen' = pending'.keys \/ notifyDue' \/ \E i \in DOMAIN stack' : Tells(stack'[i])
    <3>1. seen = pending.keys \/ notifyDue \/ \E i \in DOMAIN stack : Tells(stack[i])
      BY <2>2 DEF IInv, Told
    <3> QED
      BY <1>7, <3>1
  <2> QED
    BY <2>1, <2>2 DEF Told
<1> QED
  BY <1>13, <1>14, <1>15, <1>16, <1>17, <1>18, <1>19, <1>20 DEF IInv

LEMMA TypeIInv == ASSUME IInv, NEW k \in Keys, Type(k) PROVE IInv'
<1>1. /\ stack = <<>> /\ Begin(k)
      /\ UNCHANGED <<keymap, focus, pending, notifyDue, fuel, seen, handled, left, nested, consumed, odd>>
  BY DEF Type, Idle, inputVars, logVars
<1>2. fuel' \in 0 .. Fuel(keymap') /\ odd' \subseteq {"timeout", "blur", "nested"} /\ odd \subseteq odd'
  BY <1>1 DEF IInv, TypeOK
<1>3. ~Observing
  BY <1>1 DEF Observing
<1> QED
  BY <1>1, <1>2, <1>3, BeginIs

LEMMA DispatchKeystrokeIInv == ASSUME IInv, NEW k \in Keys, DispatchKeystroke(k) PROVE IInv'
<1>1. /\ UserCode /\ Begin(k) /\ nested' = nested \cup {Len(typed')}
      /\ odd' = IF Observing THEN odd \cup {"nested"} ELSE odd
      /\ UNCHANGED <<keymap, focus, pending, notifyDue, seen, handled, left, consumed>>
  BY DEF DispatchKeystroke, inputVars
<1>2. fuel' \in 0 .. Fuel(keymap')
  BY <1>1, FuelIs
<1>3. odd' \subseteq {"timeout", "blur", "nested"} /\ odd \subseteq odd' /\ (Observing => "nested" \in odd')
  BY <1>1 DEF IInv, TypeOK
<1> QED
  BY <1>1, <1>2, <1>3, BeginIs

LEMMA TopIs ==
  ASSUME IInv, stack # <<>>
  PROVE  /\ Len(stack) \in DOMAIN stack /\ Len(stack) \in Nat /\ Top \in Frames
         /\ stack \in Seq(Frames) /\ FrameOK(Top) /\ Held(Top) \subseteq HeldBy
         /\ FrameSorted(Order(nested), Top)
         /\ Waits(nested, Range(pending.keys), Top, Len(stack) = 1)
         /\ Across(Order(nested), All(handled), Held(Top))
<1>1. stack \in Seq(Frames)
  BY DEF IInv, TypeOK
<1>2. Len(stack) \in 1 .. Len(stack) /\ DOMAIN stack = 1 .. Len(stack) /\ Len(stack) \in Nat
  BY <1>1, EmptySeq, LenProperties
<1>3. stack[Len(stack)] \in Frames
  BY <1>1, <1>2, ElementOfSeq
<1>4. FrameOK(stack[Len(stack)])
  BY <1>2 DEF IInv, Shapes
<1>5. Held(stack[Len(stack)]) \subseteq HeldBy
  BY <1>2 DEF HeldBy
<1>6. /\ FrameSorted(Order(nested), stack[Len(stack)])
      /\ Waits(nested, Range(pending.keys), stack[Len(stack)], Len(stack) = 1)
      /\ Across(Order(nested), All(handled), Held(stack[Len(stack)]))
  BY <1>2 DEF IInv, Ordered
<1> QED
  BY <1>1, <1>2, <1>3, <1>4, <1>5, <1>6 DEF Top

\* A call returns, with nothing to tell and nothing left to hold.
LEMMA UnderIs ==
  ASSUME IInv, stack # <<>>, stack' = Under, ~Tells(Top),
         UNCHANGED <<keymap, focus, pending, notifyDue, fuel, seen, typed, handled, left, nested, odd>>,
         consumed \subseteq consumed', consumed' \subseteq 1 .. Len(typed),
         \A x \in Held(Top) : x.n \in consumed'
  PROVE  IInv'
<1>1. /\ stack' \in Seq(Frames) /\ Len(stack') = Len(stack) - 1 /\ DOMAIN stack' = DOMAIN stack \ {Len(stack)}
      /\ Len(stack) \in DOMAIN stack /\ Len(stack) \in Nat
      /\ \A i \in DOMAIN stack' : i \in Nat /\ i < Len(stack) /\ stack'[i] = stack[i]
  <2>1. stack \in Seq(Frames)
    BY DEF IInv, TypeOK
  <2>2. stack' = Outer(stack)
    BY DEF Under, Outer
  <2>3. Len(stack) \in DOMAIN stack
    BY TopIs
  <2>4. stack' \in Seq(Frames) /\ Popped(stack, stack')
    BY <2>1, <2>2, <2>3, PopIs
  <2> QED
    BY <2>4 DEF Popped
<1>2. /\ \A i \in DOMAIN stack' : i \in DOMAIN stack /\ stack'[i] = stack[i]
      /\ \A i \in DOMAIN stack : i \in DOMAIN stack' \/ i = Len(stack)
  BY <1>1
<1>3. \A x : x \in HeldBy' <=> \E i \in DOMAIN stack' : x \in Held(stack'[i])
  BY DEF HeldBy
<1>4. \A x : x \in HeldBy <=> \E i \in DOMAIN stack : x \in Held(stack[i])
  BY DEF HeldBy
<1>5. HeldBy' \subseteq HeldBy /\ \A x \in HeldBy : x \in HeldBy' \/ x.n \in consumed'
  BY <1>2, <1>3, <1>4 DEF Top
<1>6. TypeOK'
  <2>1. left' \cup nested' \cup consumed' \subseteq 1 .. Len(typed')
    BY DEF IInv, TypeOK
  <2> QED
    BY <1>1, <2>1 DEF IInv, TypeOK
<1>7. Shapes'
  BY <1>2 DEF IInv, Shapes
<1>8. Known'
  BY <1>5 DEF IInv, Known
<1>9. Ordered(nested, handled, pending.keys, stack)'
  <2>1. Ordered(nested, handled, pending.keys, stack) /\ InOrder(Order(nested), pending.keys)
    BY DEF IInv, Ordered
  <2>2. Ordered(nested, handled, pending.keys, stack')
    BY <1>2, <2>1, OrderedPop
  <2> QED
    BY <2>2
<1>10. HandledStrokes' = HandledStrokes
  BY DEF HandledStrokes
<1>11. Dropped'
  BY <1>5, <1>10 DEF IInv, Dropped
<1>12. Accounted'
  BY <1>5, <1>10 DEF IInv, Accounted
<1>13. Overwritten'
  BY <1>2 DEF IInv, Overwritten
<1>14. Told'
  <2>1. ASSUME NEW i \in DOMAIN stack', stack'[i].step = "observe"
        PROVE  "nested" \in odd'
    BY <1>1, <1>2, <2>1 DEF IInv, Told
  <2>2. ASSUME odd' \cap {"blur", "nested"} = {}
        PROVE  seen' = pending'.keys \/ notifyDue' \/ \E i \in DOMAIN stack' : Tells(stack'[i])
    <3>1. seen = pending.keys \/ notifyDue \/ \E i \in DOMAIN stack : Tells(stack[i])
      BY <2>2 DEF IInv, Told
    <3>2. \A i \in DOMAIN stack : Tells(stack[i]) => i \in DOMAIN stack'
      BY <1>2 DEF Top
    <3> QED
      BY <1>2, <3>1, <3>2
  <2> QED
    BY <2>1, <2>2 DEF Told
<1> QED
  BY <1>6, <1>7, <1>8, <1>9, <1>11, <1>12, <1>13, <1>14 DEF IInv

LEMMA ReturnIInv == ASSUME IInv, Return PROVE IInv'
<1>1. /\ stack' = Under
      /\ UNCHANGED <<keymap, focus, pending, notifyDue, fuel, seen, typed, handled, left, nested, consumed, odd>>
  BY DEF Return, inputVars, ghostVars, logVars
<1>2. stack # <<>> /\ (\/ Top.step \in {"return", "stopped"}
                       \/ Top.step = "observe" /\ Top.op # "timer"
                       \/ Top.op = "timer" /\ Top.step \in {"decided", "replay"} /\ Top.replay = <<>>)
  BY DEF Return, In, Replayed
<1>3. Top \in Frames /\ FrameOK(Top)
  BY <1>2, TopIs
<1>4. CASE Top.op = "deferred"
  BY <1>1, <1>2, <1>3, <1>4, HeldIs, UnderIs DEF Tells, IInv, TypeOK
<1>5. CASE Top.op = "key"
  <2>1. Top \in KeyFrames /\ Top.step \in {"return", "stopped", "observe"}
    BY <1>2, <1>3, <1>5, OpIs
  <2>2. Top.replay = <<>> /\ Top.pending = <<>> /\ Top.last = <<>>
    BY <1>3, <1>5, <2>1 DEF FrameOK
  <2>3. Held(Top) = {}
    BY <1>3, <2>1, <2>2, HeldIs, Few
  <2>4. ~Tells(Top)
    BY <2>1 DEF Tells
  <2> QED
    BY <1>1, <1>2, <2>3, <2>4, UnderIs DEF IInv, TypeOK
<1>6. CASE Top.op = "timer"
  <2>1. Top \in TimerFrames
    BY <1>3, <1>6, OpIs
  <2>2. Top.replay = <<>>
    BY <1>2, <1>6, <2>1, TimerFrameIs
  <2>3. Held(Top) = {} /\ ~Tells(Top)
    BY <1>3, <1>6, <2>1, <2>2, HeldIs, Few DEF Tells
  <2> QED
    BY <1>1, <1>2, <2>3, UnderIs DEF IInv, TypeOK
<1> QED
  BY <1>3, <1>4, <1>5, <1>6, OpIs

\* The innermost call goes on: it takes what is pending, handles some of what
\* it holds, has some of it pending instead of what was, or leaves its key to
\* an interceptor.
TopBecomes(f) ==
  /\ stack # <<>> /\ f \in Frames /\ stack' = Append(Under, f)
  /\ UNCHANGED <<keymap, focus, notifyDue, fuel, typed, left, nested, odd>>
  /\ \/ consumed' = consumed
     \/ consumed' = consumed \cup {Top.key.n} /\ Held(Top) = {Top.key}
  /\ pending' \in [keys : Seq(Strokes), focus : Contexts, timed : BOOLEAN, whole : BOOLEAN]
  /\ pending'.keys = <<>> => pending' = NoInput
  /\ seen' \in Seq(Strokes) /\ handled' \in Seq(Seq(Strokes)) /\ FrameOK(f)
  /\ Moved(nested, handled, pending.keys, Held(Top), handled', pending'.keys, f, Len(stack) = 1)
  /\ \A x \in Held(f) : x \in Held(Top) \/ x.n \notin left
  /\ \/ pending' = pending
     \/ pending' = NoInput
     \/ pending'.focus = focus /\ Range(pending'.keys) \subseteq Held(Top)
  /\ \A x \in Range(pending.keys) \cup Held(Top) :
       x \in All(handled') \cup Range(pending'.keys) \cup Held(f) \/ x.n \in left \cup nested \cup consumed'
  /\ Deciding(f) => Numbers(pending'.keys) \subseteq nested \cup left
  /\ Tells(f) \/ seen' = pending'.keys \/ "nested" \in odd
       \/ (~Tells(Top) /\ seen' = seen /\ pending' = pending)

LEMMA TopChanges == ASSUME IInv, NEW f, TopBecomes(f) PROVE IInv'
<1> USE DEF TopBecomes
<1> DEFINE L == Len(stack)
<1>1. /\ L \in DOMAIN stack /\ L \in Nat /\ Top \in Frames /\ stack \in Seq(Frames)
      /\ Held(Top) \subseteq HeldBy /\ Top = stack[L]
  BY TopIs DEF Top
<1>2. stack' \in Seq(Frames) /\ Replaced(stack, stack', f)
  <2>1. stack' = Append(Outer(stack), f)
    BY DEF Under, Outer
  <2> QED
    BY <1>1, <2>1, GotoIs
<1>3. /\ Len(stack') = L /\ DOMAIN stack' = DOMAIN stack /\ stack'[L] = f
      /\ \A i \in DOMAIN stack : i \in Nat /\ i <= L /\ (i # L => stack'[i] = stack[i])
  BY <1>2 DEF Replaced
<1>4. \A x : x \in HeldBy' <=> \E i \in DOMAIN stack' : x \in Held(stack'[i])
  BY DEF HeldBy
<1>5. \A x : x \in HeldBy <=> \E i \in DOMAIN stack : x \in Held(stack[i])
  BY DEF HeldBy
<1> HIDE DEF L
<1>6. /\ \A x \in HeldBy' : x \in Held(f) \/ x \in HeldBy
      /\ \A x \in HeldBy : x \in Held(Top) \/ x \in HeldBy'
      /\ \A x \in Held(f) : x \in HeldBy'
  BY <1>1, <1>3, <1>4, <1>5
<1>70. /\ All(handled) \subseteq All(handled') /\ All(handled') \subseteq All(handled) \cup Held(Top)
       /\ Range(pending'.keys) \cup Held(f) \subseteq Range(pending.keys) \cup Held(Top)
  BY DEF Moved
<1>7. All(handled) \subseteq All(handled') /\ \A x \in All(handled') : x \in All(handled) \/ x \in HeldBy
  BY <1>1, <1>70
<1>8. /\ HandledStrokes = {x.n : x \in All(handled)} /\ HandledStrokes' = {x.n : x \in All(handled')}
      /\ Numbers(pending.keys) = {x.n : x \in Range(pending.keys)}
      /\ Numbers(pending'.keys) = {x.n : x \in Range(pending'.keys)}
  BY NumbersAre DEF HandledStrokes
<1>80. consumed \subseteq consumed' /\ consumed' \subseteq 1 .. Len(typed)
  <2>1. consumed \subseteq 1 .. Len(typed)
    BY DEF IInv, TypeOK
  <2>2. CASE consumed' = consumed
    BY <2>1, <2>2
  <2>3. CASE consumed' = consumed \cup {Top.key.n} /\ Held(Top) = {Top.key}
    <3>1. Top.key.n \in HeldNumbers
      BY <1>1, <2>3 DEF HeldNumbers
    <3> QED
      BY <2>1, <2>3, <3>1, Distinct
  <2> QED
    BY <2>2, <2>3
<1>9. TypeOK'
  <2>1. left' \cup nested' \cup consumed' \subseteq 1 .. Len(typed')
    BY <1>80 DEF IInv, TypeOK
  <2> QED
    BY <1>2, <2>1 DEF IInv, TypeOK
<1>10. Shapes'
  BY <1>3 DEF IInv, Shapes
<1>11. Known'
  <2>1. \A x \in All(handled) \cup Range(pending.keys) \cup HeldBy : x \in Strokes /\ x.n <= Len(typed)
    BY DEF IInv, Known
  <2>2. \A x \in All(handled') \cup Range(pending'.keys) \cup HeldBy' :
          x \in All(handled) \cup Range(pending.keys) \cup HeldBy
    BY <1>1, <1>6, <1>7, <1>70
  <2> QED
    BY <2>1, <2>2 DEF Known
<1>12. Ordered(nested, handled, pending.keys, stack)'
  <2>1. Ordered(nested, handled, pending.keys, stack)
    BY DEF IInv
  <2>2. Moved(nested, handled, pending.keys, Held(stack[Len(stack)]), handled', pending'.keys, f, Len(stack) = 1)
    BY DEF Top
  <2>3. Len(stack) \in Nat
    BY TopIs
  <2>5. Ordered(nested, handled', pending'.keys, stack')
    BY <1>2, <2>1, <2>2, <2>3, OrderedGoto
  <2> QED
    BY <2>5
<1>13. Dropped'
  <2>1. left \cap (HandledStrokes \cup {x.n : x \in HeldBy}) = {}
    BY DEF IInv, Dropped
  <2>2. \A x \in HeldBy' : x.n \notin left
    BY <1>1, <1>6, <2>1
  <2>3. \A x \in All(handled') : x.n \notin left
    BY <1>7, <1>8, <2>1
  <2>4. left' \cap (HandledStrokes' \cup {x.n : x \in HeldBy'}) = {}
    BY <1>8, <2>2, <2>3
  <2>5. CASE pending' = pending
    BY <2>4, <2>5 DEF IInv, Dropped
  <2>6. CASE pending' = NoInput
    BY <2>4, <2>6, NoInputIs DEF Dropped
  <2>7. CASE pending'.focus = focus /\ Range(pending'.keys) \subseteq Held(Top)
    <3>1. left \cap Numbers(pending'.keys) = {}
      BY <1>1, <1>8, <2>1, <2>7
    <3> QED
      BY <2>4, <2>7, <3>1 DEF Dropped
  <2> QED
    BY <2>5, <2>6, <2>7
<1>14. Accounted'
  <2> SUFFICES ASSUME NEW n \in 1 .. Len(typed)
               PROVE  n \in HandledStrokes' \cup consumed' \cup Numbers(pending'.keys)
                              \cup {x.n : x \in HeldBy'} \cup left \cup nested
    BY DEF Accounted
  <2>1. n \in HandledStrokes \cup consumed \cup Numbers(pending.keys) \cup {x.n : x \in HeldBy} \cup left \cup nested
    BY DEF IInv, Accounted
  <2>2. ASSUME n \in HandledStrokes
        PROVE  n \in HandledStrokes' \cup Numbers(pending'.keys) \cup {x.n : x \in HeldBy'} \cup left \cup nested \cup consumed'
    BY <1>7, <1>8, <2>2
  <2>3. ASSUME NEW x \in Range(pending.keys) \cup Held(Top), n = x.n
        PROVE  n \in HandledStrokes' \cup Numbers(pending'.keys) \cup {y.n : y \in HeldBy'} \cup left \cup nested \cup consumed'
    BY <1>6, <1>8, <2>3
  <2>4. ASSUME NEW x \in HeldBy, n = x.n
        PROVE  n \in HandledStrokes' \cup Numbers(pending'.keys) \cup {y.n : y \in HeldBy'} \cup left \cup nested \cup consumed'
    BY <1>6, <2>3, <2>4
  <2> QED
    BY <1>8, <1>80, <2>1, <2>2, <2>3, <2>4
<1>15. Overwritten'
  <2> SUFFICES ASSUME NEW i \in DOMAIN stack', Deciding(stack'[i])
               PROVE  /\ Numbers(pending'.keys) \subseteq nested \cup left
                      /\ \A j \in DOMAIN stack' : j > i => \A x \in Held(stack'[j]) : x.n \in nested
    BY DEF Overwritten
  <2>1. CASE i = L
    <3>1. \A j \in DOMAIN stack' : ~(j > i)
      BY <1>1, <1>3, <2>1
    <3> QED
      BY <1>3, <2>1, <3>1
  <2>2. CASE i # L
    <3>1. i \in DOMAIN stack /\ L > i /\ stack'[i] = stack[i]
      BY <1>1, <1>3, <2>2
    <3>2. /\ Numbers(pending.keys) \subseteq nested \cup left
          /\ \A j \in DOMAIN stack : j > i => \A x \in Held(stack[j]) : x.n \in nested
      BY <3>1 DEF IInv, Overwritten
    <3>3. \A x \in Held(Top) : x.n \in nested
      BY <1>1, <3>1, <3>2
    <3>4. Numbers(pending'.keys) \subseteq nested \cup left
      BY <1>8, <1>70, <3>2, <3>3
    <3>5. \A x \in Held(f) : x.n \in nested
      BY <1>8, <1>70, <3>2, <3>3
    <3> QED
      BY <1>3, <3>2, <3>4, <3>5
  <2> QED
    BY <2>1, <2>2
<1>16. Told'
  <2>1. ASSUME NEW i \in DOMAIN stack', i < Len(stack'), stack'[i].step = "observe"
        PROVE  "nested" \in odd'
    <3>1. i \in DOMAIN stack /\ i < Len(stack) /\ stack'[i] = stack[i]
      BY <1>1, <1>3, <2>1 DEF L
    <3> QED
      BY <2>1, <3>1 DEF IInv, Told
  <2>2. ASSUME odd' \cap {"blur", "nested"} = {}
        PROVE  seen' = pending'.keys \/ notifyDue' \/ \E i \in DOMAIN stack' : Tells(stack'[i])
    <3>1. seen = pending.keys \/ notifyDue \/ \E i \in DOMAIN stack : Tells(stack[i])
      BY <2>2 DEF IInv, Told
    <3>2. CASE Tells(f)
      BY <1>1, <1>3, <3>2
    <3>3. CASE ~Tells(Top) /\ seen' = seen /\ pending' = pending
      BY <1>1, <1>3, <3>1, <3>3
    <3> QED
      BY <2>2, <3>2, <3>3
  <2> QED
    BY <2>1, <2>2 DEF Told
<1> QED
  BY <1>9, <1>10, <1>11, <1>12, <1>13, <1>14, <1>15, <1>16 DEF IInv

\* What is pending and not taken was left.
LEMMA LeftOrFocused ==
  ASSUME IInv
  PROVE  IF pending.focus \notin {NoFocus, focus} THEN Numbers(pending.keys) \subseteq left
                                                  ELSE left \cap Numbers(pending.keys) = {}
<1>1. CASE pending.keys = <<>>
  <2>1. Numbers(pending.keys) = {}
    BY <1>1, NumbersAre, Few
  <2> QED
    BY <2>1
<1>2. CASE pending.keys # <<>>
  BY <1>2 DEF IInv, Dropped
<1> QED
  BY <1>1, <1>2

LEMMA DispatchStrokeIInv == ASSUME IInv, DispatchStroke PROVE IInv'
<1> DEFINE cur == IF pending.focus \notin {NoFocus, focus} THEN NoInput ELSE pending
           r == DispatchKey(keymap, Top.path, cur.keys, Top.key)
<1>1. /\ stack # <<>> /\ Top.step = "intercept" /\ pending' = NoInput
      /\ UNCHANGED <<keymap, focus, notifyDue, fuel, seen, typed, handled, left, nested, consumed, odd>>
  BY DEF DispatchStroke, Decide, In, ghostVars, logVars
<1>2. PICK text \in BOOLEAN :
        stack' = Append(Under, [Top EXCEPT !.step = "decided",
             !.replay = r.replay, !.pending = r.pending, !.last = r.last,
             !.timed = cur.timed \/ text \/ IsBound(keymap, Top.path, r.pending),
             !.whole = (cur.whole /\ r.replay = <<>>) \/ Len(r.pending) = 1])
  BY DEF DispatchStroke, Decide, Goto
<1>3. Top \in KeyFrames /\ Top \in Frames /\ Held(Top) = {Top.key} /\ Top.key \in Strokes
  <2>1. Top \in Frames
    BY <1>1, TopIs
  <2>2. Top \in KeyFrames
    BY <1>1, <2>1, OpIs
  <2> QED
    BY <1>1, <2>1, <2>2, HeldIs, KeyFrameIs
<1>4. /\ cur \in [keys : Seq(Strokes), focus : Contexts, timed : BOOLEAN, whole : BOOLEAN]
      /\ cur = NoInput \/ cur = pending
  BY NoInputIs DEF IInv, TypeOK
<1>5. cur.keys \in Seq(Strokes) /\ cur.timed \in BOOLEAN /\ cur.whole \in BOOLEAN
  BY <1>4
<1>6. /\ Range(cur.keys) \subseteq Range(pending.keys) /\ InOrder(Order(nested), cur.keys)
      /\ \A x \in Range(cur.keys) : x.n \notin left
      /\ \A x \in Range(pending.keys) : x \in Range(cur.keys) \/ x.n \in left
  <2>1. InOrder(Order(nested), pending.keys)
    BY DEF IInv, Ordered
  <2>2. Numbers(pending.keys) = {x.n : x \in Range(pending.keys)}
    BY NumbersAre
  <2>3. CASE pending.focus \notin {NoFocus, focus}
    <3>1. cur.keys = NoInput.keys
      BY <2>3
    <3> QED
      BY <2>2, <2>3, <3>1, LeftOrFocused, NoInputIs
  <2>4. CASE pending.focus \in {NoFocus, focus}
    <3>1. cur.keys = pending.keys
      BY <2>4
    <3> QED
      BY <2>1, <2>2, <2>4, <3>1, LeftOrFocused
  <2> QED
    BY <2>3, <2>4
<1> HIDE DEF cur
<1>7. /\ r \in Dispatches(Strokes) /\ (r.pending = <<>> \/ r.last = <<>>)
      /\ All(r.replay) \cup Range(r.pending) \cup Range(r.last) = Range(cur.keys) \cup {Top.key}
      /\ InOrder(Order(nested), cur.keys) /\ Across(Order(nested), Range(cur.keys), {Top.key})
           => DispatchOrdered(Order(nested), r)
  <2>1. DispatchRight(Strokes, cur.keys, Top.key, r)
    BY <1>3, <1>5, DispatchKeyIs
  <2> HIDE DEF r
  <2> QED
    BY <2>1 DEF DispatchRight
<1> HIDE DEF r
<1>8. Waits(nested, Range(pending.keys), Top, Len(stack) = 1) /\ Across(Order(nested), All(handled), Held(Top))
  BY <1>1, TopIs
<1>9. Across(Order(nested), Range(cur.keys), {Top.key})
  BY <1>3, <1>6, <1>8 DEF Across, Waits
<1>10. DispatchOrdered(Order(nested), r)
  BY <1>6, <1>7, <1>9
<1>11. r.replay \in Seq(Seq(Strokes)) /\ r.pending \in Seq(Strokes) /\ r.last \in Seq(Strokes)
  BY <1>7 DEF Dispatches
<1>12. PICK t \in BOOLEAN : t = (cur.timed \/ text \/ IsBound(keymap, Top.path, r.pending))
  OBVIOUS
<1>13. PICK w \in BOOLEAN : w = ((cur.whole /\ r.replay = <<>>) \/ Len(r.pending) = 1)
  OBVIOUS
<1>14. PICK f : f = [Top EXCEPT !.step = "decided", !.replay = r.replay, !.pending = r.pending,
                                !.last = r.last, !.timed = t, !.whole = w]
  OBVIOUS
<1>15. stack' = Append(Under, f)
  BY <1>2, <1>12, <1>13, <1>14
<1>16. /\ f \in KeyFrames /\ f.op = "key" /\ f.step = "decided"
       /\ f.replay = r.replay /\ f.pending = r.pending /\ f.last = r.last
  BY <1>3, <1>11, <1>12, <1>13, <1>14 DEF KeyFrames, KeySteps
<1>17. f \in Frames /\ Held(f) = Range(cur.keys) \cup {Top.key}
  <2>1. f \in Frames
    BY <1>16, FramesAre
  <2>2. Held(f) = All(f.replay) \cup Range(f.pending) \cup Range(f.last)
    BY <1>16, <2>1, HeldIs
  <2> QED
    BY <1>7, <1>16, <2>1, <2>2
<1>18. Moved(nested, handled, pending.keys, Held(Top), handled', pending'.keys, f, Len(stack) = 1)
  <2>1. FrameSorted(Order(nested), f)
    BY <1>10, <1>16 DEF FrameSorted, DispatchOrdered
  <2>2. Across(Order(nested), All(handled), Held(f))
    <3>1. Across(Order(nested), All(handled), Range(pending.keys))
      BY DEF IInv, Ordered
    <3> QED
      BY <1>3, <1>6, <1>8, <1>17, <3>1 DEF Across
  <2>3. Range(pending'.keys) = {} /\ InOrder(Order(nested), pending'.keys)
    BY <1>1, NoInputIs
  <2>4. /\ Across(Order(nested), All(handled), Range(pending'.keys))
        /\ Waits(nested, Range(pending'.keys), f, Len(stack) = 1)
    BY <2>3 DEF Across, Waits
  <2>5. ChunksInOrder(Order(nested), handled)
    BY DEF IInv, Ordered
  <2>6. Range(pending'.keys) \cup Held(f) \subseteq Range(pending.keys) \cup Held(Top)
    BY <1>3, <1>6, <1>17, <2>3
  <2> QED
    BY <1>1, <2>1, <2>2, <2>3, <2>4, <2>5, <2>6 DEF Moved
<1>19. \A x \in Held(f) : x \in Held(Top) \/ x.n \notin left
  BY <1>3, <1>6, <1>17
<1>20. \A x \in Range(pending.keys) \cup Held(Top) :
         x \in All(handled') \cup Range(pending'.keys) \cup Held(f) \/ x.n \in left \cup nested
  BY <1>3, <1>6, <1>17
<1>21. Numbers(pending'.keys) \subseteq nested \cup left
  BY <1>1, NoInputIs
<1>22. FrameOK(f) /\ Tells(f)
  BY <1>7, <1>16 DEF FrameOK, Tells
<1>23. /\ pending' \in [keys : Seq(Strokes), focus : Contexts, timed : BOOLEAN, whole : BOOLEAN]
       /\ seen' \in Seq(Strokes) /\ handled' \in Seq(Seq(Strokes))
  BY <1>1, NoInputIs DEF IInv, TypeOK
<1>24. TopBecomes(f)
  <2>1. /\ stack # <<>> /\ f \in Frames /\ stack' = Append(Under, f)
        /\ UNCHANGED <<keymap, focus, notifyDue, fuel, typed, left, nested, consumed, odd>>
        /\ pending' = NoInput
    BY <1>1, <1>15, <1>17
  <2>2. Deciding(f) => Numbers(pending'.keys) \subseteq nested \cup left
    BY <1>21
  <2>3. /\ pending'.keys = <<>> => pending' = NoInput
        /\ \/ pending' = pending
           \/ pending' = NoInput
           \/ pending'.focus = focus /\ Range(pending'.keys) \subseteq Held(Top)
    BY <2>1
  <2>4. Tells(f) \/ seen' = pending'.keys \/ "nested" \in odd
          \/ (~Tells(Top) /\ seen' = seen /\ pending' = pending)
    BY <1>22
  <2>5. FrameOK(f)
    BY <1>22
  <2> QED
    BY <2>1, <2>2, <2>3, <2>4, <2>5, <1>18, <1>19, <1>20, <1>23 DEF TopBecomes
<1> QED
  BY <1>24, TopChanges

\* The first of a sequence, and the rest.
LEMMA RemoveFirstIs ==
  ASSUME NEW T, NEW cs \in Seq(T), cs # <<>>
  PROVE  /\ cs[1] \in T /\ RemoveAt(cs, 1) \in Seq(T)
         /\ Joined(cs, <<cs[1]>>, RemoveAt(cs, 1))
<1>1. PICK N \in Nat : N = Len(cs) /\ N >= 1
  BY EmptySeq, LenProperties
<1>2. PICK M \in Nat : N = M + 1
  BY <1>1
<1>3. PICK v : v = SubSeq(cs, 2, N)
  OBVIOUS
<1>4. v \in Seq(T) /\ Len(v) = M /\ \A i \in 1 .. M : v[i] = cs[1 + i]
  <2>1. \A i \in 2 .. N : cs[i] \in T
    <3>1. \A i \in 2 .. N : i \in 1 .. Len(cs)
      BY <1>1
    <3> QED
      BY <3>1, ElementOfSeq
  <2>2. /\ SubSeq(cs, 2, N) \in Seq(T)
        /\ Len(SubSeq(cs, 2, N)) = IF 2 <= N THEN N - 2 + 1 ELSE 0
        /\ \A i \in 1 .. N - 2 + 1 : SubSeq(cs, 2, N)[i] = cs[2 + i - 1]
    BY <1>1, <2>1, SubSeqProperties
  <2>3. N - 2 + 1 = M /\ (\A i \in 1 .. M : 2 + i - 1 = 1 + i) /\ (~(2 <= N) => M = 0)
    BY <1>1, <1>2
  <2> QED
    BY <1>3, <2>2, <2>3
<1>5. RemoveAt(cs, 1) = v
  <2>1. SubSeq(cs, 1, 1 - 1) = <<>>
    BY SubSeqEmpty
  <2>2. <<>> \o v = v
    BY <1>4, ConcatEmptySeq
  <2>3. RemoveAt(cs, 1) = SubSeq(cs, 1, 1 - 1) \o SubSeq(cs, 1 + 1, Len(cs))
    BY DEF RemoveAt
  <2> QED
    BY <1>1, <1>3, <2>1, <2>2, <2>3
<1>6. cs[1] \in T
  BY <1>1, ElementOfSeq
<1>7. PICK u : u = <<cs[1]>>
  OBVIOUS
<1>8. DOMAIN u = 1 .. 1 /\ u[1] = cs[1]
  BY <1>7
<1>9. DOMAIN cs = 1 .. 1 + M /\ DOMAIN v = 1 .. M
  <2>1. 1 + M = M + 1
    BY <1>2
  <2> QED
    BY <1>1, <1>2, <1>4, <2>1, LenProperties
<1>10. /\ \A i \in 1 .. 1 : i \in 1 .. 1 + M /\ i = 1
       /\ \A i \in 1 .. M : 1 + i \in 1 .. 1 + M
       /\ \A i \in 1 .. 1 + M : i \in 1 .. 1 \/ (i - 1 \in 1 .. M /\ i = 1 + (i - 1))
  BY <1>2
<1>11. JoinedAt(cs, u, v, 1, M)
  BY <1>4, <1>8, <1>9, <1>10 DEF JoinedAt
<1>12. 1 \in Nat
  OBVIOUS
<1> QED
  BY <1>4, <1>5, <1>6, <1>7, <1>11, <1>12 DEF Joined

\* A call that has decided hands a chunk of what it holds over to be handled.
LEMMA HandsOver ==
  ASSUME IInv, stack # <<>>, Top.step # "intercept", NEW f, NEW c \in Seq(Strokes),
         handled' = Append(handled, c), pending' = pending,
         Held(Top) = Range(c) \cup Held(f), InOrder(Order(nested), c),
         Across(Order(nested), Range(c), Held(f)), FrameSorted(Order(nested), f)
  PROVE  /\ Moved(nested, handled, pending.keys, Held(Top), handled', pending'.keys, f, Len(stack) = 1)
         /\ handled' \in Seq(Seq(Strokes))
<1> DEFINE R == Order(nested)
<1>1. /\ Waits(nested, Range(pending.keys), Top, Len(stack) = 1)
      /\ Across(R, All(handled), Held(Top))
  BY TopIs
<1>2. ChunksInOrder(R, handled) /\ InOrder(R, pending.keys) /\ Across(R, All(handled), Range(pending.keys))
  BY DEF IInv, Ordered
<1>3. handled \in Seq(Seq(Strokes))
  BY DEF IInv, TypeOK
<1>4. handled' \in Seq(Seq(Strokes)) /\ Joined(handled', handled, <<c>>)
  BY <1>3, AppendIs
<1>5. All(<<c>>) = Range(c) /\ ChunksInOrder(R, <<c>>)
  BY Few
<1>6. All(handled') = All(handled) \cup Range(c)
  BY <1>4, <1>5, JoinedRange
<1>7. Across(R, All(handled), All(<<c>>))
  BY <1>1, <1>5 DEF Across
<1>8. ChunksInOrder(R, handled')
  <2> HIDE DEF R
  <2> QED
    BY <1>2, <1>4, <1>5, <1>7, JoinedChunks
<1>9. ASSUME NEW x \in Range(c), NEW y \in Range(pending.keys)
      PROVE  <<x, y>> \in R
  <2>1. <<y, x>> \in R /\ ~(y.n \notin nested /\ x.n \notin nested)
    BY <1>1 DEF Waits
  <2> QED
    BY <2>1 DEF Order
<1>10. Across(R, All(handled'), Range(pending.keys))
  BY <1>2, <1>6, <1>9 DEF Across
<1>11. Across(R, All(handled'), Held(f))
  BY <1>1, <1>6 DEF Across
<1>12. Waits(nested, Range(pending.keys), f, Len(stack) = 1)
  BY <1>1 DEF Waits
<1>13. /\ All(handled) \subseteq All(handled') /\ All(handled') \subseteq All(handled) \cup Held(Top)
       /\ Range(pending.keys) \cup Held(f) \subseteq Range(pending.keys) \cup Held(Top)
  BY <1>6
<1> QED
  BY <1>2, <1>4, <1>8, <1>10, <1>11, <1>12, <1>13 DEF Moved

\* A call only goes on.
LEMMA GoesOn ==
  ASSUME IInv, stack # <<>>, Top.step # "intercept", NEW f, Held(f) = Held(Top),
         FrameSorted(Order(nested), f), handled' = handled, pending' = pending
  PROVE  Moved(nested, handled, pending.keys, Held(Top), handled', pending'.keys, f, Len(stack) = 1)
<1> DEFINE R == Order(nested)
<1>1. /\ Waits(nested, Range(pending.keys), Top, Len(stack) = 1)
      /\ Across(R, All(handled), Held(Top))
  BY TopIs
<1>2. ChunksInOrder(R, handled) /\ InOrder(R, pending.keys) /\ Across(R, All(handled), Range(pending.keys))
  BY DEF IInv, Ordered
<1>3. Waits(nested, Range(pending.keys), f, Len(stack) = 1)
  BY <1>1 DEF Waits
<1> QED
  BY <1>1, <1>2, <1>3 DEF Moved

\* What stays pending while a call decides is nested or was left.
LEMMA DecidingIs ==
  ASSUME IInv, stack # <<>>, Deciding(Top)
  PROVE  Numbers(pending.keys) \subseteq nested \cup left
<1>1. Len(stack) \in DOMAIN stack
  BY TopIs
<1> QED
  BY <1>1 DEF IInv, Overwritten, Top

LEMMA ReplayIInv == ASSUME IInv, Replay PROVE IInv'
<1>1. /\ stack # <<>> /\ Top.step \in {"decided", "replay"} /\ Top.replay # <<>>
      /\ handled' = Append(handled, Top.replay[1])
      /\ UNCHANGED <<keymap, focus, pending, notifyDue, fuel, seen, typed, left, nested, consumed, odd>>
  BY DEF Replay, ReplayChunk, In, inputVars, logVars
<1>2. PICK f : f = [Top EXCEPT !.step = "replay", !.replay = RemoveAt(Top.replay, 1)]
  OBVIOUS
<1>3. stack' = Append(Under, f)
  BY <1>2 DEF Replay, ReplayChunk, Goto
<1>4. Top \in Frames /\ FrameOK(Top) /\ FrameSorted(Order(nested), Top)
  BY <1>1, TopIs
<1>5. Top \in KeyFrames \cup TimerFrames
  BY <1>1, <1>4, OpIs
<1>6. Top.replay \in Seq(Seq(Strokes))
  BY <1>5, KeyFrameIs, TimerFrameIs
<1>7. PICK c : c = Top.replay[1]
  OBVIOUS
<1>8. PICK rest : rest = RemoveAt(Top.replay, 1)
  OBVIOUS
<1>9. c \in Seq(Strokes) /\ rest \in Seq(Seq(Strokes)) /\ Joined(Top.replay, <<c>>, rest)
  BY <1>1, <1>6, <1>7, <1>8, RemoveFirstIs
<1>10. All(Top.replay) = Range(c) \cup All(rest)
  BY <1>9, JoinedRange, Few
<1>11. ChunksInOrder(Order(nested), Top.replay)
  BY <1>4, <1>5, KeyFrameIs, TimerFrameIs DEF FrameSorted
<1>12. /\ InOrder(Order(nested), c) /\ ChunksInOrder(Order(nested), rest)
       /\ Across(Order(nested), Range(c), All(rest))
  BY <1>9, <1>11, JoinedChunks, Few
<1>13. /\ f \in Frames /\ FrameOK(f) /\ FrameSorted(Order(nested), f)
       /\ Held(Top) = Range(c) \cup Held(f) /\ Across(Order(nested), Range(c), Held(f))
       /\ Tells(f) \/ ~Tells(Top)
       /\ Deciding(f) => Deciding(Top)
  <2>1. CASE Top \in KeyFrames
    <3>1. Top.op = "key" /\ Top.pending \in Seq(Strokes) /\ Top.last \in Seq(Strokes)
      BY <2>1, KeyFrameIs
    <3>2. /\ f \in KeyFrames /\ f.op = "key" /\ f.step = "replay" /\ f.replay = rest
          /\ f.pending = Top.pending /\ f.last = Top.last
      BY <1>2, <1>8, <1>9, <2>1 DEF KeyFrames, KeySteps
    <3>3. f \in Frames
      BY <3>2, FramesAre
    <3>4. Held(f) = All(rest) \cup Range(Top.pending) \cup Range(Top.last)
      BY <3>2, <3>3, HeldIs
    <3>5. Held(Top) = All(Top.replay) \cup Range(Top.pending) \cup Range(Top.last)
      BY <1>1, <1>4, <2>1, HeldIs
    <3>6. /\ InOrder(Order(nested), Top.pending) /\ InOrder(Order(nested), Top.last)
          /\ Across(Order(nested), All(Top.replay), Range(Top.pending) \cup Range(Top.last))
      BY <1>4, <3>1 DEF FrameSorted
    <3>7. Across(Order(nested), All(rest), Range(Top.pending) \cup Range(Top.last))
      BY <1>10, <3>6 DEF Across
    <3>8. FrameSorted(Order(nested), f)
      BY <1>12, <3>2, <3>6, <3>7 DEF FrameSorted
    <3>9. Across(Order(nested), Range(c), Held(f))
      BY <1>10, <1>12, <3>4, <3>6 DEF Across
    <3>10. FrameOK(f)
      BY <1>4, <3>1, <3>2 DEF FrameOK
    <3>11. Tells(f) /\ Deciding(Top)
      BY <1>1, <3>1, <3>2 DEF Tells, Deciding
    <3>12. Held(Top) = Range(c) \cup Held(f)
      BY <1>10, <3>4, <3>5
    <3> QED
      BY <3>3, <3>8, <3>9, <3>10, <3>11, <3>12
  <2>2. CASE Top \in TimerFrames
    <3>1. Top.op = "timer"
      BY <2>2, TimerFrameIs
    <3>2. f \in TimerFrames /\ f.op = "timer" /\ f.replay = rest
      BY <1>2, <1>8, <1>9, <2>2 DEF TimerFrames
    <3>3. f \in Frames
      BY <3>2, FramesAre
    <3>4. Held(f) = All(rest) /\ Held(Top) = All(Top.replay)
      BY <1>4, <2>2, <3>2, <3>3, HeldIs
    <3>5. FrameSorted(Order(nested), f) /\ FrameOK(f) /\ ~Tells(Top) /\ ~Deciding(f)
      BY <1>12, <3>1, <3>2 DEF FrameSorted, FrameOK, Tells, Deciding
    <3> QED
      BY <1>10, <1>12, <3>3, <3>4, <3>5
  <2> QED
    BY <1>5, <2>1, <2>2
<1>14. /\ Moved(nested, handled, pending.keys, Held(Top), handled', pending'.keys, f, Len(stack) = 1)
       /\ handled' \in Seq(Seq(Strokes))
  <2>1. Top.step # "intercept" /\ handled' = Append(handled, c) /\ pending' = pending
    BY <1>1, <1>7
  <2> QED
    BY <1>1, <1>9, <1>12, <1>13, <2>1, HandsOver
<1>15. All(handled) \cup Held(Top) \subseteq All(handled') \cup Held(f)
  <2>1. handled \in Seq(Seq(Strokes))
    BY DEF IInv, TypeOK
  <2>2. Joined(handled', handled, <<c>>)
    BY <1>1, <1>7, <1>9, <2>1, AppendIs
  <2>3. All(handled') = All(handled) \cup Range(c)
    BY <2>2, JoinedRange, Few
  <2> QED
    BY <1>13, <2>3
<1>16. TopBecomes(f)
  <2>1. Deciding(f) => Numbers(pending'.keys) \subseteq nested \cup left
    BY <1>1, <1>13, DecidingIs
  <2>2. \A x \in Held(f) : x \in Held(Top)
    BY <1>13
  <2>3. \A x \in Range(pending.keys) \cup Held(Top) :
          x \in All(handled') \cup Range(pending'.keys) \cup Held(f)
    BY <1>1, <1>15
  <2>4. /\ pending' \in [keys : Seq(Strokes), focus : Contexts, timed : BOOLEAN, whole : BOOLEAN]
        /\ pending'.keys = <<>> => pending' = NoInput
        /\ seen' \in Seq(Strokes)
    BY <1>1 DEF IInv, TypeOK
  <2>5. /\ stack # <<>> /\ f \in Frames /\ stack' = Append(Under, f) /\ FrameOK(f) /\ pending' = pending
        /\ UNCHANGED <<keymap, focus, notifyDue, fuel, typed, left, nested, consumed, odd>>
    BY <1>1, <1>3, <1>13
  <2>6. Tells(f) \/ (~Tells(Top) /\ seen' = seen /\ pending' = pending)
    BY <1>1, <1>13
  <2> QED
    BY <1>14, <2>1, <2>2, <2>3, <2>4, <2>5, <2>6 DEF TopBecomes
<1> QED
  BY <1>16, TopChanges

LEMMA HandleIInv == ASSUME IInv, Handle PROVE IInv'
<1>1. /\ stack # <<>> /\ Top.step \in {"decided", "replay"} /\ Top.replay = <<>> /\ Top.op = "key"
      /\ Top.pending = <<>> /\ handled' = Append(handled, Top.last)
      /\ UNCHANGED <<keymap, focus, pending, notifyDue, fuel, seen, typed, left, nested, consumed, odd>>
  BY DEF Handle, Replayed, In, inputVars, logVars
<1>2. PICK f : f = [Top EXCEPT !.step = "handle", !.last = <<>>]
  OBVIOUS
<1>3. stack' = Append(Under, f)
  BY <1>2 DEF Handle, Goto
<1>4. Top \in Frames /\ FrameSorted(Order(nested), Top)
  BY <1>1, TopIs
<1>5. Top \in KeyFrames
  BY <1>1, <1>4, OpIs
<1>6. PICK c : c = Top.last
  OBVIOUS
<1>7. c \in Seq(Strokes)
  BY <1>5, <1>6, KeyFrameIs
<1>8. /\ f \in KeyFrames /\ f.op = "key" /\ f.step = "handle"
      /\ f.replay = <<>> /\ f.pending = <<>> /\ f.last = <<>>
  BY <1>1, <1>2, <1>5 DEF KeyFrames, KeySteps
<1>9. f \in Frames
  BY <1>8, FramesAre
<1>10. Held(f) = {}
  BY <1>8, <1>9, HeldIs, Few
<1>11. Held(Top) = Range(c) \cup Held(f)
  BY <1>1, <1>4, <1>5, <1>6, <1>10, HeldIs, Few
<1>12. InOrder(Order(nested), c)
  BY <1>1, <1>4, <1>6 DEF FrameSorted
<1>13. Across(Order(nested), Range(c), Held(f))
  BY <1>10 DEF Across
<1>14. FrameSorted(Order(nested), f)
  <2>1. Across(Order(nested), All(<<>>), Range(<<>>) \cup Range(<<>>))
    BY Few DEF Across
  <2> QED
    BY <1>8, <2>1, Few DEF FrameSorted
<1>15. FrameOK(f) /\ Tells(f) /\ ~Deciding(f)
  BY <1>8 DEF FrameOK, Tells, Deciding
<1>16. /\ Moved(nested, handled, pending.keys, Held(Top), handled', pending'.keys, f, Len(stack) = 1)
       /\ handled' \in Seq(Seq(Strokes))
  <2>1. Top.step # "intercept" /\ handled' = Append(handled, c) /\ pending' = pending
    BY <1>1, <1>6
  <2> QED
    BY <1>1, <1>7, <1>11, <1>12, <1>13, <1>14, <2>1, HandsOver
<1>17. All(handled) \cup Held(Top) \subseteq All(handled')
  <2>1. handled \in Seq(Seq(Strokes))
    BY DEF IInv, TypeOK
  <2>2. Joined(handled', handled, <<c>>)
    BY <1>1, <1>6, <1>7, <2>1, AppendIs
  <2>3. All(handled') = All(handled) \cup Range(c)
    BY <2>2, JoinedRange, Few
  <2> QED
    BY <1>10, <1>11, <2>3
<1>18. TopBecomes(f)
  <2>1. \A x \in Range(pending.keys) \cup Held(Top) :
          x \in All(handled') \cup Range(pending'.keys) \cup Held(f)
    BY <1>1, <1>17
  <2>2. /\ pending' \in [keys : Seq(Strokes), focus : Contexts, timed : BOOLEAN, whole : BOOLEAN]
        /\ pending'.keys = <<>> => pending' = NoInput
        /\ seen' \in Seq(Strokes)
    BY <1>1 DEF IInv, TypeOK
  <2>3. /\ stack # <<>> /\ f \in Frames /\ stack' = Append(Under, f) /\ pending' = pending
        /\ UNCHANGED <<keymap, focus, notifyDue, fuel, typed, left, nested, consumed, odd>>
    BY <1>1, <1>3, <1>9
  <2>4. \A x \in Held(f) : x \in Held(Top)
    BY <1>10
  <2> QED
    BY <1>15, <1>16, <2>1, <2>2, <2>3, <2>4 DEF TopBecomes
<1> QED
  BY <1>18, TopChanges


\* The observers are told, unless one of them dispatched this keystroke.
LEMMA ChangedIs ==
  ASSUME IInv, stack # <<>>, Top.step # "observe", NEW g, NEW ks, Changed(g, ks)
  PROVE  \E step \in {"return", "observe"} :
           /\ stack' = Append(Under, [g EXCEPT !.step = step])
           /\ (seen' = seen /\ "nested" \in odd) \/ seen' = ks
<1>1. CASE Observing
  <2>1. PICK i \in DOMAIN stack : stack[i].step = "observe"
    BY <1>1 DEF Observing
  <2>2. stack \in Seq(Frames) /\ DOMAIN stack = 1 .. Len(stack) /\ Len(stack) \in Nat
    BY LenProperties DEF IInv, TypeOK
  <2>3. i # Len(stack)
    BY <2>1 DEF Top
  <2>4. i < Len(stack)
    BY <2>1, <2>2, <2>3
  <2>5. "nested" \in odd
    BY <2>1, <2>4 DEF IInv, Told
  <2>6. stack' = Append(Under, [g EXCEPT !.step = "return"]) /\ seen' = seen
    BY <1>1 DEF Changed, Goto
  <2> QED
    BY <2>5, <2>6
<1>2. CASE ~Observing
  <2>1. stack' = Append(Under, [g EXCEPT !.step = "observe"]) /\ seen' = ks
    BY <1>2 DEF Changed, Goto
  <2> QED
    BY <2>1
<1> QED
  BY <1>1, <1>2

LEMMA HoldIInv == ASSUME IInv, Hold PROVE IInv'
<1>1. /\ stack # <<>> /\ Top.step \in {"decided", "replay"} /\ Top.replay = <<>> /\ Top.op = "key"
      /\ Top.pending # <<>>
      /\ pending' = [keys |-> Top.pending, focus |-> focus, timed |-> Top.timed,
                     whole |-> Top.whole /\ focus = Top.path]
      /\ Changed([Top EXCEPT !.pending = <<>>], Top.pending)
      /\ UNCHANGED <<keymap, focus, notifyDue, fuel, typed, handled, left, nested, consumed, odd>>
  BY DEF Hold, HoldFor, Replayed, In, logVars
<1>2. PICK ks : ks = Top.pending
  OBVIOUS
<1>3. PICK step \in {"return", "observe"} :
        /\ stack' = Append(Under, [[Top EXCEPT !.pending = <<>>] EXCEPT !.step = step])
        /\ (seen' = seen /\ "nested" \in odd) \/ seen' = ks
  <2>1. Changed([Top EXCEPT !.pending = <<>>], ks) /\ Top.step # "observe"
    BY <1>1, <1>2
  <2> QED
    BY <1>1, <2>1, ChangedIs
<1>4. PICK f : f = [[Top EXCEPT !.pending = <<>>] EXCEPT !.step = step]
  OBVIOUS
<1>5. /\ Top \in Frames /\ FrameOK(Top) /\ FrameSorted(Order(nested), Top) /\ Held(Top) \subseteq HeldBy
      /\ Across(Order(nested), All(handled), Held(Top))
  BY <1>1, TopIs
<1>6. Top \in KeyFrames
  BY <1>1, <1>5, OpIs
<1>7. Top.last = <<>>
  BY <1>1, <1>5 DEF FrameOK
<1>8. ks \in Seq(Strokes) /\ Top.timed \in BOOLEAN /\ Top.whole \in BOOLEAN
  BY <1>2, <1>6, KeyFrameIs
<1>9. Held(Top) = Range(ks)
  BY <1>1, <1>2, <1>5, <1>6, <1>7, HeldIs, Few
<1>10. /\ f \in KeyFrames /\ f.op = "key" /\ f.step = step
       /\ f.replay = <<>> /\ f.pending = <<>> /\ f.last = <<>>
  <2>1. <<>> \in Seq(Strokes)
    BY EmptySeq
  <2> QED
    BY <1>1, <1>3, <1>4, <1>6, <1>7, <2>1 DEF KeyFrames, KeySteps
<1>11. f \in Frames
  BY <1>10, FramesAre
<1>12. Held(f) = {}
  BY <1>3, <1>10, <1>11, HeldIs, Few
<1>13. FrameOK(f) /\ ~Deciding(f)
  BY <1>3, <1>10 DEF FrameOK, Deciding
<1>14. FrameSorted(Order(nested), f)
  <2>1. Across(Order(nested), All(<<>>), Range(<<>>) \cup Range(<<>>))
    BY Few DEF Across
  <2> QED
    BY <1>10, <2>1, Few DEF FrameSorted
<1>15. /\ pending'.keys = ks /\ pending'.focus = focus
       /\ pending' \in [keys : Seq(Strokes), focus : Contexts, timed : BOOLEAN, whole : BOOLEAN]
  BY <1>1, <1>2, <1>8 DEF IInv, TypeOK
<1>16. Moved(nested, handled, pending.keys, Held(Top), handled', pending'.keys, f, Len(stack) = 1)
  <2>1. ChunksInOrder(Order(nested), handled)
    BY DEF IInv, Ordered
  <2>2. InOrder(Order(nested), ks)
    BY <1>1, <1>2, <1>5 DEF FrameSorted
  <2>3. Across(Order(nested), All(handled), Held(f)) /\ Waits(nested, Range(ks), f, Len(stack) = 1)
    BY <1>12 DEF Across, Waits
  <2> QED
    BY <1>1, <1>5, <1>9, <1>12, <1>14, <1>15, <2>1, <2>2, <2>3 DEF Moved
<1>17. \A x \in Range(pending.keys) : x.n \in left \cup nested
  <2>1. Deciding(Top)
    BY <1>1 DEF Deciding
  <2> QED
    BY <1>1, <2>1, DecidingIs, NumbersAre
<1>18. seen' \in Seq(Strokes) /\ handled' \in Seq(Seq(Strokes))
  BY <1>1, <1>3, <1>8 DEF IInv, TypeOK
<1>19. TopBecomes(f)
  <2>1. stack' = Append(Under, f)
    BY <1>3, <1>4
  <2>2. pending'.keys # <<>>
    BY <1>1, <1>2, <1>15
  <2>3. \A x \in Range(pending.keys) \cup Held(Top) :
          x \in All(handled') \cup Range(pending'.keys) \cup Held(f) \/ x.n \in left \cup nested
    BY <1>9, <1>15, <1>17
  <2>4. seen' = pending'.keys \/ "nested" \in odd
    BY <1>3, <1>15
  <2>5. pending'.focus = focus /\ Range(pending'.keys) \subseteq Held(Top)
    BY <1>9, <1>15
  <2>6. \A x \in Held(f) : x \in Held(Top)
    BY <1>12
  <2> QED
    BY <1>1, <1>11, <1>13, <1>15, <1>16, <1>18, <2>1, <2>2, <2>3, <2>4, <2>5, <2>6 DEF TopBecomes
<1> QED
  BY <1>19, TopChanges

\* What an interceptor keeps, its call no longer holds.
LEMMA ConsumeIInv == ASSUME IInv, Consume PROVE IInv'
<1>1. /\ stack # <<>> /\ Top.step = "intercept" /\ consumed' = consumed \cup {Top.key.n}
      /\ UNCHANGED <<keymap, focus, pending, notifyDue, fuel, seen, typed, handled, left, nested, odd>>
  BY DEF Consume, Intercepting, In, inputVars
<1>2. PICK f : f = [Top EXCEPT !.step = "stopped"]
  OBVIOUS
<1>3. stack' = Append(Under, f)
  BY <1>2 DEF Consume, Goto
<1>4. Top \in Frames /\ FrameOK(Top)
  BY <1>1, TopIs
<1>5. Top \in KeyFrames
  BY <1>1, <1>4, OpIs
<1>6. Top.replay = <<>> /\ Top.pending = <<>> /\ Top.last = <<>> /\ Top.op = "key"
  BY <1>1, <1>4, <1>5, KeyFrameIs DEF FrameOK
<1>7. /\ f \in KeyFrames /\ f.op = "key" /\ f.step = "stopped"
      /\ f.replay = <<>> /\ f.pending = <<>> /\ f.last = <<>>
  BY <1>2, <1>5, <1>6 DEF KeyFrames, KeySteps
<1>8. f \in Frames
  BY <1>7, FramesAre
<1>9. Held(f) = {} /\ Held(Top) = {Top.key}
  BY <1>1, <1>4, <1>5, <1>7, <1>8, HeldIs, Few
<1>10. FrameOK(f) /\ ~Deciding(f) /\ ~Tells(Top)
  BY <1>1, <1>7 DEF FrameOK, Deciding, Tells
<1>11. FrameSorted(Order(nested), f)
  <2>1. Across(Order(nested), All(<<>>), Range(<<>>) \cup Range(<<>>))
    BY Few DEF Across
  <2> QED
    BY <1>7, <2>1, Few DEF FrameSorted
<1>12. Moved(nested, handled, pending.keys, Held(Top), handled', pending'.keys, f, Len(stack) = 1)
  <2>1. /\ ChunksInOrder(Order(nested), handled) /\ InOrder(Order(nested), pending.keys)
        /\ Across(Order(nested), All(handled), Range(pending.keys))
    BY DEF IInv, Ordered
  <2>2. Across(Order(nested), All(handled), Held(f)) /\ Waits(nested, Range(pending.keys), f, Len(stack) = 1)
    BY <1>9 DEF Across, Waits
  <2> QED
    BY <1>1, <1>9, <1>11, <2>1, <2>2 DEF Moved
<1>13. TopBecomes(f)
  <2>1. /\ pending' \in [keys : Seq(Strokes), focus : Contexts, timed : BOOLEAN, whole : BOOLEAN]
        /\ pending'.keys = <<>> => pending' = NoInput
        /\ seen' \in Seq(Strokes) /\ handled' \in Seq(Seq(Strokes))
    BY <1>1 DEF IInv, TypeOK
  <2>2. \A x \in Range(pending.keys) \cup Held(Top) : x \in Range(pending'.keys) \/ x.n \in consumed'
    BY <1>1, <1>9
  <2>3. seen' = seen /\ pending' = pending
    BY <1>1
  <2> QED
    BY <1>1, <1>3, <1>8, <1>9, <1>10, <1>11, <1>12, <2>1, <2>2, <2>3 DEF TopBecomes
<1> QED
  BY <1>13, TopChanges

LEMMA HandledIInv == ASSUME IInv, Handled PROVE IInv'
<1>1. /\ stack # <<>> /\ Top.step = "handle" /\ Changed(Top, pending.keys)
      /\ UNCHANGED <<keymap, focus, pending, notifyDue, fuel, typed, handled, left, nested, consumed, odd>>
  BY DEF Handled, In, inputVars, logVars
<1>2. PICK step \in {"return", "observe"} :
        /\ stack' = Append(Under, [Top EXCEPT !.step = step])
        /\ (seen' = seen /\ "nested" \in odd) \/ seen' = pending.keys
  <2>1. Top.step # "observe"
    BY <1>1
  <2> QED
    BY <1>1, <2>1, ChangedIs
<1>3. PICK f : f = [Top EXCEPT !.step = step]
  OBVIOUS
<1>4. Top \in Frames /\ FrameOK(Top)
  BY <1>1, TopIs
<1>5. Top \in KeyFrames
  BY <1>1, <1>4, OpIs
<1>6. Top.replay = <<>> /\ Top.pending = <<>> /\ Top.last = <<>> /\ Top.op = "key"
  BY <1>1, <1>4, <1>5, KeyFrameIs DEF FrameOK
<1>7. /\ f \in KeyFrames /\ f.op = "key" /\ f.step = step
      /\ f.replay = <<>> /\ f.pending = <<>> /\ f.last = <<>>
  BY <1>2, <1>3, <1>5, <1>6 DEF KeyFrames, KeySteps
<1>8. f \in Frames
  BY <1>7, FramesAre
<1>9. Held(f) = {} /\ Held(Top) = {}
  BY <1>1, <1>2, <1>4, <1>5, <1>6, <1>7, <1>8, HeldIs, Few
<1>10. FrameOK(f) /\ ~Deciding(f)
  BY <1>2, <1>7 DEF FrameOK, Deciding
<1>11. FrameSorted(Order(nested), f)
  <2>1. Across(Order(nested), All(<<>>), Range(<<>>) \cup Range(<<>>))
    BY Few DEF Across
  <2> QED
    BY <1>7, <2>1, Few DEF FrameSorted
<1>12. Moved(nested, handled, pending.keys, Held(Top), handled', pending'.keys, f, Len(stack) = 1)
  <2>1. Top.step # "intercept" /\ Held(f) = Held(Top) /\ handled' = handled /\ pending' = pending
    BY <1>1, <1>9
  <2> QED
    BY <1>1, <1>11, <2>1, GoesOn
<1>13. TopBecomes(f)
  <2>1. stack' = Append(Under, f)
    BY <1>2, <1>3
  <2>2. /\ pending' \in [keys : Seq(Strokes), focus : Contexts, timed : BOOLEAN, whole : BOOLEAN]
        /\ pending'.keys = <<>> => pending' = NoInput
        /\ seen' \in Seq(Strokes) /\ handled' \in Seq(Seq(Strokes))
    BY <1>1, <1>2 DEF IInv, TypeOK
  <2>3. \A x \in Range(pending.keys) \cup Held(Top) : x \in Range(pending'.keys)
    BY <1>1, <1>9
  <2>4. seen' = pending'.keys \/ "nested" \in odd
    BY <1>1, <1>2
  <2>5. \A x \in Held(f) : x \in Held(Top)
    BY <1>9
  <2> QED
    BY <1>1, <1>8, <1>10, <1>12, <2>1, <2>2, <2>3, <2>4, <2>5 DEF TopBecomes
<1> QED
  BY <1>13, TopChanges

LEMMA TimerObservedIInv == ASSUME IInv, TimerObserved PROVE IInv'
<1>1. /\ stack # <<>> /\ Top.step = "observe" /\ Top.op = "timer"
      /\ UNCHANGED <<keymap, focus, pending, notifyDue, fuel, seen, typed, handled, left, nested, consumed, odd>>
  BY DEF TimerObserved, In, inputVars, ghostVars, logVars
<1>2. PICK f : f = [Top EXCEPT !.step = "decided"]
  OBVIOUS
<1>3. stack' = Append(Under, f)
  BY <1>2 DEF TimerObserved, Goto
<1>4. Top \in Frames /\ FrameSorted(Order(nested), Top)
  BY <1>1, TopIs
<1>5. Top \in TimerFrames
  BY <1>1, <1>4, OpIs
<1>6. f \in TimerFrames /\ f.op = "timer" /\ f.step = "decided" /\ f.replay = Top.replay
  BY <1>1, <1>2, <1>5 DEF TimerFrames
<1>7. f \in Frames
  BY <1>6, FramesAre
<1>8. Held(f) = Held(Top)
  BY <1>4, <1>5, <1>6, <1>7, HeldIs
<1>9. FrameOK(f) /\ ~Deciding(f) /\ ~Tells(Top)
  BY <1>1, <1>6 DEF FrameOK, Deciding, Tells
<1>10. FrameSorted(Order(nested), f)
  BY <1>1, <1>4, <1>6 DEF FrameSorted
<1>11. Moved(nested, handled, pending.keys, Held(Top), handled', pending'.keys, f, Len(stack) = 1)
  <2>1. Top.step # "intercept" /\ handled' = handled /\ pending' = pending
    BY <1>1
  <2> QED
    BY <1>1, <1>8, <1>10, <2>1, GoesOn
<1>12. TopBecomes(f)
  <2>1. /\ pending' \in [keys : Seq(Strokes), focus : Contexts, timed : BOOLEAN, whole : BOOLEAN]
        /\ pending'.keys = <<>> => pending' = NoInput
        /\ seen' \in Seq(Strokes) /\ handled' \in Seq(Seq(Strokes))
    BY <1>1 DEF IInv, TypeOK
  <2>2. \A x \in Range(pending.keys) \cup Held(Top) : x \in Range(pending'.keys) \cup Held(f)
    BY <1>1, <1>8
  <2>3. seen' = seen /\ pending' = pending
    BY <1>1
  <2> QED
    BY <1>1, <1>3, <1>7, <1>8, <1>9, <1>11, <2>1, <2>2, <2>3 DEF TopBecomes
<1> QED
  BY <1>12, TopChanges

\* A call begins that holds nothing, or what was pending, and the observers
\* are told.
LEMMA FirstIs ==
  ASSUME IInv, stack = <<>>, NEW f \in Frames, f.op # "key", stack' = <<f>>,
         FrameSorted(Order(nested), f),
         UNCHANGED <<keymap, focus, fuel, typed, handled, left, nested, consumed>>,
         notifyDue' \in BOOLEAN, seen' = pending'.keys,
         odd \subseteq odd', odd' \subseteq {"timeout", "blur", "nested"},
         \/ pending' = pending /\ Held(f) = {}
         \/ pending' = NoInput /\ Held(f) = Range(pending.keys) /\ left \cap Numbers(pending.keys) = {}
  PROVE  IInv'
<1>1. stack' \in Seq(Frames) /\ Len(stack') = 1 /\ DOMAIN stack' = {1} /\ stack'[1] = f
  <2>1. <<f>> \in Seq(Frames) /\ Len(<<f>>) = 1 /\ DOMAIN <<f>> = {1} /\ <<f>>[1] = f
    OBVIOUS
  <2> QED
    BY <2>1
<1>2. DOMAIN stack = {}
  OBVIOUS
<1>3. HeldBy' = Held(f)
  BY <1>1 DEF HeldBy
<1>4. HeldBy = {}
  BY <1>2 DEF HeldBy
<1>5. Range(pending'.keys) \cup Held(f) = Range(pending.keys) /\ Range(pending'.keys) \subseteq Range(pending.keys)
  BY NoInputIs
<1>6. /\ Numbers(pending.keys) = {x.n : x \in Range(pending.keys)}
      /\ Numbers(pending'.keys) = {x.n : x \in Range(pending'.keys)}
      /\ HandledStrokes' = HandledStrokes
  BY NumbersAre DEF HandledStrokes
<1>7. TypeOK'
  <2>1. /\ pending' \in [keys : Seq(Strokes), focus : Contexts, timed : BOOLEAN, whole : BOOLEAN]
        /\ pending'.keys = <<>> => pending' = NoInput
    BY NoInputIs DEF IInv, TypeOK
  <2>2. seen' \in Seq(Strokes)
    BY <2>1
  <2> QED
    BY <1>1, <2>1, <2>2 DEF IInv, TypeOK
<1>8. Shapes'
  BY <1>1 DEF IInv, Shapes, FrameOK
<1>9. Known'
  BY <1>3, <1>5 DEF IInv, Known
<1>10. Ordered(nested, handled, pending.keys, stack)'
  <2>1. /\ ChunksInOrder(Order(nested), handled) /\ InOrder(Order(nested), pending.keys)
        /\ Across(Order(nested), All(handled), Range(pending.keys))
    BY DEF IInv, Ordered
  <2>2. InOrder(Order(nested), pending'.keys)
    BY <2>1, NoInputIs
  <2>3. /\ Across(Order(nested), All(handled), Range(pending'.keys))
        /\ Across(Order(nested), All(handled), Held(f))
    BY <1>5, <2>1 DEF Across
  <2>4. Waits(nested, Range(pending'.keys), f, TRUE)
    BY NoInputIs DEF Waits
  <2>5. \A i, j \in DOMAIN stack' : ~(i < j)
    BY <1>1
  <2>6. Ordered(nested, handled, pending'.keys, stack')
    BY <1>1, <2>1, <2>2, <2>3, <2>4, <2>5 DEF Ordered
  <2> QED
    BY <2>6
<1>11. Dropped'
  <2>1. CASE pending' = pending /\ Held(f) = {}
    BY <1>3, <1>4, <1>6, <2>1 DEF IInv, Dropped
  <2>2. CASE pending' = NoInput /\ Held(f) = Range(pending.keys) /\ left \cap Numbers(pending.keys) = {}
    BY <1>3, <1>6, <2>2, NoInputIs DEF IInv, Dropped
  <2> QED
    BY <2>1, <2>2
<1>12. Accounted'
  <2> SUFFICES ASSUME NEW n \in 1 .. Len(typed)
               PROVE  n \in HandledStrokes' \cup consumed \cup Numbers(pending'.keys)
                              \cup {x.n : x \in HeldBy'} \cup left \cup nested
    BY DEF Accounted
  <2>1. n \in HandledStrokes \cup consumed \cup Numbers(pending.keys) \cup left \cup nested
    BY <1>4 DEF IInv, Accounted
  <2>2. Numbers(pending.keys) \subseteq Numbers(pending'.keys) \cup {x.n : x \in HeldBy'}
    BY <1>3, <1>5, <1>6
  <2> QED
    BY <1>6, <2>1, <2>2
<1>13. Overwritten'
  BY <1>1 DEF Overwritten, Deciding
<1>14. Told'
  <2>1. \A i \in DOMAIN stack' : ~(i < Len(stack'))
    BY <1>1
  <2> QED
    BY <2>1 DEF Told
<1> QED
  BY <1>7, <1>8, <1>9, <1>10, <1>11, <1>12, <1>13, <1>14 DEF IInv

LEMMA NotifyDeferredIInv == ASSUME IInv, NotifyDeferred PROVE IInv'
<1>1. /\ stack = <<>> /\ notifyDue' = FALSE /\ seen' = pending.keys
      /\ UNCHANGED <<keymap, focus, pending, fuel, typed, handled, left, nested, consumed, odd>>
  BY DEF NotifyDeferred, logVars
<1>2. PICK f : f = [op |-> "deferred", step |-> "observe"]
  OBVIOUS
<1>3. stack' = <<f>> /\ f \in Frames /\ f.op = "deferred"
  BY <1>2, FramesAre DEF NotifyDeferred
<1>4. Held(f) = {}
  BY <1>3, HeldIs
<1>5. FrameSorted(Order(nested), f)
  BY <1>3 DEF FrameSorted
<1>6. odd' \subseteq {"timeout", "blur", "nested"}
  BY <1>1 DEF IInv, TypeOK
<1> QED
  BY <1>1, <1>3, <1>4, <1>5, <1>6, FirstIs

\* What is dropped by a timer that finds another focus was left by a blur.
LEMMA TimerDropsIInv ==
  ASSUME IInv, stack = <<>>, pending' = NoInput, Numbers(pending.keys) \subseteq left, "blur" \in odd,
         UNCHANGED <<keymap, focus, notifyDue, stack, fuel, seen, typed, handled, left, nested, consumed>>,
         odd' = odd \cup {"timeout"}
  PROVE  IInv'
<1>1. HeldBy' = HeldBy /\ HandledStrokes' = HandledStrokes
  BY DEF HeldBy, HandledStrokes
<1>2. /\ pending' \in [keys : Seq(Strokes), focus : Contexts, timed : BOOLEAN, whole : BOOLEAN]
      /\ pending'.keys = <<>> /\ Range(pending'.keys) = {} /\ Numbers(pending'.keys) = {}
  BY NoInputIs
<1>3. TypeOK'
  BY <1>2 DEF IInv, TypeOK
<1>4. Shapes'
  BY DEF IInv, Shapes
<1>5. Known'
  BY <1>1, <1>2 DEF IInv, Known
<1>6. Ordered(nested, handled, pending.keys, stack)'
  <2>1. Ordered(nested, handled, pending.keys, stack)
    BY DEF IInv
  <2>2. InOrder(Order(nested), pending'.keys) /\ Range(pending'.keys) \subseteq Range(pending.keys)
    BY NoInputIs
  <2>3. Ordered(nested, handled, pending'.keys, stack)
    BY <2>1, <2>2, OrderedPop
  <2> QED
    BY <2>3
<1>7. Dropped'
  BY <1>1, <1>2 DEF IInv, Dropped
<1>8. Accounted'
  BY <1>1, <1>2 DEF IInv, Accounted
<1>9. Overwritten' /\ Told'
  <2>1. DOMAIN stack' = {}
    OBVIOUS
  <2> QED
    BY <2>1 DEF Overwritten, Told
<1> QED
  BY <1>3, <1>4, <1>5, <1>6, <1>7, <1>8, <1>9 DEF IInv

LEMMA TimerFiresIInv == ASSUME IInv, TimerFires PROVE IInv'
<1>1. PICK cs : cs = FlushDispatch(keymap, focus, pending.keys)
  OBVIOUS
<1>2. /\ stack = <<>> /\ pending.timed /\ pending' = NoInput /\ odd' = odd \cup {"timeout"}
      /\ UNCHANGED <<keymap, focus, notifyDue, fuel, typed, handled, left, nested, consumed>>
  BY DEF TimerFires, Expire, Idle
<1>3. /\ pending.focus = focus => /\ stack' = <<[op |-> "timer", step |-> "observe", replay |-> cs]>>
                                  /\ seen' = <<>>
      /\ pending.focus # focus => UNCHANGED <<stack, seen>>
  BY <1>1 DEF TimerFires, Expire
<1>4. pending.keys \in Seq(Strokes) /\ notifyDue \in BOOLEAN /\ odd' \subseteq {"timeout", "blur", "nested"}
  BY <1>2 DEF IInv, TypeOK
<1>5. pending.keys # <<>>
  BY <1>2 DEF IInv, TypeOK, NoInput
<1>6. CASE pending.focus = focus
  <2>1. PICK f : f = [op |-> "timer", step |-> "observe", replay |-> cs]
    OBVIOUS
  <2>2. /\ cs \in Seq(Seq(Strokes)) /\ All(cs) = Range(pending.keys)
        /\ \A R : InOrder(R, pending.keys) => ChunksInOrder(R, cs)
    BY <1>1, <1>4, FlushDispatchIs
  <2>3. f \in TimerFrames /\ f.op = "timer" /\ f.replay = cs
    BY <2>1, <2>2 DEF TimerFrames
  <2>4. f \in Frames
    BY <2>3, FramesAre
  <2>5. Held(f) = Range(pending.keys)
    BY <2>2, <2>3, <2>4, HeldIs
  <2>6. FrameSorted(Order(nested), f)
    <3>1. InOrder(Order(nested), pending.keys)
      BY DEF IInv, Ordered
    <3> QED
      BY <2>2, <2>3, <3>1 DEF FrameSorted
  <2>7. left \cap Numbers(pending.keys) = {}
    BY <1>5, <1>6 DEF IInv, Dropped
  <2>8. seen' = pending'.keys /\ stack' = <<f>>
    BY <1>2, <1>3, <1>6, <2>1, NoInputIs
  <2> QED
    BY <1>2, <1>4, <2>3, <2>4, <2>5, <2>6, <2>7, <2>8, FirstIs
<1>7. CASE pending.focus # focus
  <2>1. Numbers(pending.keys) \subseteq left /\ "blur" \in odd
    BY <1>5, <1>7 DEF IInv, Dropped
  <2> QED
    BY <1>2, <1>3, <1>7, <2>1, TimerDropsIInv
<1> QED
  BY <1>6, <1>7

LEMMA NextIInv == IInv /\ [Next]_vars => IInv'
<1> SUFFICES ASSUME IInv, [Next]_vars
             PROVE  IInv'
  OBVIOUS
<1>1. CASE UserStep
  <2>1. CASE Blur
    BY <2>1, BlurIInv
  <2>2. ASSUME NEW f \in Focuses, FocusOn(f)
        PROVE  IInv'
    BY <2>2, FocusOnIInv
  <2>3. ASSUME NEW k \in Keys, Type(k)
        PROVE  IInv'
    BY <2>3, TypeIInv
  <2>4. ASSUME NEW k \in Keys, DispatchKeystroke(k)
        PROVE  IInv'
    BY <2>4, DispatchKeystrokeIInv
  <2> QED
    BY <1>1, <2>1, <2>2, <2>3, <2>4 DEF UserStep
<1>2. CASE Step
  BY <1>2, ConsumeIInv, DispatchStrokeIInv, ReplayIInv, HoldIInv, HandleIInv, HandledIInv,
     TimerObservedIInv, NotifyDeferredIInv, ReturnIInv DEF Step
<1>3. CASE TimerFires
  BY <1>3, TimerFiresIInv
<1>4. CASE UNCHANGED vars
  <2>1. /\ UNCHANGED <<keymap, focus, pending, notifyDue, stack, fuel, seen, typed, handled, left>>
        /\ UNCHANGED <<nested, consumed, odd>>
    BY <1>4 DEF vars, inputVars, ghostVars, logVars
  <2>2. HeldBy' = HeldBy /\ HandledStrokes' = HandledStrokes
    BY <2>1 DEF HeldBy, HandledStrokes
  <2>3. TypeOK' /\ Shapes' /\ Known'
    BY <2>1, <2>2 DEF IInv, TypeOK, Shapes, Known
  <2>4. Ordered(nested, handled, pending.keys, stack)'
    BY <2>1 DEF IInv
  <2>5. Dropped' /\ Accounted' /\ Overwritten' /\ Told'
    BY <2>1, <2>2 DEF IInv, Dropped, Accounted, Overwritten, Told
  <2> QED
    BY <2>3, <2>4, <2>5 DEF IInv
<1> QED
  BY <1>1, <1>2, <1>3, <1>4 DEF Next

LEMMA Invariance == Spec => []IInv
<1>1. Init => IInv
  BY InitIInv
<1>2. IInv /\ [Next]_vars => IInv'
  BY NextIInv
<1> QED
  BY <1>1, <1>2, PTL DEF Spec

------------------------------------------------------------------------------
(***************************************************************************)
(* What it gives.                                                          *)
(***************************************************************************)

\* What a call holds in the invariant's sense it holds in the model's.
LEMMA HeldInCalls == IInv => HeldNumbers \subseteq InCalls
<1> SUFFICES ASSUME IInv, NEW i \in DOMAIN stack, NEW x \in Held(stack[i])
             PROVE  x.n \in InCall(stack[i])
  BY DEF HeldNumbers, HeldBy, InCalls
<1>1. PICK f : f = stack[i]
  OBVIOUS
<1>2. f \in Frames
  <2>1. stack \in Seq(Frames) /\ i \in 1 .. Len(stack)
    BY LenProperties DEF IInv, TypeOK
  <2> QED
    BY <1>1, <2>1, ElementOfSeq
<1>3. CASE f.op = "key"
  <2>1. f \in KeyFrames
    BY <1>2, <1>3, OpIs
  <2>2. InCall(f) = {f.key.n} \cup InChunks(f.replay) \cup Numbers(f.pending) \cup Numbers(f.last)
    BY <1>3 DEF InCall
  <2>3. Held(f) = {f.key} \/ Held(f) = All(f.replay) \cup Range(f.pending) \cup Range(f.last)
    BY <1>2, <2>1, HeldIs
  <2> QED
    BY <1>1, <2>2, <2>3, NumbersAre
<1>4. CASE f.op = "timer"
  <2>1. f \in TimerFrames
    BY <1>2, <1>4, OpIs
  <2>2. InCall(f) = InChunks(f.replay) /\ Held(f) = All(f.replay)
    BY <1>2, <1>4, <2>1, HeldIs DEF InCall
  <2> QED
    BY <1>1, <2>2, NumbersAre
<1>5. CASE f.op = "deferred"
  BY <1>1, <1>2, <1>5, HeldIs
<1> QED
  BY <1>2, <1>3, <1>4, <1>5, OpIs

\* Types, and: a keystroke is handled, or consumed, or still held, by the
\* window or by a dispatch_key_event or a timer in progress, unless the focus
\* moved while it was pending or a handler dispatched it.  Neither the replay
\* nor the timer loses one, however deep handlers nest dispatches.
THEOREM NoKeystrokeIsLost == Spec => []Consistent
<1>1. IInv => Consistent
  BY HeldInCalls DEF IInv, Accounted, Consistent, NothingLost, HeldNumbers
<1> QED
  BY <1>1, Invariance, PTL

\* dispatch_key, flush_dispatch and replay_pending_input hand the keystrokes
\* that no handler dispatches to bindings and listeners in the order they were
\* typed in, each once: those of a call wait for the calls above it, and those
\* that are pending for no call but the first.
THEOREM KeystrokesStayInOrder == Spec => []HandledInOrder
<1>1. IInv => HandledInOrder
  <2> SUFFICES ASSUME IInv, NEW i \in DOMAIN handled, NEW j \in DOMAIN handled,
                      NEW p \in DOMAIN handled[i], NEW q \in DOMAIN handled[j],
                      i < j \/ (i = j /\ p < q),
                      {handled[i][p].n, handled[j][q].n} \cap nested = {}
               PROVE  handled[i][p].n < handled[j][q].n
    BY DEF HandledInOrder
  <2>1. ChunksInOrder(Order(nested), handled)
    BY DEF IInv, Ordered
  <2>2. <<handled[i][p], handled[j][q]>> \in Order(nested)
    BY <2>1 DEF ChunksInOrder
  <2> QED
    BY <2>2 DEF Order
<1> QED
  BY <1>1, Invariance, PTL

\* What was pending when Window::focus or blur moved the focus never reaches a
\* binding or a listener.
THEOREM WhatIsLeftIsDropped == Spec => []LeftIsDropped
<1>1. IInv => LeftIsDropped
  BY DEF IInv, Dropped, LeftIsDropped
<1> QED
  BY <1>1, Invariance, PTL

\* When the App is idle the observers of pending_input_changed have seen what
\* is pending, unless they dispatched keystrokes themselves or a blur left it
\* to be dropped by the timer.
THEOREM ObserversKnowWhatIsPending == Spec => []ObserversKnow
<1>1. IInv => ObserversKnow
  BY DEF IInv, Told, ObserversKnow, Idle
<1> QED
  BY <1>1, Invariance, PTL

------------------------------------------------------------------------------
(***************************************************************************)
(* Words, and what may be continued.                                       *)
(***************************************************************************)
LEMMA PrefixOf ==
  ASSUME NEW S, NEW s \in Seq(S), NEW n \in 0 .. Len(s)
  PROVE  /\ SubSeq(s, 1, n) \in Seq(S) /\ Len(SubSeq(s, 1, n)) = n
         /\ \A i \in 1 .. n : SubSeq(s, 1, n)[i] = s[i]
<1>1. PICK N \in Nat : N = Len(s)
  BY LenProperties
<1>2. n \in Int /\ n \in 0 .. N /\ n \in Nat
  BY <1>1
<1>3. \A i \in 1 .. n : s[i] \in S
  BY <1>1, <1>2, ElementOfSeq
<1>4. /\ SubSeq(s, 1, n) \in Seq(S)
      /\ Len(SubSeq(s, 1, n)) = IF 1 <= n THEN n - 1 + 1 ELSE 0
      /\ \A i \in 1 .. n - 1 + 1 : SubSeq(s, 1, n)[i] = s[1 + i - 1]
  BY <1>2, <1>3, SubSeqProperties
<1>5. n - 1 + 1 = n /\ (\A i \in 1 .. n : 1 + i - 1 = i) /\ (~(1 <= n) => n = 0)
  BY <1>2
<1> QED
  BY <1>2, <1>4, <1>5

LEMMA PrefixOfPrefix ==
  ASSUME NEW S, NEW s \in Seq(S), NEW m \in 0 .. Len(s), NEW n \in 0 .. m
  PROVE  SubSeq(SubSeq(s, 1, m), 1, n) = SubSeq(s, 1, n)
<1>1. Len(s) \in Nat /\ n \in 0 .. Len(s) /\ m \in Nat /\ n \in Nat /\ \A i \in 1 .. n : i \in 1 .. m
  BY LenProperties
<1>2. PICK u : u = SubSeq(s, 1, m)
  OBVIOUS
<1>3. u \in Seq(S) /\ Len(u) = m /\ \A i \in 1 .. m : u[i] = s[i]
  BY <1>2, PrefixOf
<1>4. SubSeq(u, 1, n) \in Seq(S) /\ Len(SubSeq(u, 1, n)) = n /\ \A i \in 1 .. n : SubSeq(u, 1, n)[i] = u[i]
  BY <1>3, PrefixOf
<1>5. SubSeq(s, 1, n) \in Seq(S) /\ Len(SubSeq(s, 1, n)) = n /\ \A i \in 1 .. n : SubSeq(s, 1, n)[i] = s[i]
  BY <1>1, PrefixOf
<1>6. \A i \in 1 .. n : SubSeq(u, 1, n)[i] = SubSeq(s, 1, n)[i]
  BY <1>1, <1>3, <1>4, <1>5
<1>7. SubSeq(u, 1, n) = SubSeq(s, 1, n)
  BY <1>4, <1>5, <1>6, SeqEqual
<1> QED
  BY <1>2, <1>7

LEMMA WordIs ==
  ASSUME NEW ks \in Seq(Strokes)
  PROVE  /\ Word(ks) \in Seq(Keys) /\ Len(Word(ks)) = Len(ks)
         /\ \A n \in 0 .. Len(ks) : Word(SubSeq(ks, 1, n)) = SubSeq(Word(ks), 1, n)
<1>0. ASSUME NEW s \in Seq(Strokes)
      PROVE  /\ Word(s) \in Seq(Keys) /\ Len(Word(s)) = Len(s)
             /\ \A i \in 1 .. Len(s) : Word(s)[i] = s[i].key
  <2>1. Len(s) \in Nat /\ DOMAIN s = 1 .. Len(s)
    BY LenProperties
  <2>2. \A i \in 1 .. Len(s) : s[i].key \in Keys
    <3>1. \A i \in 1 .. Len(s) : s[i] \in Strokes
      BY ElementOfSeq
    <3> QED
      BY <3>1 DEF Strokes
  <2>3. Word(s) = [i \in 1 .. Len(s) |-> s[i].key]
    BY <2>1 DEF Word
  <2>4. Word(s) \in [1 .. Len(s) -> Keys]
    BY <2>2, <2>3
  <2>5. Word(s) \in Seq(Keys)
    BY <2>1, <2>4
  <2>6. Len(Word(s)) = Len(s)
    BY <2>1, <2>4, <2>5, LenProperties
  <2> QED
    BY <2>3, <2>5, <2>6
<1>1. Word(ks) \in Seq(Keys) /\ Len(Word(ks)) = Len(ks)
  BY <1>0
<1>2. ASSUME NEW n \in 0 .. Len(ks)
      PROVE  Word(SubSeq(ks, 1, n)) = SubSeq(Word(ks), 1, n)
  <2>1. PICK u : u = SubSeq(ks, 1, n)
    OBVIOUS
  <2>2. u \in Seq(Strokes) /\ Len(u) = n /\ \A i \in 1 .. n : u[i] = ks[i]
    BY <2>1, PrefixOf
  <2>3. PICK w : w = Word(ks)
    OBVIOUS
  <2>4. w \in Seq(Keys) /\ Len(w) = Len(ks) /\ \A i \in 1 .. Len(ks) : w[i] = ks[i].key
    BY <1>0, <2>3
  <2>5. Word(u) \in Seq(Keys) /\ Len(Word(u)) = n /\ \A i \in 1 .. n : Word(u)[i] = u[i].key
    BY <1>0, <2>2
  <2>6. n \in 0 .. Len(w)
    BY <2>4
  <2>7. SubSeq(w, 1, n) \in Seq(Keys) /\ Len(SubSeq(w, 1, n)) = n /\ \A i \in 1 .. n : SubSeq(w, 1, n)[i] = w[i]
    BY <2>4, <2>6, PrefixOf
  <2>8. \A i \in 1 .. n : i \in 1 .. Len(ks)
    BY LenProperties
  <2>9. \A i \in 1 .. n : Word(u)[i] = SubSeq(w, 1, n)[i]
    BY <2>2, <2>4, <2>5, <2>7, <2>8
  <2>10. Word(u) = SubSeq(w, 1, n)
    BY <2>5, <2>7, <2>9, SeqEqual
  <2> QED
    BY <2>1, <2>3, <2>10
<1> QED
  BY <1>1, <1>2

\* The bindings of a keymap are words.
Proper(km) == \A i \in DOMAIN km : km[i].keys \in Seq(Keys)

\* More may come of the prefixes of a word that may be continued, and of the
\* shorter prefixes of a bound one.
LEMMA PendingPrefixes ==
  ASSUME NEW km, NEW c, Proper(km), PrefixClosed(km, c), NEW ks \in Seq(Strokes), Pending(km, c, Word(ks))
  PROVE  AllPending(km, c, ks)
<1>1. PICK w : w = Word(ks)
  OBVIOUS
<1>2. w \in Seq(Keys) /\ Len(w) = Len(ks) /\ Len(ks) \in Nat
  BY <1>1, WordIs, LenProperties
<1>3. PICK i \in Longer(km, c, w) : ~km[i].noAction
  BY <1>1 DEF Pending
<1>4. i \in Enabled(km, c) /\ IsStrictPrefix(w, km[i].keys)
  BY <1>3 DEF Longer
<1>5. PICK v : v = km[i].keys
  OBVIOUS
<1>6. v \in Seq(Keys) /\ Len(v) \in Nat
  <2>1. v \in Seq(Keys)
    BY <1>4, <1>5 DEF Enabled, Proper
  <2> QED
    BY <2>1, LenProperties
<1>7. Len(w) <= Len(v) /\ SubSeq(w, 1, Len(w)) = SubSeq(v, 1, Len(w)) /\ w # v
  BY <1>4, <1>5 DEF IsStrictPrefix, IsPrefix
<1>8. SubSeq(w, 1, Len(w)) = w /\ SubSeq(v, 1, Len(v)) = v
  BY <1>2, <1>6, SubSeqFull
<1>9. Len(w) # Len(v)
  BY <1>7, <1>8
<1>10. ASSUME NEW n \in 1 .. Len(ks)
       PROVE  Pending(km, c, Word(SubSeq(ks, 1, n)))
  <2>1. n \in 1 .. Len(v) - 1 /\ n \in 0 .. Len(ks) /\ n \in 0 .. Len(w) /\ Len(w) \in 0 .. Len(v)
    BY <1>2, <1>6, <1>7, <1>9
  <2>2. Pending(km, c, SubSeq(v, 1, n))
    BY <1>3, <1>4, <1>5, <2>1 DEF PrefixClosed
  <2>3. Word(SubSeq(ks, 1, n)) = SubSeq(w, 1, n)
    BY <1>1, <2>1, WordIs
  <2>4. SubSeq(SubSeq(v, 1, Len(w)), 1, n) = SubSeq(v, 1, n)
    BY <1>6, <2>1, PrefixOfPrefix
  <2>5. SubSeq(w, 1, n) = SubSeq(v, 1, n)
    BY <1>7, <1>8, <2>4
  <2> QED
    BY <2>2, <2>3, <2>5
<1> QED
  BY <1>10 DEF AllPending

LEMMA BoundPrefixes ==
  ASSUME NEW km, NEW c, Proper(km), PrefixClosed(km, c), NEW ks \in Seq(Strokes), IsBound(km, c, ks),
         NEW m \in 0 .. Len(ks) - 1
  PROVE  AllPending(km, c, SubSeq(ks, 1, m))
<1>1. Len(ks) \in Nat /\ m \in Nat /\ m \in 0 .. Len(ks)
  BY LenProperties
<1>2. PICK w : w = Word(ks)
  OBVIOUS
<1>3. w \in Seq(Keys) /\ Len(w) = Len(ks)
  BY <1>2, WordIs
<1>4. PICK i \in Bound(km, c, w) : TRUE
  BY <1>2 DEF IsBound
<1>5. i \in Enabled(km, c) /\ km[i].keys = w /\ ~km[i].noAction
  BY <1>4 DEF Bound, Matches
<1>6. PICK u : u = SubSeq(ks, 1, m)
  OBVIOUS
<1>7. u \in Seq(Strokes) /\ Len(u) = m
  BY <1>1, <1>6, PrefixOf
<1>8. ASSUME NEW n \in 1 .. Len(u)
      PROVE  Pending(km, c, Word(SubSeq(u, 1, n)))
  <2>1. n \in 1 .. Len(ks) - 1 /\ n \in 0 .. m /\ n \in 0 .. Len(ks)
    BY <1>1, <1>7
  <2>2. SubSeq(u, 1, n) = SubSeq(ks, 1, n)
    BY <1>1, <1>6, <2>1, PrefixOfPrefix
  <2>3. Word(SubSeq(ks, 1, n)) = SubSeq(w, 1, n)
    BY <1>2, <2>1, WordIs
  <2>4. Pending(km, c, SubSeq(w, 1, n))
    BY <1>3, <1>5, <2>1 DEF PrefixClosed
  <2> QED
    BY <2>2, <2>3, <2>4
<1> QED
  BY <1>6, <1>8 DEF AllPending

------------------------------------------------------------------------------
(***************************************************************************)
(* What is read.                                                           *)
(***************************************************************************)
MayBeRead(km, c, ks) ==
  {n \in 1 .. Len(ks) :
     n = 1 \/ (AllPending(km, c, SubSeq(ks, 1, n - 1)) /\ IsBound(km, c, SubSeq(ks, 1, n)))}

\* A chunk is one of those that may be read, and the longest.
LEMMA ReadLengthIs ==
  ASSUME NEW km, NEW c, NEW S, NEW ks \in Seq(S), ks # <<>>
  PROVE  /\ ReadLength(km, c, ks) \in MayBeRead(km, c, ks)
         /\ ReadLength(km, c, ks) \in 1 .. Len(ks)
         /\ ReadLength(km, c, ks) = Max(MayBeRead(km, c, ks))
         /\ \A n \in MayBeRead(km, c, ks) : ReadLength(km, c, ks) >= n
<1> DEFINE N == MayBeRead(km, c, ks)
<1>1. Len(ks) \in Nat /\ Len(ks) > 0
  BY EmptySeq, LenProperties
<1>2. 1 \in N /\ N \in SUBSET (1 .. Len(ks)) /\ N \in SUBSET Nat
  BY <1>1 DEF MayBeRead
<1>3. IsFiniteSet(N)
  <2>1. IsFiniteSet(1 .. Len(ks))
    BY <1>1, FS_Interval
  <2> HIDE DEF N
  <2> QED
    BY <1>2, <2>1, FS_Subset
<1>4. ReadLength(km, c, ks) = Max(N)
  BY DEF ReadLength, MayBeRead
<1> HIDE DEF N
<1>5. \E m \in N : \A k \in N : m >= k
  BY <1>2, <1>3, MaxExists
<1>6. Max(N) \in N /\ \A k \in N : Max(N) >= k
  BY <1>5 DEF Max
<1> QED
  BY <1>2, <1>4, <1>6 DEF N

LEMMA ReadChunkIs ==
  ASSUME NEW km, NEW c, NEW S, NEW ks \in Seq(S), NEW m \in 1 .. Len(ks)
  PROVE  LET n == ReadLength(km, c, Latest(ks, m))
         IN  /\ n \in 1 .. m
             /\ m - n \in 0 .. m - 1
             /\ SubSeq(Latest(ks, m), 1, n) \in Seq(S)
<1>1. m \in 0 .. Len(ks) /\ m # 0 /\ m \in Nat
  BY LenProperties
<1>2. PICK w : w = Latest(ks, m)
  OBVIOUS
<1>3. w \in Seq(S) /\ Len(w) = m
  BY <1>1, <1>2, LatestIs
<1>4. w # <<>>
  BY <1>1, <1>3, EmptySeq
<1>5. PICK n : n = ReadLength(km, c, w)
  OBVIOUS
<1>6. n \in 1 .. m
  BY <1>3, <1>4, <1>5, ReadLengthIs
<1>7. m - n \in 0 .. m - 1 /\ n \in 0 .. m
  BY <1>1, <1>6
<1>8. SubSeq(w, 1, n) \in Seq(S)
  BY <1>3, <1>7, PrefixOf
<1> QED
  BY <1>2, <1>5, <1>6, <1>7, <1>8

Readings(S) == [chunks : Seq(Seq(S)), rest : Seq(S)]

ReadSteps(R, km, c, ks) ==
  \A m \in 0 .. Len(ks) :
    LET w == Latest(ks, m)
        n == ReadLength(km, c, w)
    IN  \/ AllPending(km, c, w) /\ R[m] = [chunks |-> <<>>, rest |-> w]
        \/ /\ ~AllPending(km, c, w) /\ m # 0
           /\ R[m] = [chunks |-> <<SubSeq(w, 1, n)>> \o R[m - n].chunks, rest |-> R[m - n].rest]

\* No keystroke, nothing read.
LEMMA NothingToRead ==
  ASSUME NEW km, NEW c, NEW ks, Len(ks) = 0
  PROVE  AllPending(km, c, ks)
BY DEF AllPending

\* The reference is defined for all suffixes of a text.
LEMMA ReadingIs ==
  ASSUME NEW km, NEW c, NEW S, NEW ks \in Seq(S)
  PROVE  /\ Reading(km, c, ks) \in [0 .. Len(ks) -> Readings(S)]
         /\ ReadSteps(Reading(km, c, ks), km, c, ks)
<1> DEFINE P(m) == ReadLength(km, c, Latest(ks, m))
           C(m) == SubSeq(Latest(ks, m), 1, P(m))
           Pend(m) == AllPending(km, c, Latest(ks, m))
           Go(m, v) == [chunks |-> <<C(m)>> \o v.chunks, rest |-> v.rest]
           Rest(m) == [chunks |-> <<>>, rest |-> Latest(ks, m)]
           Is(f) == f = [m \in 0 .. Len(ks) |-> IF Pend(m) THEN Rest(m) ELSE Go(m, f[m - P(m)])]
           V == Readings(S)
<1>1. PICK N \in Nat : N = Len(ks)
  BY LenProperties
<1>2. ASSUME NEW m \in 1 .. N
      PROVE  P(m) \in 1 .. m /\ m - P(m) \in 0 .. m - 1 /\ C(m) \in Seq(S)
  BY <1>1, ReadChunkIs
<1>3. ASSUME NEW m \in 0 .. N
      PROVE  Rest(m) \in V
  <2>1. Latest(ks, m) \in Seq(S)
    BY <1>1, LatestIs
  <2>2. <<>> \in Seq(Seq(S))
    OBVIOUS
  <2> QED
    BY <2>1, <2>2 DEF Readings
<1>4. ASSUME NEW m \in 1 .. N, NEW v \in V
      PROVE  Go(m, v) \in V
  <2>1. <<C(m)>> \in Seq(Seq(S))
    <3> HIDE DEF C
    <3> QED
      BY <1>2
  <2>2. v.chunks \in Seq(Seq(S)) /\ v.rest \in Seq(S)
    BY DEF Readings
  <2>3. <<C(m)>> \o v.chunks \in Seq(Seq(S))
    BY <2>1, <2>2, ConcatProperties
  <2> HIDE DEF C
  <2> QED
    BY <2>2, <2>3 DEF Readings
<1>40. ASSUME NEW m \in 0 .. N, ~Pend(m)
       PROVE  m \in 1 .. N
  <2>1. m = 0 => Len(Latest(ks, m)) = 0
    BY <1>1, LatestIs
  <2>2. m # 0
    BY <1>40, <2>1, NothingToRead
  <2> QED
    BY <2>2
<1> HIDE DEF Pend, Go, Rest, V
<1>5. PICK to : to = [m \in 0 .. N |-> m - P(m)]
  OBVIOUS
<1>6. PICK base : base = [m \in 0 .. N |-> Rest(m)]
  OBVIOUS
<1>7. PICK step : step = [m \in 0 .. N |-> [v \in V |-> Go(m, v)]]
  OBVIOUS
<1>8. PICK Stop : Stop = {m \in 0 .. N : Pend(m)}
  OBVIOUS
<1> HIDE DEF P
<1>9. GoesBack(N, V, Stop, to, base, step)
  <2> SUFFICES ASSUME NEW m \in 0 .. N
               PROVE  IF m \in Stop THEN base[m] \in V
                      ELSE to[m] \in 0 .. m - 1 /\ \A v \in V : step[m][v] \in V
    BY DEF GoesBack
  <2>1. base[m] \in V
    BY <1>3, <1>6
  <2>2. ASSUME m \notin Stop
        PROVE  to[m] \in 0 .. m - 1 /\ \A v \in V : step[m][v] \in V
    <3>1. m \in 1 .. N
      BY <1>8, <1>40, <2>2
    <3>2. to[m] \in 0 .. m - 1
      BY <1>2, <1>5, <3>1
    <3>3. \A v \in V : step[m][v] \in V
      BY <1>4, <1>7, <3>1
    <3> QED
      BY <3>2, <3>3
  <2> QED
    BY <2>1, <2>2
<1>10. \E f \in [0 .. N -> V] : Follows(f, N, Stop, to, base, step)
  BY <1>1, <1>9, RecursionExists
<1>11. PICK f \in [0 .. N -> V] :
         \A m \in 0 .. N : f[m] = IF m \in Stop THEN base[m] ELSE step[m][f[to[m]]]
  BY <1>10 DEF Follows
<1>12. ASSUME NEW m \in 0 .. N
       PROVE  f[m] = IF Pend(m) THEN Rest(m) ELSE Go(m, f[m - P(m)])
  <2>1. CASE m \in Stop
    BY <1>6, <1>8, <1>11, <2>1
  <2>2. CASE m \notin Stop
    <3>1. m \in 1 .. N /\ ~Pend(m)
      BY <1>8, <1>40, <2>2
    <3>2. to[m] = m - P(m) /\ to[m] \in 0 .. N
      BY <1>2, <1>5, <3>1
    <3>3. f[to[m]] \in V
      BY <1>11, <3>2
    <3>4. step[m][f[to[m]]] = Go(m, f[to[m]])
      BY <1>7, <3>3
    <3> QED
      BY <1>11, <2>2, <3>1, <3>2, <3>4
  <2> QED
    BY <2>1, <2>2
<1>13. Is(f)
  BY <1>1, <1>11, <1>12
<1>14. Reading(km, c, ks) = CHOOSE g : Is(g)
  BY DEF Reading, P, C, Pend, Rest, Go
<1>15. Is(Reading(km, c, ks))
  <2> HIDE DEF Is
  <2> QED
    BY <1>13, <1>14
<1> DEFINE R == Reading(km, c, ks)
<1>16. R = [m \in 0 .. N |-> IF Pend(m) THEN Rest(m) ELSE Go(m, R[m - P(m)])]
  BY <1>1, <1>15
<1> HIDE DEF R
<1>17. ASSUME NEW m \in 0 .. N
       PROVE  \/ Pend(m) /\ R[m] = Rest(m)
              \/ ~Pend(m) /\ m # 0 /\ R[m] = Go(m, R[m - P(m)])
  BY <1>16, <1>40
<1>18. \A m \in 0 .. N : R[m] \in V
  <2> DEFINE G == {m \in 0 .. N : R[m] \in V}
  <2>1. ASSUME NEW m \in 0 .. N, \A i \in 0 .. m - 1 : i \in G
        PROVE  m \in G
    <3>1. CASE R[m] = Rest(m)
      BY <1>3, <3>1
    <3>2. CASE m # 0 /\ R[m] = Go(m, R[m - P(m)])
      <4>1. m \in 1 .. N
        BY <3>2
      <4>2. m - P(m) \in 0 .. m - 1
        BY <1>2, <4>1
      <4>3. R[m - P(m)] \in V
        BY <2>1, <4>2
      <4> QED
        BY <1>4, <3>2, <4>1, <4>3
    <3> QED
      BY <1>17, <3>1, <3>2
  <2>2. \A m \in 0 .. N : m \in G
    <3> HIDE DEF G
    <3> QED
      BY <1>1, <2>1, Upto
  <2> QED
    BY <2>2
<1>19. R \in [0 .. N -> V]
  <2>1. DOMAIN R = 0 .. N /\ R = [m \in 0 .. N |-> R[m]]
    BY <1>16
  <2> QED
    BY <1>18, <2>1
<1> QED
  BY <1>1, <1>17, <1>19 DEF R, P, C, V, Pend, Rest, Go, ReadSteps

------------------------------------------------------------------------------
(***************************************************************************)
(* Reading on after one more keystroke.                                    *)
(***************************************************************************)
LEMMA LatestOfLatest ==
  ASSUME NEW S, NEW ks \in Seq(S), NEW r \in 0 .. Len(ks), NEW m \in 0 .. r
  PROVE  Latest(Latest(ks, r), m) = Latest(ks, m)
<1>1. PICK N \in Nat : N = Len(ks)
  BY LenProperties
<1>2. m \in 0 .. N /\ r \in 0 .. N /\ m \in Nat /\ r \in Nat
  BY <1>1
<1>3. PICK w : w = Latest(ks, r)
  OBVIOUS
<1>4. w \in Seq(S) /\ Len(w) = r /\ \A i \in 1 .. r : w[i] = ks[N - r + i]
  BY <1>1, <1>2, <1>3, LatestIs
<1>5. Latest(ks, m) \in Seq(S) /\ Len(Latest(ks, m)) = m /\ \A i \in 1 .. m : Latest(ks, m)[i] = ks[N - m + i]
  BY <1>1, <1>2, LatestIs
<1>6. m \in 0 .. Len(w)
  BY <1>4
<1>7. Latest(w, m) \in Seq(S) /\ Len(Latest(w, m)) = m /\ \A i \in 1 .. m : Latest(w, m)[i] = w[r - m + i]
  BY <1>4, <1>6, LatestIs
<1>8. \A i \in 1 .. m : r - m + i \in 1 .. r /\ N - r + (r - m + i) = N - m + i
  BY <1>2
<1>9. \A i \in 1 .. m : Latest(w, m)[i] = Latest(ks, m)[i]
  BY <1>4, <1>5, <1>7, <1>8
<1>10. Latest(w, m) = Latest(ks, m)
  BY <1>5, <1>7, <1>9, SeqEqual
<1> QED
  BY <1>3, <1>10

LEMMA LatestAppend ==
  ASSUME NEW S, NEW ks \in Seq(S), NEW k \in S, NEW m \in 0 .. Len(ks)
  PROVE  Latest(Append(ks, k), m + 1) = Append(Latest(ks, m), k)
<1>1. PICK N \in Nat : N = Len(ks)
  BY LenProperties
<1>2. PICK M \in Nat : M = m + 1
  BY <1>1
<1>3. PICK d \in Nat : d = N - m
  <2>1. N - m \in Nat
    BY <1>1
  <2> QED
    BY <2>1
<1>4. /\ m \in 0 .. N /\ m \in Nat /\ M \in 0 .. N + 1 /\ M \in 1 .. M /\ (N + 1) - M = d /\ d + M = N + 1
      /\ \A i \in 1 .. M : i \in 1 .. m \/ i = M
      /\ \A i \in 1 .. m : i \in 1 .. M /\ d + i \in 1 .. N
  BY <1>1, <1>2, <1>3
<1>5. PICK t : t = Append(ks, k)
  OBVIOUS
<1>6. t \in Seq(S) /\ Len(t) = N + 1 /\ (\A i \in 1 .. N : t[i] = ks[i]) /\ t[N + 1] = k
  BY <1>1, <1>5, AppendProperties
<1>7. PICK w : w = Latest(ks, m)
  OBVIOUS
<1>8. w \in Seq(S) /\ Len(w) = m /\ \A i \in 1 .. m : w[i] = ks[d + i]
  BY <1>1, <1>3, <1>7, LatestIs
<1>9. PICK v : v = Append(w, k)
  OBVIOUS
<1>10. v \in Seq(S) /\ Len(v) = M /\ (\A i \in 1 .. m : v[i] = w[i]) /\ v[M] = k
  BY <1>2, <1>8, <1>9, AppendProperties
<1>11. PICK u : u = Latest(t, M)
  OBVIOUS
<1>12. u \in Seq(S) /\ Len(u) = M /\ \A i \in 1 .. M : u[i] = t[d + i]
  <2>1. M \in 0 .. Len(t)
    BY <1>4, <1>6
  <2>2. u \in Seq(S) /\ Len(u) = M /\ \A i \in 1 .. M : u[i] = t[Len(t) - M + i]
    BY <1>6, <1>11, <2>1, LatestIs
  <2>3. Len(t) - M = d
    BY <1>4, <1>6
  <2> QED
    BY <2>2, <2>3
<1>13. \A i \in 1 .. m : u[i] = v[i]
  <2> SUFFICES ASSUME NEW i \in 1 .. m
               PROVE  u[i] = v[i]
    OBVIOUS
  <2>1. u[i] = t[d + i] /\ t[d + i] = ks[d + i]
    BY <1>4, <1>6, <1>12
  <2>2. v[i] = w[i] /\ w[i] = ks[d + i]
    BY <1>8, <1>10
  <2> QED
    BY <2>1, <2>2
<1>14. u[M] = v[M]
  <2>1. u[M] = t[d + M]
    BY <1>4, <1>12
  <2> QED
    BY <1>4, <1>6, <1>10, <2>1
<1>15. \A i \in 1 .. M : u[i] = v[i]
  BY <1>4, <1>13, <1>14
<1>16. u = v
  BY <1>10, <1>12, <1>15, SeqEqual
<1> QED
  BY <1>2, <1>5, <1>7, <1>9, <1>11, <1>16

LEMMA PrefixOfAppend ==
  ASSUME NEW S, NEW w \in Seq(S), NEW k \in S, NEW n \in 0 .. Len(w)
  PROVE  SubSeq(Append(w, k), 1, n) = SubSeq(w, 1, n)
<1>1. Len(w) \in Nat
  BY LenProperties
<1>2. PICK t : t = Append(w, k)
  OBVIOUS
<1>3. t \in Seq(S) /\ Len(t) = Len(w) + 1 /\ \A i \in 1 .. Len(w) : t[i] = w[i]
  BY <1>2, AppendProperties
<1>4. n \in 0 .. Len(t) /\ \A i \in 1 .. n : i \in 1 .. Len(w)
  BY <1>1, <1>3
<1>5. SubSeq(t, 1, n) \in Seq(S) /\ Len(SubSeq(t, 1, n)) = n /\ \A i \in 1 .. n : SubSeq(t, 1, n)[i] = t[i]
  BY <1>3, <1>4, PrefixOf
<1>6. SubSeq(w, 1, n) \in Seq(S) /\ Len(SubSeq(w, 1, n)) = n /\ \A i \in 1 .. n : SubSeq(w, 1, n)[i] = w[i]
  BY PrefixOf
<1>7. \A i \in 1 .. n : SubSeq(t, 1, n)[i] = SubSeq(w, 1, n)[i]
  BY <1>3, <1>4, <1>5, <1>6
<1>8. SubSeq(t, 1, n) = SubSeq(w, 1, n)
  BY <1>5, <1>6, <1>7, SeqEqual
<1> QED
  BY <1>2, <1>8

\* What comes after a chunk does not change it.
LEMMA StillRead ==
  ASSUME NEW km, NEW c, NEW S, NEW w \in Seq(S), NEW k \in S, ~AllPending(km, c, w)
  PROVE  /\ ~AllPending(km, c, Append(w, k))
         /\ ReadLength(km, c, Append(w, k)) = ReadLength(km, c, w)
<1>1. PICK N \in Nat : N = Len(w)
  BY LenProperties
<1>2. N # 0
  BY <1>1, NothingToRead
<1>3. PICK t : t = Append(w, k)
  OBVIOUS
<1>4. t \in Seq(S) /\ Len(t) = N + 1
  BY <1>1, <1>3, AppendProperties
<1>5. \A n \in 0 .. N : SubSeq(t, 1, n) = SubSeq(w, 1, n)
  BY <1>1, <1>3, PrefixOfAppend
<1>6. ~AllPending(km, c, t)
  <2>1. PICK n \in 1 .. N : ~Pending(km, c, Word(SubSeq(w, 1, n)))
    BY <1>1 DEF AllPending
  <2>2. n \in 0 .. N /\ n \in 1 .. N + 1
    OBVIOUS
  <2> QED
    BY <1>4, <1>5, <2>1, <2>2 DEF AllPending
<1>7. ~AllPending(km, c, SubSeq(t, 1, N))
  <2>1. SubSeq(w, 1, N) = w /\ N \in 0 .. N
    BY <1>1, SubSeqFull
  <2> QED
    BY <1>5, <2>1
<1>8. ASSUME NEW n
      PROVE  n \in MayBeRead(km, c, t) <=> n \in MayBeRead(km, c, w)
  <2>1. CASE n \in 1 .. N
    <3>1. n \in 1 .. N + 1 /\ n \in 0 .. N /\ n - 1 \in 0 .. N
      BY <2>1
    <3>2. SubSeq(t, 1, n) = SubSeq(w, 1, n) /\ SubSeq(t, 1, n - 1) = SubSeq(w, 1, n - 1)
      BY <1>5, <3>1
    <3> QED
      BY <1>1, <1>4, <2>1, <3>1, <3>2 DEF MayBeRead
  <2>2. CASE n = N + 1
    <3>1. n # 1 /\ n - 1 = N /\ n \notin 1 .. N
      BY <1>2, <2>2
    <3>2. n \notin MayBeRead(km, c, t)
      BY <1>7, <3>1 DEF MayBeRead
    <3> QED
      BY <1>1, <3>1, <3>2 DEF MayBeRead
  <2>3. CASE n \notin 1 .. N /\ n # N + 1
    <3>1. n \notin 1 .. N + 1
      BY <2>3
    <3> QED
      BY <1>1, <1>4, <2>3, <3>1 DEF MayBeRead
  <2> QED
    BY <2>1, <2>2, <2>3
<1>9. MayBeRead(km, c, t) = MayBeRead(km, c, w)
  BY <1>8
<1>10. w # <<>> /\ t # <<>>
  BY <1>1, <1>2, <1>4, EmptySeq
<1>11. ReadLength(km, c, t) = ReadLength(km, c, w)
  BY <1>4, <1>9, <1>10, ReadLengthIs
<1> QED
  BY <1>3, <1>6, <1>11

\* One step of it.
ReadsNothing(R, w, m) == R[m].chunks = <<>> /\ R[m].rest = w
ReadsChunk(R, w, m, n) ==
  m # 0 /\ R[m].chunks = <<SubSeq(w, 1, n)>> \o R[m - n].chunks /\ R[m].rest = R[m - n].rest

LEMMA ReadStep ==
  ASSUME NEW km, NEW c, NEW ks, NEW R, ReadSteps(R, km, c, ks), NEW m \in 0 .. Len(ks),
         NEW w, w = Latest(ks, m), NEW n, n = ReadLength(km, c, w)
  PROVE  \/ AllPending(km, c, w) /\ ReadsNothing(R, w, m)
         \/ ~AllPending(km, c, w) /\ ReadsChunk(R, w, m, n)
<1>1. PICK x : x = <<SubSeq(w, 1, n)>> \o R[m - n].chunks
  OBVIOUS
<1>2. \/ AllPending(km, c, w) /\ R[m] = [chunks |-> <<>>, rest |-> w]
      \/ ~AllPending(km, c, w) /\ m # 0 /\ R[m] = [chunks |-> x, rest |-> R[m - n].rest]
  BY <1>1 DEF ReadSteps
<1>3. CASE AllPending(km, c, w) /\ R[m] = [chunks |-> <<>>, rest |-> w]
  BY <1>3 DEF ReadsNothing
<1>4. CASE ~AllPending(km, c, w) /\ m # 0 /\ R[m] = [chunks |-> x, rest |-> R[m - n].rest]
  <2>1. R[m].chunks = x /\ R[m].rest = R[m - n].rest
    BY <1>4
  <2> QED
    BY <1>1, <1>4, <2>1 DEF ReadsChunk
<1> QED
  BY <1>2, <1>3, <1>4

\* Reading starts over from what was left.
GoesOnFrom(R, Q, ks, m, r) ==
  /\ r \in 0 .. m
  /\ R[m].rest = Latest(ks, r)
  /\ Q[m + 1].chunks = R[m].chunks \o Q[r + 1].chunks
  /\ Q[m + 1].rest = Q[r + 1].rest

LEMMA ReadOn ==
  ASSUME NEW km, NEW c, NEW S, NEW ks \in Seq(S), NEW k \in S
  PROVE  \A m \in 0 .. Len(ks) : \E r \in 0 .. m :
           GoesOnFrom(Reading(km, c, ks), Reading(km, c, Append(ks, k)), ks, m, r)
<1>1. PICK N \in Nat : N = Len(ks)
  BY LenProperties
<1>2. PICK t : t = Append(ks, k)
  OBVIOUS
<1>3. t \in Seq(S) /\ Len(t) = N + 1
  BY <1>1, <1>2, AppendProperties
<1>4. PICK R : R = Reading(km, c, ks)
  OBVIOUS
<1>5. PICK Q : Q = Reading(km, c, t)
  OBVIOUS
<1>6. R \in [0 .. N -> Readings(S)] /\ ReadSteps(R, km, c, ks)
  BY <1>1, <1>4, ReadingIs
<1>7. Q \in [0 .. N + 1 -> Readings(S)] /\ ReadSteps(Q, km, c, t)
  BY <1>3, <1>5, ReadingIs
<1> DEFINE G == {m \in 0 .. N : \E r \in 0 .. m : GoesOnFrom(R, Q, ks, m, r)}
<1>8. ASSUME NEW m \in 0 .. N, \A i \in 0 .. m - 1 : i \in G
      PROVE  m \in G
  <2>1. PICK w : w = Latest(ks, m)
    OBVIOUS
  <2>2. w \in Seq(S) /\ Len(w) = m /\ m \in Nat
    BY <1>1, <2>1, LatestIs
  <2>3. Latest(t, m + 1) = Append(w, k)
    BY <1>1, <1>2, <2>1, LatestAppend
  <2>4. m \in 0 .. m /\ m + 1 \in 0 .. N + 1 /\ m + 1 # 0
    BY <2>2
  <2>5. CASE AllPending(km, c, w)
    <3>1. R[m].chunks = <<>> /\ R[m].rest = w
      <4>1. PICK n : n = ReadLength(km, c, w)
        OBVIOUS
      <4>2. ReadsNothing(R, w, m)
        BY <1>1, <1>6, <2>1, <2>5, <4>1, ReadStep
      <4> QED
        BY <4>2 DEF ReadsNothing
    <3>2. Q[m + 1].chunks \in Seq(Seq(S))
      BY <1>7, <2>4 DEF Readings
    <3>3. Q[m + 1].chunks = R[m].chunks \o Q[m + 1].chunks
      <4>1. PICK x : x = Q[m + 1].chunks
        OBVIOUS
      <4>2. <<>> \o x = x
        BY <3>2, <4>1, ConcatEmptySeq
      <4> QED
        BY <3>1, <4>1, <4>2
    <3>4. GoesOnFrom(R, Q, ks, m, m)
      BY <2>1, <2>4, <3>1, <3>3 DEF GoesOnFrom
    <3> QED
      BY <2>4, <3>4
  <2>6. CASE ~AllPending(km, c, w)
    <3>1. PICK n : n = ReadLength(km, c, w)
      OBVIOUS
    <3>2. m # 0 /\ R[m].chunks = <<SubSeq(w, 1, n)>> \o R[m - n].chunks /\ R[m].rest = R[m - n].rest
      <4>1. ReadsChunk(R, w, m, n)
        BY <1>1, <1>6, <2>1, <2>6, <3>1, ReadStep
      <4> QED
        BY <4>1 DEF ReadsChunk
    <3>3. n \in 1 .. m /\ m - n \in 0 .. m - 1 /\ SubSeq(w, 1, n) \in Seq(S)
      <4>1. m \in 1 .. Len(ks)
        BY <1>1, <3>2
      <4> QED
        BY <2>1, <3>1, <4>1, ReadChunkIs
    <3>4. ~AllPending(km, c, Append(w, k)) /\ ReadLength(km, c, Append(w, k)) = n
      BY <2>2, <2>6, <3>1, StillRead
    <3>5. SubSeq(Append(w, k), 1, n) = SubSeq(w, 1, n)
      <4>1. n \in 0 .. Len(w)
        BY <2>2, <3>3
      <4> QED
        BY <2>2, <4>1, PrefixOfAppend
    <3>6. /\ Q[m + 1].chunks = <<SubSeq(w, 1, n)>> \o Q[(m + 1) - n].chunks
          /\ Q[m + 1].rest = Q[(m + 1) - n].rest
      <4>1. m + 1 \in 0 .. Len(t)
        BY <1>3, <2>4
      <4>2. PICK u : u = Append(w, k)
        OBVIOUS
      <4>3. /\ Q[m + 1].chunks = <<SubSeq(u, 1, n)>> \o Q[(m + 1) - n].chunks
            /\ Q[m + 1].rest = Q[(m + 1) - n].rest
        <5>1. u = Latest(t, m + 1) /\ ~AllPending(km, c, u) /\ n = ReadLength(km, c, u)
          BY <2>3, <3>4, <4>2
        <5>2. ReadsChunk(Q, u, m + 1, n)
          BY <1>7, <4>1, <5>1, ReadStep
        <5> QED
          BY <5>2 DEF ReadsChunk
      <4> QED
        BY <3>5, <4>2, <4>3
    <3>7. PICK i : i = m - n
      OBVIOUS
    <3>8. i \in 0 .. m - 1 /\ (m + 1) - n = i + 1 /\ i \in 0 .. N
      BY <2>2, <3>3, <3>7
    <3>9. PICK r \in 0 .. i : GoesOnFrom(R, Q, ks, i, r)
      BY <1>8, <3>8
    <3>10. r \in 0 .. m /\ r + 1 \in 0 .. N + 1
      BY <3>8
    <3>11. PICK ch : ch = <<SubSeq(w, 1, n)>>
      OBVIOUS
    <3>12. ch \in Seq(Seq(S))
      BY <3>3, <3>11
    <3>13. R[m].chunks = ch \o R[i].chunks /\ R[m].rest = R[i].rest
      BY <3>2, <3>7, <3>11
    <3>14. Q[m + 1].chunks = ch \o Q[i + 1].chunks /\ Q[m + 1].rest = Q[i + 1].rest
      BY <3>6, <3>8, <3>11
    <3>15. R[i].chunks \in Seq(Seq(S)) /\ Q[r + 1].chunks \in Seq(Seq(S))
      BY <1>6, <1>7, <3>8, <3>10 DEF Readings
    <3>16. (ch \o R[i].chunks) \o Q[r + 1].chunks = ch \o (R[i].chunks \o Q[r + 1].chunks)
      <4>1. PICK x : x = R[i].chunks
        OBVIOUS
      <4>2. PICK y : y = Q[r + 1].chunks
        OBVIOUS
      <4>3. PICK V : V = Seq(S)
        OBVIOUS
      <4>30. ch \in Seq(V) /\ x \in Seq(V) /\ y \in Seq(V)
        BY <3>12, <3>15, <4>1, <4>2, <4>3
      <4>4. (ch \o x) \o y = ch \o (x \o y)
        BY <4>30, ConcatAssociative
      <4> QED
        BY <4>1, <4>2, <4>4
    <3>17. GoesOnFrom(R, Q, ks, m, r)
      BY <3>9, <3>10, <3>13, <3>14, <3>16 DEF GoesOnFrom
    <3> QED
      BY <3>10, <3>17
  <2> QED
    BY <2>5, <2>6
<1>9. \A m \in 0 .. N : m \in G
  <2> HIDE DEF G
  <2> QED
    BY <1>1, <1>8, Upto
<1> QED
  BY <1>1, <1>2, <1>4, <1>5, <1>9

------------------------------------------------------------------------------
(***************************************************************************)
(* Dispatching a keystroke reads what was pending and it from the left.    *)
(***************************************************************************)
\* Where nothing may be continued and the whole is not bound, what is read
\* first is what is replayed first.
LEMMA ReplayedIsRead ==
  ASSUME NEW km, NEW c, Proper(km), PrefixClosed(km, c), NEW w \in Seq(Strokes), w # <<>>,
         NEW k \in Strokes, ~IsBound(km, c, Append(w, k))
  PROVE  ReadLength(km, c, Append(w, k)) = PrefixLength(km, c, w)
<1>1. PICK N \in Nat : N = Len(w)
  BY LenProperties
<1>2. N # 0
  BY <1>1, EmptySeq
<1>3. PICK t : t = Append(w, k)
  OBVIOUS
<1>4. t \in Seq(Strokes) /\ Len(t) = N + 1
  BY <1>1, <1>3, AppendProperties
<1>5. \A n \in 0 .. N : SubSeq(t, 1, n) = SubSeq(w, 1, n)
  BY <1>1, <1>3, PrefixOfAppend
<1>6. SubSeq(t, 1, N + 1) = t
  BY <1>4, SubSeqFull
<1>7. ASSUME NEW n \in 1 .. N
      PROVE  n \in MayBeRead(km, c, t) <=> n = 1 \/ IsBound(km, c, SubSeq(w, 1, n))
  <2>1. n \in 1 .. N + 1 /\ n \in 0 .. N /\ n - 1 \in 0 .. n - 1 /\ n - 1 \in 0 .. n
    OBVIOUS
  <2>2. n \in MayBeRead(km, c, t) <=>
          n = 1 \/ (AllPending(km, c, SubSeq(t, 1, n - 1)) /\ IsBound(km, c, SubSeq(w, 1, n)))
    BY <1>4, <1>5, <2>1 DEF MayBeRead
  <2>3. ASSUME IsBound(km, c, SubSeq(w, 1, n))
        PROVE  AllPending(km, c, SubSeq(t, 1, n - 1))
    <3>1. PICK u : u = SubSeq(t, 1, n)
      OBVIOUS
    <3>2. n \in 0 .. Len(t)
      BY <1>4, <2>1
    <3>3. u \in Seq(Strokes) /\ Len(u) = n
      BY <1>4, <3>1, <3>2, PrefixOf
    <3>4. IsBound(km, c, u)
      BY <1>5, <2>1, <2>3, <3>1
    <3>5. AllPending(km, c, SubSeq(u, 1, n - 1))
      BY <2>1, <3>3, <3>4, BoundPrefixes
    <3>6. SubSeq(u, 1, n - 1) = SubSeq(t, 1, n - 1)
      BY <1>4, <2>1, <3>1, <3>2, PrefixOfPrefix
    <3> QED
      BY <3>5, <3>6
  <2> QED
    BY <2>2, <2>3
<1>8. N + 1 \notin MayBeRead(km, c, t)
  <2>1. N + 1 # 1
    BY <1>2
  <2> QED
    BY <1>3, <1>6, <2>1 DEF MayBeRead
<1> DEFINE P == {n \in 1 .. N : n = 1 \/ IsBound(km, c, SubSeq(w, 1, n))}
<1>9. \A n \in MayBeRead(km, c, t) : n \in 1 .. N
  <2>1. \A n \in 1 .. N + 1 : n \in 1 .. N \/ n = N + 1
    OBVIOUS
  <2>2. \A n \in MayBeRead(km, c, t) : n \in 1 .. N + 1
    BY <1>4 DEF MayBeRead
  <2> QED
    BY <1>8, <2>1, <2>2
<1>10. MayBeRead(km, c, t) = P
  BY <1>7, <1>9
<1>11. PrefixLength(km, c, w) = Max(P)
  BY <1>1 DEF PrefixLength
<1>12. t # <<>>
  BY <1>4, EmptySeq
<1>13. ReadLength(km, c, t) = Max(P)
  BY <1>4, <1>10, <1>12, ReadLengthIs
<1> QED
  BY <1>3, <1>11, <1>13

\* A bound word none of which may be continued is read as a whole.
LEMMA BoundIsRead ==
  ASSUME NEW km, NEW c, Proper(km), PrefixClosed(km, c), NEW w \in Seq(Strokes), w # <<>>,
         IsBound(km, c, w) \/ Len(w) = 1
  PROVE  ReadLength(km, c, w) = Len(w)
<1>1. PICK N \in Nat : N = Len(w)
  BY LenProperties
<1>2. N \in 1 .. N /\ N - 1 \in 0 .. N - 1
  BY <1>1, EmptySeq
<1>3. SubSeq(w, 1, N) = w
  BY <1>1, SubSeqFull
<1>4. IsBound(km, c, w) => AllPending(km, c, SubSeq(w, 1, N - 1))
  BY <1>1, <1>2, BoundPrefixes
<1>5. N \in MayBeRead(km, c, w)
  BY <1>1, <1>2, <1>3, <1>4 DEF MayBeRead
<1>6. ReadLength(km, c, w) \in 1 .. N /\ ReadLength(km, c, w) >= N
  BY <1>1, <1>5, ReadLengthIs
<1> QED
  BY <1>1, <1>6

\* The last chunk, if nothing is pending.
Final(d) == IF d.pending = <<>> THEN <<d.last>> ELSE <<>>

SameAsRead(d, r) == d.replay \o Final(d) = r.chunks /\ d.pending = r.rest

LEMMA DispatchReads ==
  ASSUME NEW km, NEW c, Proper(km), PrefixClosed(km, c), NEW ks \in Seq(Strokes), NEW k \in Strokes,
         NEW r \in 0 .. Len(ks), NEW p, p = Latest(ks, r)
  PROVE  \A m \in 0 .. r :
           SameAsRead(Dispatched(km, c, p, k)[m], Reading(km, c, Append(ks, k))[m + 1])
<1>1. PICK N \in Nat : N = Len(ks)
  BY LenProperties
<1>2. r \in Nat /\ r \in 0 .. N
  BY <1>1
<1>3. p \in Seq(Strokes) /\ Len(p) = r
  BY LatestIs
<1>4. PICK t : t = Append(ks, k)
  OBVIOUS
<1>5. t \in Seq(Strokes) /\ Len(t) = N + 1
  BY <1>1, <1>4, AppendProperties
<1>6. PICK D : D = Dispatched(km, c, p, k)
  OBVIOUS
<1>7. PICK Q : Q = Reading(km, c, t)
  OBVIOUS
<1>8. D \in [0 .. r -> Dispatches(Strokes)] /\ DispatchSteps(D, km, c, p, k)
  BY <1>3, <1>6, DispatchedIs
<1>9. Q \in [0 .. N + 1 -> Readings(Strokes)] /\ ReadSteps(Q, km, c, t)
  BY <1>5, <1>7, ReadingIs
<1>10. Q[0].chunks = <<>> /\ Q[0].rest = <<>>
  <2>1. 0 \in 0 .. Len(t) /\ Latest(t, 0) = <<>>
    BY <1>5, LatestAll
  <2>2. AllPending(km, c, <<>>)
    BY EmptySeq, NothingToRead
  <2>3. PICK n : n = ReadLength(km, c, <<>>)
    OBVIOUS
  <2>4. ReadsNothing(Q, <<>>, 0)
    BY <1>9, <2>1, <2>2, <2>3, ReadStep
  <2> QED
    BY <2>4 DEF ReadsNothing
<1> DEFINE G == {m \in 0 .. r : SameAsRead(D[m], Q[m + 1])}
<1>11. ASSUME NEW m \in 0 .. r, \A i \in 0 .. m - 1 : i \in G
       PROVE  m \in G
  <2>1. PICK w : w = Latest(p, m)
    OBVIOUS
  <2>2. w \in Seq(Strokes) /\ Len(w) = m /\ m \in Nat
    BY <1>3, <2>1, LatestIs
  <2>3. PICK u : u = Append(w, k)
    OBVIOUS
  <2>4. u \in Seq(Strokes) /\ Len(u) = m + 1 /\ u # <<>>
    BY <2>2, <2>3, AppendProperties, EmptySeq
  <2>5. u = Latest(t, m + 1)
    <3>1. w = Latest(ks, m) /\ m \in 0 .. Len(ks)
      BY <1>1, <1>2, <2>1, LatestOfLatest
    <3> QED
      BY <1>4, <2>3, <3>1, LatestAppend
  <2>6. PICK n : n = ReadLength(km, c, u)
    OBVIOUS
  <2>7. \/ AllPending(km, c, u) /\ ReadsNothing(Q, u, m + 1)
        \/ ~AllPending(km, c, u) /\ ReadsChunk(Q, u, m + 1, n)
    <3>1. m + 1 \in 0 .. Len(t)
      BY <1>2, <1>5, <2>2
    <3> QED
      BY <1>9, <2>5, <2>6, <3>1, ReadStep
  <2>8. ~Pending(km, c, Word(u)) => ~AllPending(km, c, u)
    <3>1. SubSeq(u, 1, m + 1) = u /\ m + 1 \in 1 .. Len(u)
      BY <2>2, <2>4, SubSeqFull
    <3> QED
      BY <3>1 DEF AllPending
  <2>9. PICK i : i = PrefixLength(km, c, w)
    OBVIOUS
  <2>10. \/ /\ Pending(km, c, Word(u))
            /\ D[m] = [replay |-> <<>>, pending |-> u, last |-> <<>>]
         \/ /\ ~Pending(km, c, Word(u)) /\ (IsBound(km, c, u) \/ m = 0)
            /\ D[m] = [replay |-> <<>>, pending |-> <<>>, last |-> u]
         \/ /\ ~Pending(km, c, Word(u)) /\ ~IsBound(km, c, u) /\ m # 0
            /\ D[m] = [replay |-> <<SubSeq(w, 1, i)>> \o D[m - i].replay,
                       pending |-> D[m - i].pending, last |-> D[m - i].last]
    BY <1>3, <1>8, <2>1, <2>3, <2>9 DEF DispatchSteps
  <2>11. CASE /\ Pending(km, c, Word(u))
              /\ D[m] = [replay |-> <<>>, pending |-> u, last |-> <<>>]
    <3>1. AllPending(km, c, u)
      BY <2>4, <2>11, PendingPrefixes
    <3>2. Q[m + 1].chunks = <<>> /\ Q[m + 1].rest = u
      BY <2>7, <3>1 DEF ReadsNothing
    <3>3. D[m].replay = <<>> /\ D[m].pending = u /\ Final(D[m]) = <<>>
      BY <2>4, <2>11 DEF Final
    <3>4. <<>> \o <<>> = <<>>
      BY EmptySeq, ConcatEmptySeq
    <3> QED
      BY <3>2, <3>3, <3>4 DEF SameAsRead
  <2>12. CASE /\ ~Pending(km, c, Word(u)) /\ (IsBound(km, c, u) \/ m = 0)
              /\ D[m] = [replay |-> <<>>, pending |-> <<>>, last |-> u]
    <3>1. n = m + 1
      <4>1. IsBound(km, c, u) \/ Len(u) = 1
        BY <2>4, <2>12
      <4> QED
        BY <2>4, <2>6, <4>1, BoundIsRead
    <3>2. SubSeq(u, 1, n) = u /\ (m + 1) - n = 0
      BY <2>2, <2>4, <3>1, SubSeqFull
    <3>3. /\ Q[m + 1].chunks = <<SubSeq(u, 1, n)>> \o Q[(m + 1) - n].chunks
          /\ Q[m + 1].rest = Q[(m + 1) - n].rest
      BY <2>7, <2>8, <2>12 DEF ReadsChunk
    <3>4. PICK ch : ch = <<u>>
      OBVIOUS
    <3>5. ch \in Seq(Seq(Strokes))
      BY <2>4, <3>4
    <3>6. ch \o <<>> = ch /\ <<>> \o ch = ch
      BY <3>5, ConcatEmptySeq
    <3>7. Q[m + 1].chunks = ch /\ Q[m + 1].rest = <<>>
      BY <1>10, <3>2, <3>3, <3>4, <3>6
    <3>8. D[m].replay = <<>> /\ D[m].pending = <<>> /\ Final(D[m]) = ch
      BY <2>12, <3>4 DEF Final
    <3> QED
      BY <3>6, <3>7, <3>8 DEF SameAsRead
  <2>13. CASE /\ ~Pending(km, c, Word(u)) /\ ~IsBound(km, c, u) /\ m # 0
              /\ D[m] = [replay |-> <<SubSeq(w, 1, i)>> \o D[m - i].replay,
                         pending |-> D[m - i].pending, last |-> D[m - i].last]
    <3>1. w # <<>>
      BY <2>2, <2>13, EmptySeq
    <3>2. n = i
      BY <2>2, <2>3, <2>6, <2>9, <2>13, <3>1, ReplayedIsRead
    <3>3. /\ Q[m + 1].chunks = <<SubSeq(u, 1, n)>> \o Q[(m + 1) - n].chunks
          /\ Q[m + 1].rest = Q[(m + 1) - n].rest
      BY <2>7, <2>8, <2>13 DEF ReadsChunk
    <3>4. i \in 1 .. m
      BY <2>2, <2>9, <3>1, PrefixIs
    <3>5. SubSeq(u, 1, i) = SubSeq(w, 1, i) /\ SubSeq(w, 1, i) \in Seq(Strokes)
      <4>1. i \in 0 .. Len(w)
        BY <2>2, <3>4
      <4> QED
        BY <2>2, <2>3, <4>1, PrefixOfAppend, PrefixOf
    <3>6. PICK j : j = m - i
      OBVIOUS
    <3>7. j \in 0 .. m - 1 /\ (m + 1) - i = j + 1 /\ j \in 0 .. r
      BY <1>2, <2>2, <3>4, <3>6
    <3>8. SameAsRead(D[j], Q[j + 1])
      BY <1>11, <3>7
    <3>9. PICK ch : ch = <<SubSeq(w, 1, i)>>
      OBVIOUS
    <3>10. PICK d : d = D[j]
      OBVIOUS
    <3>11. PICK e : e = D[m]
      OBVIOUS
    <3>12. PICK x : x = d.replay
      OBVIOUS
    <3>13. PICK y : y = Final(d)
      OBVIOUS
    <3>14. e.replay = ch \o x /\ e.pending = d.pending /\ e.last = d.last
      BY <2>13, <3>6, <3>9, <3>10, <3>11, <3>12
    <3>15. Final(e) = y
      BY <3>13, <3>14 DEF Final
    <3>16. Q[m + 1].chunks = ch \o (x \o y) /\ Q[m + 1].rest = d.pending
      <4>1. x \o y = Q[j + 1].chunks /\ d.pending = Q[j + 1].rest
        BY <3>8, <3>10, <3>12, <3>13 DEF SameAsRead
      <4>2. Q[m + 1].chunks = ch \o Q[j + 1].chunks /\ Q[m + 1].rest = Q[j + 1].rest
        BY <3>2, <3>3, <3>5, <3>7, <3>9
      <4> QED
        BY <4>1, <4>2
    <3>17. (ch \o x) \o y = ch \o (x \o y)
      <4>1. PICK V : V = Seq(Strokes)
        OBVIOUS
      <4>2. ch \in Seq(V)
        BY <3>5, <3>9, <4>1
      <4>3. d \in Dispatches(Strokes)
        BY <1>8, <3>7, <3>10
      <4>4. x \in Seq(V)
        BY <3>12, <4>1, <4>3 DEF Dispatches
      <4>5. y \in Seq(V)
        BY <3>13, <4>1, <4>3 DEF Dispatches, Final
      <4> QED
        BY <4>2, <4>4, <4>5, ConcatAssociative
    <3>18. SameAsRead(e, Q[m + 1])
      BY <3>14, <3>15, <3>16, <3>17 DEF SameAsRead
    <3> QED
      BY <3>11, <3>18
  <2> QED
    BY <2>10, <2>11, <2>12, <2>13
<1>12. \A m \in 0 .. r : m \in G
  <2> HIDE DEF G
  <2> QED
    BY <1>2, <1>11, Upto
<1> QED
  BY <1>4, <1>6, <1>7, <1>12

\* One more keystroke, dispatched to what was left of the text before it.
Means(km, c, ks, chunks, rest) == Read(km, c, ks) = [chunks |-> chunks, rest |-> rest]

LEMMA MeaningIs ==
  ASSUME NEW km, NEW c, NEW ks \in Seq(Strokes), NEW h, NEW p, Means(km, c, ks, h, p)
  PROVE  h \in Seq(Seq(Strokes)) /\ p \in Seq(Strokes)
<1>1. PICK R : R = Reading(km, c, ks)
  OBVIOUS
<1>2. PICK N \in Nat : N = Len(ks)
  BY LenProperties
<1>3. R \in [0 .. N -> Readings(Strokes)] /\ N \in 0 .. N
  BY <1>1, <1>2, ReadingIs
<1>4. R[N] = [chunks |-> h, rest |-> p]
  BY <1>1, <1>2 DEF Means, Read
<1>5. R[N] \in Readings(Strokes)
  BY <1>3
<1>6. R[N].chunks \in Seq(Seq(Strokes)) /\ R[N].rest \in Seq(Strokes)
  BY <1>5 DEF Readings
<1> QED
  BY <1>4, <1>6

LEMMA OneMore ==
  ASSUME NEW km, NEW c, Proper(km), PrefixClosed(km, c), NEW ks \in Seq(Strokes), NEW k \in Strokes,
         NEW h, NEW p, Means(km, c, ks, h, p), NEW d, d = DispatchKey(km, c, p, k)
  PROVE  Means(km, c, Append(ks, k), h \o (d.replay \o Final(d)), d.pending)
<1>1. PICK N \in Nat : N = Len(ks)
  BY LenProperties
<1>2. PICK t : t = Append(ks, k)
  OBVIOUS
<1>3. t \in Seq(Strokes) /\ Len(t) = N + 1
  BY <1>1, <1>2, AppendProperties
<1>4. PICK R : R = Reading(km, c, ks)
  OBVIOUS
<1>5. PICK Q : Q = Reading(km, c, t)
  OBVIOUS
<1>6. R[N] = [chunks |-> h, rest |-> p]
  BY <1>1, <1>4 DEF Means, Read
<1>7. N \in 0 .. N /\ N + 1 \in 0 .. N + 1
  OBVIOUS
<1>8. PICK r \in 0 .. N : GoesOnFrom(R, Q, ks, N, r)
  BY <1>1, <1>2, <1>4, <1>5, <1>7, ReadOn
<1>9. p = Latest(ks, r) /\ Q[N + 1].chunks = h \o Q[r + 1].chunks /\ Q[N + 1].rest = Q[r + 1].rest
  BY <1>6, <1>8 DEF GoesOnFrom
<1>10. Len(p) = r
  BY <1>1, <1>9, LatestIs
<1>11. SameAsRead(d, Q[r + 1])
  <2>1. r \in 0 .. Len(ks) /\ r \in 0 .. r
    BY <1>1
  <2>2. SameAsRead(Dispatched(km, c, p, k)[r], Reading(km, c, Append(ks, k))[r + 1])
    BY <1>9, <2>1, DispatchReads
  <2>3. d = Dispatched(km, c, p, k)[r]
    BY <1>10 DEF DispatchKey
  <2> QED
    BY <1>2, <1>5, <2>2, <2>3
<1>12. Q[N + 1].chunks = h \o (d.replay \o Final(d)) /\ Q[N + 1].rest = d.pending
  BY <1>9, <1>11 DEF SameAsRead
<1>13. Q[N + 1] \in Readings(Strokes)
  <2>1. Q \in [0 .. N + 1 -> Readings(Strokes)]
    BY <1>3, <1>5, ReadingIs
  <2> QED
    BY <1>7, <2>1
<1>14. Q[N + 1] = [chunks |-> Q[N + 1].chunks, rest |-> Q[N + 1].rest]
  BY <1>13 DEF Readings
<1>15. Read(km, c, t) = Q[N + 1]
  BY <1>3, <1>5 DEF Read
<1> QED
  BY <1>2, <1>12, <1>14, <1>15 DEF Means

------------------------------------------------------------------------------
(***************************************************************************)
(* While nothing disturbs it, what was typed means what was handled, with  *)
(* what is pending, or what the only call there is still has to hand over. *)
(***************************************************************************)
FrameReads(f, km, c, text, h, p) ==
  /\ f.op = "key" /\ f.path = c
  /\ f.step = "intercept" =>
       \E ks \in Seq(Strokes) : text = Append(ks, f.key) /\ Means(km, c, ks, h, p)
  /\ f.step \in {"decided", "replay"} =>
       p = <<>> /\ Means(km, c, text, h \o (f.replay \o Final(f)), f.pending)
  /\ f.step \in {"stopped", "handle", "observe", "return"} => Means(km, c, text, h, p)

StackReads(st, km, c, text, h, p) ==
  IF st = <<>> THEN Means(km, c, text, h, p)
  ELSE Len(st) = 1 /\ FrameReads(st[1], km, c, text, h, p)

Reads ==
  Undisturbed =>
    /\ ~notifyDue
    /\ pending.focus \in {NoFocus, focus}
    /\ StackReads(stack, keymap, focus, Text, handled, pending.keys)

TextOf(ty) == [i \in DOMAIN ty |-> [n |-> i, key |-> ty[i]]]

LEMMA TextOfIs ==
  ASSUME NEW ty \in Seq(Keys), Len(ty) <= MaxTyped
  PROVE  /\ TextOf(ty) \in Seq(Strokes) /\ Len(TextOf(ty)) = Len(ty)
         /\ \A i \in 1 .. Len(ty) : TextOf(ty)[i] = [n |-> i, key |-> ty[i]]
<1>1. PICK N \in Nat : N = Len(ty) /\ N <= MaxTyped /\ MaxTyped \in Nat
  BY BoundAssumption, LenProperties
<1>2. DOMAIN ty = 1 .. N
  BY <1>1, LenProperties
<1>3. PICK t : t = TextOf(ty)
  OBVIOUS
<1>4. t = [i \in 1 .. N |-> [n |-> i, key |-> ty[i]]]
  BY <1>2, <1>3 DEF TextOf
<1>5. \A i \in 1 .. N : [n |-> i, key |-> ty[i]] \in Strokes
  <2>1. \A i \in 1 .. N : ty[i] \in Keys
    BY <1>1, ElementOfSeq
  <2>2. \A i \in 1 .. N : i \in 1 .. MaxTyped
    BY <1>1
  <2> QED
    BY <2>1, <2>2 DEF Strokes
<1>6. t \in [1 .. N -> Strokes]
  BY <1>4, <1>5
<1>7. t \in Seq(Strokes)
  BY <1>6
<1>8. Len(t) = N
  BY <1>6, <1>7, LenProperties
<1> QED
  BY <1>1, <1>3, <1>4, <1>7, <1>8

LEMMA TextIs ==
  ASSUME IInv
  PROVE  /\ Text \in Seq(Strokes) /\ Len(Text) = Len(typed) /\ Len(typed) \in Nat
         /\ \A i \in 1 .. Len(typed) : Text[i] = [n |-> i, key |-> typed[i]]
<1>1. typed \in Seq(Keys) /\ Len(typed) \in Nat /\ Len(typed) <= MaxTyped
  BY LenProperties DEF IInv, TypeOK
<1>2. Text = TextOf(typed)
  BY DEF Text, TextOf
<1> QED
  BY <1>1, <1>2, TextOfIs

\* The keymap is one of those assumed, and its focus is one of its contexts.
LEMMA UndisturbedIs ==
  ASSUME IInv, Undisturbed
  PROVE  Proper(keymap) /\ PrefixClosed(keymap, focus)
<1>1. keymap \in Keymaps
  BY DEF IInv, Shapes
<1> QED
  BY <1>1, KeymapAssumption DEF Undisturbed, Proper

\* The call that undisturbed text may be in.
LEMMA OnlyCall ==
  ASSUME IInv, Reads, Undisturbed, stack # <<>>
  PROVE  /\ Top \in KeyFrames /\ Top.op = "key" /\ Top.path = focus /\ Under = <<>>
         /\ FrameReads(Top, keymap, focus, Text, handled, pending.keys)
<1>1. Len(stack) = 1 /\ FrameReads(stack[1], keymap, focus, Text, handled, pending.keys)
  BY DEF Reads, StackReads
<1>2. Top = stack[1]
  BY <1>1 DEF Top
<1>3. Top.op = "key" /\ Top.path = focus
  BY <1>1, <1>2 DEF FrameReads
<1>4. Top \in KeyFrames
  BY <1>3, TopIs, OpIs
<1>5. Under = <<>>
  BY <1>1, SubSeqEmpty DEF Under
<1> QED
  BY <1>1, <1>2, <1>3, <1>4, <1>5

\* A step that disturbs nothing.
LEMMA ReadsGoOn ==
  ASSUME IInv, Reads, UNCHANGED <<keymap, focus, notifyDue, fuel, consumed, odd>>,
         Undisturbed => /\ pending'.focus \in {NoFocus, focus}
                        /\ StackReads(stack', keymap, focus, Text', handled', pending'.keys)
  PROVE  Reads'
<1>1. Undisturbed' <=> Undisturbed
  BY DEF Undisturbed
<1>2. ASSUME Undisturbed
      PROVE  Reads'
  BY <1>2 DEF Reads
<1> QED
  BY <1>1, <1>2 DEF Reads

LEMMA CallBecomes ==
  ASSUME NEW f, Under = <<>>, stack' = Append(Under, f), NEW km, NEW c, NEW text, NEW h, NEW p,
         FrameReads(f, km, c, text, h, p)
  PROVE  StackReads(stack', km, c, text, h, p)
<1>1. stack' = <<f>>
  OBVIOUS
<1>2. stack' # <<>> /\ Len(stack') = 1 /\ stack'[1] = f
  BY <1>1
<1> QED
  BY <1>2 DEF StackReads

LEMMA InitReads == Init => Reads
<1> SUFFICES ASSUME Init
             PROVE  Reads
  OBVIOUS
<1>1. /\ pending = NoInput /\ notifyDue = FALSE /\ stack = <<>> /\ typed = <<>> /\ handled = <<>>
  BY DEF Init
<1>2. pending.keys = <<>> /\ pending.focus = NoFocus
  BY <1>1 DEF NoInput
<1>3. Text \in Seq(Strokes) /\ Len(Text) = 0
  <2>1. IInv
    BY InitIInv
  <2>2. Len(typed) = 0
    BY <1>1
  <2> QED
    BY <2>1, <2>2, TextIs
<1>4. Text = <<>>
  BY <1>3, EmptySeq
<1>5. Means(keymap, focus, <<>>, <<>>, <<>>)
  <2>1. PICK R : R = Reading(keymap, focus, <<>>)
    OBVIOUS
  <2>2. <<>> \in Seq(Strokes) /\ Len(<<>>) = 0 /\ 0 \in 0 .. Len(<<>>)
    BY EmptySeq
  <2>3. ReadSteps(R, keymap, focus, <<>>) /\ R \in [0 .. 0 -> Readings(Strokes)]
    BY <2>1, <2>2, ReadingIs
  <2>4. Latest(<<>>, 0) = <<>>
    BY <2>2, LatestAll
  <2>5. PICK n : n = ReadLength(keymap, focus, <<>>)
    OBVIOUS
  <2>6. AllPending(keymap, focus, <<>>)
    BY <2>2, NothingToRead
  <2>7. ReadsNothing(R, <<>>, 0)
    BY <2>2, <2>3, <2>4, <2>5, <2>6, ReadStep
  <2>8. R[0] \in Readings(Strokes)
    BY <2>3
  <2>9. R[0] = [chunks |-> R[0].chunks, rest |-> R[0].rest]
    BY <2>8 DEF Readings
  <2>10. Read(keymap, focus, <<>>) = R[0]
    BY <2>1, <2>2 DEF Read
  <2> QED
    BY <2>7, <2>9, <2>10 DEF ReadsNothing, Means
<1> QED
  BY <1>1, <1>2, <1>4, <1>5 DEF Reads, StackReads

LEMMA TypeReads == ASSUME IInv, Reads, NEW k \in Keys, Type(k) PROVE Reads'
<1>1. /\ stack = <<>> /\ Begin(k)
      /\ UNCHANGED <<keymap, focus, pending, notifyDue, fuel, handled, consumed, odd>>
  BY DEF Type, Idle, inputVars, logVars
<1>2. Len(typed) < MaxTyped /\ typed' = Append(typed, k) /\ stack' = Append(stack, Beginning(k))
  BY <1>1 DEF Begin, Beginning
<1>3. IInv'
  BY TypeIInv
<1>4. PICK t : t = Text
  OBVIOUS
<1>5. PICK u : u = Text'
  OBVIOUS
<1>6. PICK s : s = [n |-> Len(typed'), key |-> k]
  OBVIOUS
<1>7. PICK N \in Nat : N = Len(typed)
  BY TextIs
<1>8. /\ typed' \in Seq(Keys) /\ Len(typed') = N + 1 /\ typed'[N + 1] = k
      /\ \A i \in 1 .. N : typed'[i] = typed[i]
  BY <1>2, <1>7, AppendProperties DEF IInv, TypeOK
<1>9. t \in Seq(Strokes) /\ Len(t) = N /\ \A i \in 1 .. N : t[i] = [n |-> i, key |-> typed[i]]
  BY <1>4, <1>7, TextIs
<1>10. u \in Seq(Strokes) /\ Len(u) = N + 1 /\ \A i \in 1 .. N + 1 : u[i] = [n |-> i, key |-> typed'[i]]
  <2>1. u = TextOf(typed')
    BY <1>5 DEF Text, TextOf
  <2>2. Len(typed') <= MaxTyped
    BY <1>3 DEF IInv, TypeOK
  <2>3. u \in Seq(Strokes) /\ Len(u) = Len(typed') /\ \A i \in 1 .. Len(typed') : u[i] = [n |-> i, key |-> typed'[i]]
    BY <1>8, <2>1, <2>2, TextOfIs
  <2> QED
    BY <1>8, <2>3
<1>11. u = Append(t, s)
  <2>1. s \in Strokes
    <3>1. N + 1 \in 1 .. N + 1
      OBVIOUS
    <3>2. u[N + 1] = s /\ u[N + 1] \in Strokes
      BY <1>6, <1>8, <1>10, <3>1, ElementOfSeq
    <3> QED
      BY <3>2
  <2>2. PICK v : v = Append(t, s)
    OBVIOUS
  <2>3. v \in Seq(Strokes) /\ Len(v) = N + 1 /\ (\A i \in 1 .. N : v[i] = t[i]) /\ v[N + 1] = s
    BY <1>9, <2>1, <2>2, AppendProperties
  <2>4. \A i \in 1 .. N + 1 : i \in 1 .. N \/ i = N + 1
    OBVIOUS
  <2>5. \A i \in 1 .. N : i \in 1 .. N + 1
    OBVIOUS
  <2>6. \A i \in 1 .. N : u[i] = v[i]
    BY <1>8, <1>9, <1>10, <2>3, <2>5
  <2>7. u[N + 1] = v[N + 1]
    <3>1. N + 1 \in 1 .. N + 1
      OBVIOUS
    <3> QED
      BY <1>6, <1>8, <1>10, <2>3, <3>1
  <2>8. \A i \in 1 .. N + 1 : u[i] = v[i]
    BY <2>4, <2>6, <2>7
  <2>9. u = v
    BY <1>10, <2>3, <2>8, SeqEqual
  <2> QED
    BY <2>2, <2>9
<1>12. ASSUME Undisturbed
       PROVE  pending'.focus \in {NoFocus, focus} /\ StackReads(stack', keymap, focus, Text', handled', pending'.keys)
  <2>1. pending.focus \in {NoFocus, focus} /\ Means(keymap, focus, t, handled, pending.keys)
    BY <1>1, <1>4, <1>12 DEF Reads, StackReads
  <2>2. PICK f : f = Beginning(k)
    OBVIOUS
  <2>3. f.op = "key" /\ f.path = focus /\ f.step = "intercept" /\ f.key = s
    BY <1>6, <2>2 DEF Beginning
  <2>4. FrameReads(f, keymap, focus, u, handled, pending.keys)
    BY <1>9, <1>11, <2>1, <2>3 DEF FrameReads
  <2>5. stack' = <<f>>
    BY <1>1, <1>2, <2>2
  <2>6. stack' # <<>> /\ Len(stack') = 1 /\ stack'[1] = f
    BY <2>5
  <2> QED
    BY <1>1, <1>5, <2>1, <2>4, <2>6 DEF StackReads
<1> QED
  BY <1>1, <1>12, ReadsGoOn

LEMMA DispatchStrokeReads == ASSUME IInv, Reads, DispatchStroke PROVE Reads'
<1> DEFINE cur == IF pending.focus \notin {NoFocus, focus} THEN NoInput ELSE pending
<1>1. /\ stack # <<>> /\ Top.step = "intercept" /\ pending' = NoInput
      /\ UNCHANGED <<keymap, focus, notifyDue, fuel, typed, handled, consumed, odd>>
  BY DEF DispatchStroke, Decide, In, ghostVars, logVars
<1>2. PICK r : r = DispatchKey(keymap, Top.path, cur.keys, Top.key)
  OBVIOUS
<1>3. PICK text \in BOOLEAN :
        stack' = Append(Under, [Top EXCEPT !.step = "decided",
             !.replay = r.replay, !.pending = r.pending, !.last = r.last,
             !.timed = cur.timed \/ text \/ IsBound(keymap, Top.path, r.pending),
             !.whole = (cur.whole /\ r.replay = <<>>) \/ Len(r.pending) = 1])
  BY <1>2 DEF DispatchStroke, Decide, Goto
<1>4. PICK f : f = [Top EXCEPT !.step = "decided",
             !.replay = r.replay, !.pending = r.pending, !.last = r.last,
             !.timed = cur.timed \/ text \/ IsBound(keymap, Top.path, r.pending),
             !.whole = (cur.whole /\ r.replay = <<>>) \/ Len(r.pending) = 1]
  OBVIOUS
<1>5. Text' = Text
  BY <1>1 DEF Text
<1>6. ASSUME Undisturbed
      PROVE  pending'.focus \in {NoFocus, focus} /\ StackReads(stack', keymap, focus, Text', handled', pending'.keys)
  <2>1. /\ Top \in KeyFrames /\ Top.op = "key" /\ Top.path = focus /\ Under = <<>>
        /\ FrameReads(Top, keymap, focus, Text, handled, pending.keys)
    BY <1>1, <1>6, OnlyCall
  <2>2. cur.keys = pending.keys
    BY <1>6 DEF Reads
  <2>3. PICK ks \in Seq(Strokes) : Text = Append(ks, Top.key) /\ Means(keymap, focus, ks, handled, pending.keys)
    BY <1>1, <2>1 DEF FrameReads
  <2>4. Top.key \in Strokes
    BY <2>1, KeyFrameIs
  <2>5. PICK p : p = pending.keys
    OBVIOUS
  <2>6. PICK k : k = Top.key
    OBVIOUS
  <2>7. Proper(keymap) /\ PrefixClosed(keymap, focus)
    BY <1>6, UndisturbedIs
  <2>8. r = DispatchKey(keymap, focus, p, k)
    BY <1>2, <2>1, <2>2, <2>5, <2>6
  <2>9. Means(keymap, focus, Append(ks, k), handled \o (r.replay \o Final(r)), r.pending)
    BY <2>3, <2>4, <2>5, <2>6, <2>7, <2>8, OneMore
  <2>10. /\ f.op = "key" /\ f.path = focus /\ f.step = "decided" /\ f.replay = r.replay
         /\ f.pending = r.pending /\ f.last = r.last
    <3> HIDE DEF cur
    <3> QED
      BY <1>4, <2>1 DEF KeyFrames
  <2>11. Final(f) = Final(r)
    BY <2>10 DEF Final
  <2>12. pending'.keys = <<>> /\ pending'.focus = NoFocus
    BY <1>1 DEF NoInput
  <2>13. FrameReads(f, keymap, focus, Text, handled, pending'.keys)
    BY <2>3, <2>6, <2>9, <2>10, <2>11, <2>12 DEF FrameReads
  <2>14. stack' = Append(Under, f)
    BY <1>3, <1>4
  <2>15. StackReads(stack', keymap, focus, Text, handled, pending'.keys)
    BY <2>1, <2>13, <2>14, CallBecomes
  <2> QED
    BY <1>1, <1>5, <2>12, <2>15
<1> QED
  BY <1>1, <1>6, ReadsGoOn

LEMMA RemoveFirstIsConcat ==
  ASSUME NEW T, NEW cs \in Seq(T), cs # <<>>
  PROVE  cs[1] \in T /\ RemoveAt(cs, 1) \in Seq(T) /\ cs = <<cs[1]>> \o RemoveAt(cs, 1)
<1>1. PICK N \in Nat : N = Len(cs) /\ N >= 1
  BY EmptySeq, LenProperties
<1>2. PICK v : v = SubSeq(cs, 2, N)
  OBVIOUS
<1>3. cs[1] \in T /\ RemoveAt(cs, 1) \in Seq(T)
  BY RemoveFirstIs
<1>4. v \in Seq(T)
  <2>1. \A i \in 2 .. N : cs[i] \in T
    <3>1. \A i \in 2 .. N : i \in 1 .. Len(cs)
      BY <1>1
    <3> QED
      BY <3>1, ElementOfSeq
  <2> QED
    BY <1>1, <1>2, <2>1, SubSeqProperties
<1>5. RemoveAt(cs, 1) = v
  <2>1. SubSeq(cs, 1, 1 - 1) = <<>>
    BY SubSeqEmpty
  <2>2. <<>> \o v = v
    BY <1>4, ConcatEmptySeq
  <2>3. RemoveAt(cs, 1) = SubSeq(cs, 1, 1 - 1) \o SubSeq(cs, 1 + 1, Len(cs))
    BY DEF RemoveAt
  <2> QED
    BY <1>1, <1>2, <2>1, <2>2, <2>3
<1>6. SubSeq(cs, 1, N) = <<cs[1]>> \o SubSeq(cs, 1 + 1, N)
  <2>1. 1 \in 1 .. Len(cs) /\ N \in 1 .. Len(cs)
    BY <1>1
  <2> QED
    BY <2>1, SubSeqRecursiveFirst
<1>7. SubSeq(cs, 1, N) = cs
  BY <1>1, SubSeqFull
<1> QED
  BY <1>2, <1>3, <1>5, <1>6, <1>7

\* To hand over u, which comes before v and x, changes nothing.
Reassociates(h, u, v, x) == (h \o u) \o (v \o x) = h \o ((u \o v) \o x)

LEMMA Reassociated ==
  ASSUME NEW V, NEW h \in Seq(V), NEW u \in Seq(V), NEW v \in Seq(V), NEW x \in Seq(V)
  PROVE  Reassociates(h, u, v, x)
<1>1. PICK y : y = v \o x
  OBVIOUS
<1>2. y \in Seq(V)
  BY <1>1, ConcatProperties
<1>3. (h \o u) \o y = h \o (u \o y)
  BY <1>2, ConcatAssociative
<1>4. (u \o v) \o x = u \o (v \o x)
  BY ConcatAssociative
<1> QED
  BY <1>1, <1>3, <1>4 DEF Reassociates

LEMMA ReplayReads == ASSUME IInv, Reads, Replay PROVE Reads'
<1>1. /\ stack # <<>> /\ Top.step \in {"decided", "replay"} /\ Top.replay # <<>>
      /\ handled' = Append(handled, Top.replay[1])
      /\ UNCHANGED <<keymap, focus, pending, notifyDue, fuel, typed, consumed, odd>>
  BY DEF Replay, ReplayChunk, In, inputVars, logVars
<1>2. PICK f : f = [Top EXCEPT !.step = "replay", !.replay = RemoveAt(Top.replay, 1)]
  OBVIOUS
<1>3. stack' = Append(Under, f)
  BY <1>2 DEF Replay, ReplayChunk, Goto
<1>4. Text' = Text
  BY <1>1 DEF Text
<1>5. ASSUME Undisturbed
      PROVE  pending'.focus \in {NoFocus, focus} /\ StackReads(stack', keymap, focus, Text', handled', pending'.keys)
  <2>1. /\ Top \in KeyFrames /\ Top.op = "key" /\ Top.path = focus /\ Under = <<>>
        /\ FrameReads(Top, keymap, focus, Text, handled, pending.keys)
    BY <1>1, <1>5, OnlyCall
  <2>2. PICK V : V = Seq(Strokes)
    OBVIOUS
  <2>3. PICK h : h = handled
    OBVIOUS
  <2>4. PICK rs : rs = Top.replay
    OBVIOUS
  <2>5. PICK x : x = Final(Top)
    OBVIOUS
  <2>6. PICK rest : rest = RemoveAt(rs, 1)
    OBVIOUS
  <2>7. PICK ch : ch = <<rs[1]>>
    OBVIOUS
  <2>8. Top.replay \in Seq(Seq(Strokes)) /\ Top.last \in Seq(Strokes)
    BY <2>1, KeyFrameIs
  <2>9. h \in Seq(V) /\ rs \in Seq(V) /\ x \in Seq(V)
    <3>1. handled \in Seq(Seq(Strokes))
      BY DEF IInv, TypeOK
    <3>2. <<Top.last>> \in Seq(Seq(Strokes)) /\ <<>> \in Seq(Seq(Strokes))
      BY <2>8
    <3> QED
      BY <2>2, <2>3, <2>4, <2>5, <2>8, <3>1, <3>2 DEF Final
  <2>10. rs[1] \in V /\ rest \in Seq(V) /\ rs = ch \o rest
    BY <1>1, <2>4, <2>6, <2>7, <2>9, RemoveFirstIsConcat
  <2>11. ch \in Seq(V)
    BY <2>7, <2>10
  <2>12. handled' = h \o ch
    BY <1>1, <2>3, <2>4, <2>7, <2>9, <2>10, AppendIsConcat
  <2>13. (h \o ch) \o (rest \o x) = h \o (rs \o x)
    <3>1. h \in Seq(V) /\ ch \in Seq(V) /\ rest \in Seq(V) /\ x \in Seq(V)
      BY <2>9, <2>10, <2>11
    <3>2. Reassociates(h, ch, rest, x)
      BY <3>1, Reassociated
    <3> QED
      BY <2>10, <3>2 DEF Reassociates
  <2>14. /\ f.op = "key" /\ f.path = focus /\ f.step = "replay" /\ f.replay = rest
         /\ f.pending = Top.pending /\ f.last = Top.last
    BY <1>2, <2>1, <2>4, <2>6 DEF KeyFrames
  <2>15. Final(f) = x
    BY <2>5, <2>14 DEF Final
  <2>16. pending.keys = <<>> /\ Means(keymap, focus, Text, h \o (rs \o x), Top.pending)
    BY <1>1, <2>1, <2>3, <2>4, <2>5 DEF FrameReads
  <2>17. FrameReads(f, keymap, focus, Text, handled', pending.keys)
    BY <2>12, <2>13, <2>14, <2>15, <2>16 DEF FrameReads
  <2>18. StackReads(stack', keymap, focus, Text, handled', pending.keys)
    BY <1>3, <2>1, <2>17, CallBecomes
  <2>19. pending.focus \in {NoFocus, focus}
    BY <1>5 DEF Reads
  <2> QED
    BY <1>1, <1>4, <2>18, <2>19
<1> QED
  BY <1>1, <1>5, ReadsGoOn

LEMMA HoldReads == ASSUME IInv, Reads, Hold PROVE Reads'
<1>1. /\ stack # <<>> /\ Top.step \in {"decided", "replay"} /\ Top.replay = <<>> /\ Top.op = "key"
      /\ Top.pending # <<>>
      /\ pending' = [keys |-> Top.pending, focus |-> focus, timed |-> Top.timed,
                     whole |-> Top.whole /\ focus = Top.path]
      /\ Changed([Top EXCEPT !.pending = <<>>], Top.pending)
      /\ UNCHANGED <<keymap, focus, notifyDue, fuel, typed, handled, consumed, odd>>
  BY DEF Hold, HoldFor, Replayed, In, logVars
<1>2. PICK g : g = [Top EXCEPT !.pending = <<>>]
  OBVIOUS
<1>3. PICK step \in {"return", "observe"} : stack' = Append(Under, [g EXCEPT !.step = step])
  BY <1>1, <1>2, ChangedIs
<1>4. Text' = Text /\ pending'.keys = Top.pending /\ pending'.focus = focus
  BY <1>1 DEF Text
<1>5. ASSUME Undisturbed
      PROVE  pending'.focus \in {NoFocus, focus} /\ StackReads(stack', keymap, focus, Text', handled', pending'.keys)
  <2>1. /\ Top \in KeyFrames /\ Top.op = "key" /\ Top.path = focus /\ Under = <<>>
        /\ FrameReads(Top, keymap, focus, Text, handled, pending.keys)
    BY <1>1, <1>5, OnlyCall
  <2>2. PICK f : f = [g EXCEPT !.step = step]
    OBVIOUS
  <2>3. f.op = "key" /\ f.path = focus /\ f.step = step
    BY <1>2, <2>1, <2>2 DEF KeyFrames
  <2>4. Means(keymap, focus, Text, handled \o (<<>> \o <<>>), Top.pending)
    BY <1>1, <2>1 DEF FrameReads, Final
  <2>5. handled \o (<<>> \o <<>>) = handled
    <3>1. PICK V : V = Seq(Strokes)
      OBVIOUS
    <3>2. handled \in Seq(V) /\ <<>> \in Seq(V)
      BY <3>1 DEF IInv, TypeOK
    <3>3. handled \o <<>> = handled /\ <<>> \o <<>> = <<>>
      BY <3>2, ConcatEmptySeq
    <3> QED
      BY <3>3
  <2>6. FrameReads(f, keymap, focus, Text, handled, Top.pending)
    BY <2>3, <2>4, <2>5 DEF FrameReads
  <2>7. StackReads(stack', keymap, focus, Text, handled, Top.pending)
    BY <1>3, <2>1, <2>2, <2>6, CallBecomes
  <2> QED
    BY <1>1, <1>4, <2>7
<1> QED
  BY <1>1, <1>5, ReadsGoOn

LEMMA HandleReads == ASSUME IInv, Reads, Handle PROVE Reads'
<1>1. /\ stack # <<>> /\ Top.step \in {"decided", "replay"} /\ Top.replay = <<>> /\ Top.op = "key"
      /\ Top.pending = <<>> /\ handled' = Append(handled, Top.last)
      /\ UNCHANGED <<keymap, focus, pending, notifyDue, fuel, typed, consumed, odd>>
  BY DEF Handle, Replayed, In, inputVars, logVars
<1>2. PICK f : f = [Top EXCEPT !.step = "handle", !.last = <<>>]
  OBVIOUS
<1>3. stack' = Append(Under, f) /\ Text' = Text
  BY <1>1, <1>2 DEF Handle, Goto, Text
<1>4. ASSUME Undisturbed
      PROVE  pending'.focus \in {NoFocus, focus} /\ StackReads(stack', keymap, focus, Text', handled', pending'.keys)
  <2>1. /\ Top \in KeyFrames /\ Top.op = "key" /\ Top.path = focus /\ Under = <<>>
        /\ FrameReads(Top, keymap, focus, Text, handled, pending.keys)
    BY <1>1, <1>4, OnlyCall
  <2>2. PICK x : x = <<Top.last>>
    OBVIOUS
  <2>3. pending.keys = <<>> /\ Means(keymap, focus, Text, handled \o (<<>> \o x), <<>>)
    BY <1>1, <2>1, <2>2 DEF FrameReads, Final
  <2>4. handled \o (<<>> \o x) = handled'
    <3>1. PICK V : V = Seq(Strokes)
      OBVIOUS
    <3>2. handled \in Seq(V) /\ Top.last \in V
      BY <2>1, <3>1, KeyFrameIs DEF IInv, TypeOK
    <3>3. x \in Seq(V)
      BY <2>2, <3>2
    <3>4. <<>> \o x = x
      BY <3>3, ConcatEmptySeq
    <3>5. Append(handled, Top.last) = handled \o x
      BY <2>2, <3>2, AppendIsConcat
    <3> QED
      BY <1>1, <3>4, <3>5
  <2>5. f.op = "key" /\ f.path = focus /\ f.step = "handle"
    BY <1>2, <2>1 DEF KeyFrames
  <2>6. FrameReads(f, keymap, focus, Text, handled', pending.keys)
    BY <2>3, <2>4, <2>5 DEF FrameReads
  <2>7. StackReads(stack', keymap, focus, Text, handled', pending.keys)
    BY <1>3, <2>1, <2>6, CallBecomes
  <2>8. pending.focus \in {NoFocus, focus}
    BY <1>4 DEF Reads
  <2> QED
    BY <1>1, <1>3, <2>7, <2>8
<1> QED
  BY <1>1, <1>4, ReadsGoOn

LEMMA HandledReads == ASSUME IInv, Reads, Handled PROVE Reads'
<1>1. /\ stack # <<>> /\ Top.step = "handle" /\ Changed(Top, pending.keys)
      /\ UNCHANGED <<keymap, focus, pending, notifyDue, fuel, typed, handled, consumed, odd>>
  BY DEF Handled, In, inputVars, logVars
<1>2. PICK step \in {"return", "observe"} : stack' = Append(Under, [Top EXCEPT !.step = step])
  BY <1>1, ChangedIs
<1>3. ASSUME Undisturbed
      PROVE  pending'.focus \in {NoFocus, focus} /\ StackReads(stack', keymap, focus, Text', handled', pending'.keys)
  <2>1. /\ Top \in KeyFrames /\ Top.op = "key" /\ Top.path = focus /\ Under = <<>>
        /\ FrameReads(Top, keymap, focus, Text, handled, pending.keys)
    BY <1>1, <1>3, OnlyCall
  <2>2. PICK f : f = [Top EXCEPT !.step = step]
    OBVIOUS
  <2>3. f.op = "key" /\ f.path = focus /\ f.step = step
    BY <2>1, <2>2 DEF KeyFrames
  <2>4. FrameReads(f, keymap, focus, Text, handled, pending.keys)
    BY <1>1, <2>1, <2>3 DEF FrameReads
  <2>5. StackReads(stack', keymap, focus, Text, handled, pending.keys)
    BY <1>2, <2>1, <2>2, <2>4, CallBecomes
  <2>6. pending.focus \in {NoFocus, focus} /\ Text' = Text
    BY <1>1, <1>3 DEF Reads, Text
  <2> QED
    BY <1>1, <2>5, <2>6
<1> QED
  BY <1>1, <1>3, ReadsGoOn

LEMMA ReturnReads == ASSUME IInv, Reads, Return PROVE Reads'
<1>1. /\ stack # <<>> /\ stack' = Under
      /\ \/ Top.step \in {"return", "stopped", "observe"}
         \/ Top.op = "timer"
      /\ UNCHANGED <<keymap, focus, pending, notifyDue, fuel, typed, handled, consumed, odd>>
  BY DEF Return, Replayed, In, inputVars, ghostVars, logVars
<1>2. ASSUME Undisturbed
      PROVE  pending'.focus \in {NoFocus, focus} /\ StackReads(stack', keymap, focus, Text', handled', pending'.keys)
  <2>1. /\ Top.op = "key" /\ Under = <<>>
        /\ FrameReads(Top, keymap, focus, Text, handled, pending.keys)
    BY <1>1, <1>2, OnlyCall
  <2>2. Means(keymap, focus, Text, handled, pending.keys)
    BY <1>1, <2>1 DEF FrameReads
  <2>3. StackReads(stack', keymap, focus, Text, handled, pending.keys)
    BY <1>1, <2>1, <2>2 DEF StackReads
  <2>4. pending.focus \in {NoFocus, focus} /\ Text' = Text
    BY <1>1, <1>2 DEF Reads, Text
  <2> QED
    BY <1>1, <2>3, <2>4
<1> QED
  BY <1>1, <1>2, ReadsGoOn

\* User code uses fuel up.
LEMMA UserCodeDisturbs ==
  ASSUME IInv, UserCode, UNCHANGED keymap
  PROVE  ~Undisturbed'
<1>1. Fuel(keymap) \in Nat /\ fuel \in 0 .. Fuel(keymap)
  BY BoundAssumption DEF IInv, Shapes, TypeOK
<1>2. fuel > 0 /\ fuel' = fuel - 1
  BY DEF UserCode
<1>3. fuel' # Fuel(keymap)
  BY <1>1, <1>2
<1> QED
  BY <1>3 DEF Undisturbed

LEMMA NextReads == IInv /\ Reads /\ [Next]_vars => Reads'
<1> SUFFICES ASSUME IInv, Reads, [Next]_vars
             PROVE  Reads'
  OBVIOUS
<1>1. CASE UserStep
  <2>1. CASE Blur
    <3>1. UserCode /\ UNCHANGED keymap
      BY <2>1 DEF Blur, Moves
    <3> QED
      BY <3>1, UserCodeDisturbs DEF Reads
  <2>2. ASSUME NEW f \in Focuses, FocusOn(f)
        PROVE  Reads'
    <3>1. UserCode /\ UNCHANGED keymap
      BY <2>2 DEF FocusOn, Moves
    <3> QED
      BY <3>1, UserCodeDisturbs DEF Reads
  <2>3. ASSUME NEW k \in Keys, DispatchKeystroke(k)
        PROVE  Reads'
    <3>1. UserCode /\ UNCHANGED keymap
      BY <2>3 DEF DispatchKeystroke, inputVars
    <3> QED
      BY <3>1, UserCodeDisturbs DEF Reads
  <2> QED
    BY <1>1, <2>1, <2>2, <2>3, TypeReads DEF UserStep
<1>2. CASE Consume
  <2>1. Top.key.n \in consumed'
    BY <1>2 DEF Consume
  <2> QED
    BY <2>1 DEF Reads, Undisturbed
<1>3. CASE TimerObserved
  <2>1. /\ stack # <<>> /\ Top.op = "timer"
        /\ UNCHANGED <<keymap, focus, notifyDue, fuel, consumed, odd>>
    BY <1>3 DEF TimerObserved, In, inputVars, ghostVars, logVars
  <2>2. ~Undisturbed
    BY <2>1, OnlyCall
  <2> QED
    BY <2>1, <2>2, ReadsGoOn
<1>4. CASE NotifyDeferred
  <2>1. notifyDue /\ UNCHANGED <<keymap, focus, fuel, consumed, odd>>
    BY <1>4 DEF NotifyDeferred, logVars
  <2>2. ~Undisturbed'
    BY <2>1 DEF Reads, Undisturbed
  <2> QED
    BY <2>2 DEF Reads
<1>5. CASE TimerFires
  <2>1. "timeout" \in odd'
    BY <1>5 DEF TimerFires, Expire
  <2> QED
    BY <2>1 DEF Reads, Undisturbed
<1>6. CASE UNCHANGED vars
  <2>1. UNCHANGED <<keymap, focus, pending, notifyDue, stack, fuel, typed, handled, consumed, odd>>
    BY <1>6 DEF vars, inputVars, ghostVars, logVars
  <2>2. Text' = Text
    BY <2>1 DEF Text
  <2>3. Undisturbed' <=> Undisturbed
    BY <2>1 DEF Undisturbed
  <2> QED
    BY <2>1, <2>2, <2>3 DEF Reads
<1> QED
  BY <1>1, <1>2, <1>3, <1>4, <1>5, <1>6, DispatchStrokeReads, ReplayReads, HoldReads, HandleReads,
     HandledReads, ReturnReads DEF Next, Step

\* What text typed without interference means is what it means read from the
\* left, whatever the keymap, as long as no binding hides another of which it
\* is a prefix: dispatch_key, which starts over after the longest bound prefix
\* of what was pending, hands over the chunks one finds keystroke by keystroke.
THEOREM TextMeansWhatItSays == Spec => []AsTyped
<1>1. Init => IInv /\ Reads
  BY InitIInv, InitReads
<1>2. IInv /\ Reads /\ [Next]_vars => (IInv /\ Reads)'
  BY NextIInv, NextReads
<1>3. Reads => AsTyped
  <2> SUFFICES ASSUME Reads, stack = <<>>, Undisturbed
               PROVE  Read(keymap, focus, Text) = [chunks |-> handled, rest |-> pending.keys]
    BY DEF AsTyped
  <2> QED
    BY DEF Reads, StackReads, Means
<1> QED
  BY <1>1, <1>2, <1>3, PTL DEF Spec
=============================================================================
