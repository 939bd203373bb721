-------------------------------- MODULE Keymap --------------------------------
(***************************************************************************)
(* What keystrokes mean under a keymap (crates/gpui/src: keymap.rs,        *)
(* keymap/binding.rs, key_dispatch.rs).  Pure: a keymap is a sequence of   *)
(* bindings, the last added last, and a context stands for a stack of key  *)
(* contexts, that of a focused element.                                    *)
(*                                                                         *)
(* Left out: Unbind, the NoAction of a base keymap, the parsing of         *)
(* keystrokes and predicates.                                              *)
(***************************************************************************)
EXTENDS Naturals, Sequences, FiniteSetsExt, SequencesExt

\* A keystroke is [n, key]: the n-th one typed.
Word(ks) == [i \in DOMAIN ks |-> ks[i].key]

\* A binding is [keys, depth, noAction]: depth is that of its predicate in
\* each context, 0 where it fails.

\* Deeper contexts go first, then bindings added later.
Precedes(km, c, i, j) ==
  km[i].depth[c] > km[j].depth[c] \/ (km[i].depth[c] = km[j].depth[c] /\ i > j)

Enabled(km, c) == {i \in DOMAIN km : km[i].depth[c] > 0}

\* The bindings of the word w: not those a NoAction comes before.
Matches(km, c, w) == {i \in Enabled(km, c) : km[i].keys = w}
Bound(km, c, w) ==
  {i \in Matches(km, c, w) : ~km[i].noAction /\
     \A j \in Matches(km, c, w) : km[j].noAction => Precedes(km, c, i, j)}
First(km, c, is) == CHOOSE i \in is : \A j \in is \ {i} : Precedes(km, c, i, j)

\* Those of longer words that begin with w, unless one of w was added later.
Longer(km, c, w) ==
  {i \in Enabled(km, c) : /\ IsStrictPrefix(w, km[i].keys)
                          /\ Bound(km, c, w) # {} => i >= First(km, c, Bound(km, c, w))}

\* More may come: the last binding added of some longer word is no NoAction.
Pending(km, c, w) ==
  \E i \in Longer(km, c, w) : ~km[i].noAction /\
    \A j \in Longer(km, c, w) : km[j].keys = km[i].keys /\ j > i => ~km[j].noAction

------------------------------------------------------------------------------
(***************************************************************************)
(* dispatch_key: of the keystrokes that were pending and a new one, which  *)
(* are replayed, in chunks; then either all the others are pending, or     *)
(* they are the last chunk.                                                *)
(***************************************************************************)
IsBound(km, c, ks) == Bound(km, c, Word(ks)) # {}

\* Mutant of PrefixLength: the shortest.
ShortestPrefix(km, c, ks) == Min({n \in 1 .. Len(ks) : n = Len(ks) \/ IsBound(km, c, SubSeq(ks, 1, n))})

\* replay_prefix: the longest prefix that is bound, or else one keystroke.
PrefixLength(km, c, ks) ==
  Max({n \in 1 .. Len(ks) : n = 1 \/ IsBound(km, c, SubSeq(ks, 1, n))})

\* The last m keystrokes.
Latest(ks, m) == SubSeq(ks, Len(ks) - m + 1, Len(ks))

\* What the last m are flushed, and dispatched, to: each leaves its prefix to
\* be replayed and goes on with what is left.
Flushed(km, c, ks) ==
  LET f[m \in 0 .. Len(ks)] ==
        LET n == PrefixLength(km, c, Latest(ks, m))
        IN  IF m = 0 THEN <<>> ELSE <<SubSeq(Latest(ks, m), 1, n)>> \o f[m - n]
  IN  f

FlushDispatch(km, c, ks) == Flushed(km, c, ks)[Len(ks)]

Dispatched(km, c, ks, k) ==
  LET f[m \in 0 .. Len(ks)] ==
        LET all == Append(Latest(ks, m), k)
            n   == PrefixLength(km, c, Latest(ks, m))
        IN  IF Pending(km, c, Word(all))
            THEN [replay |-> <<>>, pending |-> all, last |-> <<>>]
            ELSE IF IsBound(km, c, all) \/ m = 0
            THEN [replay |-> <<>>, pending |-> <<>>, last |-> all]
            ELSE [replay |-> <<SubSeq(Latest(ks, m), 1, n)>> \o f[m - n].replay,
                  pending |-> f[m - n].pending, last |-> f[m - n].last]
  IN  f

DispatchKey(km, c, ks, k) == Dispatched(km, c, ks, k)[Len(ks)]

------------------------------------------------------------------------------
(***************************************************************************)
(* For reference: what a text means when it is read from the left, one     *)
(* keystroke at a time, each chunk being the longest bound word among      *)
(* those whose own prefixes may all be continued.                          *)
(***************************************************************************)
AllPending(km, c, ks) == \A n \in 1 .. Len(ks) : Pending(km, c, Word(SubSeq(ks, 1, n)))

ReadLength(km, c, ks) ==
  Max({n \in 1 .. Len(ks) :
         n = 1 \/ (AllPending(km, c, SubSeq(ks, 1, n - 1)) /\ IsBound(km, c, SubSeq(ks, 1, n)))})

\* The chunks read from the last m keystrokes, and what is left, of which more
\* may come.
Reading(km, c, ks) ==
  LET f[m \in 0 .. Len(ks)] ==
        LET w == Latest(ks, m)
            n == ReadLength(km, c, w)
        IN  IF AllPending(km, c, w) THEN [chunks |-> <<>>, rest |-> w]
            ELSE [chunks |-> <<SubSeq(w, 1, n)>> \o f[m - n].chunks, rest |-> f[m - n].rest]
  IN  f

Read(km, c, ks) == Reading(km, c, ks)[Len(ks)]

\* No binding is hidden by a later one of a prefix of its word.
PrefixClosed(km, c) ==
  \A i \in Enabled(km, c) : \A n \in 1 .. Len(km[i].keys) - 1 : LET w == SubSeq(km[i].keys, 1, n)
     IN  ~km[i].noAction => Pending(km, c, w)
=============================================================================
