---------------------------- MODULE MCPendingInput ----------------------------
(***************************************************************************)
(* Instances of PendingInput for TLC: keymaps over two keys, of all pairs  *)
(* of bindings up to three keystrokes long and some larger ones.           *)
(***************************************************************************)
EXTENDS PendingInput, TLC

CONSTANTS a, b, editor

Binding(w, depths, no) == [keys |-> w, depth |-> depths, noAction |-> no]
Everywhere(w) == Binding(w, [c \in Contexts |-> 1], FALSE)
InEditor(w)   == Binding(w, [c \in Contexts |-> IF c = editor THEN 2 ELSE 0], FALSE)
Not(w)        == Binding(w, [c \in Contexts |-> IF c = editor THEN 2 ELSE 0], TRUE)

Words == UNION {[1 .. n -> {a, b}] : n \in 1 .. 3}

\* The keys are alike: the first is that of v.
Pairs == {<<Everywhere(v), Everywhere(w)>> : v \in {w \in Words : w[1] = a}, w \in Words}
Larger == {
  <<Everywhere(<<a>>), Everywhere(<<a, b, a, a>>), Everywhere(<<b, a, b>>), Everywhere(<<b>>)>>,
  <<Everywhere(<<a>>), InEditor(<<a, b>>), Everywhere(<<b, b>>)>>,
  <<Everywhere(<<a>>), Everywhere(<<a, b>>), Not(<<a>>), InEditor(<<a, a, b>>)>>}
AllKeymaps == Pairs \cup Larger

FuelOf(km) == IF km \in Larger THEN 1 ELSE 0
=============================================================================
