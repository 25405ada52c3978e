---- MODULE MCSymSet ----
(* One-letter names with the slots strdiff() and modi() give them: a symbol's
   successors in the alphabet are in its slots 1 and 2, those before it in 13
   and 12; so the set is a chain or forks, as the order of insertion decides. *)
EXTENDS SymSet

MCName == {"a", "b", "c", "d"}
MCSlotOf ==
  LET a == [a |-> 0, b |-> 13, c |-> 13, d |-> 12]
      b == [a |-> 1, b |-> 0, c |-> 13, d |-> 13]
      c == [a |-> 1, b |-> 1, c |-> 0, d |-> 13]
      d == [a |-> 2, b |-> 1, c |-> 1, d |-> 0]
  IN [a |-> a, b |-> b, c |-> c, d |-> d]
MCKind == [a |-> "constant", b |-> "variable", c |-> "constant", d |-> "constant"]
====
