----------------------------- MODULE MCTerminal -----------------------------
(***************************************************************************)
(* Five situations of a player with two or three units: free to act, with  *)
(* all moves in cooldown and the front bound, allowed no more than one     *)
(* move, and with the front fallen, for good or before it roars.           *)
(***************************************************************************)
EXTENDS Terminal

Board(units, fallen, front, attacks, bound, roars) ==
  [units |-> units, fallen |-> fallen, front |-> front, attacks |-> attacks, bound |-> bound,
   roars |-> roars]

MCBoards ==
  {Board(2, {}, 0, {0, 5, NormalAttack}, FALSE, FALSE), Board(2, {0}, 1, {}, TRUE, FALSE),
   Board(3, {1}, 2, {3}, FALSE, FALSE)}
    \cup {Board(3, {0, 1}, 0, {}, FALSE, roars) : roars \in BOOLEAN}
=============================================================================
