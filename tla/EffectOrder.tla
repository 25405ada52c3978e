----------------------------- MODULE EffectOrder -----------------------------
(***************************************************************************)
(* What the list of effects promises: the kinds of the effects on the      *)
(* field in the order in which their hooks are called, higher priority     *)
(* first and, at equal priority, the older first; and a record of them     *)
(* that can be brought back.                                               *)
(***************************************************************************)
EXTENDS Integers, Sequences

CONSTANTS Kind, Prior

VARIABLES
  order,     (* the effects on the field                                   *)
  record     (* those recorded                                             *)

(* s is some of t, in the order of t; at[i] is where s[i] is in t.         *)
Within(s, t, at) ==
  /\ at \in [DOMAIN s -> DOMAIN t]
  /\ \A i, j \in DOMAIN s : i < j => at[i] < at[j]
  /\ \A i \in DOMAIN s : s[i] = t[at[i]]
Some(s, t) == \E at \in [DOMAIN s -> DOMAIN t] : Within(s, t, at)

(* s is t with k put in after the first i.                                 *)
PutIn(s, t, i, k) ==
  s = [j \in 1 .. Len(t) + 1 |-> IF j <= i THEN t[j] ELSE IF j = i + 1 THEN k ELSE t[j - 1]]

Init == order = << >> /\ record = << >>

(* k comes after those of its priority or a higher one, which are first.   *)
Insert(k) ==
  /\ \E i \in 0 .. Len(order) :
       /\ \A j \in DOMAIN order : j <= i <=> Prior[order[j]] >= Prior[k]
       /\ PutIn(order', order, i, k)
  /\ UNCHANGED record

(* Some effects end; a roar strikes them from the record, too.             *)
Remove == Some(order', order) /\ Some(record', record)

Record == record' = order /\ UNCHANGED order

Rewind == order' = record /\ UNCHANGED record

Next == (\E k \in Kind : Insert(k)) \/ Remove \/ Record \/ Rewind

Spec == Init /\ [][Next]_<<order, record>>
=============================================================================
