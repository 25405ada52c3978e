------------------------------ MODULE Lifecycle ------------------------------
(***************************************************************************)
(* What a battle promises about the state of its units, without saying     *)
(* when or why: a unit only falls, one step or several at a time, until it *)
(* is revived (from FAILED) or the battle is rewound to a recorded round;  *)
(* and a unit that is roared down is so for good, in every record too.     *)
(***************************************************************************)
EXTENDS Naturals, Sequences

CONSTANT Unit

VARIABLES
  st,     (* the state of each unit *)
  past    (* the states recorded    *)

Standing == {"NORMAL", "CONTROLLED", "SUPPRESSED"}
State == Standing \cup {"FADING", "FAILED", "VANISHED", "FREEZING_ROARINGED"}

(* How far a unit in state s has fallen. *)
Depth == [s \in State |-> CASE s \in Standing -> 0
                            [] s = "FADING"   -> 1
                            [] s = "FAILED"   -> 2
                            [] s = "VANISHED" -> 3
                            [] OTHER          -> 4]

Falls(s, t) == s = t \/ (Depth[s] <= Depth[t] /\ Depth[t] < 4)

Init == st = [u \in Unit |-> "NORMAL"] /\ past = << >>

Fall ==
  /\ st' \in [Unit -> State]
  /\ \A u \in Unit : Falls(st[u], st'[u])
  /\ UNCHANGED past

Revive ==
  /\ st' \in [Unit -> State]
  /\ \A u \in Unit : st'[u] = st[u] \/ (st[u] = "FAILED" /\ st'[u] \in Standing)
  /\ UNCHANGED past

Record == past' = Append(past, st) /\ UNCHANGED st

Rewind == (\E i \in DOMAIN past : st' = past[i]) /\ UNCHANGED past

Roar(u) ==
  /\ st' = [st EXCEPT ![u] = "FREEZING_ROARINGED"]
  /\ past' = [i \in DOMAIN past |-> [past[i] EXCEPT ![u] = "FREEZING_ROARINGED"]]

Next == Fall \/ Revive \/ Record \/ Rewind \/ (\E u \in Unit : Roar(u))

vars == <<st, past>>

Spec == Init /\ [][Next]_vars
=============================================================================
