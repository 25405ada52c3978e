------------------------------ MODULE MCBattle ------------------------------
(***************************************************************************)
(* Small battles for TLC: two units a side, at most two moves a unit.      *)
(***************************************************************************)
EXTENDS Battle, TLC

p0 == <<"p", 0>>
p1 == <<"p", 1>>
e0 == <<"e", 0>>
e1 == <<"e", 1>>

TwoASide == {p0, p1, e0, e1}
TwoToOne == {p0, p1, e0}
OneToTwo == {p0, e0, e1}

OneMove  == {0}
TwoMoves == {0, 1}

Slots(m0, m1) == (0 :> m0) @@ (1 :> m1)
Only(m) == (0 :> m)

(* A roarer against a song that makes it roar, with time to turn back.     *)
RoarKit ==
  (p0 :> Only("freezing_roaring")) @@ (p1 :> Only("none")) @@
  (e0 :> Only("perish_song")) @@ (e1 :> Only("time_back"))

(* Stuns, denial, revival, rewinding and vanishing, and a roarer to resist.*)
ControlKit ==
  (p0 :> Slots("dmts_impact", "time_back")) @@
  (p1 :> Slots("karma_reverse", "time_back")) @@
  (e0 :> Slots("plasmatizing_lightcannon", "freezing_roaring"))

(* A victory by reduction, which a roar can take back; curses that may     *)
(* fall on both fronts at once, and a unit that neither they nor hits kill.*)
WinnerKit ==
  (p0 :> Slots("red_lotus", "steel_flywheel")) @@
  (e0 :> Slots("absolutely_immortal", "steel_flywheel")) @@
  (e1 :> Slots("freezing_roaring", "none"))

(* One unit that stuns and one that could turn back time while stunned.    *)
Duel == {p0, e0}
StunKit == (p0 :> Only("dmts_impact")) @@ (e0 :> Only("time_back"))

(* A lone caster of red_lotus.                                             *)
LotusKit == (p0 :> Only("none")) @@ (p1 :> Only("none")) @@ (e0 :> Only("red_lotus"))

(* How long effects and cooldowns last: shorter than in the code, and in   *)
(* the same order.                                                         *)
ShortRounds ==
  [k \in Effect |-> CASE k \in {"ATK", "SPEED"} -> -1
                      [] k \in {"perish_song", "operation_denied"} -> 1
                      [] OTHER -> 2]

ShortStart == [m \in Move |-> IF m = "plasmatizing_lightcannon" THEN 1 ELSE 0]

ShortCooldown ==
  [m \in Move |-> CASE m \in {"none", "freezing_roaring", "red_lotus"} -> 0
                    [] m \in {"perish_song", "steel_flywheel"} -> 2
                    [] OTHER -> 3]
=============================================================================
