---------------------------- MODULE MCEffectList ----------------------------
(***************************************************************************)
(* Two units.  The first may have an effect that comes first, kept when    *)
(* the unit falls, and one that comes last and may be there several times; *)
(* the second has one of the same priority as the latter.                  *)
(***************************************************************************)
EXTENDS EffectList

CONSTANTS u1, u2, curse, bomb, burn

MCUnit  == {u1, u2}
MCKind  == {curse, bomb, burn}
MCPrior == [k \in MCKind |-> IF k = curse THEN 1 ELSE 0]
MCDest  == [k \in MCKind |-> IF k = burn THEN u2 ELSE u1]
=============================================================================
