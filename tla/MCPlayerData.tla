---------------------------- MODULE MCPlayerData ----------------------------
(***************************************************************************)
(* A player with three units in two or three slots, one of which evolves   *)
(* into a species that can select its types.                               *)
(***************************************************************************)
EXTENDS PlayerData, TLC

MCKey == {"xp", "endless", "storage", "items", "units"}
MCRank == "endless" :> 1 @@ "items" :> 2 @@ "storage" :> 3 @@ "units" :> 4 @@ "xp" :> 5

MCSpecies == 1 .. 3
MCXpType == <<1, 3, 2>>
MCEvolveLevel == <<2, 0, 0>>
MCMaxType == <<<<0, 0>>, <<1, 3>>, <<0, 0>>>>
MCFactor == <<1, 2, 3>>

MCNewUnits == << <<"hood_3", 1>>, <<"duck", 2>> >>
MCNewStorage == << <<"ball", 3>> >>
=============================================================================
