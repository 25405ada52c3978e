------------------------------- MODULE MCMenus -------------------------------
(***************************************************************************)
(* Tables of up to five entries on screens of two lines, one of which      *)
(* tables longer than one use, and of four.  A unit that can learn three   *)
(* moves, none at first, and has as many slots; three units, of which two  *)
(* can be deployed.                                                        *)
(***************************************************************************)
EXTENDS Menus

CONSTANTS bite, roar, dash

MCTeach == << <<2, bite>>, <<3, roar>>, <<4, dash>> >>
MCSize  == [wp |-> 3, move |-> 4, effect |-> 5, type |-> 3]
MCBelow == [wp |-> <<3, 0, 1>>, move |-> <<1, 0, 3, 0>>, tutorial |-> <<1, 3>>]
=============================================================================
