----------------------------- MODULE MoveEditor -----------------------------
(***************************************************************************)
(* writemove() of menu.c: the moves of a unit are chosen among those it    *)
(* has learned.  The cursor goes over the learned moves and then over the  *)
(* slots; what is edited is a copy, which is written back at the end.      *)
(***************************************************************************)
EXTENDS Naturals, Sequences, FiniteSets, FiniteSetsExt, SequencesExt

CONSTANTS
  Slots,     (* of moves in a unit: 8                                      *)
  Teach,     (* the moves of the species: <<level, move>>, by level; there *)
             (* is a place for one at each level                           *)
  MaxLevel   (* 150                                                        *)

NULL == "null"
Move == {Teach[i][2] : i \in DOMAIN Teach}

ASSUME MoveEditorAssumption ==
  /\ Slots \in Nat \ {0, 1} /\ MaxLevel \in Nat \ {0}
  /\ Teach \in Seq(Nat \X Move) /\ NULL \notin Move
  /\ \A i, j \in DOMAIN Teach : i < j => Teach[i][1] < Teach[j][1]
  /\ \A i, j \in DOMAIN Teach : i # j => Teach[i][2] # Teach[j][2]

VARIABLES
  level,    (* of the unit                                                 *)
  moves,    (* ui->moves                                                   *)
  chosen,   (* s: the copy                                                 *)
  at,       (* cur: over the learned moves, then over the slots            *)
  editing,  (* writemove() runs                                            *)
  holed,    (* history: a slot was empty before one that was not           *)
  crashed   (* a slot that is empty was compared with a name               *)

editor == <<level, moves, chosen, at, editing, holed, crashed>>

Slot == 0 .. Slots - 1
Empty == [i \in Slot |-> NULL]

(* The learned moves: the first of those of the species.                   *)
R == Cardinality({i \in DOMAIN Teach : Teach[i][1] <= level})
Learned == SubSeq(Teach, 1, R)

Ring(x, n) == IF x < 0 THEN n - 1 ELSE IF x >= n THEN 0 ELSE x

(* A cursor past the last chosen move goes to the first of them.           *)
Settled(s, c) ==
  IF c < R \/ (c < R + Slots /\ s[c - R] # NULL) THEN c
  ELSE IF s[0] = NULL THEN 0 ELSE R

Hole(s) == \E i, j \in Slot : i < j /\ s[i] = NULL /\ s[j] # NULL

EditorInit ==
  /\ level = 1 /\ moves = Empty /\ chosen = Empty
  /\ at = 0 /\ editing = FALSE /\ holed = FALSE /\ crashed = FALSE

(* The copy becomes s and the cursor goes to c.                            *)
Put(s, c) ==
  /\ chosen' = s
  /\ at' = Settled(s, c)
  /\ holed' = (holed \/ Hole(s))
  /\ UNCHANGED <<level, moves, editing, crashed>>

Edits == editing /\ ~crashed
OnSlot == at >= R

WriteMove ==
  /\ ~editing
  /\ R > 0
  /\ editing' = TRUE
  /\ chosen' = moves
  /\ at' = IF moves[0] = NULL THEN 0 ELSE R
  /\ UNCHANGED <<level, moves, holed, crashed>>

Down ==
  /\ Edits
  /\ Put(chosen, CASE at = R - 1 /\ chosen[0] # NULL -> R
                   [] OnSlot -> IF at < R + Slots - 1 THEN at + 1 ELSE 0
                   [] OTHER -> Ring(at + 1, R))

Up == Edits /\ Put(chosen, IF OnSlot THEN at - 1 ELSE IF at = 0 THEN R - 1 ELSE at - 1)

(* Without an empty slot at the end all are compared, else those before    *)
(* the first that is empty.                                                *)
Compared(s) ==
  IF s[Slots - 1] # NULL THEN Slot ELSE {j \in Slot : \A i \in 0 .. j : s[i] # NULL}

(* Enter on a learned move: it is added, or the cursor goes to the slot    *)
(* that has it, or with all slots taken one is to be deleted first.        *)
Learn ==
  /\ Edits
  /\ ~OnSlot
  /\ LET m     == Learned[at + 1][2]
         stops == {j \in Compared(chosen) : chosen[j] \in {m, NULL}}
         free  == {i \in Slot : chosen[i] = NULL}
     IN  \/ /\ stops # {} /\ chosen[Min(stops)] = NULL
            /\ crashed' = TRUE
            /\ UNCHANGED <<level, moves, chosen, at, editing, holed>>
         \/ /\ stops # {} /\ chosen[Min(stops)] = m
            /\ Put(chosen, R + Min(stops))
         \/ /\ stops = {} /\ chosen[Slots - 1] = NULL
            /\ Put([chosen EXCEPT ![Min(free)] = m], at)
         \/ /\ stops = {} /\ chosen[Slots - 1] # NULL
            /\ UNCHANGED editor

Leave == editing' = FALSE /\ chosen' = Empty /\ at' = 0

(* The key x, and enter on a slot; and the key q.                          *)
Accept == Edits /\ Leave /\ moves' = chosen /\ UNCHANGED <<level, holed, crashed>>
Cancel == Edits /\ Leave /\ UNCHANGED <<level, moves, holed, crashed>>

Exchanged(s, i, j) == [s EXCEPT ![i] = s[j], ![j] = s[i]]

(* The keys u and i.                                                       *)
Raise == Edits /\ at > R /\ Put(Exchanged(chosen, at - R, at - R - 1), at - 1)

Lower ==
  /\ Edits /\ OnSlot /\ at < R + Slots - 1
  /\ Put(Exchanged(chosen, at - R, at - R + 1), at + 1)

(* Mutants: the moves after the deleted one stay; the last of them too.    *)
Deleted_Left(s, i) == [s EXCEPT ![i] = NULL]
Deleted_LastKept(s, i) ==
  LET run == {k \in i .. Slots - 1 : \A j \in i .. k : s[j] # NULL}
  IN  [k \in Slot |-> IF k \in run /\ k < Max(run) THEN s[k + 1] ELSE s[k]]

(* The moves up to the next empty slot are shifted.                        *)
Deleted(s, i) ==
  LET run == {k \in i .. Slots - 1 : \A j \in i .. k : s[j] # NULL}
  IN  [k \in Slot |-> IF k \notin run THEN s[k] ELSE IF k = Max(run) THEN NULL ELSE s[k + 1]]

(* The key d: on the last of the moves the cursor goes back by one.        *)
Delete ==
  /\ Edits
  /\ OnSlot
  /\ Put(Deleted(chosen, at - R),
         IF at = R + Slots - 1 \/ chosen[at - R + 1] = NULL THEN at - 1 ELSE at)

(* The key c, and the digits.                                              *)
ToChosen == Edits /\ chosen[0] # NULL /\ Put(chosen, R)
Digit(x) ==
  /\ Edits
  /\ \/ ~OnSlot /\ x < R /\ Put(chosen, x)
     \/ OnSlot /\ x < Slots /\ chosen[x] # NULL /\ Put(chosen, R + x)

(* The moves of s without the empty slots between them.                    *)
Compacted(s) ==
  LET named     == {i \in Slot : s[i] # NULL}
      before(i) == Cardinality({j \in named : j < i})
      from(k)   == {i \in named : before(i) = k}
  IN  [k \in Slot |-> IF from(k) = {} THEN NULL ELSE s[CHOOSE i \in from(k) : TRUE]]

(* ui_asnbt() and then ui_create_fromnbt(): the unit is stored and taken   *)
(* out again, or saved and loaded.                                         *)
Reload ==
  /\ ~editing
  /\ moves' = Compacted(moves)
  /\ UNCHANGED <<level, chosen, at, editing, holed, crashed>>

(* The unit rises: in units_menu().                                        *)
Rise ==
  /\ ~editing /\ level < MaxLevel
  /\ level' = level + 1
  /\ UNCHANGED <<moves, chosen, at, editing, holed, crashed>>

Edit ==
  \/ Down \/ Up \/ Learn \/ Accept \/ Cancel \/ Raise \/ Lower \/ Delete \/ ToChosen
  \/ \E x \in 0 .. 9 : Digit(x)

-----------------------------------------------------------------------------
(* Properties.                                                             *)

(* With the cursor on neither a learned nor a chosen move writemove()      *)
(* would abort().                                                          *)
EditorTypeOK ==
  /\ level \in 1 .. MaxLevel
  /\ moves \in [Slot -> Move \cup {NULL}] /\ chosen \in [Slot -> Move \cup {NULL}]
  /\ {editing, holed, crashed} \subseteq BOOLEAN
  /\ editing => at \in 0 .. R + Slots - 1 /\ (OnSlot => chosen[at - R] # NULL)

Twice(s) == \E i, j \in Slot : i # j /\ s[i] = s[j] /\ s[i] # NULL

(* As long as no slot was ever empty before one that was not, no move is   *)
(* chosen twice and no empty slot is compared: Learn looks no further than *)
(* the first empty slot.                                                   *)
WholeUntilAHole == ~holed => ~crashed /\ ~Twice(chosen) /\ ~Twice(moves)

(* The first hole is made by lowering the last of the moves: no sequence   *)
(* of the other commands leaves one.                                       *)
HolesByLowering == [][~holed /\ holed' => Lower]_editor

Times(s, m) == Cardinality({i \in Slot : s[i] = m})

(* Of the moves that are being chosen a command adds the one under the     *)
(* cursor, or drops the one under the cursor, or changes nothing but their *)
(* order.                                                                  *)
OnlyTheSelectedChanges ==
  [][editing /\ editing' =>
       \A m \in Move :
         \/ Times(chosen', m) = Times(chosen, m)
         \/ /\ ~OnSlot /\ m = Learned[at + 1][2]
            /\ Times(chosen', m) = Times(chosen, m) + 1
         \/ /\ OnSlot /\ m = chosen[at - R]
            /\ Times(chosen', m) = Times(chosen, m) - 1]_editor
=============================================================================
