------------------------------ MODULE Terminal ------------------------------
(***************************************************************************)
(* The view of a battle in a terminal, term.c: reporter_term(), which      *)
(* records what it is told in lines, and term_selector(), which asks for   *)
(* an action key by key and can show, and then asks for, the enemy's.      *)
(* Both keep what they need in static variables, from battle to battle.    *)
(***************************************************************************)
EXTENDS Integers, Sequences, FiniteSets, FiniteSetsExt, SequencesExt

CONSTANTS
  RecSize,     (* REC_SIZE: 64                                             *)
  ArgN, ArgZ,  (* the last arguments that keys n and z count from: 5, 16   *)
  Boards,      (* the situations of a player: how many units there are and *)
               (* which have fallen, the front, the attacks that its state *)
               (* and moves allow, whether it is bound to stay, and whether*)
               (* it has yet to roar, for checkfr()                        *)
  MaxHistory   (* bound: snapshots in the history                          *)

(* ACT_MOVE0 .. ACT_MOVE7, ACT_NORMALATTACK and so on.                     *)
Moves == 0 .. 7
NormalAttack == 8
Attacks == Moves \cup {NormalAttack}
Abort == 9
Unit(i) == 10 + i
Units == {Unit(i) : i \in 0 .. 5}
GiveUp == 16
Act == 0 .. 16

ASSUME TerminalAssumption ==
  /\ RecSize \in Nat \ {0} /\ ArgN \in Nat /\ ArgZ \in Nat /\ ArgN <= ArgZ /\ MaxHistory \in Nat
  /\ \A b \in Boards :
       /\ b.units \in 1 .. 6 /\ b.fallen \subseteq 0 .. b.units - 1 /\ b.front \in 0 .. b.units - 1
       /\ b.attacks \subseteq Attacks /\ {b.bound, b.roars} \subseteq BOOLEAN

Alive(b) == b.front \notin b.fallen

(* The state of an empty slot is 0, which is that of a living unit.        *)
Live(b) == {Unit(i) : i \in (0 .. 5) \ b.fallen}
Spare(b) == {Unit(i) : i \in (0 .. b.units - 1) \ (b.fallen \cup {b.front})}

(* canaction2()                                                            *)
Allows(b) ==
  {Abort, GiveUp} \cup (IF Alive(b) THEN b.attacks ELSE {})
                  \cup (IF Alive(b) /\ b.bound THEN {} ELSE Spare(b))

VARIABLES
  phase,   (* "menu", "told" of the battle, "asked" by it, or "over"       *)
  tmSet,   (* tm_set: the terminal gives the keys as they are typed        *)
  rec,     (* the lines, up to the first that is empty                     *)
  spilled, (* history: a line was written behind the last of rec           *)
  fred,    (* the last message was about progress                          *)
  snap,    (* the snapshot of the history that is told of next, of how     *)
           (* many, while all are gone through                             *)
  cur, arg, arg1,  (* the static variables of the selector                 *)
  askers,  (* whose turn it is to choose: the player, who may look through *)
           (* the enemy's eyes                                             *)
  board,   (* of both, while they are asked                                *)
  reply    (* the last answer: what it was asked for, what it was, whether *)
           (* battle() does it, and whether it is a roar that holds it up  *)

log == <<rec, spilled, fred, snap>>
keys == <<cur, arg, arg1, askers, board>>
vars == <<phase, tmSet, log, keys, reply>>

NoReply == [for |-> "none", act |-> Abort, arg |-> 0, done |-> TRUE, held |-> FALSE]
Idle == [p |-> 0, of |-> 0]
Nobody == [b \in {} |-> 0]

Init ==
  /\ phase = "menu" /\ tmSet = FALSE
  /\ rec = << >> /\ spilled = FALSE /\ fred = FALSE /\ snap = Idle
  /\ cur = NormalAttack /\ arg = 0 /\ arg1 = 0
  /\ askers = << >> /\ board = Nobody /\ reply = NoReply

(* tm_init() aborts when it was not ended.                                 *)
TmInit ==
  /\ phase = "menu"
  /\ ~tmSet
  /\ tmSet' = TRUE
  /\ phase' = "told"
  /\ UNCHANGED <<log, keys, reply>>

-----------------------------------------------------------------------------
(* The record.                                                             *)

(* wm(): a record that is full is emptied first.                           *)
Added(r, line) == IF Len(r) = RecSize THEN <<line>> ELSE Append(r, line)

(* Mutant: the line before the last is looked for from the empty one on.   *)
Replaced_First(r, line) == IF r = << >> THEN <<line>> ELSE [r EXCEPT ![1] = line]

(* wm_o(): the last line is replaced, which is looked for before the first *)
(* that is empty.  With none empty it is missed.                           *)
Replaced(r, line) ==
  IF r = << >> THEN <<line>> ELSE IF Len(r) = RecSize THEN r ELSE Front(r) \o <<line>>

(* What reporter_term() makes a line of, always or under a condition.      *)
Says == {"DAMAGE", "HEAL", "HPMOD", "MISS", "MOVE", "ROUNDEND", "SPIMOD", "SWITCH"}
MaySay == {"EFFECT", "EFFECT_END", "STATEMOD"}
Silent == {"ACTION", "EFFECT_EVENT", "EFFECT_EVENT_END", "EFFECT_ROUNDDEC",
           "EVENT", "EVENT_END", "MOVE_END", "ROUND"}

Telling == phase = "told" /\ snap = Idle

Told ==
  /\ Telling
  /\ \E type \in Says \cup MaySay \cup Silent :
       \/ type \notin Silent /\ rec' = Added(rec, "line")
       \/ type \notin Says /\ UNCHANGED rec
  /\ fred' = FALSE
  /\ UNCHANGED <<phase, tmSet, spilled, snap, keys, reply>>

(* unit_set_freezing_roaringed_in_each_history() goes through n snapshots. *)
Roaring ==
  /\ Telling
  /\ \E n \in 1 .. MaxHistory : snap' = [p |-> 1, of |-> n]
  /\ UNCHANGED <<phase, tmSet, rec, spilled, fred, keys, reply>>

(* Below 100%.                                                             *)
Goes(s) == s.p < s.of

Progress ==
  /\ phase = "told"
  /\ snap # Idle
  /\ rec' = IF fred THEN Replaced(rec, "progress") ELSE Added(rec, "progress")
  /\ spilled' = (spilled \/ (fred /\ Len(rec) = RecSize))
  /\ fred' = Goes(snap)
  /\ snap' = IF snap.p = snap.of THEN Idle ELSE [snap EXCEPT !.p = @ + 1]
  /\ UNCHANGED <<phase, tmSet, keys, reply>>

-----------------------------------------------------------------------------
(* The selector.                                                           *)

Asker == Last(askers)
Can(a) == a \in Allows(board[Asker])

(* The cursor of the last time, if that is allowed; else the attack, the   *)
(* first move or, in place of a front that fell, the first unit.           *)
Start(b, c) ==
  LET attacks == Allows(b) \cap Attacks
      first   == IF Alive(b) THEN attacks ELSE Live(b)
  IN  IF c \in Allows(b) THEN c
      ELSE IF NormalAttack \in attacks THEN NormalAttack
      ELSE IF first = {} THEN Abort ELSE Min(first)

(* player_select() asks for an action, player_selectunit() for a unit in   *)
(* place of a front that fell, if there is one.                            *)
Ask(what) ==
  /\ Telling
  /\ board' \in [{"p", "e"} -> Boards]
  /\ what = "unit" <=> ~Alive(board'["p"])
  /\ what = "unit" => Spare(board'["p"]) # {}
  /\ phase' = "asked"
  /\ askers' = <<"p">>
  /\ cur' = Start(board'["p"], cur)
  /\ reply' = [NoReply EXCEPT !.for = what]
  /\ UNCHANGED <<tmSet, log, arg, arg1>>

Key == phase = "asked" /\ UNCHANGED <<phase, tmSet, spilled, fred, snap, board>>
Go(c) == cur' = c /\ UNCHANGED <<rec, arg, arg1, askers, reply>>

(* Mutant: from the first unit as from the others.                         *)
Above_Units(c) ==
  CASE c = NormalAttack -> 7
    [] c = 0            -> NormalAttack
    [] c = GiveUp       -> Abort
    [] c = Abort        -> Unit(5)
    [] OTHER            -> c - 1

Above(c) ==
  CASE c = NormalAttack -> 7
    [] c = 0            -> NormalAttack
    [] c = Unit(0)      -> GiveUp
    [] c = GiveUp       -> Abort
    [] c = Abort        -> Unit(5)
    [] OTHER            -> c - 1

Under(c) ==
  CASE c = NormalAttack -> 0
    [] c = 7            -> NormalAttack
    [] c = Unit(5)      -> Abort
    [] c = Abort        -> GiveUp
    [] c = GiveUp       -> Unit(0)
    [] OTHER            -> c + 1

(* To the right of a move is a unit, or one of the last two actions.       *)
Right(c) == IF c = NormalAttack THEN Unit(0) ELSE IF c \in 0 .. 5 THEN Unit(c)
            ELSE IF c = 6 THEN Abort ELSE IF c = 7 THEN GiveUp ELSE c
Left(c) == IF c \in Units THEN c - 10 ELSE IF c = Abort THEN 6 ELSE IF c = GiveUp THEN 7 ELSE c

Arrow == Key /\ \E c \in {Above(cur), Under(cur), Right(cur), Left(cur)} : Go(c)

(* The letters: every action has one.                                      *)
Letter == Key /\ \E c \in Act : Go(c)

(* The keys n, z and Z.                                                    *)
Argument ==
  /\ Key
  /\ \/ \E last \in {ArgN, ArgZ} : arg' = (IF arg <= last THEN arg + 1 ELSE 0) /\ UNCHANGED arg1
     \/ arg1' = (IF arg1 <= ArgZ THEN arg1 + 1 ELSE 0) /\ UNCHANGED arg
  /\ UNCHANGED <<rec, cur, askers, reply>>

(* The key c, which inside itself does nothing.                            *)
ThroughEnemysEyes ==
  /\ Key
  /\ Len(askers) = 1
  /\ askers' = <<"p", "e">>
  /\ cur' = Start(board["e"], cur)
  /\ UNCHANGED <<rec, arg, arg1, reply>>

(* Enter on what is not allowed.                                           *)
Unavailable ==
  /\ Key
  /\ ~Can(cur)
  /\ rec' = Added(rec, "line")
  /\ UNCHANGED <<cur, arg, arg1, askers, reply>>

(* Mutant: the cursor is judged as the one who asked first sees it.        *)
Allowed_Enemy(a) == \E p \in {"p", "e"} : a \in Allows(board[p])

Forget == arg' = 0 /\ arg1' = 0
Allowed(a) == Can(a)

(* The answer for the enemy is dropped.                                    *)
ReturnFromEnemy ==
  /\ Key
  /\ Len(askers) = 2
  /\ Allowed(cur)
  /\ rec' = << >>
  /\ Forget
  /\ askers' = Front(askers)
  /\ UNCHANGED <<cur, reply>>

(* player_select() takes the argument off the answer, player_selectunit()  *)
(* does not, and takes an answer with one for none.  switchunit() does not *)
(* replace a front that has yet to roar.                                   *)
Done(what, a, x, held) ==
  IF what = "unit" THEN a \in Units /\ x = 0 /\ ~held ELSE a # GiveUp

Return ==
  /\ phase = "asked"
  /\ Len(askers) = 1
  /\ Allowed(cur)
  /\ rec' = << >>
  /\ Forget
  /\ phase' = "told"
  /\ LET x    == arg + 256 * arg1
         held == ~Alive(board["p"]) /\ board["p"].roars
     IN  reply' = [reply EXCEPT !.act = cur, !.arg = x, !.held = held,
                                !.done = Done(reply.for, cur, x, held)]
  /\ askers' = << >> /\ board' = Nobody
  /\ UNCHANGED <<tmSet, spilled, fred, snap, cur>>

(* Mutant: the record is not emptied.                                      *)
BattleEnd_Kept ==
  /\ Telling
  /\ phase' = "over"
  /\ rec' = Added(rec, "line")
  /\ fred' = FALSE
  /\ UNCHANGED <<tmSet, spilled, snap, keys, reply>>

(* The battle ends: the winner is told, a key awaited, and the record      *)
(* emptied before tm_end().  An answer that is not done ends it soon.      *)
BattleEnd ==
  /\ Telling
  /\ phase' = "over"
  /\ rec' = << >>
  /\ fred' = FALSE
  /\ UNCHANGED <<tmSet, spilled, snap, keys, reply>>

TmEnd ==
  /\ phase = "over"
  /\ phase' = "menu"
  /\ tmSet' = FALSE
  /\ reply' = NoReply
  /\ UNCHANGED <<log, keys>>

Next ==
  \/ TmInit \/ Told \/ Roaring \/ Progress \/ Ask("action") \/ Ask("unit")
  \/ Arrow \/ Letter \/ Argument \/ ThroughEnemysEyes \/ Unavailable
  \/ ReturnFromEnemy \/ Return \/ BattleEnd \/ TmEnd

Spec == Init /\ [][Next]_vars

-----------------------------------------------------------------------------
(* Properties.                                                             *)

TypeOK ==
  /\ phase \in {"menu", "told", "asked", "over"} /\ tmSet = (phase # "menu")
  /\ rec \in Seq({"line", "progress"}) /\ Len(rec) <= RecSize
  /\ {spilled, fred} \subseteq BOOLEAN
  /\ snap = Idle \/ (snap.of \in 1 .. MaxHistory /\ snap.p \in 1 .. snap.of)
  /\ cur \in Act /\ arg \in 0 .. ArgZ + 1 /\ arg1 \in 0 .. ArgZ + 1
  /\ askers \in {<< >>, <<"p">>, <<"p", "e">>} /\ (phase = "asked" <=> askers # << >>)
  /\ board = Nobody \/ board \in [{"p", "e"} -> Boards]

(* A line stays as it is until the whole record is emptied: what a line of *)
(* progress takes the place of is another such line, or nothing when it    *)
(* was written behind a record that was full.                              *)
OnlyProgressIsReplaced ==
  [][\/ IsPrefix(rec, rec') \/ rec' = << >>
     \/ Len(rec) = RecSize /\ Len(rec') = 1
     \/ /\ Len(rec') = Len(rec) /\ Front(rec') = Front(rec)
        /\ Last(rec') = "progress" /\ Last(rec) = "progress"]_log

(* Whatever was looked at, and chosen, through the enemy's eyes: the answer*)
(* is one that canaction2() allows the player who was asked.               *)
AnswerIsAllowed ==
  [][phase = "asked" /\ phase' = "told" => reply'.act \in Allows(board["p"])]_vars

(* An argument is part of the next answer or forgotten: none is left from  *)
(* one answer, turn or battle to the next.                                 *)
ArgumentsAreForOneAnswer == phase # "asked" => arg = 0 /\ arg1 = 0

(* Enter alone does not skip the turn, as long as an attack is allowed or  *)
(* a unit is to be replaced, unless that was the last choice.              *)
EnterDoesNotSkip ==
  [][phase = "told" /\ phase' = "asked" =>
       LET b == board'["p"]
       IN  /\ cur' \in Allows(b)
           /\ cur' = Abort => cur = Abort \/ (Alive(b) /\ Allows(b) \cap Attacks = {})]_vars

(* battle() does what was allowed and chosen, but for giving up and, when a*)
(* unit has to be chosen, for choosing none, for choosing it with an       *)
(* argument, and while the front that fell has yet to roar: the battle is  *)
(* then decided as if there was no unit.                                   *)
RefusedForAReason ==
  \/ reply.done
  \/ reply.act = GiveUp
  \/ reply.for = "unit" /\ (reply.act = Abort \/ reply.arg > 0 \/ reply.held)

(* The arrows up and down are the inverse of each other.                   *)
ArrowsUndo == Under(Above(cur)) = cur /\ Above(Under(cur)) = cur

(* Between battles nothing is left of the last one but the cursor (and     *)
(* aslp, the key m: whether to pause after a message): neither a line nor  *)
(* the mode of the terminal nor half a count of snapshots.                 *)
NothingIsLeft ==
  phase = "menu" => ~tmSet /\ rec = << >> /\ ~fred /\ snap = Idle /\ askers = << >>

(* What is answered is allowed and is what battle() does; where the cursor *)
(* begins it is allowed, too.                                              *)
AnswersCount == AnswerIsAllowed /\ EnterDoesNotSkip /\ []RefusedForAReason

(* Nothing but the cursor gets from one answer to the next or from one     *)
(* battle to the next.                                                     *)
NothingCarriesOver == TypeOK /\ ArgumentsAreForOneAnswer /\ NothingIsLeft
=============================================================================
