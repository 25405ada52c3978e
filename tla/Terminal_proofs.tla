-------------------------- MODULE Terminal_proofs --------------------------
(***************************************************************************)
(* What the view in the terminal keeps to for every length of the record,  *)
(* every limit of the arguments and all situations of the players: that    *)
(* nothing but the cursor carries over from answer to answer and battle to *)
(* battle, and that what is answered is what battle() does.                *)
(***************************************************************************)
EXTENDS Terminal, SequenceTheorems, TLAPS

Line == {"line", "progress"}
Replies ==
  [for : {"none", "action", "unit"}, act : Act, arg : Nat, done : BOOLEAN, held : BOOLEAN]

(* Outside of TypeOK: the records are records; snapshots are gone through  *)
(* while the view is told of them only; and a unit is asked for when the   *)
(* front fell, an action when it stands.                                   *)
Shape == snap \in [p : Nat, of : Nat] /\ reply \in Replies

WhenAsked ==
  phase = "asked" =>
    /\ board \in [{"p", "e"} -> Boards]
    /\ reply.for = IF Alive(board["p"]) THEN "action" ELSE "unit"
    /\ reply.done

Quiet ==
  /\ phase # "told" => snap = Idle
  /\ phase \in {"menu", "over"} => rec = << >> /\ ~fred

Inv ==
  TypeOK /\ Shape /\ WhenAsked /\ Quiet /\ ArgumentsAreForOneAnswer /\ RefusedForAReason

-----------------------------------------------------------------------------
(* Helpers.                                                                *)

LEMMA AddedType ==
  ASSUME NEW r \in Seq(Line), Len(r) <= RecSize, NEW line \in Line
  PROVE  Added(r, line) \in Seq(Line) /\ Len(Added(r, line)) <= RecSize
<1>1. <<line>> \in Seq(Line) /\ Len(<<line>>) = 1 /\ Len(r) \in Nat
  OBVIOUS
<1>2. Append(r, line) \in Seq(Line) /\ Len(Append(r, line)) = Len(r) + 1
  BY AppendProperties
<1> QED
  BY <1>1, <1>2, TerminalAssumption DEF Added

LEMMA FrontType ==
  ASSUME NEW S, NEW r \in Seq(S), r # << >>
  PROVE  /\ Front(r) \in Seq(S) /\ Len(Front(r)) = Len(r) - 1 /\ Len(r) \in Nat \ {0}
         /\ \A i \in 1 .. Len(r) - 1 : Front(r)[i] = r[i]
<1>1. Len(r) \in Nat \ {0}
  BY EmptySeq
<1>2. \A i \in 1 .. Len(r) - 1 : r[i] \in S
  BY <1>1
<1>3. SubSeq(r, 1, Len(r) - 1) \in Seq(S)
  BY <1>1, <1>2, SubSeqProperties
<1>4. Len(SubSeq(r, 1, Len(r) - 1)) = Len(r) - 1
  <2>1. \A m, n \in Int : (\A i \in m .. n : r[i] \in S) =>
            Len(SubSeq(r, m, n)) = IF m <= n THEN n - m + 1 ELSE 0
    BY SubSeqProperties
  <2>2. Len(r) - 1 \in Int /\ 1 \in Int
    BY <1>1
  <2>3. Len(SubSeq(r, 1, Len(r) - 1)) =
          IF 1 <= Len(r) - 1 THEN Len(r) - 1 - 1 + 1 ELSE 0
    BY <1>2, <2>1, <2>2
  <2>4. \A k \in Nat \ {0} : (IF 1 <= k - 1 THEN k - 1 - 1 + 1 ELSE 0) = k - 1
    OBVIOUS
  <2> QED
    BY <1>1, <2>3, <2>4, Zenon
<1>5. \A i \in 1 .. Len(r) - 1 : SubSeq(r, 1, Len(r) - 1)[i] = r[i]
  BY <1>1
<1> QED
  BY <1>1, <1>3, <1>4, <1>5 DEF Front

LEMMA ReplacedType ==
  ASSUME NEW r \in Seq(Line), Len(r) <= RecSize, NEW line \in Line
  PROVE  Replaced(r, line) \in Seq(Line) /\ Len(Replaced(r, line)) <= RecSize
<1>1. CASE r = << >> \/ Len(r) = RecSize
  BY <1>1, TerminalAssumption DEF Replaced
<1>2. CASE r # << >> /\ Len(r) # RecSize
  <2>1. Front(r) \in Seq(Line) /\ Len(Front(r)) = Len(r) - 1 /\ Len(r) \in Nat \ {0}
    BY <1>2, FrontType
  <2>2. <<line>> \in Seq(Line) /\ Len(<<line>>) = 1
    OBVIOUS
  <2>3. Front(r) \o <<line>> \in Seq(Line) /\ Len(Front(r) \o <<line>>) = Len(r)
    BY <2>1, <2>2, ConcatProperties
  <2> QED
    BY <1>2, <2>3 DEF Replaced
<1> QED
  BY <1>1, <1>2

(* Actions are less than 17: below none is one that is 32 less.             *)
LEMMA LeastAction ==
  ASSUME NEW S, S \subseteq Act, S # {}
  PROVE  Min(S) \in S /\ \A a \in S : Min(S) <= a
<1>1. \E a \in S : \A c \in S : a <= c
  <2> SUFFICES ASSUME \A a \in S : \E c \in S : c + 1 <= a
               PROVE  FALSE
    BY DEF Act
  <2>1. \A a \in S : \E c \in S : c + 2 <= a
    BY DEF Act
  <2>2. \A a \in S : \E c \in S : c + 4 <= a
    BY <2>1 DEF Act
  <2>3. \A a \in S : \E c \in S : c + 8 <= a
    BY <2>2 DEF Act
  <2>4. \A a \in S : \E c \in S : c + 16 <= a
    BY <2>3 DEF Act
  <2>5. \A a \in S : \E c \in S : c + 32 <= a
    BY <2>4 DEF Act
  <2>6. PICK a \in S : TRUE
    OBVIOUS
  <2>7. PICK c \in S : c + 32 <= a
    BY <2>5
  <2>8. a \in 0 .. 16 /\ c \in 0 .. 16
    BY DEF Act
  <2> QED
    BY <2>7, <2>8
<1> QED
  BY <1>1 DEF Min

LEMMA AllowedActs ==
  ASSUME NEW b \in Boards
  PROVE  /\ Allows(b) \subseteq Act /\ Live(b) \subseteq Units /\ Spare(b) \subseteq Live(b)
         /\ {Abort, GiveUp} \subseteq Allows(b) /\ Attacks \subseteq Act /\ Units \subseteq Act
<1>1. /\ b.units \in 1 .. 6 /\ b.attacks \subseteq Attacks
  BY TerminalAssumption
<1>2. Attacks \subseteq Act /\ Units \subseteq Act /\ Abort \in Act /\ GiveUp \in Act
  BY DEF Attacks, Moves, NormalAttack, Units, Unit, Act, Abort, GiveUp
<1>3. Live(b) \subseteq Units /\ Spare(b) \subseteq Live(b)
  BY <1>1 DEF Live, Spare, Units
<1> QED
  BY <1>1, <1>2, <1>3 DEF Allows

(* Where a unit is missing the least living one is no empty slot.          *)
LEMMA LeastLiving ==
  ASSUME NEW b \in Boards, ~Alive(b), Spare(b) # {}
  PROVE  Live(b) # {} /\ Min(Live(b)) \in Spare(b)
<1>1. PICK i \in (0 .. b.units - 1) \ (b.fallen \cup {b.front}) : TRUE
  BY DEF Spare
<1>2. b.units \in 1 .. 6 /\ b.front \in b.fallen
  BY TerminalAssumption DEF Alive
<1>3. Unit(i) \in Live(b) /\ Live(b) \subseteq Act
  BY <1>1, <1>2, AllowedActs DEF Live
<1>4. Min(Live(b)) \in Live(b) /\ Min(Live(b)) <= Unit(i)
  BY <1>3, LeastAction
<1>5. PICK j \in (0 .. 5) \ b.fallen : Min(Live(b)) = Unit(j)
  BY <1>4 DEF Live
<1>6. j <= i /\ j # b.front
  BY <1>1, <1>2, <1>4, <1>5 DEF Unit
<1> QED
  BY <1>1, <1>2, <1>3, <1>5, <1>6 DEF Spare

(* The cursor begins at what is allowed, and at no action only when it was *)
(* there or nothing better is allowed.                                     *)
LEMMA StartAllowed ==
  ASSUME NEW b \in Boards, NEW c, Alive(b) \/ Spare(b) # {}
  PROVE  /\ Start(b, c) \in Allows(b)
         /\ Start(b, c) = Abort => c = Abort \/ (Alive(b) /\ Allows(b) \cap Attacks = {})
<1> DEFINE attacks == Allows(b) \cap Attacks
           first == IF Alive(b) THEN attacks ELSE Live(b)
<1>1. Abort \notin Attacks /\ Abort \notin Units
  BY DEF Abort, Attacks, Moves, NormalAttack, Units, Unit
<1>2. CASE c \in Allows(b)
  BY <1>2 DEF Start
<1>3. CASE c \notin Allows(b) /\ NormalAttack \in attacks
  BY <1>1, <1>3 DEF Start
<1>4. CASE c \notin Allows(b) /\ NormalAttack \notin attacks /\ Alive(b)
  <2>1. CASE attacks = {}
    BY <1>4, <2>1, AllowedActs DEF Start
  <2>2. CASE attacks # {}
    <3>1. Min(attacks) \in attacks
      BY <2>2, AllowedActs, LeastAction
    <3> QED
      BY <1>1, <1>4, <2>2, <3>1 DEF Start
  <2> QED
    BY <2>1, <2>2
<1>5. CASE c \notin Allows(b) /\ NormalAttack \notin attacks /\ ~Alive(b)
  <2>1. Live(b) # {} /\ Min(Live(b)) \in Spare(b)
    BY <1>5, LeastLiving
  <2>2. Spare(b) \subseteq Allows(b) /\ Spare(b) \subseteq Units
    BY <1>5, AllowedActs DEF Allows
  <2> QED
    BY <1>1, <1>5, <2>1, <2>2 DEF Start
<1> QED
  BY <1>2, <1>3, <1>4, <1>5

(* Through anybody's eyes the cursor begins at an action.                  *)
LEMMA StartType ==
  ASSUME NEW b \in Boards, NEW c
  PROVE  Start(b, c) \in Act
<1> DEFINE attacks == Allows(b) \cap Attacks
           first == IF Alive(b) THEN attacks ELSE Live(b)
<1>1. first \subseteq Act /\ Abort \in Act /\ Allows(b) \subseteq Act
  BY AllowedActs
<1>2. first # {} => Min(first) \in Act
  BY <1>1, LeastAction
<1> QED
  BY <1>1, <1>2 DEF Start

(* Who has to replace the front is allowed units, no action and to give up.*)
LEMMA UnitIsAsked ==
  ASSUME NEW b \in Boards, NEW a \in Allows(b), ~Alive(b)
  PROVE  a \in Units \cup {Abort, GiveUp}
BY AllowedActs DEF Allows

(* The eyes that are looked through.                                       *)
LEMMA Eyes ==
  ASSUME TypeOK, phase = "asked"
  PROVE  \/ askers = <<"p">> /\ Len(askers) = 1 /\ Asker = "p"
         \/ askers = <<"p", "e">> /\ Len(askers) = 2 /\ Asker = "e" /\ Front(askers) = <<"p">>
<1>1. CASE askers = <<"p">>
  BY <1>1 DEF Asker, Last
<1>2. CASE askers = <<"p", "e">>
  <2>1. Len(askers) = 2 /\ Asker = "e"
    BY <1>2 DEF Asker, Last
  <2>2. Front(<<"p", "e">>) = <<"p">>
    <3> DEFINE both == <<"p", "e">>
    <3>1. both \in Seq({"p", "e"}) /\ both # << >> /\ Len(both) = 2 /\ both[1] = "p"
      OBVIOUS
    <3> HIDE DEF both
    <3>2. /\ Front(both) \in Seq({"p", "e"}) /\ Len(Front(both)) = Len(both) - 1
          /\ \A i \in 1 .. Len(both) - 1 : Front(both)[i] = both[i]
      BY <3>1, FrontType
    <3>3. <<"p">> \in Seq({"p", "e"}) /\ Len(<<"p">>) = 1 /\ <<"p">>[1] = "p"
      OBVIOUS
    <3>4. Len(Front(both)) = 1 /\ \A i \in 1 .. 1 : Front(both)[i] = <<"p">>[i]
      BY <3>1, <3>2
    <3>5. Front(both) = <<"p">>
      BY <3>2, <3>3, <3>4, SeqEqual
    <3> QED
      BY <3>5 DEF both
  <2> QED
    BY <1>2, <2>1, <2>2
<1> QED
  BY <1>1, <1>2 DEF TypeOK

-----------------------------------------------------------------------------
(* The invariant.                                                          *)

LEMMA InitInv == Init => Inv
<1> SUFFICES ASSUME Init
             PROVE  Inv
  OBVIOUS
<1>1. TypeOK
  <2>1. rec \in Seq({"line", "progress"}) /\ Len(rec) <= RecSize
    BY TerminalAssumption DEF Init
  <2>2. {spilled, fred} \subseteq BOOLEAN /\ tmSet = (phase # "menu")
    BY DEF Init
  <2>3. cur \in Act /\ arg \in 0 .. ArgZ + 1 /\ arg1 \in 0 .. ArgZ + 1
    BY TerminalAssumption DEF Init, Act, NormalAttack
  <2> QED
    BY <2>1, <2>2, <2>3 DEF Init, TypeOK
<1>2. Shape /\ WhenAsked /\ Quiet
  BY DEF Init, Shape, WhenAsked, Quiet, Idle, NoReply, Replies, Act, Abort
<1>3. ArgumentsAreForOneAnswer /\ RefusedForAReason
  BY DEF Init, ArgumentsAreForOneAnswer, RefusedForAReason, NoReply
<1> QED
  BY <1>1, <1>2, <1>3 DEF Inv

LEMMA TellingInv ==
  ASSUME Inv, Told \/ Roaring \/ Progress
  PROVE  Inv'
<1> USE DEF Inv, Idle, log, keys
<1>1. rec' \in Seq(Line) /\ Len(rec') <= RecSize
  BY AddedType, ReplacedType DEF TypeOK, Line, Told, Roaring, Progress
<1>2. fred' \in BOOLEAN /\ spilled' \in BOOLEAN
  <2>1. \A t : Goes(t) \in BOOLEAN
    BY DEF Goes
  <2> QED
    BY <2>1, Zenon DEF TypeOK, Told, Roaring, Progress
<1>3. /\ snap' \in [p : Nat, of : Nat]
      /\ snap' = Idle \/ (snap'.of \in 1 .. MaxHistory /\ snap'.p \in 1 .. snap'.of)
  <2>1. CASE Told
    BY <2>1 DEF Told, TypeOK, Shape
  <2>2. CASE Roaring
    BY <2>2, TerminalAssumption DEF Roaring
  <2>3. CASE Progress
    BY <2>3, TerminalAssumption DEF Progress, TypeOK, Shape
  <2> QED
    BY <2>1, <2>2, <2>3
<1>4. phase = "told" /\ UNCHANGED <<phase, tmSet, cur, arg, arg1, askers, board, reply>>
  BY DEF Told, Roaring, Progress, Telling
<1>5. TypeOK'
  BY <1>1, <1>2, <1>3, <1>4 DEF TypeOK, Line
<1> QED
  BY <1>3, <1>4, <1>5 DEF Shape, WhenAsked, Quiet, ArgumentsAreForOneAnswer, RefusedForAReason

LEMMA AskInv ==
  ASSUME Inv, NEW what \in {"action", "unit"}, Ask(what)
  PROVE  Inv'
<1>1. /\ phase = "told" /\ phase' = "asked" /\ snap = Idle
      /\ UNCHANGED <<tmSet, rec, spilled, fred, snap, arg, arg1>>
  BY DEF Ask, Telling, log
<1>2. board' \in [{"p", "e"} -> Boards] /\ board'["p"] \in Boards
  BY DEF Ask
<1>3. cur' \in Act
  BY <1>2, StartType DEF Ask
<1>4. reply' = [for |-> what, act |-> Abort, arg |-> 0, done |-> TRUE, held |-> FALSE]
  BY DEF Ask, NoReply
<1>5. what = IF Alive(board'["p"]) THEN "action" ELSE "unit"
  BY DEF Ask
<1>6. TypeOK'
  <2>1. askers' = <<"p">> /\ askers' # << >>
    BY DEF Ask
  <2> QED
    BY <1>1, <1>2, <1>3, <2>1 DEF Inv, TypeOK
<1>7. Shape' /\ RefusedForAReason'
  BY <1>1, <1>4 DEF Inv, Shape, RefusedForAReason, Replies, Act, Abort
<1>8. WhenAsked'
  BY <1>1, <1>2, <1>4, <1>5 DEF WhenAsked
<1> QED
  BY <1>1, <1>6, <1>7, <1>8 DEF Inv, Quiet, ArgumentsAreForOneAnswer

(* What a key does to the cursor.                                          *)
LEMMA CursorType ==
  ASSUME NEW c \in Act
  PROVE  {Above(c), Under(c), Right(c), Left(c)} \subseteq Act
BY DEF Act, Above, Under, Right, Left, NormalAttack, Unit, Units, Abort, GiveUp

LEMMA KeyInv ==
  ASSUME Inv, Arrow \/ Letter \/ Argument \/ ThroughEnemysEyes \/ Unavailable \/ ReturnFromEnemy
  PROVE  Inv'
<1>1. phase = "asked" /\ UNCHANGED <<phase, tmSet, spilled, fred, snap, board, reply>>
  BY DEF Arrow, Letter, Argument, ThroughEnemysEyes, Unavailable, ReturnFromEnemy, Key, Go
<1>2. board \in [{"p", "e"} -> Boards]
  BY <1>1 DEF Inv, WhenAsked
<1>3. cur' \in Act
  <2>1. CASE Arrow
    BY <2>1, CursorType DEF Arrow, Go, Inv, TypeOK
  <2>2. CASE ThroughEnemysEyes
    BY <1>2, <2>2, StartType DEF ThroughEnemysEyes
  <2>3. CASE Letter \/ Argument \/ Unavailable \/ ReturnFromEnemy
    BY <2>3 DEF Letter, Go, Argument, Unavailable, ReturnFromEnemy, Inv, TypeOK
  <2> QED
    BY <2>1, <2>2, <2>3
<1>4. arg' \in 0 .. ArgZ + 1 /\ arg1' \in 0 .. ArgZ + 1
  <2>1. CASE Argument
    BY <2>1, TerminalAssumption DEF Argument, Inv, TypeOK
  <2>2. CASE ReturnFromEnemy
    BY <2>2, TerminalAssumption DEF ReturnFromEnemy, Forget
  <2>3. CASE Arrow \/ Letter \/ ThroughEnemysEyes \/ Unavailable
    BY <2>3 DEF Arrow, Letter, Go, ThroughEnemysEyes, Unavailable, Inv, TypeOK
  <2> QED
    BY <2>1, <2>2, <2>3
<1>5. askers' \in {<<"p">>, <<"p", "e">>} /\ askers' # << >>
  <2>1. CASE ThroughEnemysEyes
    BY <2>1 DEF ThroughEnemysEyes
  <2>2. CASE ReturnFromEnemy
    BY <1>1, <2>2, Eyes DEF ReturnFromEnemy, Inv
  <2>3. CASE Arrow \/ Letter \/ Argument \/ Unavailable
    BY <1>1, <2>3, Eyes DEF Arrow, Letter, Go, Argument, Unavailable, Inv
  <2> QED
    BY <2>1, <2>2, <2>3
<1>6. rec' \in Seq(Line) /\ Len(rec') <= RecSize
  <2>1. CASE Unavailable
    BY <2>1, AddedType DEF Unavailable, Inv, TypeOK, Line
  <2>2. CASE ReturnFromEnemy
    BY <2>2, TerminalAssumption DEF ReturnFromEnemy
  <2>3. CASE Arrow \/ Letter \/ Argument \/ ThroughEnemysEyes
    BY <2>3 DEF Arrow, Letter, Go, Argument, ThroughEnemysEyes, Inv, TypeOK, Line
  <2> QED
    BY <2>1, <2>2, <2>3
<1>7. TypeOK'
  BY <1>1, <1>3, <1>4, <1>5, <1>6 DEF Inv, TypeOK, Line
<1> QED
  BY <1>1, <1>7
     DEF Inv, Shape, WhenAsked, Quiet, ArgumentsAreForOneAnswer, RefusedForAReason

(* The answer is allowed the player who was asked, and taken or refused.   *)
LEMMA ReturnOutcome ==
  ASSUME Inv, Return
  PROVE  /\ cur \in Allows(board["p"])
         /\ reply' \in Replies
         /\ RefusedForAReason'
<1>1. phase = "asked" /\ Len(askers) = 1 /\ Can(cur)
  BY DEF Return, Allowed
<1>2. Asker = "p" /\ board \in [{"p", "e"} -> Boards]
  BY <1>1, Eyes DEF Inv, WhenAsked
<1>3. cur \in Allows(board["p"])
  BY <1>1, <1>2 DEF Can
<1> DEFINE x == arg + 256 * arg1
           held == ~Alive(board["p"]) /\ board["p"].roars
<1>4. arg \in 0 .. ArgZ + 1 /\ arg1 \in 0 .. ArgZ + 1 /\ cur \in Act
  BY DEF Inv, TypeOK
<1>5. x \in Nat /\ held \in BOOLEAN
  <2>1. x \in Nat
    BY <1>4, TerminalAssumption
  <2>2. board["p"].roars \in BOOLEAN
    BY <1>2, TerminalAssumption
  <2> QED
    BY <2>1, <2>2
<1> HIDE DEF x, held
<1>6. reply.for = (IF Alive(board["p"]) THEN "action" ELSE "unit") /\ reply \in Replies
  BY <1>1 DEF Inv, WhenAsked, Shape
<1>7. reply' = [reply EXCEPT !.act = cur, !.arg = x, !.held = held,
                              !.done = Done(reply.for, cur, x, held)]
  BY DEF Return, x, held
<1>8. Done(reply.for, cur, x, held) \in BOOLEAN
  BY DEF Done
<1>9. reply' \in Replies
  BY <1>4, <1>5, <1>6, <1>7, <1>8 DEF Replies
<1>10. /\ reply'.for = reply.for /\ reply'.act = cur /\ reply'.arg = x /\ reply'.held = held
       /\ reply'.done = Done(reply.for, cur, x, held)
  BY <1>6, <1>7 DEF Replies
<1>11. RefusedForAReason'
  <2>1. CASE Alive(board["p"])
    BY <1>6, <1>10, <2>1 DEF Done, RefusedForAReason
  <2>2. CASE ~Alive(board["p"])
    <3>1. cur \in Units \cup {Abort, GiveUp}
      BY <1>2, <1>3, <2>2, UnitIsAsked
    <3>2. CASE cur = Abort \/ cur = GiveUp \/ x > 0 \/ held
      BY <1>6, <1>10, <2>2, <3>2 DEF RefusedForAReason
    <3>3. CASE cur \in Units /\ x = 0 /\ ~held
      BY <1>6, <1>10, <2>2, <3>3 DEF Done, RefusedForAReason
    <3> QED
      BY <1>5, <3>1, <3>2, <3>3
  <2> QED
    BY <2>1, <2>2
<1> QED
  BY <1>3, <1>9, <1>11

LEMMA ReturnInv ==
  ASSUME Inv, Return
  PROVE  Inv'
<1>1. /\ phase = "asked" /\ phase' = "told" /\ rec' = << >> /\ arg' = 0 /\ arg1' = 0
      /\ askers' = << >> /\ board' = Nobody /\ UNCHANGED <<tmSet, spilled, fred, snap, cur>>
  BY DEF Return, Forget
<1>2. reply' \in Replies /\ RefusedForAReason'
  BY ReturnOutcome
<1>3. TypeOK'
  BY <1>1, TerminalAssumption DEF Inv, TypeOK
<1> QED
  BY <1>1, <1>2, <1>3 DEF Inv, Shape, WhenAsked, Quiet, ArgumentsAreForOneAnswer

LEMMA BattleInv ==
  ASSUME Inv, TmInit \/ BattleEnd \/ TmEnd
  PROVE  Inv'
<1>1. CASE TmInit
  <2>1. TypeOK'
    BY <1>1 DEF Inv, TypeOK, TmInit, log, keys
  <2> QED
    BY <1>1, <2>1 DEF Inv, Shape, WhenAsked, Quiet, ArgumentsAreForOneAnswer,
                      RefusedForAReason, TmInit, log, keys
<1>2. CASE BattleEnd
  <2>1. TypeOK'
    <3>1. rec' \in Seq({"line", "progress"}) /\ Len(rec') <= RecSize
      BY <1>2, TerminalAssumption DEF BattleEnd
    <3>2. {spilled', fred'} \subseteq BOOLEAN
      BY <1>2 DEF Inv, TypeOK, BattleEnd
    <3>3. phase' = "over" /\ phase = "told" /\ UNCHANGED <<tmSet, snap, cur, arg, arg1, askers, board>>
      BY <1>2 DEF BattleEnd, Telling, keys
    <3> QED
      BY <3>1, <3>2, <3>3 DEF Inv, TypeOK
  <2> QED
    BY <1>2, <2>1 DEF Inv, Shape, WhenAsked, Quiet, ArgumentsAreForOneAnswer,
                      RefusedForAReason, BattleEnd, Telling, keys
<1>3. CASE TmEnd
  <2>1. TypeOK'
    BY <1>3 DEF Inv, TypeOK, TmEnd, log, keys
  <2>2. reply' \in Replies /\ reply'.done
    BY <1>3 DEF TmEnd, NoReply, Replies, Act, Abort
  <2> QED
    BY <1>3, <2>1, <2>2 DEF Inv, Shape, WhenAsked, Quiet, ArgumentsAreForOneAnswer,
                            RefusedForAReason, TmEnd, log, keys
<1> QED
  BY <1>1, <1>2, <1>3

LEMMA StepInv == Inv /\ [Next]_vars => Inv'
<1> SUFFICES ASSUME Inv, [Next]_vars
             PROVE  Inv'
  OBVIOUS
<1>1. CASE UNCHANGED vars
  <2>1. UNCHANGED <<phase, tmSet, rec, spilled, fred, snap, cur, arg, arg1, askers, board, reply>>
    BY <1>1 DEF vars, log, keys
  <2>2. TypeOK' /\ Shape'
    BY <2>1 DEF Inv, TypeOK, Shape
  <2> QED
    BY <2>1, <2>2 DEF Inv, WhenAsked, Quiet, ArgumentsAreForOneAnswer, RefusedForAReason
<1> QED
  BY <1>1, TellingInv, AskInv, KeyInv, ReturnInv, BattleInv DEF Next

THEOREM Invariance == Spec => []Inv
BY InitInv, StepInv, PTL DEF Spec

-----------------------------------------------------------------------------
(* The theorems.                                                           *)

(* reporter_term() and term_selector(): no argument, line, mode of the     *)
(* terminal or count of snapshots is left from one answer or one battle to *)
(* the next, however long the record is and whatever the players can do.   *)
THEOREM NothingCarriesOverEver == Spec => []NothingCarriesOver
<1>1. Inv => NothingCarriesOver
  BY DEF Inv, Quiet, NothingCarriesOver, NothingIsLeft, TypeOK
<1> QED
  BY <1>1, Invariance, PTL

(* term_selector() and player_select(), player_selectunit(): an answer is  *)
(* allowed the player who was asked, the cursor begins where something is  *)
(* allowed, and battle() refuses an answer only for the reasons it has.    *)
THEOREM AnswersAlwaysCount == Spec => AnswersCount
<1>1. Inv /\ [Next]_vars =>
        [phase = "asked" /\ phase' = "told" => reply'.act \in Allows(board["p"])]_vars
  <2> SUFFICES ASSUME Inv, Next, phase = "asked", phase' = "told"
               PROVE  reply'.act \in Allows(board["p"])
    OBVIOUS
  <2>1. Return
    BY DEF Next, TmInit, Told, Roaring, Progress, Telling, Ask, Arrow, Letter, Argument,
           ThroughEnemysEyes, Unavailable, ReturnFromEnemy, Key, BattleEnd, TmEnd
  <2>2. reply'.act = cur
    BY <2>1 DEF Return, Inv, Shape, Replies
  <2> QED
    BY <2>1, <2>2, ReturnOutcome
<1>2. Inv /\ [Next]_vars =>
        [phase = "told" /\ phase' = "asked" =>
           LET b == board'["p"]
           IN  /\ cur' \in Allows(b)
               /\ cur' = Abort => cur = Abort \/ (Alive(b) /\ Allows(b) \cap Attacks = {})]_vars
  <2> SUFFICES ASSUME Inv, Next, phase = "told", phase' = "asked"
               PROVE  LET b == board'["p"]
                      IN  /\ cur' \in Allows(b)
                          /\ cur' = Abort =>
                               cur = Abort \/ (Alive(b) /\ Allows(b) \cap Attacks = {})
    OBVIOUS
  <2>1. PICK what \in {"action", "unit"} : Ask(what)
    BY DEF Next, TmInit, Told, Roaring, Progress, Telling, Arrow, Letter, Argument,
           ThroughEnemysEyes, Unavailable, ReturnFromEnemy, Key, Return, BattleEnd, TmEnd
  <2>2. /\ board'["p"] \in Boards /\ cur' = Start(board'["p"], cur)
        /\ Alive(board'["p"]) \/ Spare(board'["p"]) # {}
    BY <2>1 DEF Ask
  <2> QED
    BY <2>2, StartAllowed
<1>3. Inv => RefusedForAReason
  BY DEF Inv
<1> QED
  BY <1>1, <1>2, <1>3, Invariance, PTL DEF Spec, AnswersCount, AnswerIsAllowed, EnterDoesNotSkip

(* The arrows, wherever the cursor is.                                     *)
THEOREM ArrowsAlwaysUndo == Spec => []ArrowsUndo
<1>1. ASSUME NEW c \in Act
      PROVE  Under(Above(c)) = c /\ Above(Under(c)) = c
  <2>1. CASE c \in 1 .. 6 \/ c \in 11 .. 14
    BY <2>1 DEF Above, Under, NormalAttack, Unit, Abort, GiveUp
  <2>2. CASE c \in {0, 7, 8, 9}
    BY <2>2 DEF Above, Under, NormalAttack, Unit, Abort, GiveUp
  <2>3. CASE c \in {10, 15, 16}
    BY <2>3 DEF Above, Under, NormalAttack, Unit, Abort, GiveUp
  <2> QED
    BY <2>1, <2>2, <2>3 DEF Act
<1>2. Inv => ArrowsUndo
  BY <1>1 DEF Inv, TypeOK, ArrowsUndo
<1> QED
  BY <1>2, Invariance, PTL

-----------------------------------------------------------------------------
(* The lines of the record.                                                *)

(* The last message was about progress only while snapshots are gone       *)
(* through, and its line is then the last of the record.                   *)
ProgressIsLast ==
  /\ snap = Idle => ~fred
  /\ fred => rec # << >> /\ Last(rec) = "progress"

LEMMA PrefixOfItself ==
  ASSUME NEW r \in Seq(Line)
  PROVE  IsPrefix(r, r)
BY DEF IsPrefix

LEMMA PrefixOfAppended ==
  ASSUME NEW r \in Seq(Line), NEW line \in Line
  PROVE  IsPrefix(r, Append(r, line)) /\ Last(Append(r, line)) = line
<1> DEFINE t == Append(r, line)
<1>1. /\ t \in Seq(Line) /\ Len(t) = Len(r) + 1 /\ t[Len(r) + 1] = line
      /\ \A i \in 1 .. Len(r) : t[i] = r[i]
  BY AppendProperties
<1>2. Len(r) \in Nat
  OBVIOUS
<1> HIDE DEF t
<1>3. SubSeq(r, 1, Len(r)) = r
  BY SubSeqFull
<1>4. SubSeq(t, 1, Len(r)) = r
  <2>1. \A i \in 1 .. Len(r) : t[i] \in Line
    BY <1>1, <1>2
  <2>2. /\ SubSeq(t, 1, Len(r)) \in Seq(Line)
        /\ Len(SubSeq(t, 1, Len(r))) = IF 1 <= Len(r) THEN Len(r) - 1 + 1 ELSE 0
        /\ \A i \in 1 .. Len(r) - 1 + 1 : SubSeq(t, 1, Len(r))[i] = t[1 + i - 1]
    BY <1>2, <2>1, SubSeqProperties
  <2>3. Len(SubSeq(t, 1, Len(r))) = Len(r)
    <3>1. CASE Len(r) = 0
      BY <2>2, <3>1
    <3>2. CASE Len(r) # 0
      BY <1>2, <2>2, <3>2
    <3> QED
      BY <3>1, <3>2
  <2>4. \A i \in 1 .. Len(r) : SubSeq(t, 1, Len(r))[i] = r[i]
    BY <1>1, <1>2, <2>2
  <2> QED
    BY <2>2, <2>3, <2>4, SeqEqual
<1> QED
  BY <1>1, <1>2, <1>3, <1>4 DEF IsPrefix, Last, t

(* The record is added to, or begun anew.                                  *)
LEMMA AddedLine ==
  ASSUME NEW r \in Seq(Line), NEW line \in Line
  PROVE  /\ IsPrefix(r, Added(r, line)) \/ (Len(r) = RecSize /\ Len(Added(r, line)) = 1)
         /\ Added(r, line) # << >> /\ Last(Added(r, line)) = line
<1>1. CASE Len(r) = RecSize
  BY <1>1 DEF Added, Last
<1>2. CASE Len(r) # RecSize
  BY <1>2, PrefixOfAppended, AppendProperties DEF Added
<1> QED
  BY <1>1, <1>2

(* A line of progress takes the place of the one before.                   *)
LEMMA ReplacedLine ==
  ASSUME NEW r \in Seq(Line), r # << >>, Last(r) = "progress"
  PROVE  LET t == Replaced(r, "progress")
         IN  /\ t # << >> /\ Last(t) = "progress"
             /\ Len(t) = Len(r) /\ Front(t) = Front(r)
<1>1. CASE Len(r) = RecSize
  BY <1>1 DEF Replaced
<1>2. CASE Len(r) # RecSize
  <2> DEFINE f == Front(r)
             t == f \o <<"progress">>
  <2>1. /\ f \in Seq(Line) /\ Len(f) = Len(r) - 1 /\ Len(r) \in Nat \ {0}
        /\ <<"progress">> \in Seq(Line) /\ Len(<<"progress">>) = 1
    BY FrontType DEF Line
  <2> HIDE DEF f
  <2>2. /\ t \in Seq(Line) /\ Len(t) = Len(r) /\ t[Len(t)] = "progress"
        /\ \A i \in 1 .. Len(f) : t[i] = f[i]
    BY <2>1, ConcatProperties
  <2> HIDE DEF t
  <2>3. t # << >>
    BY <2>1, <2>2
  <2>4. /\ Front(t) \in Seq(Line) /\ Len(Front(t)) = Len(t) - 1
        /\ \A i \in 1 .. Len(t) - 1 : Front(t)[i] = t[i]
    BY <2>2, <2>3, FrontType
  <2>5. Len(Front(t)) = Len(f) /\ \A i \in 1 .. Len(Front(t)) : Front(t)[i] = f[i]
    BY <2>1, <2>2, <2>4
  <2>6. Front(t) = f
    BY <2>1, <2>4, <2>5, SeqEqual
  <2>7. Replaced(r, "progress") = t
    BY <1>2 DEF Replaced, t, f
  <2> QED
    BY <2>2, <2>3, <2>6, <2>7 DEF Last, f
<1> QED
  BY <1>1, <1>2

LEMMA ProgressStep == Inv /\ ProgressIsLast /\ [Next]_vars => ProgressIsLast'
<1> SUFFICES ASSUME Inv, ProgressIsLast, [Next]_vars
             PROVE  ProgressIsLast'
  OBVIOUS
<1>0. rec \in Seq(Line)
  BY DEF Inv, TypeOK, Line
<1>1. CASE Progress
  <2>1. CASE Goes(snap)
    <3>1. snap.p < snap.of
      BY <2>1 DEF Goes
    <3>2. snap' # Idle
      <4>1. snap' = [snap EXCEPT !.p = snap.p + 1] /\ snap.p \in Nat
        BY <1>1, <3>1 DEF Progress, Inv, Shape
      <4>2. snap'.p = snap.p + 1
        BY <4>1 DEF Inv, Shape
      <4> QED
        BY <4>1, <4>2 DEF Idle
    <3>3. rec' # << >> /\ Last(rec') = "progress"
      <4>1. CASE fred
        BY <1>0, <1>1, <4>1, ReplacedLine DEF Progress, ProgressIsLast
      <4>2. CASE ~fred
        BY <1>0, <1>1, <4>2, AddedLine DEF Progress, Line
      <4> QED
        BY <4>1, <4>2
    <3> QED
      BY <3>2, <3>3 DEF ProgressIsLast
  <2>2. CASE ~Goes(snap)
    BY <1>1, <2>2 DEF Progress, ProgressIsLast
  <2> QED
    BY <2>1, <2>2
<1>2. CASE Told \/ BattleEnd
  BY <1>2 DEF Told, BattleEnd, ProgressIsLast
<1>3. CASE Roaring
  BY <1>3 DEF Roaring, Telling, ProgressIsLast
<1>4. CASE TmInit \/ TmEnd \/ UNCHANGED vars
  BY <1>4 DEF TmInit, TmEnd, vars, log, ProgressIsLast
<1>5. ASSUME NEW what, Ask(what)
      PROVE  ProgressIsLast'
  BY <1>5 DEF Ask, log, ProgressIsLast
<1>6. CASE \/ Arrow \/ Letter \/ Argument \/ ThroughEnemysEyes \/ Unavailable
           \/ ReturnFromEnemy \/ Return
  <2>1. phase = "asked" /\ UNCHANGED <<snap, fred>>
    BY <1>6 DEF Arrow, Letter, Argument, ThroughEnemysEyes, Unavailable, ReturnFromEnemy, Key,
                Return
  <2> QED
    BY <2>1 DEF Inv, Quiet, ProgressIsLast
<1> QED
  BY <1>1, <1>2, <1>3, <1>4, <1>5, <1>6 DEF Next

(* wm_o(): whatever the length of the record, what a line of progress takes*)
(* the place of is another, and no other line is ever overwritten.         *)
THEOREM OnlyProgressIsEverReplaced == Spec => OnlyProgressIsReplaced
<1>1. Init => ProgressIsLast
  BY DEF Init, ProgressIsLast
<1>2. Inv /\ ProgressIsLast /\ [Next]_vars =>
        [\/ IsPrefix(rec, rec') \/ rec' = << >>
         \/ Len(rec) = RecSize /\ Len(rec') = 1
         \/ /\ Len(rec') = Len(rec) /\ Front(rec') = Front(rec)
            /\ Last(rec') = "progress" /\ Last(rec) = "progress"]_log
  <2> SUFFICES ASSUME Inv, ProgressIsLast, [Next]_vars, rec' # rec, rec' # << >>
               PROVE  \/ IsPrefix(rec, rec')
                      \/ Len(rec) = RecSize /\ Len(rec') = 1
                      \/ /\ Len(rec') = Len(rec) /\ Front(rec') = Front(rec)
                         /\ Last(rec') = "progress" /\ Last(rec) = "progress"
    BY PrefixOfItself DEF Inv, TypeOK, Line
  <2>1. rec \in Seq(Line)
    BY DEF Inv, TypeOK, Line
  <2>2. CASE Progress /\ fred
    BY <2>1, <2>2, ReplacedLine DEF Progress, ProgressIsLast
  <2>3. CASE Told \/ (Progress /\ ~fred) \/ Unavailable
    BY <2>1, <2>3, AddedLine DEF Told, Progress, Unavailable, Line
  <2>4. Told \/ Progress \/ Unavailable
    BY DEF Next, vars, log, TmInit, Roaring, Ask, Arrow, Letter, Go, Argument,
           ThroughEnemysEyes, ReturnFromEnemy, Return, BattleEnd, TmEnd
  <2> QED
    BY <2>2, <2>3, <2>4
<1> QED
  BY <1>1, <1>2, Invariance, ProgressStep, PTL DEF Spec, OnlyProgressIsReplaced
=============================================================================
