---------------------------- MODULE Battle_proofs ----------------------------
(***************************************************************************)
(* The battle keeps its types, lives the life that Lifecycle describes,    *)
(* and so never lets a unit that was roared down come back: for any units, *)
(* kits, durations and number of rounds.                                   *)
(***************************************************************************)
EXTENDS Battle, BattleField_proofs

(* Everything but the field.                                               *)
ControlOK ==
  /\ pc \in Place
  /\ after \in Place
  /\ ns \in BOOLEAN
  /\ prior \in Player
  /\ result \in Player \cup {None}
  /\ chooser \in [Player -> Unit \cup {NoUnit}]

(* RoundStart takes a snapshot of the field it leaves.                     *)
Recorded(c, d) ==
  /\ d \in Field
  /\ d.st = c.st
  /\ \E h \in Snapshot : h.st = c.st /\ d.hist = Append(c.hist, h)

LEMMA NewFieldType == NewField \in Field /\ NewField.hist = << >>
<1> DEFINE cool == [u \in Unit |-> [i \in MoveIndex |-> StartCooldown[Kit[u][i]]]]
           st == [u \in Unit |-> "NORMAL"]
           hp == [u \in Unit |-> MaxHp]
           eff == [u \in Unit |-> [k \in Effect |-> 0]]
           front == [pl \in Player |-> <<pl, 0>>]
           act == [pl \in Player |-> Abort]
           acted == [pl \in Player |-> FALSE]
           hist == << >>
<1>1. cool \in [Unit -> [MoveIndex -> Nat]] BY KitAssumption, NumberAssumption
<1>2. st \in [Unit -> State] BY DEF State
<1>3. hp \in [Unit -> 0 .. MaxHp] BY NumberAssumption
<1>4. eff \in [Unit -> [Effect -> Int]] OBVIOUS
<1>5. front \in [Player -> Unit] BY UnitAssumption
<1>6. act \in [Player -> Action] BY AbortAction
<1>7. acted \in [Player -> BOOLEAN] OBVIOUS
<1>8. hist \in Seq(Snapshot) OBVIOUS
<1>9. "INIT" \in Stage /\ 0 \in Nat BY DEF Stage
<1>10. NewField = [st |-> st, hp |-> hp, eff |-> eff, cool |-> cool, front |-> front,
                   action |-> act, acted |-> acted, stage |-> "INIT", round |-> 0,
                   winner |-> None, hist |-> hist]
  BY DEF NewField
<1> HIDE DEF cool, st, hp, eff, front, act, acted
<1> QED
  BY <1>1, <1>2, <1>3, <1>4, <1>5, <1>6, <1>7, <1>8, <1>9, <1>10 DEF Field

LEMMA RepliesType ==
  ASSUME NEW pl PROVE Replies(pl) \subseteq Action
<1>1. ASSUME NEW u \in Unit PROVE Index(u) \in 0 .. 7
  <2>1. u \in Player \X (0 .. 5) BY UnitAssumption
  <2>2. u[2] \in 0 .. 5 BY <2>1
  <2> QED BY <2>2 DEF Index
<1>2. MoveIndex \subseteq 0 .. 7 BY KitAssumption
<1> QED BY <1>1, <1>2, AbortAction DEF Replies, Switches, UnitsOf, Action, GiveUp

LEMMA SetStageSame ==
  ASSUME NEW c \in Field, NEW x \in Stage PROVE Same(c, [c EXCEPT !.stage = x])
BY DEF Same, Field

LEMMA SetActionSame ==
  ASSUME NEW c \in Field, NEW pl \in Player, NEW x \in Action
  PROVE  Same(c, [c EXCEPT !.action[pl] = x])
BY DEF Same, Field

LEMMA StageNames ==
  \A x \in {"ROUNDSTART", "SELECT", "PRIOR", "LATTER", "ROUNDEND", "BATTLE_END"} : x \in Stage
BY DEF Stage

(* UpdateState for both players, and the stage that begins.                *)
LEMMA UpdateBothOk ==
  ASSUME NEW c \in Field, NEW pl, NEW q, NEW x \in Stage
  PROVE  Ok(c, [UpdateState(UpdateState(c, pl), q) EXCEPT !.stage = x])
<1> DEFINE d == UpdateState(c, pl)
           e == UpdateState(d, q)
<1>1. Ok(c, d) /\ d \in Field BY UpdateStateOk DEF Ok
<1>2. Ok(d, e) /\ e \in Field BY <1>1, UpdateStateOk DEF Ok
<1>3. Ok(c, e) BY <1>1, <1>2, OkTransitive
<1> HIDE DEF d, e
<1>4. Same(e, [e EXCEPT !.stage = x]) BY <1>2, SetStageSame
<1>5. Ok(c, [e EXCEPT !.stage = x]) BY <1>3, <1>4, OkThenSame
<1> QED BY <1>5 DEF d, e

LEMMA ReplaceSame ==
  ASSUME NEW c \in Field, NEW pl \in Player, NEW r PROVE Same(c, Replace(c, pl, r))
<1>1. Same(c, c) BY DEF Same
<1>2. ASSUME CanReplace(c, pl, r) PROVE Same(c, SwitchUnit(c, <<pl, r.n>>))
  <2>1. r.kind = "unit" /\ CanAction2(c, pl, r) BY <1>2 DEF CanReplace
  <2>2. <<pl, r.n>> \in Unit BY <2>1 DEF CanAction2
  <2> QED BY <2>2, SwitchUnitSame
<1> QED BY <1>1, <1>2 DEF Replace

-----------------------------------------------------------------------------
(* One lemma for each action whose effect on the field takes an argument.  *)

LEMMA RoundStartRecorded == TypeOK /\ RoundStart => Recorded(b, b')
<1> SUFFICES ASSUME TypeOK, RoundStart PROVE Recorded(b, b')
  OBVIOUS
<1> DEFINE act == [pl \in Player |-> Abort]
           acted == [pl \in Player |-> FALSE]
           c == [b EXCEPT !.stage = "ROUNDSTART", !.action = act, !.acted = acted]
<1>1. b \in Field BY DEF TypeOK
<1>2. act \in [Player -> Action] /\ acted \in [Player -> BOOLEAN] BY AbortAction
<1>3. b' = HistoryAdd(c) BY DEF RoundStart
<1> HIDE DEF act, acted
<1>4. Same(b, c) BY <1>1, <1>2, StageNames DEF Same, Field
<1> HIDE DEF c
<1> QED BY <1>3, <1>4, HistoryAddType DEF Same, Recorded

LEMMA OrderOk == TypeOK /\ Order => Ok(b, b')
BY UpdateBothOk, StageNames DEF TypeOK, Order

LEMMA SelectPriorOk == TypeOK /\ SelectPrior => Ok(b, b')
BY RepliesType, SetActionSame, SameOk DEF TypeOK, SelectPrior

LEMMA SelectLatterOk == TypeOK /\ SelectLatter => Ok(b, b')
<1> SUFFICES ASSUME TypeOK, SelectLatter PROVE Ok(b, b')
  OBVIOUS
<1>1. PICK r \in Replies(latter) : b' = ReapFading([b EXCEPT !.action[latter] = r])
  BY DEF SelectLatter
<1> DEFINE c == [b EXCEPT !.action[latter] = r]
<1>2. b \in Field /\ latter \in Player BY Owners DEF TypeOK, latter
<1>3. Same(b, c) BY <1>2, RepliesType, SetActionSame
<1>4. Ok(c, b') BY <1>1, <1>3, ReapFadingOk DEF Same
<1> QED BY <1>2, <1>3, <1>4, SameOk, OkTransitive

LEMMA ActsOutcome ==
  ASSUME TypeOK, NEW c, Same(b, c), NEW pl \in Player, NEW place, Acts(c, pl, place)
  PROVE  Outcome(b, b')
<1>1. c \in Field BY DEF Same
<1>2. Outcome(c, b') BY <1>1, PlayerActionOutcome DEF Acts
<1> QED BY <1>2, SameOutcome

LEMMA PriorActsOutcome == TypeOK /\ PriorActs => Outcome(b, b')
<1> SUFFICES ASSUME TypeOK, PriorActs PROVE Outcome(b, b')
  OBVIOUS
<1>1. Same(b, [b EXCEPT !.stage = "PRIOR"]) BY SetStageSame, StageNames DEF TypeOK
<1> QED BY <1>1, ActsOutcome DEF PriorActs, TypeOK

LEMMA UpdateOk == TypeOK /\ Update => Ok(b, b')
<1> SUFFICES ASSUME TypeOK, Update PROVE Ok(b, b')
  OBVIOUS
<1> DEFINE c == [UpdateState(UpdateState(b, prior), latter) EXCEPT !.stage = "LATTER"]
           d == [c EXCEPT !.action[latter] = Abort]
<1>1. b \in Field /\ latter \in Player BY Owners DEF TypeOK, latter
<1>2. Ok(b, c) BY <1>1, UpdateBothOk, StageNames
<1>3. b' = c \/ b' = d BY DEF Update
<1> HIDE DEF c
<1>4. Same(c, d) BY <1>1, <1>2, SetActionSame, AbortAction DEF Ok
<1> QED BY <1>1, <1>2, <1>3, <1>4, OkThenSame

LEMMA LatterActsOutcome == TypeOK /\ LatterActs => Outcome(b, b')
<1> SUFFICES ASSUME TypeOK, LatterActs PROVE Outcome(b, b')
  OBVIOUS
<1>1. Same(b, b) /\ latter \in Player BY Owners DEF TypeOK, Same, latter
<1> QED BY <1>1, ActsOutcome DEF LatterActs

LEMMA RoundEndOk == TypeOK /\ RoundEnd => Ok(b, b')
<1> SUFFICES ASSUME TypeOK, RoundEnd PROVE Ok(b, b')
  OBVIOUS
<1> DEFINE c == [b EXCEPT !.stage = "ROUNDEND"]
<1>1. Same(b, c) BY SetStageSame, StageNames DEF TypeOK
<1>2. b' = ReapFading(c) BY DEF RoundEnd
<1> HIDE DEF c
<1>3. Ok(c, b') BY <1>1, <1>2, ReapFadingOk DEF Same
<1> QED BY <1>1, <1>3, SameOk, OkTransitive DEF TypeOK

LEMMA EffectsOk == TypeOK /\ Effects => Ok(b, b')
<1> SUFFICES ASSUME TypeOK, Effects PROVE Ok(b, b')
  OBVIOUS
<1>1. PICK d \in 1 .. MaxHp : b' = RoundEndEffects(b, d) BY DEF Effects
<1>2. d \in Nat BY NumberAssumption
<1> QED BY <1>1, <1>2, RoundEndEffectsOk DEF TypeOK

LEMMA CoolDecreaseOk == TypeOK /\ (CoolPrior \/ CoolLatter \/ Decrease) => Ok(b, b')
BY CooldownDecreaseSame, EffectRoundDecreaseSame, SameOk
   DEF TypeOK, CoolPrior, CoolLatter, Decrease

LEMMA DeadReplaceOk == TypeOK /\ DeadReplace => Ok(b, b')
<1> SUFFICES ASSUME TypeOK, DeadReplace PROVE Ok(b, b')
  OBVIOUS
<1>1. PICK rp, re : b' = Replace(Replace(b, "p", rp), "e", re) BY DEF DeadReplace
<1>2. b \in Field /\ "p" \in Player /\ "e" \in Player BY DEF TypeOK, Player
<1>3. Same(b, Replace(b, "p", rp)) BY <1>2, ReplaceSame
<1>4. Same(Replace(b, "p", rp), b') BY <1>1, <1>2, <1>3, ReplaceSame DEF Same
<1> QED BY <1>2, <1>3, <1>4, SameTransitive, SameOk

LEMMA DeadDecideOk == TypeOK /\ DeadDecide => Ok(b, b')
<1> SUFFICES ASSUME TypeOK, DeadDecide PROVE Ok(b, b')
  OBVIOUS
<1>1. b \in Field BY DEF TypeOK
<1>2. b' = b \/ b' = [b EXCEPT !.round = @ + 1] BY DEF DeadDecide
<1>3. Same(b, b) BY <1>1 DEF Same
<1>4. Same(b, [b EXCEPT !.round = @ + 1])
  <2>1. b.round + 1 \in Nat BY <1>1 DEF Field
  <2> QED BY <1>1, <2>1 DEF Same, Field
<1> QED BY <1>1, <1>2, <1>3, <1>4, SameOk

LEMMA FinishOk == TypeOK /\ Finish => Ok(b, b')
<1> SUFFICES ASSUME TypeOK, Finish PROVE Ok(b, b')
  OBVIOUS
<1> DEFINE w == IF b.winner = None THEN result ELSE b.winner
<1>1. b \in Field /\ w \in Player \cup {None} BY DEF TypeOK, Field
<1>2. b' = [b EXCEPT !.stage = "BATTLE_END", !.winner = w] BY DEF Finish
<1> HIDE DEF w
<1>3. Same(b, b') BY <1>1, <1>2, StageNames DEF Same, Field
<1> QED BY <1>1, <1>3, SameOk

-----------------------------------------------------------------------------
(* Types.                                                                  *)

LEMMA StepOutcome == TypeOK /\ Step => Outcome(b, b') \/ Recorded(b, b')
<1> SUFFICES ASSUME TypeOK, Step PROVE Outcome(b, b') \/ Recorded(b, b')
  OBVIOUS
<1>1. ASSUME b' = b PROVE Outcome(b, b')
  BY <1>1, OkReflexive DEF TypeOK, Outcome
<1>2. CASE RoundLimit BY <1>1, <1>2 DEF RoundLimit
<1>3. CASE RoundStart BY <1>3, RoundStartRecorded
<1>4. CASE Order BY <1>4, OrderOk DEF Outcome
<1>5. CASE Resign(prior, "select_prior") \/ Resign(latter, "select_latter")
  BY <1>1, <1>5 DEF Resign
<1>6. CASE SelectPrior BY <1>6, SelectPriorOk DEF Outcome
<1>7. CASE SelectLatter BY <1>7, SelectLatterOk DEF Outcome
<1>8. CASE PriorActs BY <1>8, PriorActsOutcome
<1>9. CASE Update BY <1>9, UpdateOk DEF Outcome
<1>10. CASE LatterActs BY <1>10, LatterActsOutcome
<1>11. CASE RoundEnd BY <1>11, RoundEndOk DEF Outcome
<1>12. CASE Effects BY <1>12, EffectsOk DEF Outcome
<1>13. CASE CoolPrior \/ CoolLatter \/ Decrease BY <1>13, CoolDecreaseOk DEF Outcome
<1>14. CASE DeadReplace BY <1>14, DeadReplaceOk DEF Outcome
<1>15. CASE DeadDecide BY <1>15, DeadDecideOk DEF Outcome
<1>16. CASE Finish BY <1>16, FinishOk DEF Outcome
<1> QED
  BY <1>2, <1>3, <1>4, <1>5, <1>6, <1>7, <1>8, <1>9, <1>10, <1>11, <1>12, <1>13,
     <1>14, <1>15, <1>16
  DEF Step

LEMMA WinnersType ==
  ASSUME NEW c, NEW failed
  PROVE  /\ GetWinnerNonnull(c) \subseteq Player
         /\ c \in Field => GetWinner(c) \subseteq Player \cup {None}
         /\ c \in Field => Verdict(c, failed) \subseteq Player \cup {None}
<1>1. GetWinnerNonnull(c) \subseteq Player BY DEF GetWinnerNonnull
<1>2. c \in Field => GetWinner(c) \subseteq Player \cup {None}
  BY DEF GetWinner, Field
<1> QED BY <1>1, <1>2 DEF Verdict

LEMMA ControlStep == TypeOK /\ Step => ControlOK'
<1> SUFFICES ASSUME TypeOK, Step PROVE ControlOK'
  OBVIOUS
<1>1. ControlOK /\ b \in Field BY DEF TypeOK, ControlOK
<1>2. \A pl \in Player : b.front[pl] \in Unit /\ Enemy(pl) \in Player
  BY <1>1, Owners DEF Field
<1>3. prior \in Player /\ latter \in Player BY <1>1, <1>2 DEF ControlOK, latter
<1>4. CASE RoundLimit BY <1>1, <1>4, WinnersType DEF RoundLimit, ControlOK, Place
<1>5. CASE RoundStart BY <1>1, <1>5 DEF RoundStart, Deadcheck, ControlOK, Place
<1>6. CASE Order BY <1>1, <1>6 DEF Order, ControlOK, Place
<1>7. CASE Resign(prior, "select_prior") \/ Resign(latter, "select_latter")
  BY <1>1, <1>2, <1>3, <1>7 DEF Resign, ControlOK, Place
<1>8. CASE SelectPrior BY <1>1, <1>2, <1>3, <1>8 DEF SelectPrior, ControlOK, Place
<1>9. CASE SelectLatter
  <2>1. prior' \in Player BY <1>9 DEF SelectLatter, GetPrior
  <2>2. chooser' \in [Player -> Unit \cup {NoUnit}]
    BY <1>1, <1>2, <1>3, <1>9 DEF SelectLatter, ControlOK
  <2> QED BY <1>1, <1>9, <2>1, <2>2 DEF SelectLatter, Deadcheck, ControlOK, Place
<1>10. CASE PriorActs BY <1>1, <1>10 DEF PriorActs, Acts, Deadcheck, ControlOK, Place
<1>11. CASE Update BY <1>1, <1>11 DEF Update, ControlOK, Place
<1>12. CASE LatterActs BY <1>1, <1>12 DEF LatterActs, Acts, Deadcheck, ControlOK, Place
<1>13. CASE RoundEnd BY <1>1, <1>13 DEF RoundEnd, Deadcheck, ControlOK, Place
<1>14. CASE Effects BY <1>1, <1>14 DEF Effects, Deadcheck, ControlOK, Place
<1>15. CASE CoolPrior \/ CoolLatter \/ Decrease
  BY <1>1, <1>15 DEF CoolPrior, CoolLatter, Decrease, Deadcheck, ControlOK, Place
<1>16. CASE DeadReplace
  <2>1. ns' \in BOOLEAN BY <1>1, <1>16 DEF DeadReplace, ControlOK
  <2> QED BY <1>1, <1>16, <2>1 DEF DeadReplace, ControlOK
<1>17. CASE DeadDecide
  <2>1. ns' \in BOOLEAN BY <1>1, <1>17 DEF DeadDecide, ControlOK
  <2>2. pc' \in Place /\ result' \in Player \cup {None}
    <3>1. PICK w \in Verdict(b, ns') :
            \/ pc' = after /\ result' = result
            \/ pc' = "out" /\ result' = w
      BY <1>17 DEF DeadDecide
    <3> QED BY <1>1, <3>1, WinnersType DEF ControlOK, Place
  <2> QED BY <1>1, <1>17, <2>1, <2>2 DEF DeadDecide, ControlOK
<1>18. CASE Finish BY <1>1, <1>18 DEF Finish, ControlOK, Place
<1> QED
  BY <1>4, <1>5, <1>6, <1>7, <1>8, <1>9, <1>10, <1>11, <1>12, <1>13, <1>14, <1>15,
     <1>16, <1>17, <1>18
  DEF Step

LEMMA TypeStep == TypeOK /\ [Next]_vars => TypeOK'
<1> SUFFICES ASSUME TypeOK, [Next]_vars PROVE TypeOK'
  OBVIOUS
<1>1. CASE Step
  <2>1. b' \in Field BY <1>1, StepOutcome, OutcomeField DEF Recorded
  <2>2. ControlOK' BY <1>1, ControlStep
  <2> QED BY <2>1, <2>2 DEF TypeOK, ControlOK
<1>2. CASE UNCHANGED vars BY <1>2 DEF vars, TypeOK
<1> QED BY <1>1, <1>2 DEF Next, Over

LEMMA TypeInit == Init => TypeOK
BY NewFieldType DEF Init, TypeOK, Place

(* The field, and everything else, keeps its type: cooldowns never go      *)
(* negative, hit points stay within bounds, every snapshot is one.         *)
THEOREM TypeCorrect == Spec => []TypeOK
BY TypeInit, TypeStep, PTL DEF Spec

-----------------------------------------------------------------------------
(* The battle implements Lifecycle.                                        *)

LEMMA PastType ==
  TypeOK => /\ Past \in Seq([Unit -> State])
            /\ DOMAIN Past = DOMAIN b.hist
            /\ \A i \in DOMAIN b.hist : Past[i] = b.hist[i].st
<1> SUFFICES ASSUME TypeOK
             PROVE  /\ Past \in Seq([Unit -> State])
                    /\ DOMAIN Past = DOMAIN b.hist
                    /\ \A i \in DOMAIN b.hist : Past[i] = b.hist[i].st
  OBVIOUS
<1>1. b.hist \in Seq(Snapshot) BY DEF TypeOK, Field
<1>2. Len(b.hist) \in Nat /\ DOMAIN b.hist = 1 .. Len(b.hist) BY <1>1
<1>3. ASSUME NEW i \in DOMAIN b.hist PROVE b.hist[i].st \in [Unit -> State]
  <2>1. b.hist[i] \in Snapshot BY <1>1
  <2> QED BY <2>1 DEF Snapshot
<1>4. Past \in [1 .. Len(b.hist) -> [Unit -> State]] BY <1>2, <1>3 DEF Past
<1> QED BY <1>2, <1>4, SeqDef DEF Past

LEMMA SameStates == State = L!State
BY DEF State, L!State, L!Standing

LEMMA FallsImplemented ==
  ASSUME NEW s \in State, NEW t \in State, Falls(s, t) PROVE L!Falls(s, t)
BY SMT DEF State, Falls, Alive, L!Falls, L!Depth, L!State, L!Standing

LEMMA OkFalls == TypeOK /\ Ok(b, b') => L!Fall
<1> SUFFICES ASSUME TypeOK, Ok(b, b') PROVE L!Fall
  OBVIOUS
<1>1. b.st \in [Unit -> State] /\ b'.st \in [Unit -> State] BY DEF TypeOK, Ok, Field
<1>2. \A u \in Unit : L!Falls(b.st[u], b'.st[u]) BY <1>1, FallsImplemented DEF Ok
<1>3. Past' = Past BY DEF Ok, Past
<1> QED BY <1>1, <1>2, <1>3, SameStates DEF L!Fall

LEMMA RevivedRevives == TypeOK /\ Revived(b, b') => L!Revive
<1> SUFFICES ASSUME TypeOK, Revived(b, b') PROVE L!Revive
  OBVIOUS
<1>1. b'.st \in [Unit -> State] BY DEF Revived, Field
<1>2. Past' = Past BY DEF Revived, Past
<1> QED BY <1>1, <1>2, SameStates DEF Revived, Alive, L!Revive, L!Standing

LEMMA BackToRewinds == TypeOK /\ BackTo(b, b') => L!Rewind
<1> SUFFICES ASSUME TypeOK, BackTo(b, b') PROVE L!Rewind
  OBVIOUS
<1>1. PICK i \in DOMAIN b.hist : b'.st = b.hist[i].st BY DEF BackTo
<1>2. i \in DOMAIN Past /\ b'.st = Past[i] BY <1>1, PastType
<1>3. Past' = Past BY DEF BackTo, Past
<1> QED BY <1>2, <1>3 DEF L!Rewind

LEMMA RecordedRecords == TypeOK /\ Recorded(b, b') => L!Record
<1> SUFFICES ASSUME TypeOK, Recorded(b, b') PROVE L!Record
  OBVIOUS
<1>1. PICK h \in Snapshot : h.st = b.st /\ b'.hist = Append(b.hist, h) BY DEF Recorded
<1>2. b.hist \in Seq(Snapshot) BY DEF TypeOK, Field
<1>3. /\ DOMAIN b'.hist = 1 .. Len(b.hist) + 1
      /\ \A i \in 1 .. Len(b.hist) : b'.hist[i] = b.hist[i]
      /\ b'.hist[Len(b.hist) + 1] = h
      /\ Len(b.hist) \in Nat
      /\ DOMAIN b.hist = 1 .. Len(b.hist)
  BY <1>1, <1>2
<1>4. Past \in Seq([Unit -> State]) /\ Len(Past) = Len(b.hist) BY <1>3, PastType
<1>5. Past' = [i \in 1 .. Len(b.hist) + 1 |-> b'.hist[i].st] BY <1>3 DEF Past
<1>6. Past' = Append(Past, b.st)
  <2>1. Append(Past, b.st) = [i \in 1 .. Len(Past) + 1 |->
                                IF i = Len(Past) + 1 THEN b.st ELSE Past[i]]
    BY <1>4
  <2>2. ASSUME NEW i \in 1 .. Len(b.hist) + 1
        PROVE  b'.hist[i].st = IF i = Len(Past) + 1 THEN b.st ELSE Past[i]
    BY <1>1, <1>3, <1>4, PastType
  <2> QED BY <1>4, <1>5, <2>1, <2>2
<1> QED BY <1>6 DEF Recorded, L!Record

LEMMA RoaredRoars ==
  ASSUME TypeOK, NEW u \in Unit, Roared(b, b', u) PROVE L!Roar(u)
<1>1. b'.st = [b.st EXCEPT ![u] = "FREEZING_ROARINGED"] BY DEF Roared
<1>2. b'.hist = [i \in DOMAIN b.hist |-> RoarSnapshot(b.hist[i], u)]
  BY DEF Roared, RoarHistory
<1>3. \A i \in DOMAIN b.hist : b.hist[i] \in Snapshot
  BY DEF TypeOK, Field
<1>4. \A i \in DOMAIN b.hist :
        RoarSnapshot(b.hist[i], u).st = [b.hist[i].st EXCEPT ![u] = "FREEZING_ROARINGED"]
  BY <1>3 DEF RoarSnapshot, Snapshot
<1>5. Past' = [i \in DOMAIN b.hist |-> [b.hist[i].st EXCEPT ![u] = "FREEZING_ROARINGED"]]
  BY <1>2, <1>4 DEF Past
<1>6. Past' = [i \in DOMAIN Past |-> [Past[i] EXCEPT ![u] = "FREEZING_ROARINGED"]]
  BY <1>5, PastType
<1> QED BY <1>1, <1>6 DEF L!Roar

LEMMA LifecycleStep == TypeOK /\ [Next]_vars => [L!Next]_L!vars
<1> SUFFICES ASSUME TypeOK, [Next]_vars PROVE [L!Next]_L!vars
  OBVIOUS
<1>1. CASE Step
  <2>1. CASE Ok(b, b') BY <2>1, OkFalls DEF L!Next
  <2>2. CASE Revived(b, b') BY <2>2, RevivedRevives DEF L!Next
  <2>3. CASE BackTo(b, b') BY <2>3, BackToRewinds DEF L!Next
  <2>4. ASSUME NEW u \in Unit, Roared(b, b', u) PROVE L!Next
    BY <2>4, RoaredRoars DEF L!Next
  <2>5. CASE Recorded(b, b') BY <2>5, RecordedRecords DEF L!Next
  <2> QED BY <1>1, <2>1, <2>2, <2>3, <2>4, <2>5, StepOutcome DEF Outcome
<1>2. CASE UNCHANGED vars BY <1>2 DEF vars, L!vars, Past
<1> QED BY <1>1, <1>2 DEF Next, Over

LEMMA LifecycleInit == Init => L!Init
<1> SUFFICES ASSUME Init PROVE L!Init
  OBVIOUS
<1>1. b.hist = << >> BY NewFieldType DEF Init
<1>2. Past = << >> BY <1>1 DEF Past
<1> QED BY <1>2 DEF Init, NewField, L!Init

(* Every step of the battle is a step of the life cycle, or leaves the     *)
(* states and the records alone.                                           *)
THEOREM LifecycleImplemented == Spec => ImplementsLifecycle
<1>1. Init => L!Init BY LifecycleInit
<1>2. TypeOK /\ [Next]_vars => [L!Next]_L!vars BY LifecycleStep
<1> QED BY <1>1, <1>2, TypeCorrect, PTL DEF Spec, ImplementsLifecycle, L!Spec

-----------------------------------------------------------------------------
(* Roared down means roared down for good: so says the life that Lifecycle *)
(* describes, and the battle lives it.                                     *)

LifeTyped == b.st \in [Unit -> L!State] /\ Past \in Seq([Unit -> L!State])

(* The same units are roared down now and in every record: what makes the  *)
(* next theorems inductive, since Rewind takes the state from a record.    *)
RoaredInPast ==
  \A u \in Unit : \A i \in DOMAIN Past :
    Past[i][u] = "FREEZING_ROARINGED" <=> b.st[u] = "FREEZING_ROARINGED"

LEMMA DepthOf ==
  /\ \A s \in L!State : L!Depth[s] \in 0 .. 4
  /\ \A s \in L!State : L!Depth[s] = 4 <=> s = "FREEZING_ROARINGED"
  /\ \A s \in L!State : L!Depth[s] = 0 <=> s \in L!Standing
BY SMT DEF L!Depth, L!State, L!Standing

(* Falls is a preorder on the states: steps that let a unit fall compose.  *)
LEMMA FallsReflexive == \A s \in L!State : L!Falls(s, s)
BY DEF L!Falls

LEMMA FallsTransitive ==
  ASSUME NEW r \in L!State, NEW s \in L!State, NEW t \in L!State,
         L!Falls(r, s), L!Falls(s, t)
  PROVE  L!Falls(r, t)
BY DepthOf DEF L!Falls

LEMMA LifeInit == L!Init => LifeTyped /\ RoaredInPast
BY DEF L!Init, LifeTyped, RoaredInPast, L!State, L!Standing

LEMMA LifeTypedStep == LifeTyped /\ [L!Next]_L!vars => LifeTyped'
<1> SUFFICES ASSUME LifeTyped, [L!Next]_L!vars PROVE LifeTyped'
  OBVIOUS
<1>1. CASE L!Fall   BY <1>1 DEF L!Fall, LifeTyped
<1>2. CASE L!Revive BY <1>2 DEF L!Revive, LifeTyped
<1>3. CASE L!Record BY <1>3 DEF L!Record, LifeTyped
<1>4. CASE L!Rewind BY <1>4 DEF L!Rewind, LifeTyped
<1>5. ASSUME NEW u \in Unit, L!Roar(u) PROVE LifeTyped'
  <2>1. b'.st \in [Unit -> L!State]
    BY <1>5 DEF L!Roar, LifeTyped, L!State
  <2>2. ASSUME NEW i \in 1 .. Len(Past)
        PROVE  [Past[i] EXCEPT ![u] = "FREEZING_ROARINGED"] \in [Unit -> L!State]
    BY DEF LifeTyped, L!State
  <2>3. Past' \in [1 .. Len(Past) -> [Unit -> L!State]]
    BY <1>5, <2>2 DEF L!Roar, LifeTyped
  <2>4. Past' \in Seq([Unit -> L!State])
    <3>1. Len(Past) \in Nat BY DEF LifeTyped
    <3> QED BY <2>3, <3>1, SeqDef
  <2> QED BY <2>1, <2>4 DEF LifeTyped
<1>6. CASE UNCHANGED L!vars BY <1>6 DEF L!vars, LifeTyped
<1> QED BY <1>1, <1>2, <1>3, <1>4, <1>5, <1>6 DEF L!Next

(* No step takes a unit out of FREEZING_ROARINGED, or out of the record.   *)
LEMMA LifeRoaredStep ==
  LifeTyped /\ RoaredInPast /\ [L!Next]_L!vars =>
    /\ RoaredInPast'
    /\ \A u \in Unit : b.st[u] = "FREEZING_ROARINGED" => b'.st[u] = "FREEZING_ROARINGED"
<1> SUFFICES ASSUME LifeTyped, RoaredInPast, [L!Next]_L!vars
             PROVE  /\ RoaredInPast'
                    /\ \A u \in Unit : b.st[u] = "FREEZING_ROARINGED"
                                         => b'.st[u] = "FREEZING_ROARINGED"
  OBVIOUS
<1>1. CASE L!Fall
  <2>1. \A u \in Unit : b.st[u] = "FREEZING_ROARINGED" <=> b'.st[u] = "FREEZING_ROARINGED"
    BY <1>1, DepthOf DEF L!Fall, L!Falls, LifeTyped
  <2> QED BY <1>1, <2>1 DEF L!Fall, RoaredInPast
<1>2. CASE L!Revive
  BY <1>2 DEF L!Revive, RoaredInPast, L!Standing
<1>3. CASE L!Record
  BY <1>3 DEF L!Record, RoaredInPast, LifeTyped
<1>4. CASE L!Rewind
  <2>1. PICK i \in DOMAIN Past : b'.st = Past[i]
    BY <1>4 DEF L!Rewind
  <2> QED BY <1>4, <2>1 DEF L!Rewind, RoaredInPast
<1>5. ASSUME NEW r \in Unit, L!Roar(r)
      PROVE  /\ RoaredInPast'
             /\ \A u \in Unit : b.st[u] = "FREEZING_ROARINGED"
                                  => b'.st[u] = "FREEZING_ROARINGED"
  BY <1>5 DEF L!Roar, RoaredInPast, LifeTyped
<1>6. CASE UNCHANGED L!vars
  BY <1>6 DEF L!vars, RoaredInPast
<1> QED BY <1>1, <1>2, <1>3, <1>4, <1>5, <1>6 DEF L!Next

(* The invariant of the life cycle.                                        *)
THEOREM LifecycleInvariant == L!Spec => [](LifeTyped /\ RoaredInPast)
<1>1. L!Init => LifeTyped /\ RoaredInPast BY LifeInit
<1>2. LifeTyped /\ RoaredInPast /\ [L!Next]_L!vars => (LifeTyped /\ RoaredInPast)'
  BY LifeTypedStep, LifeRoaredStep
<1> QED BY <1>1, <1>2, PTL DEF L!Spec

(* In the life cycle a unit that is roared down stays so.                  *)
THEOREM LifecycleRoaredForever ==
  L!Spec => [][\A u \in Unit : b.st[u] = "FREEZING_ROARINGED"
                                 => b'.st[u] = "FREEZING_ROARINGED"]_L!vars
<1>1. LifeTyped /\ RoaredInPast /\ [L!Next]_L!vars =>
        [\A u \in Unit : b.st[u] = "FREEZING_ROARINGED"
                           => b'.st[u] = "FREEZING_ROARINGED"]_L!vars
  BY LifeRoaredStep
<1> QED BY <1>1, LifecycleInvariant, PTL DEF L!Spec

(* A unit that is roared down is so in every snapshot time_back() and      *)
(* karma_reverse() can reach; the proof needs that no other unit is.       *)
THEOREM RoaredEverywhere == Spec => []RoaredInEverySnapshot
<1>1. TypeOK /\ RoaredInPast => RoaredInEverySnapshot
  BY PastType DEF RoaredInPast, RoaredInEverySnapshot
<1> QED
  BY <1>1, LifecycleImplemented, LifecycleInvariant, TypeCorrect, PTL DEF ImplementsLifecycle

(* No step of the battle takes a unit out of FREEZING_ROARINGED.           *)
THEOREM RoaredStaysRoared == Spec => RoaredForever
<1>1. [\A u \in Unit : b.st[u] = "FREEZING_ROARINGED"
                         => b'.st[u] = "FREEZING_ROARINGED"]_L!vars
      => [\A u \in Unit : b.st[u] = "FREEZING_ROARINGED"
                            => b'.st[u] = "FREEZING_ROARINGED"]_vars
  BY DEF L!vars
<1> QED
  BY <1>1, LifecycleImplemented, LifecycleRoaredForever, PTL
  DEF ImplementsLifecycle, RoaredForever

-----------------------------------------------------------------------------
(***************************************************************************)
(* The safety of the battle, for any units, kits, durations and number of  *)
(* rounds: what fell is stripped, rounds begin settled, nobody carries out *)
(* another's action, a denial lasts one round, an enhanced roar cannot be  *)
(* stopped, and the right player wins.                                     *)
(***************************************************************************)

(* The place in battle() that a deadcheck belongs to, or the place itself. *)
Here == IF pc = "deadcheck" THEN after ELSE pc

Ended == {"out", "done", "crashed"}

(* Which stage goes with which place.                                      *)
Staged ==
  /\ Here = "round" => b.stage \in {"INIT", "ROUNDEND"}
  /\ Here = "order" => b.stage = "ROUNDSTART"
  /\ Here \in {"select_prior", "select_latter", "prior"} => b.stage = "SELECT"
  /\ Here = "update" => b.stage = "PRIOR"
  /\ Here \in {"latter", "roundend"} => b.stage = "LATTER"
  /\ Here \in {"effects", "cool_prior", "cool_latter", "decrease"} => b.stage = "ROUNDEND"
  /\ pc \in {"order", "select_prior", "select_latter"} => after = "order"
  /\ pc = "deadcheck" =>
       after \in {"order", "prior", "update", "roundend", "effects", "cool_prior",
                  "cool_latter", "decrease", "round"}

(* The places between the fall of the fading and the first action.         *)
Settled ==
  Here \in {"effects", "cool_prior", "cool_latter", "decrease", "round", "order",
            "select_prior", "select_latter", "prior"} =>
    \A u \in Unit : b.st[u] # "FADING"

(* The deadcheck after the choice of actions finds nothing to replace.     *)
Fronted ==
  pc \notin Ended /\ (pc = "deadcheck" => after = "prior") =>
    \A pl \in Player : AliveS(b.st[b.front[pl]])

Denials ==
  /\ \A u \in Unit : b.eff[u]["operation_denied"] \in {0, 1}
  /\ Here \in {"round", "order", "select_prior", "select_latter", "prior"} =>
       \A u \in Unit : b.eff[u]["operation_denied"] = 0

ChoosersKnown ==
  /\ pc = "select_latter" => b.front[prior] = chooser[prior]
  /\ Here \in {"prior", "update", "latter"} =>
       \A pl \in Player : b.action[pl].kind \in {"move", "attack"} /\ ~b.acted[pl]
                            => b.front[pl] = chooser[pl]

(* An effect accounts for every state until the first action, and for the  *)
(* latter's front until the states are updated.                            *)
Accounted ==
  /\ Here \in {"select_prior", "select_latter", "prior"} => \A u \in Unit : Synced(b, u)
  /\ Here = "update" => b.action[latter] = Abort \/ Synced(b, b.front[latter])

(* What was legal when it was chosen still is when the prior player acts,  *)
(* so its move is carried out; and a roar, if there is one, comes first.   *)
Chosen(pl) == b.action[pl].kind = "move" => CanAction2(b, pl, b.action[pl])

PriorMoves ==
  /\ pc = "select_latter" => Chosen(prior)
  /\ Here = "prior" => /\ \A pl \in Player : Chosen(pl)
                       /\ Roars(b, latter) => Roars(b, prior)
  /\ Here \in {"update", "latter", "roundend"} =>
       b.acted[prior] \/ b.action[prior].kind # "move"

(* A winner named by the prior's move waits for the latter's roar; one     *)
(* named by the latter's move waits for nothing.                           *)
VictoryWaits ==
  b.winner # None /\ pc \notin Ended =>
    \/ pc = "deadcheck" /\ after = "update" /\ b.winner = prior
    \/ pc = "deadcheck" /\ after = "roundend" /\ b.winner = latter
    \/ /\ pc \in {"update", "latter"}
       /\ b.winner = prior
       /\ Roars(b, latter) /\ ~b.acted[latter]

Kept ==
  /\ Sound(b)
  /\ Staged
  /\ Settled
  /\ Fronted
  /\ Denials
  /\ ChoosersKnown
  /\ Accounted
  /\ PriorMoves
  /\ VictoryWaits
  /\ ResultIsSurvivor

IInv == TypeOK /\ Kept

LEMMA KeptInit == Init => Kept
<1> SUFFICES ASSUME Init PROVE Kept
  OBVIOUS
<1> DEFINE f == NewField
<1>1. /\ f.hist = << >> /\ f.stage = "INIT" /\ f.winner = None
      /\ \A u \in Unit : f.st[u] = "NORMAL"
      /\ \A u \in Unit : \A k \in Effect : f.eff[u][k] = 0
      /\ \A pl \in Player : f.front[pl] = <<pl, 0>>
  BY DEF NewField
<1>2. \A pl \in Player : <<pl, 0>> \in Unit BY UnitAssumption
<1> HIDE DEF f
<1>3. b = f /\ pc = "round" BY DEF Init, f
<1>4. Sound(f)
  <2>1. Led(f) BY <1>1 DEF Led, Owner
  <2>2. \A u \in Unit : SoundUnit(f, u) BY <1>1 DEF SoundUnit, Vanished
  <2> QED BY <1>1, <2>1, <2>2 DEF Sound
<1>5. Here = "round" BY <1>3 DEF Here
<1>6. \A u \in Unit : f.eff[u]["operation_denied"] = 0 BY <1>1, EffectNames
<1>7. \A pl \in Player : AliveS(f.st[f.front[pl]]) BY <1>1, <1>2 DEF AliveS, Alive
<1> QED
  BY <1>1, <1>3, <1>4, <1>5, <1>6, <1>7
  DEF Kept, Staged, Settled, Fronted, Denials, ChoosersKnown, Accounted, PriorMoves,
      VictoryWaits, ResultIsSurvivor, None, Player

-----------------------------------------------------------------------------
(* Steps that leave the rounds, and steps of the parts of a round in which *)
(* nobody is about to act.                                                 *)

LEMMA EndedKept ==
  /\ pc' \in Ended /\ Sound(b') /\ ResultIsSurvivor'
  /\ \A u \in Unit : b'.eff[u]["operation_denied"] \in {0, 1}
  => Kept'
BY DEF Kept, Staged, Settled, Fronted, Denials, ChoosersKnown, Accounted, PriorMoves,
       VictoryWaits, Here, Ended

LEMMA QuietKept ==
  /\ pc' = "deadcheck"
  /\ after' \in {"order", "effects", "cool_prior", "cool_latter", "decrease", "round"}
  /\ b'.stage = IF after' = "order" THEN "ROUNDSTART" ELSE "ROUNDEND"
  /\ Sound(b')
  /\ b'.winner = None
  /\ \A u \in Unit : b'.st[u] # "FADING"
  /\ \A u \in Unit : b'.eff[u]["operation_denied"]
                       \in IF after' \in {"order", "round"} THEN {0} ELSE {0, 1}
  => Kept'
BY DEF Kept, Staged, Settled, Fronted, Denials, ChoosersKnown, Accounted, PriorMoves,
       VictoryWaits, ResultIsSurvivor, Here, Ended

(* No winner has been named where no action has just been carried out.     *)
LEMMA NoWinnerYet ==
  VictoryWaits /\ pc \notin {"deadcheck", "update", "latter", "out", "done", "crashed"}
    => b.winner = None
BY DEF VictoryWaits, Ended

LEMMA RoundLimitKept == IInv /\ RoundLimit => Kept'
<1> SUFFICES ASSUME IInv, RoundLimit PROVE Kept'
  OBVIOUS
<1>1. b' = b /\ pc' = "out" /\ result' \in GetWinnerNonnull(b) BY DEF RoundLimit
<1>2. ResultIsSurvivor'
  BY <1>1, Owners DEF ResultIsSurvivor, GetWinnerNonnull, HasUnit, Player, Enemy
<1> QED BY <1>1, <1>2, EndedKept DEF IInv, Kept, Denials, Ended

LEMMA ResignKept ==
  IInv /\ (Resign(prior, "select_prior") \/ Resign(latter, "select_latter")) => Kept'
<1> SUFFICES ASSUME IInv, NEW place \in {"select_prior", "select_latter"}, NEW pl,
                    Resign(pl, place)
             PROVE  Kept'
  OBVIOUS
<1>1. b' = b /\ pc = place /\ pc' = "out" /\ after' = after BY DEF Resign
<1>2. Resigned' BY <1>1 DEF IInv, Kept, Staged, Here, Resigned
<1>3. ResultIsSurvivor' BY <1>2 DEF ResultIsSurvivor
<1> QED BY <1>1, <1>3, EndedKept DEF IInv, Kept, Denials, Ended

LEMMA FinishKept == IInv /\ Finish => Kept'
<1> SUFFICES ASSUME IInv, Finish PROVE Kept'
  OBVIOUS
<1> DEFINE w == IF b.winner = None THEN result ELSE b.winner
<1>1. b \in Field /\ pc' = "done" BY DEF IInv, TypeOK, Finish
<1>2. b' = [b EXCEPT !.stage = "BATTLE_END", !.winner = w] BY DEF Finish
<1> HIDE DEF w
<1>3. /\ b'.st = b.st /\ b'.hp = b.hp /\ b'.eff = b.eff /\ b'.front = b.front
      /\ b'.hist = b.hist
  BY <1>1, <1>2 DEF Field
<1>4. Sound(b') BY <1>3 DEF IInv, Kept, Sound, Led, SoundUnit
<1>5. ResultIsSurvivor' BY <1>1 DEF ResultIsSurvivor
<1> QED BY <1>1, <1>3, <1>4, <1>5, EndedKept DEF IInv, Kept, Denials, Ended

LEMMA RoundStartFields ==
  ASSUME IInv, RoundStart
  PROVE  /\ Sound(b') /\ b'.stage = "ROUNDSTART" /\ b'.winner = b.winner
         /\ b'.st = b.st /\ b'.eff = b.eff /\ b'.front = b.front
<1> DEFINE act == [pl \in Player |-> Abort]
           acted == [pl \in Player |-> FALSE]
           c == [b EXCEPT !.stage = "ROUNDSTART", !.action = act, !.acted = acted]
<1>1. b \in Field BY DEF IInv, TypeOK
<1>2. act \in [Player -> Action] /\ acted \in [Player -> BOOLEAN] BY AbortAction
<1>3. b' = HistoryAdd(c) BY DEF RoundStart
<1> HIDE DEF act, acted
<1>4. SameUnits(b, c) /\ c.stage = "ROUNDSTART" /\ c.winner = b.winner
  BY <1>1, <1>2, StageNames DEF SameUnits, Field
<1> HIDE DEF c
<1>5. pc = "round" BY DEF RoundStart
<1>6. \A u \in Unit : b.st[u] # "FADING" /\ b.eff[u]["operation_denied"] = 0
  BY <1>5 DEF IInv, Kept, Settled, Denials, Here
<1>7. Sound(c) BY <1>4, SameUnitsSound DEF IInv, Kept
<1>8. Sound(b') BY <1>3, <1>4, <1>6, <1>7, HistoryAddSound DEF SameUnits
<1>9. /\ b'.st = c.st /\ b'.eff = c.eff /\ b'.front = c.front /\ b'.stage = c.stage
      /\ b'.winner = c.winner
  BY <1>3, <1>4 DEF HistoryAdd, SameUnits, Field
<1> QED BY <1>4, <1>8, <1>9 DEF SameUnits

LEMMA RoundStartKept == IInv /\ RoundStart => Kept'
<1> SUFFICES ASSUME IInv, RoundStart PROVE Kept'
  OBVIOUS
<1>1. pc = "round" /\ pc' = "deadcheck" /\ after' = "order" BY DEF RoundStart, Deadcheck
<1>2. b.winner = None BY <1>1, NoWinnerYet DEF IInv, Kept
<1>3. \A u \in Unit : b.st[u] # "FADING" /\ b.eff[u]["operation_denied"] = 0
  BY <1>1 DEF IInv, Kept, Settled, Denials, Here
<1> QED BY <1>1, <1>2, <1>3, RoundStartFields, QuietKept

LEMMA RoundEndKept == IInv /\ RoundEnd => Kept'
<1> SUFFICES ASSUME IInv, RoundEnd PROVE Kept'
  OBVIOUS
<1> DEFINE c == [b EXCEPT !.stage = "ROUNDEND"]
<1>1. b \in Field /\ b.winner = None
  BY NoWinnerYet DEF IInv, Kept, TypeOK, RoundEnd
<1>2. SameUnits(b, c) /\ c.stage = "ROUNDEND" /\ c.winner = None
  BY <1>1, StageNames, SetStageFields
<1>3. b' = ReapFading(c) BY DEF RoundEnd
<1> HIDE DEF c
<1>4. Sound(c) BY <1>2, SameUnitsSound DEF IInv, Kept
<1>5. Course(c, b', {}, {}) BY <1>2, <1>3, ReapFadingCourse DEF SameUnits
<1>6. Sound(b') BY <1>4, <1>5, CourseSound
<1>7. \A u \in Unit : b'.st[u] # "FADING" BY <1>2, <1>3, ReapSettles DEF SameUnits
<1>8. \A u \in Unit : b'.eff[u]["operation_denied"] \in {0, 1}
  BY <1>2, <1>5 DEF Course, SameUnits, IInv, Kept, Denials
<1>9. b'.stage = "ROUNDEND" /\ b'.winner = None BY <1>2, <1>5 DEF Course
<1>10. pc' = "deadcheck" /\ after' = "effects" BY DEF RoundEnd, Deadcheck
<1> QED BY <1>6, <1>7, <1>8, <1>9, <1>10, QuietKept

LEMMA EffectsKept == IInv /\ Effects => Kept'
<1> SUFFICES ASSUME IInv, Effects PROVE Kept'
  OBVIOUS
<1>1. pc = "effects" /\ pc' = "deadcheck" /\ after' = "cool_prior"
  BY DEF Effects, Deadcheck
<1>2. PICK d \in 1 .. MaxHp : b' = RoundEndEffects(b, d) BY DEF Effects
<1>3. d \in Nat /\ b \in Field BY NumberAssumption DEF IInv, TypeOK
<1>4. b.winner = None BY <1>1, NoWinnerYet DEF IInv, Kept
<1>5. b.stage = "ROUNDEND" /\ \A u \in Unit : b.st[u] # "FADING"
  BY <1>1 DEF IInv, Kept, Staged, Settled, Here
<1>6. Course(b, b', {}, {}) BY <1>2, <1>3, RoundEndEffectsCourse
<1>7. Sound(b') BY <1>6, CourseSound DEF IInv, Kept
<1>8. \A u \in Unit : b'.st[u] # "FADING" BY <1>2, <1>3, <1>5, RoundEndEffectsSettle
<1>9. \A u \in Unit : b'.eff[u]["operation_denied"] \in {0, 1}
  BY <1>6 DEF Course, IInv, Kept, Denials
<1>10. b'.stage = "ROUNDEND" /\ b'.winner = None BY <1>4, <1>5, <1>6 DEF Course
<1> QED BY <1>1, <1>7, <1>8, <1>9, <1>10, QuietKept

LEMMA CoolKept == IInv /\ (CoolPrior \/ CoolLatter) => Kept'
<1> SUFFICES ASSUME IInv, CoolPrior \/ CoolLatter PROVE Kept'
  OBVIOUS
<1>1. /\ pc \in {"cool_prior", "cool_latter"} /\ pc' = "deadcheck"
      /\ after' \in {"cool_latter", "decrease"}
  BY DEF CoolPrior, CoolLatter, Deadcheck
<1>2. PICK pl : b' = CooldownDecrease(b, pl) BY DEF CoolPrior, CoolLatter
<1>3. Untouched(b, b') BY <1>2, CooldownDecreaseUntouched DEF IInv, TypeOK
<1>4. b.winner = None BY <1>1, NoWinnerYet DEF IInv, Kept
<1>5. b.stage = "ROUNDEND" /\ \A u \in Unit : b.st[u] # "FADING"
  BY <1>1 DEF IInv, Kept, Staged, Settled, Here
<1>6. Sound(b') BY <1>3 DEF Untouched, IInv, Kept, Sound, Led, SoundUnit
<1>7. \A u \in Unit : b.eff[u]["operation_denied"] \in {0, 1} BY DEF IInv, Kept, Denials
<1> QED BY <1>1, <1>3, <1>4, <1>5, <1>6, <1>7, QuietKept DEF Untouched

LEMMA DecreaseKept == IInv /\ Decrease => Kept'
<1> SUFFICES ASSUME IInv, Decrease PROVE Kept'
  OBVIOUS
<1>1. pc = "decrease" /\ pc' = "deadcheck" /\ after' = "round" BY DEF Decrease, Deadcheck
<1>2. b \in Field /\ b' = EffectRoundDecrease(b) BY DEF Decrease, IInv, TypeOK
<1>3. b.winner = None BY <1>1, NoWinnerYet DEF IInv, Kept
<1>4. b.stage = "ROUNDEND" /\ \A u \in Unit : b.st[u] # "FADING"
  BY <1>1 DEF IInv, Kept, Staged, Settled, Here
<1>5. Sound(b') BY <1>2, RoundDecreaseSound DEF IInv, Kept
<1>6. /\ b'.st = b.st /\ b'.stage = b.stage /\ b'.winner = b.winner
      /\ \A u \in Unit : \A k \in Effect :
           b'.eff[u][k] = IF b.eff[u][k] > 0 THEN b.eff[u][k] - 1 ELSE b.eff[u][k]
  BY <1>2, RoundDecreaseFields
<1>7. \A u \in Unit : b.eff[u]["operation_denied"] \in {0, 1} BY DEF IInv, Kept, Denials
<1>8. \A u \in Unit : b'.eff[u]["operation_denied"] = 0 BY <1>6, <1>7, EffectNames
<1> QED BY <1>1, <1>3, <1>4, <1>5, <1>6, <1>8, QuietKept

-----------------------------------------------------------------------------
(* The choice of actions.                                                  *)

LEMMA RoarsAlike ==
  ASSUME NEW c, NEW d, NEW pl,
         d.action[pl] = c.action[pl], d.front[pl] = c.front[pl],
         d.st[c.front[pl]] = c.st[c.front[pl]], d.eff[c.front[pl]] = c.eff[c.front[pl]]
  PROVE  Roars(d, pl) <=> Roars(c, pl)
BY DEF Roars, IfFr, HasNegative

LEMMA LegalAlike ==
  ASSUME NEW c, NEW d, NEW pl, NEW r, SameUnits(c, d), d.cool = c.cool,
         d.stage = c.stage \/ (c.stage = "SELECT" /\ d.stage = "PRIOR" /\ r.kind = "move"),
         CanAction2(c, pl, r)
  PROVE  CanAction2(d, pl, r)
<1>1. /\ d.st = c.st /\ d.eff = c.eff /\ d.front = c.front BY DEF SameUnits
<1>2. \A u, i : IfFr(d, u, i) <=> IfFr(c, u, i) BY <1>1 DEF IfFr, HasNegative
<1>3. CASE d.stage = c.stage BY <1>1, <1>2, <1>3 DEF CanAction2
<1>4. CASE c.stage = "SELECT" /\ d.stage = "PRIOR" /\ r.kind = "move"
  BY <1>1, <1>2, <1>4 DEF CanAction2
<1> QED BY <1>3, <1>4

LEMMA UpdateKeepsFronts ==
  ASSUME NEW c \in Field, NEW f, \A pl \in Player : AliveS(c.st[c.front[pl]]),
         f.front = c.front,
         \A u \in Unit : f.st[u] = IF Alive(c.st[u]) THEN Condition(c, u) ELSE c.st[u]
  PROVE  \A pl \in Player : AliveS(f.st[f.front[pl]])
<1>1. ASSUME NEW pl \in Player PROVE AliveS(f.st[f.front[pl]])
  <2>1. c.front[pl] \in Unit BY DEF Field
  <2>2. f.st[c.front[pl]] = IF Alive(c.st[c.front[pl]]) THEN Condition(c, c.front[pl])
                            ELSE c.st[c.front[pl]]
    BY <2>1
  <2>3. AliveS(c.st[c.front[pl]]) OBVIOUS
  <2> QED BY <2>2, <2>3, ConditionAlive DEF AliveS
<1> QED BY <1>1

LEMMA OrderKept == IInv /\ Order => Kept'
<1> SUFFICES ASSUME IInv, Order PROVE Kept'
  OBVIOUS
<1> DEFINE c == UpdateState(UpdateState(b, prior'), Enemy(prior'))
<1>1. pc = "order" /\ pc' = "select_prior" /\ after' = after /\ prior' \in Player
  BY DEF Order
<1>2. b \in Field /\ b.winner = None BY <1>1, NoWinnerYet DEF IInv, Kept, TypeOK
<1>3. /\ Course(b, c, {}, {})
      /\ c.eff = b.eff /\ c.front = b.front
      /\ \A u \in Unit : /\ c.st[u] = IF Alive(b.st[u]) THEN Condition(b, u) ELSE b.st[u]
                         /\ Synced(c, u)
  BY <1>1, <1>2, UpdateBothFields
<1>4. b' = [c EXCEPT !.stage = "SELECT"] BY DEF Order
<1> HIDE DEF c
<1>5. SameUnits(c, b') /\ b'.stage = "SELECT" /\ b'.winner = None
  BY <1>2, <1>3, <1>4, SetStageFields, StageNames, CourseField DEF Course
<1>6. Sound(b') BY <1>3, <1>5, CourseSound, SameUnitsSound DEF IInv, Kept
<1>7. \A u \in Unit : b.st[u] # "FADING" /\ b.eff[u]["operation_denied"] = 0
  BY <1>1 DEF IInv, Kept, Settled, Denials, Here
<1>8. \A u \in Unit : b'.st[u] # "FADING"
  BY <1>3, <1>5, <1>7, ConditionAlive DEF SameUnits, Alive
<1>9. \A u \in Unit : b'.eff[u]["operation_denied"] = 0 BY <1>3, <1>5, <1>7 DEF SameUnits
<1>10. \A u \in Unit : Synced(b', u) BY <1>3, <1>5 DEF SameUnits, Synced
<1>11. \A pl \in Player : AliveS(b.st[b.front[pl]])
  BY <1>1 DEF IInv, Kept, Fronted, Ended
<1>12. \A pl \in Player : AliveS(b'.st[b'.front[pl]])
  BY <1>2, <1>3, <1>5, <1>11, UpdateKeepsFronts DEF SameUnits
<1>13. after = "order" BY <1>1 DEF IInv, Kept, Staged
<1> QED
  BY <1>1, <1>5, <1>6, <1>8, <1>9, <1>10, <1>12, <1>13
  DEF Kept, Staged, Settled, Fronted, Denials, ChoosersKnown, Accounted, PriorMoves,
      VictoryWaits, ResultIsSurvivor, Here, Ended

LEMMA SelectPriorKept == IInv /\ SelectPrior => Kept'
<1> SUFFICES ASSUME IInv, SelectPrior PROVE Kept'
  OBVIOUS
<1>1. /\ pc = "select_prior" /\ pc' = "select_latter" /\ after' = after /\ prior' = prior
      /\ chooser' = [chooser EXCEPT ![prior] = b.front[prior]]
  BY DEF SelectPrior
<1>2. PICK r \in Replies(prior) : Legal(prior, r) /\ b' = [b EXCEPT !.action[prior] = r]
  BY DEF SelectPrior
<1>3. b \in Field /\ b.winner = None /\ prior \in Player /\ r \in Action
  BY <1>1, NoWinnerYet, RepliesType DEF IInv, Kept, TypeOK
<1>4. /\ SameUnits(b, b') /\ b'.stage = b.stage /\ b'.winner = None /\ b'.cool = b.cool
      /\ b'.action[prior] = r
  <2>1. SameUnits(b, b') BY <1>2, <1>3, SetActionFields
  <2>2. /\ b'.stage = b.stage /\ b'.winner = None /\ b'.cool = b.cool
        /\ b'.action = [b.action EXCEPT ![prior] = r]
    BY <1>2, <1>3 DEF Field
  <2> QED BY <1>3, <2>1, <2>2 DEF Field
<1>5. Sound(b') BY <1>4, SameUnitsSound DEF IInv, Kept
<1>6. CanAction2(b', prior, r) BY <1>2, <1>4, LegalAlike DEF Legal
<1>7. chooser'[prior] = b'.front[prior]
  BY <1>1, <1>3, <1>4 DEF SameUnits, IInv, TypeOK
<1>8. b.stage = "SELECT" /\ after = "order" BY <1>1 DEF IInv, Kept, Staged, Here
<1>9. \A u \in Unit : Synced(b, u) /\ b.st[u] # "FADING" /\ b.eff[u]["operation_denied"] = 0
  BY <1>1 DEF IInv, Kept, Accounted, Settled, Denials, Here
<1>10. \A u \in Unit : Synced(b', u) BY <1>4, <1>9 DEF SameUnits, Synced
<1>11. \A pl \in Player : AliveS(b.st[b.front[pl]])
  BY <1>1 DEF IInv, Kept, Fronted, Ended
<1> QED
  BY <1>1, <1>4, <1>5, <1>6, <1>7, <1>8, <1>9, <1>10, <1>11
  DEF Kept, Staged, Settled, Fronted, Denials, ChoosersKnown, Accounted, PriorMoves,
      Chosen, VictoryWaits, ResultIsSurvivor, SameUnits, Here, Ended

(* getprior() lets a roar go first.                                        *)
LEMMA RoarGoesFirst ==
  ASSUME NEW c, NEW pl \in GetPrior(c) PROVE Roars(c, Enemy(pl)) => Roars(c, pl)
BY DEF GetPrior, Enemy, Player

LEMMA SelectLatterFields ==
  ASSUME IInv, SelectLatter
  PROVE  /\ SameUnits(b, b') /\ b'.stage = b.stage /\ b'.winner = None /\ b'.cool = b.cool
         /\ prior' \in Player
         /\ b'.action[prior] = b.action[prior]
         /\ CanAction2(b', latter, b'.action[latter])
         /\ Roars(b', Enemy(prior')) => Roars(b', prior')
<1>1. PICK r \in Replies(latter) :
        /\ Legal(latter, r)
        /\ prior' \in GetPrior([b EXCEPT !.action[latter] = r])
        /\ b' = ReapFading([b EXCEPT !.action[latter] = r])
  BY DEF SelectLatter
<1> DEFINE c == [b EXCEPT !.action[latter] = r]
<1>2. pc = "select_latter" BY DEF SelectLatter
<1>3. b \in Field /\ b.winner = None /\ prior \in Player /\ r \in Action
  BY <1>2, RepliesType, NoWinnerYet DEF IInv, Kept, TypeOK
<1>4. latter \in Player /\ latter # prior BY <1>3, Owners DEF latter
<1>5. /\ SameUnits(b, c) /\ c.stage = b.stage /\ c.winner = None /\ c.cool = b.cool
      /\ c.action[latter] = r /\ c.action[prior] = b.action[prior]
  <2>1. SameUnits(b, c) BY <1>3, <1>4, SetActionFields
  <2>2. /\ c.stage = b.stage /\ c.winner = None /\ c.cool = b.cool
        /\ c.action = [b.action EXCEPT ![latter] = r]
    BY <1>3 DEF Field
  <2> HIDE DEF c
  <2> QED BY <1>3, <1>4, <2>1, <2>2 DEF Field
<1>6. b' = ReapFading(c) BY <1>1
<1>7. prior' \in GetPrior(c) BY <1>1
<1> HIDE DEF c
<1>8. b' = c
  <2>1. \A u \in Unit : b.st[u] # "FADING"
    BY <1>2 DEF IInv, Kept, Settled, Here
  <2> QED BY <1>5, <1>6, <2>1, ReapNobody DEF SameUnits
<1>9. CanAction2(c, latter, r) BY <1>1, <1>5, LegalAlike DEF Legal
<1>10. prior' \in Player BY <1>7 DEF GetPrior
<1>11. Roars(c, Enemy(prior')) => Roars(c, prior') BY <1>7, RoarGoesFirst
<1> QED BY <1>5, <1>8, <1>9, <1>10, <1>11

LEMMA SelectLatterKept == IInv /\ SelectLatter => Kept'
<1> SUFFICES ASSUME IInv, SelectLatter PROVE Kept'
  OBVIOUS
<1>1. /\ pc = "select_latter" /\ pc' = "deadcheck" /\ after' = "prior"
      /\ chooser' = [chooser EXCEPT ![latter] = b.front[latter]]
  BY DEF SelectLatter, Deadcheck
<1>2. /\ SameUnits(b, b') /\ b'.stage = b.stage /\ b'.winner = None /\ b'.cool = b.cool
      /\ prior' \in Player
      /\ b'.action[prior] = b.action[prior]
      /\ CanAction2(b', latter, b'.action[latter])
      /\ Roars(b', Enemy(prior')) => Roars(b', prior')
  BY SelectLatterFields
<1>3. /\ prior \in Player /\ latter \in Player
      /\ \A pl \in Player : pl = prior \/ pl = latter
  BY Owners DEF IInv, TypeOK, latter, Enemy, Player
<1>4. Sound(b') BY <1>2, SameUnitsSound DEF IInv, Kept
<1>5. b.stage = "SELECT" BY <1>1 DEF IInv, Kept, Staged, Here
<1>6. \A u \in Unit : Synced(b, u) /\ b.st[u] # "FADING" /\ b.eff[u]["operation_denied"] = 0
  BY <1>1 DEF IInv, Kept, Accounted, Settled, Denials, Here
<1>7. \A u \in Unit : Synced(b', u) BY <1>2, <1>6 DEF SameUnits, Synced
<1>8. \A pl \in Player : AliveS(b.st[b.front[pl]])
  BY <1>1 DEF IInv, Kept, Fronted, Ended
<1>9. \A pl \in Player : b'.front[pl] = chooser'[pl]
  <2>1. chooser[prior] = b.front[prior] BY <1>1 DEF IInv, Kept, ChoosersKnown
  <2>2. latter # prior BY <1>3, Owners DEF latter
  <2>3. chooser \in [Player -> Unit \cup {NoUnit}] BY DEF IInv, TypeOK
  <2>4. chooser'[prior] = chooser[prior] /\ chooser'[latter] = b.front[latter]
    BY <1>1, <1>3, <2>2, <2>3
  <2> QED BY <1>2, <1>3, <2>1, <2>4 DEF SameUnits
<1>10. \A pl \in Player : b'.action[pl].kind = "move" => CanAction2(b', pl, b'.action[pl])
  <2>1. b.action[prior].kind = "move" => CanAction2(b, prior, b.action[prior])
    BY <1>1 DEF IInv, Kept, PriorMoves, Chosen
  <2>2. b'.action[prior].kind = "move" => CanAction2(b', prior, b'.action[prior])
    BY <1>2, <2>1, LegalAlike
  <2> QED BY <1>2, <1>3, <2>2
<1> QED
  BY <1>1, <1>2, <1>4, <1>5, <1>6, <1>7, <1>8, <1>9, <1>10
  DEF Kept, Staged, Settled, Fronted, Denials, ChoosersKnown, Accounted, PriorMoves,
      Chosen, VictoryWaits, ResultIsSurvivor, SameUnits, Here, Ended, latter

-----------------------------------------------------------------------------
(* The two actions, and the update between them.                           *)

LEMMA PriorFronts ==
  ASSUME IInv
  PROVE  /\ b \in Field /\ Led(b) /\ prior \in Player /\ latter \in Player
         /\ latter # prior /\ Enemy(latter) = prior /\ Enemy(prior) = latter
         /\ \A pl \in Player : pl = prior \/ pl = latter
BY Owners DEF IInv, Kept, Sound, TypeOK, latter, Enemy, Player

(* The prior's move, if it chose one, is carried out.                      *)
LEMMA PriorNotFailed ==
  ASSUME IInv, pc = "prior", NEW c, SameUnits(b, c), c.stage = "PRIOR", c.cool = b.cool,
         c.action = b.action, b.action[prior].kind = "move"
  PROVE  ~ActionFails(c, prior)
<1>1. Here = "prior" BY DEF Here
<1>2. b.stage = "SELECT" /\ CanAction2(b, prior, b.action[prior])
  BY <1>1, PriorFronts DEF IInv, Kept, Staged, PriorMoves, Chosen
<1>3. CanAction2(c, prior, c.action[prior]) BY <1>2, LegalAlike
<1>4. b.front[prior] \in Unit BY PriorFronts DEF Field
<1>5. c.eff[c.front[prior]]["operation_denied"] = 0
  BY <1>1, <1>4 DEF IInv, Kept, Denials, SameUnits
<1>6. c.action[prior] # Abort BY DEF Abort
<1> QED BY <1>3, <1>5, <1>6 DEF ActionFails

LEMMA PriorActsFields ==
  ASSUME IInv, PriorActs
  PROVE  \E c : /\ SameUnits(b, c) /\ c.stage = "PRIOR" /\ c.cool = b.cool
                /\ c.action = b.action /\ c.acted = b.acted /\ c.winner = None
                /\ b' \in PlayerAction(c, prior)
<1> DEFINE c == [b EXCEPT !.stage = "PRIOR"]
<1>1. b \in Field /\ b.winner = None
  BY NoWinnerYet DEF PriorActs, IInv, Kept, TypeOK
<1>2. /\ SameUnits(b, c) /\ c.stage = "PRIOR" /\ c.cool = b.cool
      /\ c.action = b.action /\ c.acted = b.acted /\ c.winner = None
  BY <1>1, SetStageFields, StageNames
<1>3. b' \in PlayerAction(c, prior) BY DEF PriorActs, Acts
<1> QED BY <1>2, <1>3

LEMMA PriorActsKept == IInv /\ PriorActs => Kept'
<1> SUFFICES ASSUME IInv, PriorActs PROVE Kept'
  OBVIOUS
<1>1. PICK c : /\ SameUnits(b, c) /\ c.stage = "PRIOR" /\ c.cool = b.cool
               /\ c.action = b.action /\ c.acted = b.acted /\ c.winner = None
               /\ b' \in PlayerAction(c, prior)
  BY PriorActsFields
<1>2. pc = "prior" /\ prior' = prior /\ chooser' = chooser BY DEF PriorActs, Acts
<1>3. c \in Field /\ Sound(c) /\ Led(c)
  BY <1>1, SameUnitsSound DEF SameUnits, Sound, IInv, Kept
<1>4. b' \in Field /\ Spared(c, b') BY <1>1, <1>3, PriorFronts, PlayerActionSpared
<1>5. \A u \in Unit : b'.eff[u]["operation_denied"] \in {0, 1}
  BY <1>1, <1>4 DEF Spared, SameUnits, IInv, Kept, Denials
<1>6. Sound(b') BY <1>4 DEF Spared
<1>7. CASE b'.stage = "CRASHED"
  <2>1. pc' = "crashed" BY <1>7 DEF PriorActs, Acts
  <2>2. ResultIsSurvivor' BY <2>1 DEF ResultIsSurvivor
  <2> QED BY <1>5, <1>6, <2>1, <2>2, EndedKept DEF Ended
<1>8. CASE b'.stage # "CRASHED"
  <2>1. pc' = "deadcheck" /\ after' = "update" BY <1>8 DEF PriorActs, Acts, Deadcheck
  <2>2. /\ Turned(c, b', prior)
        /\ b'.acted[prior] \/ (ActionFails(c, prior) /\ b' = c)
    BY <1>1, <1>3, PriorFronts, PlayerActionTurned
  <2>3. b'.stage = "PRIOR" BY <1>1, <1>8, <2>2 DEF Turned
  <2>4. b'.acted[prior] \/ b'.action[prior].kind # "move"
    BY <1>1, <1>2, <2>2, PriorNotFailed
  <2>5. b'.winner \in {None, prior} BY <1>1, <1>3, PriorFronts, PlayerActionWinner
  <2>6. b'.action[latter] = Abort \/ Synced(b', b'.front[latter])
    <3>1. b.front[latter] \in Unit BY PriorFronts DEF Field
    <3>2. Synced(b, b.front[latter]) BY <1>2, <3>1 DEF IInv, Kept, Accounted, Here
    <3>3. Tied(c, latter) BY <1>1, <3>2 DEF Tied, Synced, SameUnits
    <3> QED BY <2>2, <3>3, PriorFronts DEF Turned, Tied
  <2>7. ASSUME NEW pl \in Player, b'.action[pl].kind \in {"move", "attack"}, ~b'.acted[pl]
        PROVE  b'.front[pl] = chooser[pl]
    <3>1. b'.action[pl] # Abort BY <2>7 DEF Abort
    <3>2. b'.action[pl] = c.action[pl] /\ b'.front[pl] = c.front[pl]
      BY <2>2, <3>1 DEF Turned
    <3>3. ~c.acted[pl]
      <4>1. CASE pl = prior BY <2>2, <2>7, <4>1
      <4>2. CASE pl # prior
        <5>1. b'.acted[pl] = c.acted[pl] BY <2>2, <4>2 DEF Turned
        <5> QED BY <2>7, <5>1
      <4> QED BY <4>1, <4>2
    <3>4. Here = "prior" BY <1>2 DEF Here
    <3> QED BY <1>1, <2>7, <3>2, <3>3, <3>4 DEF SameUnits, IInv, Kept, ChoosersKnown
  <2> QED
    BY <1>2, <1>5, <1>6, <2>1, <2>3, <2>4, <2>5, <2>6, <2>7
    DEF Kept, Staged, Settled, Fronted, Denials, ChoosersKnown, Accounted, PriorMoves,
        VictoryWaits, ResultIsSurvivor, Here, Ended, latter
<1> QED BY <1>7, <1>8

(* The update keeps the roar of a front whose state effects account for.   *)
LEMMA UpdateKeepsRoar ==
  ASSUME NEW c \in Field, NEW d \in Field, NEW pl \in Player,
         Roars(c, pl), Synced(c, c.front[pl]), AliveS(d.st[c.front[pl]]),
         d.front = c.front, d.eff = c.eff, d.action = c.action, d.stage = "LATTER"
  PROVE  Roars(d, pl) /\ CanAction2(d, pl, d.action[pl])
<1> DEFINE u == c.front[pl]
           i == c.action[pl].n
<1>1. /\ c.action[pl].kind = "move" /\ i \in MoveIndex /\ Kit[u][i] \in Roaring
      /\ HasNegative(c, u)
  BY DEF Roars, IfFr
<1>2. \E k \in Negative : c.eff[u][k] # 0
  <2>1. CASE c.st[u] \in {"CONTROLLED", "SUPPRESSED"}
    BY <2>1 DEF Synced, Negative
  <2>2. CASE c.st[u] \notin {"CONTROLLED", "SUPPRESSED"}
    BY <1>1, <2>2 DEF HasNegative
  <2> QED BY <2>1, <2>2
<1>3. HasNegative(d, u) BY <1>2 DEF HasNegative
<1>4. IfFr(d, u, i) BY <1>1, <1>3 DEF IfFr
<1>5. Roars(d, pl) BY <1>1, <1>4 DEF Roars
<1>6. Kit[u][i] # "none" BY <1>1 DEF Roaring
<1>7. d.st[u] \in {"CONTROLLED", "SUPPRESSED", "NORMAL", "FADING"} BY DEF AliveS, Alive
<1>8. d.front[pl] = u /\ d.action[pl].n = i /\ d.action[pl].kind = "move" BY <1>1
<1> HIDE DEF u, i
<1>9. CanAction2(d, pl, d.action[pl])
  BY <1>1, <1>4, <1>6, <1>7, <1>8 DEF CanAction2
<1> QED BY <1>5, <1>9

LEMMA UpdateFields ==
  ASSUME IInv, Update
  PROVE  /\ Sound(b')
         /\ b'.stage = "LATTER" /\ b'.acted = b.acted /\ b'.winner = b.winner
         /\ b'.front = b.front /\ b'.eff = b.eff
         /\ b'.action[prior] = b.action[prior]
         /\ b'.action[latter] \in {b.action[latter], Abort}
         /\ \A pl \in Player : AliveS(b'.st[b'.front[pl]])
         /\ \A u \in Unit : b'.st[u] = IF Alive(b.st[u]) THEN Condition(b, u) ELSE b.st[u]
         /\ Roars(b, latter) => Roars(b', latter)
<1> DEFINE a == UpdateState(UpdateState(b, prior), latter)
           c == [a EXCEPT !.stage = "LATTER"]
           d == [c EXCEPT !.action[latter] = Abort]
<1>1. pc = "update" BY DEF Update
<1>2. /\ Course(b, a, {}, {})
      /\ a.eff = b.eff /\ a.front = b.front /\ a.action = b.action
      /\ \A u \in Unit : a.st[u] = IF Alive(b.st[u]) THEN Condition(b, u) ELSE b.st[u]
  BY PriorFronts, UpdateBothFields
<1>3. Sound(a) BY <1>2, CourseSound DEF IInv, Kept
<1>4. b' = IF CanAction2(c, latter, c.action[latter]) THEN c ELSE d BY DEF Update
<1> HIDE DEF a
<1>5. SameUnits(a, c) BY <1>2, SetStageFields, StageNames, CourseField
<1>6. c.action = b.action /\ c.acted = b.acted /\ c.winner = b.winner /\ c.stage = "LATTER"
  BY <1>2, SetStageFields, StageNames, CourseField DEF Course
<1>7. Sound(c) /\ c \in Field BY <1>3, <1>5, SameUnitsSound DEF SameUnits
<1>8. c.front = b.front /\ c.eff = b.eff /\ c.st = a.st BY <1>2, <1>5 DEF SameUnits
<1> HIDE DEF c
<1>9. SameUnits(c, d) BY <1>7, PriorFronts, SetActionFields, AbortAction
<1>10. /\ d.action = [b.action EXCEPT ![latter] = Abort] /\ d.acted = b.acted
       /\ d.winner = b.winner /\ d.stage = "LATTER"
  BY <1>6, <1>7 DEF Field
<1>11. Sound(d) BY <1>7, <1>9, SameUnitsSound
<1>12. /\ d.action[prior] = b.action[prior] /\ d.action[latter] = Abort
       /\ d.front = b.front /\ d.eff = b.eff /\ d.st = a.st
  BY <1>8, <1>9, <1>10, PriorFronts DEF SameUnits, Field
<1> HIDE DEF d
<1>13. \A pl \in Player : AliveS(b.st[b.front[pl]])
  BY <1>1 DEF IInv, Kept, Fronted, Ended
<1>14. \A pl \in Player : AliveS(a.st[a.front[pl]])
  BY <1>2, <1>13, PriorFronts, UpdateKeepsFronts
<1>15. ASSUME Roars(b, latter) PROVE b' = c /\ Roars(c, latter)
  <2>1. b.action[latter] # Abort BY <1>15 DEF Roars, Abort
  <2>2. Synced(b, b.front[latter]) BY <1>1, <2>1 DEF IInv, Kept, Accounted, Here
  <2>3. AliveS(c.st[b.front[latter]]) BY <1>2, <1>8, <1>14, PriorFronts
  <2>4. Roars(c, latter) /\ CanAction2(c, latter, c.action[latter])
    BY <1>6, <1>7, <1>8, <1>15, <2>2, <2>3, PriorFronts, UpdateKeepsRoar
  <2> QED BY <1>4, <2>4
<1>16. CASE b' = c BY <1>2, <1>6, <1>7, <1>8, <1>14, <1>15, <1>16
<1>17. CASE b' = d
  BY <1>2, <1>10, <1>11, <1>12, <1>14, <1>15, <1>17
<1> QED BY <1>4, <1>16, <1>17

LEMMA UpdateKept == IInv /\ Update => Kept'
<1> SUFFICES ASSUME IInv, Update PROVE Kept'
  OBVIOUS
<1>1. pc = "update" /\ pc' = "latter" /\ prior' = prior /\ chooser' = chooser
  BY DEF Update
<1>2. /\ Sound(b')
      /\ b'.stage = "LATTER" /\ b'.acted = b.acted /\ b'.winner = b.winner
      /\ b'.front = b.front /\ b'.eff = b.eff
      /\ b'.action[prior] = b.action[prior]
      /\ b'.action[latter] \in {b.action[latter], Abort}
      /\ \A pl \in Player : AliveS(b'.st[b'.front[pl]])
      /\ Roars(b, latter) => Roars(b', latter)
  BY UpdateFields
<1>3. Here = "update" BY <1>1 DEF Here
<1>4. b.acted[prior] \/ b.action[prior].kind # "move"
  BY <1>3 DEF IInv, Kept, PriorMoves
<1>5. b.winner # None => b.winner = prior /\ Roars(b, latter) /\ ~b.acted[latter]
  BY <1>1 DEF IInv, Kept, VictoryWaits, Ended
<1>6. ASSUME NEW pl \in Player, b'.action[pl].kind \in {"move", "attack"}, ~b'.acted[pl]
      PROVE  b'.front[pl] = chooser[pl]
  <2>1. b'.action[pl] # Abort BY <1>6 DEF Abort
  <2>2. b'.action[pl] = b.action[pl] BY <1>2, <2>1, PriorFronts
  <2> QED BY <1>2, <1>3, <1>6, <2>2 DEF IInv, Kept, ChoosersKnown
<1>7. \A u \in Unit : b.eff[u]["operation_denied"] \in {0, 1} BY DEF IInv, Kept, Denials
<1> QED
  BY <1>1, <1>2, <1>4, <1>5, <1>6, <1>7
  DEF Kept, Staged, Settled, Fronted, Denials, ChoosersKnown, Accounted, PriorMoves,
      VictoryWaits, ResultIsSurvivor, Here, Ended, latter

(* The latter's roar takes back a victory of the prior.                    *)
LEMMA LatterActsWinner ==
  ASSUME IInv, LatterActs PROVE b'.winner \in {None, latter}
<1>1. pc = "latter" /\ b' \in PlayerAction(b, latter) BY DEF LatterActs, Acts
<1>2. CASE b.winner = None BY <1>1, <1>2, PriorFronts, PlayerActionWinner
<1>3. CASE b.winner # None
  <2>1. b.winner = prior /\ Roars(b, latter) /\ ~b.acted[latter]
    BY <1>1, <1>3 DEF IInv, Kept, VictoryWaits, Ended
  <2>2. AliveS(b.st[b.front[latter]])
    BY <1>1, PriorFronts DEF IInv, Kept, Fronted, Ended
  <2>3. PICK t \in UnitsOf(Enemy(latter)) : RoaredAt(b, b', latter, t)
    BY <1>1, <2>1, <2>2, PriorFronts, PlayerActionRoars
  <2> QED BY <2>1, <2>3, PriorFronts DEF RoaredAt
<1> QED BY <1>2, <1>3

LEMMA LatterActsKept == IInv /\ LatterActs => Kept'
<1> SUFFICES ASSUME IInv, LatterActs PROVE Kept'
  OBVIOUS
<1>1. pc = "latter" /\ prior' = prior /\ b' \in PlayerAction(b, latter)
  BY DEF LatterActs, Acts
<1>2. b' \in Field /\ Spared(b, b')
  BY <1>1, PriorFronts, PlayerActionSpared DEF IInv, Kept
<1>3. \A u \in Unit : b'.eff[u]["operation_denied"] \in {0, 1}
  BY <1>2 DEF Spared, IInv, Kept, Denials
<1>4. Sound(b') BY <1>2 DEF Spared
<1>5. CASE b'.stage = "CRASHED"
  <2>1. pc' = "crashed" BY <1>5 DEF LatterActs, Acts
  <2>2. ResultIsSurvivor' BY <2>1 DEF ResultIsSurvivor
  <2> QED BY <1>3, <1>4, <2>1, <2>2, EndedKept DEF Ended
<1>6. CASE b'.stage # "CRASHED"
  <2>1. pc' = "deadcheck" /\ after' = "roundend" BY <1>6 DEF LatterActs, Acts, Deadcheck
  <2>2. Turned(b, b', latter) BY <1>1, PriorFronts, PlayerActionTurned
  <2>3. b.stage = "LATTER" /\ (b.acted[prior] \/ b.action[prior].kind # "move")
    BY <1>1 DEF IInv, Kept, Staged, PriorMoves, Here
  <2>4. b'.stage = "LATTER" BY <1>6, <2>2, <2>3 DEF Turned
  <2>5. b'.acted[prior] \/ b'.action[prior].kind # "move"
    <3>1. b'.acted[prior] = b.acted[prior] BY <2>2, PriorFronts DEF Turned
    <3>2. b'.action[prior] = Abort \/ b'.action[prior] = b.action[prior]
      BY <2>2, PriorFronts DEF Turned
    <3> QED BY <2>3, <3>1, <3>2 DEF Abort
  <2> QED
    BY <1>1, <1>3, <1>4, <2>1, <2>4, <2>5, LatterActsWinner
    DEF Kept, Staged, Settled, Fronted, Denials, ChoosersKnown, Accounted, PriorMoves,
        VictoryWaits, ResultIsSurvivor, Here, Ended, latter
<1> QED BY <1>5, <1>6

-----------------------------------------------------------------------------
(* deadcheck.                                                              *)

LEMMA ReplaceCourse ==
  ASSUME NEW c \in Field, NEW pl \in Player, NEW r, NEW f, f = Replace(c, pl, r)
  PROVE  Course(c, f, {}, {}) /\ f.st = c.st
<1>1. CASE f = c BY <1>1, CourseReflexive
<1>2. CASE CanReplace(c, pl, r) /\ f = SwitchUnit(c, <<pl, r.n>>)
  <2>1. <<pl, r.n>> \in Unit BY <1>2 DEF CanReplace, CanAction2
  <2> QED BY <1>2, <2>1, SwitchUnitCourse, SwitchUnitSame DEF Same
<1> QED BY <1>1, <1>2 DEF Replace

(* A standing front stays; one that is replaced is not the same any more.  *)
LEMMA ReplaceFronts ==
  ASSUME NEW c \in Field, NEW pl \in Player, NEW r, NEW f, f = Replace(c, pl, r)
  PROVE  /\ ~Down(c, pl) => f = c
         /\ Down(c, pl) /\ ~NoReplacement(c, pl, r) => f.front[pl] # c.front[pl]
         /\ \A q \in Player : q # pl => f.front[q] = c.front[q]
<1>1. CASE ~Down(c, pl) BY <1>1 DEF Replace
<1>2. CASE Down(c, pl) /\ ~CanReplace(c, pl, r) BY <1>2 DEF Replace, NoReplacement
<1>3. CASE Down(c, pl) /\ CanReplace(c, pl, r)
  <2> DEFINE to == <<pl, r.n>>
  <2>1. f = SwitchUnit(c, to) BY <1>3 DEF Replace
  <2>2. to \in Unit /\ to # c.front[pl] BY <1>3 DEF CanReplace, CanAction2
  <2>3. CanSwitch(c, to) /\ Owner(to) = pl BY <1>3 DEF CanReplace, Owner
  <2> HIDE DEF to
  <2>4. f.front = [c.front EXCEPT ![pl] = to] BY <2>1, <2>3 DEF SwitchUnit, Field
  <2> QED BY <1>3, <2>2, <2>4 DEF Field
<1> QED BY <1>1, <1>2, <1>3

LEMMA DeadReplaceFields ==
  ASSUME IInv, DeadReplace
  PROVE  /\ pc = "deadcheck" /\ after # "prior"
         /\ Course(b, b', {}, {}) /\ b'.st = b.st
<1>1. PICK rp, re : b' = Replace(Replace(b, "p", rp), "e", re) /\ b'.front # b.front
  BY DEF DeadReplace
<1> DEFINE c == Replace(b, "p", rp)
<1>2. b \in Field /\ "p" \in Player /\ "e" \in Player BY DEF IInv, TypeOK, Player
<1>3. Course(b, c, {}, {}) /\ c.st = b.st BY <1>2, ReplaceCourse
<1>4. c \in Field BY <1>3, CourseField
<1>5. ~Down(b, "p") => c = b BY <1>2, ReplaceFronts
<1>6. b' = Replace(c, "e", re) BY <1>1
<1> HIDE DEF c
<1>7. Course(c, b', {}, {}) /\ b'.st = c.st BY <1>2, <1>4, <1>6, ReplaceCourse
<1>8. Course(b, b', {}, {}) BY <1>3, <1>7, CourseTransitive
<1>9. Down(b, "p") \/ Down(b, "e")
  <2>1. ~Down(c, "e") => b' = c BY <1>2, <1>4, <1>6, ReplaceFronts
  <2> QED BY <1>1, <1>5, <2>1
<1>10. pc = "deadcheck" BY DEF DeadReplace
<1>11. after # "prior"
  BY <1>2, <1>9, <1>10 DEF IInv, Kept, Fronted, Down, Ended
<1> QED BY <1>3, <1>7, <1>8, <1>10, <1>11

LEMMA DeadReplaceKept == IInv /\ DeadReplace => Kept'
<1> SUFFICES ASSUME IInv, DeadReplace PROVE Kept'
  OBVIOUS
<1>1. /\ pc = "deadcheck" /\ after # "prior"
      /\ Course(b, b', {}, {}) /\ b'.st = b.st
  BY DeadReplaceFields
<1>2. pc' = pc /\ after' = after /\ prior' = prior /\ chooser' = chooser
  BY DEF DeadReplace
<1>3. Here = after /\ Here' = after BY <1>1, <1>2 DEF Here
<1>4. Sound(b') BY <1>1, CourseSound DEF IInv, Kept
<1>5. b'.stage = b.stage /\ b'.acted = b.acted /\ b'.winner = b.winner /\ Pending(b, b')
  BY <1>1 DEF Course
<1>6. Turned(b, b', prior) BY <1>1, PriorFronts, CourseTurned DEF Field
<1>7. \A u \in Unit : b'.eff[u]["operation_denied"] \in {0, b.eff[u]["operation_denied"]}
  BY <1>1 DEF Course
<1>8. Denials' BY <1>3, <1>7 DEF Denials, IInv, Kept
<1>9. Staged' /\ Settled' BY <1>1, <1>2, <1>3, <1>5 DEF Staged, Settled, IInv, Kept
<1>10. ChoosersKnown'
  <2>1. ASSUME NEW pl \in Player, b'.action[pl].kind \in {"move", "attack"}, ~b'.acted[pl],
               Here \in {"prior", "update", "latter"}
        PROVE  b'.front[pl] = chooser[pl]
    <3>1. b'.action[pl] # Abort BY <2>1 DEF Abort
    <3>2. b'.action[pl] = b.action[pl] /\ b'.front[pl] = b.front[pl]
      BY <1>5, <3>1 DEF Pending
    <3> QED BY <1>5, <2>1, <3>2 DEF IInv, Kept, ChoosersKnown
  <2> QED BY <1>1, <1>2, <1>3, <2>1 DEF ChoosersKnown
<1>11. Accounted'
  <2>1. after = "update" => Tied(b, latter) BY <1>3 DEF IInv, Kept, Accounted, Tied
  <2>2. after = "update" => Tied(b', latter) BY <1>6, <2>1, PriorFronts DEF Turned
  <2>3. after \notin {"select_prior", "select_latter"}
    BY <1>1 DEF IInv, Kept, Staged
  <2> QED BY <1>1, <1>2, <1>3, <2>2, <2>3 DEF Accounted, Tied, latter
<1>12. PriorMoves'
  <2>1. Here \in {"update", "latter", "roundend"}
          => b.acted[prior] \/ b.action[prior].kind # "move"
    BY DEF IInv, Kept, PriorMoves
  <2>2. b'.action[prior] = Abort \/ b'.action[prior] = b.action[prior]
    BY <1>6, PriorFronts DEF Turned
  <2> QED BY <1>1, <1>2, <1>3, <1>5, <2>1, <2>2 DEF PriorMoves, Abort
<1>13. VictoryWaits' BY <1>1, <1>2, <1>5 DEF VictoryWaits, IInv, Kept, latter, Ended
<1> QED
  BY <1>1, <1>2, <1>4, <1>8, <1>9, <1>10, <1>11, <1>12, <1>13
  DEF Kept, Fronted, ResultIsSurvivor, Ended

(* A side that alone has a unit left wins, whichever function is asked.    *)
LEMMA SurvivorWins ==
  ASSUME NEW c, NEW failed, NEW w \in Verdict(c, failed), w # None, NEW pl \in Player,
         HasUnit(c, pl), ~HasUnit(c, Enemy(pl))
  PROVE  w = pl
BY DEF Verdict, GetWinner, GetWinnerNonnull, Player, Enemy

(* The battle goes on only with both sides standing, nobody having failed  *)
(* to replace its front, and no winner, or one that a roar still awaits.   *)
LEMMA GoesOn ==
  ASSUME NEW c \in Field, NEW failed \in BOOLEAN, None \in Verdict(c, failed)
  PROVE  /\ ~failed
         /\ c.winner = None \/ CheckFr(c, c.front[Enemy(c.winner)])
BY DEF Verdict, GetWinner, GetWinnerNonnull, Player, None

LEMMA DecideFronts ==
  ASSUME IInv, DeadDecide, ~ns'
  PROVE  \A pl \in Player : AliveS(b.st[b.front[pl]])
<1>1. PICK rp, re : /\ Replace(Replace(b, "p", rp), "e", re) = b
                    /\ ns' = (ns \/ NoReplacement(b, "p", rp) \/ NoReplacement(b, "e", re))
  BY DEF DeadDecide
<1> DEFINE c == Replace(b, "p", rp)
<1>2. b \in Field /\ "p" \in Player /\ "e" \in Player /\ "e" # "p"
  BY DEF IInv, TypeOK, Player
<1>3. ~NoReplacement(b, "p", rp) /\ ~NoReplacement(b, "e", re) BY <1>1
<1>4. c \in Field BY <1>2, ReplaceCourse, CourseField
<1>5. Replace(c, "e", re).front["p"] = c.front["p"] BY <1>2, <1>4, ReplaceFronts
<1>6. c.front["p"] = b.front["p"] BY <1>1, <1>5
<1>7. ~Down(b, "p") BY <1>2, <1>3, <1>6, ReplaceFronts
<1>8. c = b BY <1>2, <1>7, ReplaceFronts
<1>9. Replace(b, "e", re) = b BY <1>1, <1>8
<1>10. ~Down(b, "e") BY <1>2, <1>3, <1>9, ReplaceFronts
<1> QED BY <1>7, <1>10 DEF Down, Player

LEMMA DecideEnds ==
  ASSUME IInv, DeadDecide, pc' = "out", b' = b, NEW w \in Verdict(b, ns'), w # None,
         result' = w
  PROVE  Kept'
<1>1. ResultIsSurvivor' BY SurvivorWins DEF ResultIsSurvivor
<1> QED BY <1>1, EndedKept DEF IInv, Kept, Denials, Ended

LEMMA DecideGoesOn ==
  ASSUME IInv, DeadDecide, None \in Verdict(b, ns'), pc' = after,
         b' = IF after = "round" THEN [b EXCEPT !.round = @ + 1] ELSE b
  PROVE  Kept'
<1>1. pc = "deadcheck" /\ after' = after /\ prior' = prior /\ chooser' = chooser
  BY DEF DeadDecide
<1>2. after \in {"order", "prior", "update", "roundend", "effects", "cool_prior",
                 "cool_latter", "decrease", "round"}
  BY <1>1 DEF IInv, Kept, Staged
<1>3. Here = after /\ Here' = after BY <1>1, <1>2 DEF Here
<1>4. b \in Field /\ ns' \in BOOLEAN
  BY ControlStep DEF IInv, TypeOK, ControlOK, Step
<1>5. ~ns' /\ (b.winner = None \/ CheckFr(b, b.front[Enemy(b.winner)]))
  BY <1>4, GoesOn
<1>6. \A pl \in Player : AliveS(b.st[b.front[pl]]) BY <1>5, DecideFronts
<1>7. /\ b'.st = b.st /\ b'.hp = b.hp /\ b'.eff = b.eff /\ b'.front = b.front
      /\ b'.hist = b.hist /\ b'.action = b.action /\ b'.acted = b.acted
      /\ b'.stage = b.stage /\ b'.winner = b.winner
  BY <1>4 DEF Field
<1>8. after # "round" => b' = b OBVIOUS
<1>9. Sound(b') BY <1>7 DEF IInv, Kept, Sound, Led, SoundUnit
<1>10. Staged' /\ Settled' /\ Denials'
  BY <1>1, <1>2, <1>3, <1>7 DEF IInv, Kept, Staged, Settled, Denials
<1>11. Fronted' BY <1>6, <1>7 DEF Fronted
<1>12. ChoosersKnown' /\ Accounted' /\ PriorMoves'
  BY <1>1, <1>2, <1>3, <1>8
  DEF IInv, Kept, ChoosersKnown, Accounted, PriorMoves, Chosen, latter
<1>13. VictoryWaits'
  <2>1. CASE b.winner = None BY <1>7, <2>1 DEF VictoryWaits
  <2>2. CASE b.winner # None /\ after = "update"
    <3>1. b.winner = prior BY <1>1, <2>2 DEF IInv, Kept, VictoryWaits, Ended
    <3>2. b.stage = "PRIOR" BY <1>3, <2>2 DEF IInv, Kept, Staged
    <3>3. b.front[latter] \in Unit /\ Owner(b.front[latter]) = latter
      BY PriorFronts DEF Field, Led
    <3>4. CheckFr(b, b.front[latter]) BY <1>5, <2>2, <3>1, PriorFronts
    <3>5. Roars(b, latter) /\ ~b.acted[latter]
      BY <3>2, <3>3, <3>4 DEF CheckFr, Roars
    <3> QED BY <1>1, <1>8, <2>2, <3>1, <3>5 DEF VictoryWaits, latter
  <2>3. CASE b.winner # None /\ after # "update"
    <3>1. after = "roundend" /\ b.winner = latter
      BY <1>1, <2>3 DEF IInv, Kept, VictoryWaits, Ended
    <3>2. b.stage = "LATTER" /\ (b.acted[prior] \/ b.action[prior].kind # "move")
      BY <1>3, <3>1 DEF IInv, Kept, Staged, PriorMoves
    <3>3. Owner(b.front[prior]) = prior BY PriorFronts DEF Led
    <3>4. CheckFr(b, b.front[prior]) BY <1>5, <2>3, <3>1, PriorFronts
    <3> QED BY <3>2, <3>3, <3>4 DEF CheckFr
  <2> QED BY <2>1, <2>2, <2>3
<1>14. ResultIsSurvivor' BY <1>2 DEF ResultIsSurvivor
<1> QED BY <1>9, <1>10, <1>11, <1>12, <1>13, <1>14 DEF Kept

LEMMA DeadDecideKept == IInv /\ DeadDecide => Kept'
<1> SUFFICES ASSUME IInv, DeadDecide PROVE Kept'
  OBVIOUS
<1>1. PICK w \in Verdict(b, ns') :
        IF w = None
          THEN /\ pc' = after
               /\ b' = IF after = "round" THEN [b EXCEPT !.round = @ + 1] ELSE b
          ELSE pc' = "out" /\ result' = w /\ b' = b
  BY DEF DeadDecide
<1>2. CASE w = None BY <1>1, <1>2, DecideGoesOn
<1>3. CASE w # None BY <1>1, <1>3, DecideEnds
<1> QED BY <1>2, <1>3

-----------------------------------------------------------------------------
(* The invariant, and what follows from it.                                *)

LEMMA IInvStep == IInv /\ [Next]_vars => IInv'
<1> SUFFICES ASSUME IInv, [Next]_vars PROVE IInv'
  OBVIOUS
<1>1. TypeOK' BY TypeStep DEF IInv
<1>2. CASE Step
  BY <1>1, <1>2, RoundLimitKept, RoundStartKept, OrderKept, ResignKept, SelectPriorKept,
     SelectLatterKept, PriorActsKept, UpdateKept, LatterActsKept, RoundEndKept, EffectsKept,
     CoolKept, DecreaseKept, DeadReplaceKept, DeadDecideKept, FinishKept
  DEF Step, IInv
<1>3. CASE UNCHANGED vars
  BY <1>3
  DEF vars, IInv, TypeOK, Kept, Staged, Settled, Fronted, Denials, ChoosersKnown, Accounted,
      PriorMoves, Chosen, VictoryWaits, ResultIsSurvivor, Resigned, Here, latter
<1> QED BY <1>2, <1>3 DEF Next, Over

(* The inductive invariant from which the properties of the battle follow. *)
THEOREM IInvInvariant == Spec => []IInv
<1>1. Init => IInv BY TypeInit, KeptInit DEF IInv
<1> QED BY <1>1, IInvStep, PTL DEF Spec

(* What fell is stripped, in the field and in every snapshot, so rewinding *)
(* never returns an effect to a unit that may not have it.                 *)
THEOREM FallenStripped == Spec => []FallenAreStripped
<1>1. IInv => FallenAreStripped
  BY DEF IInv, Kept, Sound, SoundRecord, SoundUnit, FallenAreStripped, Stripped
<1> QED BY <1>1, IInvInvariant, PTL

(* No round begins, and no snapshot is taken, with a unit that fades, and  *)
(* deadcheck lets the battle go on only with two standing fronts.          *)
THEOREM RoundsSettled == Spec => []RoundsBeginSettled
<1>1. IInv => RoundsBeginSettled
  <2> SUFFICES ASSUME IInv PROVE RoundsBeginSettled
    OBVIOUS
  <2>1. pc \in {"round", "order"} => \A u \in Unit : b.st[u] # "FADING"
    BY DEF IInv, Kept, Settled, Here
  <2>2. \A i \in DOMAIN Past : \A u \in Unit : Past[i][u] # "FADING"
    BY DEF IInv, Kept, Sound, SoundRecord, Past
  <2>3. FrontsStand BY DEF IInv, Kept, Fronted, FrontsStand, Ended
  <2> QED BY <2>1, <2>2, <2>3 DEF RoundsBeginSettled, NoFadingBetweenRounds
<1> QED BY <1>1, IInvInvariant, PTL

(* The action a player chose for one front is never left to another: every *)
(* switch, death and rewind takes the action with the front.               *)
THEOREM ActionsAreOwn == Spec => []OwnAction
<1>1. IInv => OwnAction BY DEF IInv, Kept, ChoosersKnown, OwnAction, Here
<1> QED BY <1>1, IInvInvariant, PTL

(* A denial of karma_reverse() is gone when the round is over, and no      *)
(* snapshot holds one that a rewind could bring back.                      *)
THEOREM DenialEnds == Spec => []DenialEndsWithTheRound
<1>1. IInv => DenialEndsWithTheRound
  BY DEF IInv, Kept, Denials, DenialEndsWithTheRound, Here
<1> QED BY <1>1, IInvInvariant, PTL

(* A lone survivor is the winner unless a player resigned, and a victory   *)
(* that an effect has named waits only for a roar of the side that lost.   *)
THEOREM RightWinner == Spec => []WinnerIsRight
<1>1. IInv => WinnerIsRight
  <2> SUFFICES ASSUME IInv PROVE VictoryWaitsOnlyForARoar /\ ResultIsSurvivor
    BY DEF WinnerIsRight
  <2>1. ResultIsSurvivor BY DEF IInv, Kept
  <2>2. VictoryWaitsOnlyForARoar
    BY DEF IInv, Kept, VictoryWaits, VictoryWaitsOnlyForARoar, Ended, latter
  <2> QED BY <2>1, <2>2
<1> QED BY <1>1, IInvInvariant, PTL

-----------------------------------------------------------------------------
(* What a step may never do.                                               *)

(* Who vanished stays away, and who cannot be killed stands, but for a     *)
(* roar or a rewind.                                                       *)
Spares ==
  \A u \in Unit :
    /\ b.st[u] = "VANISHED" => b'.st[u] \in {"VANISHED", "FREEZING_ROARINGED"} \/ Rewound
    /\ Bears(b, u) => Alive(b'.st[u]) \/ b'.st[u] = "FREEZING_ROARINGED" \/ Rewound

LEMMA SameStatesSpare == ASSUME b'.st = b.st PROVE Spares
BY DEF Spares, Bears

LEMMA CourseSpares ==
  ASSUME NEW c, SameUnits(b, c), Course(c, b', {}, {}) PROVE Spares
<1>1. \A u \in Unit : UnitCourse(c, b', u) BY DEF Course
<1> QED BY <1>1 DEF SameUnits, UnitCourse, Bears, Spares

LEMMA UpdatedSpare ==
  ASSUME \A u \in Unit : b'.st[u] = IF Alive(b.st[u]) THEN Condition(b, u) ELSE b.st[u]
  PROVE  Spares
BY ConditionAlive DEF Spares, Bears, Alive

LEMMA ActsSpare ==
  ASSUME IInv, NEW c, SameUnits(b, c), NEW pl \in Player, b' \in PlayerAction(c, pl)
  PROVE  Spares
<1>1. c \in Field /\ Sound(c) BY SameUnitsSound DEF IInv, Kept, SameUnits
<1>2. Spared(c, b') BY <1>1, PlayerActionSpared
<1>3. c.st = b.st /\ c.eff = b.eff /\ c.hist = b.hist BY DEF SameUnits
<1>4. Returned(c, b') => Rewound BY <1>3 DEF Returned, Rewound
<1> QED BY <1>2, <1>3, <1>4 DEF Spared, Spares, Bears

LEMMA OrderUpdates ==
  ASSUME IInv, Order, NEW u \in Unit
  PROVE  b'.st[u] = IF Alive(b.st[u]) THEN Condition(b, u) ELSE b.st[u]
<1> DEFINE c == UpdateState(UpdateState(b, prior'), Enemy(prior'))
<1>1. prior' \in Player /\ b \in Field BY DEF Order, IInv, TypeOK
<1>2. /\ c \in Field
      /\ c.st[u] = IF Alive(b.st[u]) THEN Condition(b, u) ELSE b.st[u]
  BY <1>1, UpdateBothFields, CourseField
<1>3. b' = [c EXCEPT !.stage = "SELECT"] BY DEF Order
<1> HIDE DEF c
<1>4. b'.st = c.st BY <1>2, <1>3 DEF Field
<1> QED BY <1>2, <1>4

LEMMA StepSpares == IInv /\ Step => Spares
<1> SUFFICES ASSUME IInv, Step PROVE Spares
  OBVIOUS
<1>1. b \in Field /\ SameUnits(b, b) BY DEF IInv, TypeOK, SameUnits
<1>2. CASE \/ RoundLimit \/ Resign(prior, "select_prior") \/ Resign(latter, "select_latter")
  BY <1>2, SameStatesSpare DEF RoundLimit, Resign
<1>3. CASE RoundStart BY <1>3, RoundStartFields, SameStatesSpare
<1>4. CASE Order BY <1>4, OrderUpdates, UpdatedSpare
<1>5. CASE SelectPrior
  <2>1. b'.st = b.st BY <1>1, <1>5 DEF SelectPrior, Field
  <2> QED BY <2>1, SameStatesSpare
<1>6. CASE SelectLatter
  BY <1>6, SelectLatterFields, SameStatesSpare DEF SameUnits
<1>7. CASE PriorActs BY <1>7, PriorActsFields, PriorFronts, ActsSpare
<1>8. CASE Update BY <1>8, UpdateFields, UpdatedSpare
<1>9. CASE LatterActs
  <2>1. b' \in PlayerAction(b, latter) BY <1>9 DEF LatterActs, Acts
  <2> QED BY <1>1, <2>1, PriorFronts, ActsSpare
<1>10. CASE RoundEnd
  <2> DEFINE c == [b EXCEPT !.stage = "ROUNDEND"]
  <2>1. SameUnits(b, c) BY <1>1, SetStageFields, StageNames
  <2>2. b' = ReapFading(c) BY <1>10 DEF RoundEnd
  <2> HIDE DEF c
  <2>3. Course(c, b', {}, {}) BY <2>1, <2>2, ReapFadingCourse DEF SameUnits
  <2> QED BY <2>1, <2>3, CourseSpares
<1>11. CASE Effects
  <2>1. PICK d \in 1 .. MaxHp : b' = RoundEndEffects(b, d) BY <1>11 DEF Effects
  <2>2. d \in Nat BY NumberAssumption
  <2>3. Course(b, b', {}, {}) BY <1>1, <2>1, <2>2, RoundEndEffectsCourse
  <2> QED BY <1>1, <2>3, CourseSpares
<1>12. CASE CoolPrior \/ CoolLatter
  <2>1. PICK pl : b' = CooldownDecrease(b, pl) BY <1>12 DEF CoolPrior, CoolLatter
  <2>2. b'.st = b.st BY <1>1, <2>1, CooldownDecreaseUntouched DEF Untouched
  <2> QED BY <2>2, SameStatesSpare
<1>13. CASE Decrease
  <2>1. b'.st = b.st BY <1>1, <1>13, RoundDecreaseFields DEF Decrease
  <2> QED BY <2>1, SameStatesSpare
<1>14. CASE DeadReplace BY <1>14, DeadReplaceFields, SameStatesSpare
<1>15. CASE DeadDecide
  <2>1. b' = b \/ b' = [b EXCEPT !.round = @ + 1] BY <1>15 DEF DeadDecide
  <2>2. b'.st = b.st BY <1>1, <2>1 DEF Field
  <2> QED BY <2>2, SameStatesSpare
<1>16. CASE Finish
  <2>1. b'.st = b.st BY <1>1, <1>16 DEF Finish, Field
  <2> QED BY <2>1, SameStatesSpare
<1> QED
  BY <1>2, <1>3, <1>4, <1>5, <1>6, <1>7, <1>8, <1>9, <1>10, <1>11, <1>12, <1>13, <1>14,
     <1>15, <1>16
  DEF Step

(* Only a rewind to a snapshot brings a vanished unit back.                *)
THEOREM VanishedStays == Spec => VanishedComesBackOnlyInTime
<1>1. IInv /\ [Next]_vars =>
        [\A u \in Unit : b.st[u] = "VANISHED" =>
           \/ b'.st[u] \in {"VANISHED", "FREEZING_ROARINGED"}
           \/ Rewound]_vars
  BY StepSpares DEF Next, Over, Spares
<1> QED BY <1>1, IInvInvariant, PTL DEF Spec, VanishedComesBackOnlyInTime

(* Only a roar or a rewind takes down who cannot be killed; the invariant  *)
(* says that nobody but a standing unit bears the effect.                  *)
THEOREM ImmortalsStand == Spec => ImmortalStands
<1>1. ASSUME IInv, NEW u \in Unit, b.eff[u]["absolutely_immortal"] # 0 PROVE Bears(b, u)
  <2>1. SoundUnit(b, u) BY <1>1 DEF IInv, Kept, Sound
  <2>2. b.st[u] \in State BY <1>1 DEF IInv, TypeOK, Field
  <2>3. "absolutely_immortal" \in Effect \ Keep BY DEF Effect, Keep
  <2> QED BY <1>1, <2>1, <2>2, <2>3 DEF SoundUnit, Bears, Alive, Vanished, State
<1>2. IInv /\ [Next]_vars =>
        [\A u \in Unit : b.eff[u]["absolutely_immortal"] # 0 =>
           \/ Alive(b'.st[u])
           \/ b'.st[u] = "FREEZING_ROARINGED"
           \/ Rewound]_vars
  BY <1>1, StepSpares DEF Next, Over, Spares
<1> QED BY <1>2, IInvInvariant, PTL DEF Spec, ImmortalStands

-----------------------------------------------------------------------------
(* The roar.                                                               *)

(* Nobody has acted before the first action.                               *)
Fresh == {"order", "select_prior", "select_latter", "prior"}
FreshActs == Here \in Fresh => \A pl \in Player : ~b.acted[pl]

LEMMA SameActs ==
  ASSUME FreshActs, b'.acted = b.acted, Here' \in Fresh => Here \in Fresh
  PROVE  FreshActs'
BY DEF FreshActs

LEMMA FreshStep == IInv /\ FreshActs /\ [Next]_vars => FreshActs'
<1> SUFFICES ASSUME IInv, FreshActs, [Next]_vars PROVE FreshActs'
  OBVIOUS
<1>1. b \in Field BY DEF IInv, TypeOK
<1>2. CASE RoundStart
  <2> DEFINE acted == [pl \in Player |-> FALSE]
             c == [b EXCEPT !.stage = "ROUNDSTART",
                            !.action = [pl \in Player |-> Abort],
                            !.acted = acted]
  <2>1. b' = HistoryAdd(c) BY <1>2 DEF RoundStart
  <2> HIDE DEF acted
  <2>2. c.acted = acted BY <1>1 DEF Field
  <2> HIDE DEF c
  <2>3. b'.acted = acted
    BY <2>1, <2>2 DEF HistoryAdd
  <2> QED BY <2>3 DEF FreshActs, acted
<1>3. CASE Order
  <2> DEFINE c == UpdateState(UpdateState(b, prior'), Enemy(prior'))
  <2>1. Course(b, c, {}, {}) BY <1>1, <1>3, UpdateBothFields DEF Order
  <2>2. b' = [c EXCEPT !.stage = "SELECT"] BY <1>3 DEF Order
  <2> HIDE DEF c
  <2>3. b'.acted = b.acted
    BY <2>1, <2>2, CourseField DEF Course, Field
  <2> QED BY <1>3, <2>3, SameActs DEF Order, Here, Fresh
<1>4. CASE SelectPrior
  <2>1. b'.acted = b.acted BY <1>1, <1>4 DEF SelectPrior, Field
  <2> QED BY <1>4, <2>1, SameActs DEF SelectPrior, Here, Fresh
<1>5. CASE SelectLatter
  <2>1. PICK r \in Replies(latter) : b' = ReapFading([b EXCEPT !.action[latter] = r])
    BY <1>5 DEF SelectLatter
  <2> DEFINE c == [b EXCEPT !.action[latter] = r]
  <2>2. r \in Action BY RepliesType, PriorFronts
  <2>3. c.acted = b.acted /\ SameUnits(b, c)
    <3>1. latter \in Player BY PriorFronts
    <3>2. c.acted = b.acted BY <1>1 DEF Field
    <3>3. SameUnits(b, c) BY <1>1, <2>2, <3>1, SetActionFields
    <3> QED BY <3>2, <3>3
  <2>4. pc = "select_latter" BY <1>5 DEF SelectLatter
  <2>5. \A u \in Unit : b.st[u] # "FADING"
    BY <2>4 DEF IInv, Kept, Settled, Here
  <2>6. b' = ReapFading(c) BY <2>1
  <2> HIDE DEF c
  <2>7. b' = c BY <2>3, <2>5, <2>6, ReapNobody DEF SameUnits
  <2> QED BY <2>3, <2>4, <2>7, SameActs DEF Here, Fresh
<1>6. CASE DeadReplace
  <2>1. b'.acted = b.acted BY <1>6, DeadReplaceFields DEF Course
  <2> QED BY <1>6, <2>1, SameActs DEF DeadReplace, Here, Fresh
<1>7. CASE DeadDecide
  <2>1. b' = b \/ b' = [b EXCEPT !.round = @ + 1] BY <1>7 DEF DeadDecide
  <2>2. b'.acted = b.acted BY <1>1, <2>1 DEF Field
  <2>3. pc = "deadcheck" /\ pc' \in {after, "out"} BY <1>7 DEF DeadDecide
  <2>4. after # "deadcheck" BY <2>3 DEF IInv, Kept, Staged
  <2> QED BY <2>2, <2>3, <2>4, SameActs DEF Here, Fresh
<1>8. CASE PriorActs \/ LatterActs
  BY <1>8 DEF PriorActs, LatterActs, Acts, Deadcheck, FreshActs, Here, Fresh
<1>9. CASE RoundLimit \/ Resign(prior, "select_prior") \/ Resign(latter, "select_latter")
           \/ Update \/ RoundEnd \/ Effects \/ CoolPrior \/ CoolLatter \/ Decrease
           \/ Finish
  BY <1>9
  DEF RoundLimit, Resign, Update, RoundEnd, Effects, CoolPrior, CoolLatter, Decrease,
      Finish, Deadcheck, FreshActs, Here, Fresh
<1>10. CASE UNCHANGED vars BY <1>10 DEF vars, FreshActs, Here
<1> QED
  BY <1>2, <1>3, <1>4, <1>5, <1>6, <1>7, <1>8, <1>9, <1>10 DEF Next, Over, Step

(* What RoarIsUnstoppable promises to pl.                                  *)
RoarHolds(pl) ==
  \/ Roars(b', pl) /\ ~b'.acted[pl]
  \/ b'.st[b.front[pl]] = "FREEZING_ROARINGED"
  \/ \E u \in UnitsOf(Enemy(pl)) :
       b.st[u] # "FREEZING_ROARINGED" /\ b'.st[u] = "FREEZING_ROARINGED"

(* It is pl's turn.                                                        *)
LEMMA RoarStrikes ==
  ASSUME IInv, pc \in {"prior", "latter"}, NEW c, SameUnits(b, c), NEW pl \in Player,
         c.action = b.action, c.acted = b.acted, b' \in PlayerAction(c, pl),
         Roars(b, pl), ~b.acted[pl]
  PROVE  \E t \in UnitsOf(Enemy(pl)) : RoaredAt(c, b', pl, t) /\ b.st[t] # "FREEZING_ROARINGED"
<1>1. \A q \in Player : AliveS(b.st[b.front[q]]) BY DEF IInv, Kept, Fronted, Ended
<1>2. c.st = b.st /\ c.front = b.front /\ c.eff = b.eff BY DEF SameUnits
<1>3. Roars(c, pl) BY <1>2, RoarsAlike
<1>4. c \in Field /\ Led(c) BY <1>2, PriorFronts DEF SameUnits, Led
<1>5. PICK t \in UnitsOf(Enemy(pl)) : RoaredAt(c, b', pl, t)
  BY <1>1, <1>2, <1>3, <1>4, PlayerActionRoars
<1>6. Enemy(pl) \in Player BY Owners
<1>7. b.st[t] # "FREEZING_ROARINGED"
  BY <1>1, <1>2, <1>5, <1>6 DEF RoaredAt, AliveS, Alive
<1> QED BY <1>5, <1>7

LEMMA PriorActsRoar ==
  ASSUME IInv, FreshActs, PriorActs, NEW pl \in Player, Roars(b, pl), ~b.acted[pl]
  PROVE  RoarHolds(pl)
<1>1. pc = "prior" /\ Here = "prior" BY DEF PriorActs, Here
<1>2. PICK c : /\ SameUnits(b, c) /\ c.action = b.action /\ c.acted = b.acted
               /\ b' \in PlayerAction(c, prior)
  BY PriorActsFields
<1>3. CASE pl = prior
  <2>1. PICK t \in UnitsOf(Enemy(pl)) :
          RoaredAt(c, b', pl, t) /\ b.st[t] # "FREEZING_ROARINGED"
    BY <1>1, <1>2, <1>3, RoarStrikes
  <2> QED BY <2>1 DEF RoaredAt, RoarHolds
<1>4. CASE pl = latter
  <2>1. Roars(b, prior) BY <1>1, <1>4 DEF IInv, Kept, PriorMoves
  <2>2. ~b.acted[prior] BY <1>1, PriorFronts DEF FreshActs, Fresh
  <2>3. PICK t \in UnitsOf(latter) : RoaredAt(c, b', prior, t)
    BY <1>1, <1>2, <2>1, <2>2, PriorFronts, RoarStrikes
  <2>4. c.st = b.st /\ c.front = b.front /\ c.eff = b.eff /\ c \in Field /\ Led(c)
    BY <1>2, PriorFronts DEF SameUnits, Led
  <2>5. CASE c.front[latter] = t BY <1>4, <2>3, <2>4, <2>5 DEF RoaredAt, RoarHolds
  <2>6. CASE c.front[latter] # t
    <3>1. Roars(b', latter)
      BY <1>2, <1>4, <2>3, <2>4, <2>6, PriorFronts, RoarsAlike DEF RoaredAt
    <3>2. b'.acted[latter] = b.acted[latter]
      BY <1>2, <2>4, PriorFronts, PlayerActionTurned DEF Turned
    <3> QED BY <1>4, <3>1, <3>2 DEF RoarHolds
  <2> QED BY <2>5, <2>6
<1> QED BY <1>3, <1>4, PriorFronts

(* Whose turn is over has acted, or chose no move.                         *)
LEMMA LatterToRoar ==
  ASSUME IInv, pc \in {"update", "latter"}, NEW pl \in Player, Roars(b, pl), ~b.acted[pl]
  PROVE  pl = latter
<1>1. b.acted[prior] \/ b.action[prior].kind # "move" BY DEF IInv, Kept, PriorMoves, Here
<1> QED BY <1>1, PriorFronts DEF Roars

LEMMA StepHoldsRoar ==
  ASSUME IInv, FreshActs, Step, pc \in {"prior", "update", "latter"},
         NEW pl \in Player, Roars(b, pl), ~b.acted[pl]
  PROVE  RoarHolds(pl)
<1>1. PriorActs \/ Update \/ LatterActs
  BY DEF Step, RoundLimit, RoundStart, Order, Resign, SelectPrior, SelectLatter, RoundEnd,
         Effects, CoolPrior, CoolLatter, Decrease, DeadReplace, DeadDecide, Finish
<1>2. CASE PriorActs BY <1>2, PriorActsRoar
<1>3. CASE Update
  <2>1. pl = latter BY <1>3, LatterToRoar DEF Update
  <2> QED BY <1>3, <2>1, UpdateFields DEF RoarHolds
<1>4. CASE LatterActs
  <2>1. pc = "latter" /\ b' \in PlayerAction(b, latter) BY <1>4 DEF LatterActs, Acts
  <2>2. pl = latter BY <2>1, LatterToRoar
  <2>3. SameUnits(b, b) BY DEF SameUnits, IInv, TypeOK
  <2>4. PICK t \in UnitsOf(Enemy(pl)) :
          RoaredAt(b, b', pl, t) /\ b.st[t] # "FREEZING_ROARINGED"
    BY <2>1, <2>2, <2>3, RoarStrikes
  <2> QED BY <2>4 DEF RoaredAt, RoarHolds
<1> QED BY <1>1, <1>2, <1>3, <1>4

(* Once both players have chosen, an enhanced roar strikes, unless another *)
(* takes the roarer down first: no kill, no control, no denial stops it.   *)
THEOREM RoarStrikesHome == Spec => RoarIsUnstoppable
<1>1. Spec => []FreshActs
  <2>1. Init => FreshActs BY DEF Init, FreshActs, Here, Fresh
  <2> QED BY <2>1, FreshStep, IInvInvariant, PTL DEF Spec
<1>2. IInv /\ FreshActs /\ [Next]_vars =>
        [\A pl \in Player :
           pc \in {"prior", "update", "latter"} /\ Roars(b, pl) /\ ~b.acted[pl] =>
             \/ Roars(b', pl) /\ ~b'.acted[pl]
             \/ b'.st[b.front[pl]] = "FREEZING_ROARINGED"
             \/ \E u \in UnitsOf(Enemy(pl)) :
                  b.st[u] # "FREEZING_ROARINGED" /\ b'.st[u] = "FREEZING_ROARINGED"]_vars
  BY StepHoldsRoar DEF Next, Over, RoarHolds
<1> QED BY <1>1, <1>2, IInvInvariant, PTL DEF Spec, RoarIsUnstoppable
=============================================================================
