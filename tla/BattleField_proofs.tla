------------------------- MODULE BattleField_proofs -------------------------
(***************************************************************************)
(* What the operations on the field preserve, for any units, kits and      *)
(* numbers: the type of the field, and the way units fall.                 *)
(***************************************************************************)
EXTENDS BattleField, SequenceTheorems, TLAPS

(* A unit in state s may be in state t after a step that only lets units   *)
(* fall: standing states change into one another, the rest only descends,  *)
(* and nobody is roared down.                                              *)
Falls(s, t) ==
  \/ s = t
  \/ Alive(s) /\ t \in State \ {"FREEZING_ROARINGED"}
  \/ s = "FADING" /\ t \in {"FAILED", "VANISHED"}
  \/ s = "FAILED" /\ t = "VANISHED"

(* c is a field that b may become without a revival, a rewind or a roar.   *)
Ok(b, c) ==
  /\ c \in Field
  /\ c.hist = b.hist
  /\ \A u \in Unit : Falls(b.st[u], c.st[u])

LEMMA OkReflexive == ASSUME NEW b \in Field PROVE Ok(b, b)
BY DEF Ok, Falls

LEMMA OkTransitive ==
  ASSUME NEW b \in Field, NEW c, NEW d, Ok(b, c), Ok(c, d)
  PROVE  Ok(b, d)
<1>1. b.st \in [Unit -> State] /\ c.st \in [Unit -> State] /\ d.st \in [Unit -> State]
  BY DEF Ok, Field
<1>2. ASSUME NEW u \in Unit PROVE Falls(b.st[u], d.st[u])
  <2>1. Falls(b.st[u], c.st[u]) /\ Falls(c.st[u], d.st[u])
    BY DEF Ok
  <2> QED BY <1>1, <2>1 DEF Falls, Alive, State
<1> QED BY <1>2 DEF Ok

LEMMA ConditionAlive ==
  ASSUME NEW b, NEW u PROVE Condition(b, u) \in State /\ Alive(Condition(b, u))
BY DEF Condition, State, Alive

LEMMA AbortAction == Abort \in Action
BY DEF Abort, Action

LEMMA WipedType ==
  ASSUME NEW e \in [Effect -> Int], NEW s PROVE Wiped(e, s) \in [Effect -> Int]
BY DEF Wiped

LEMMA FailOk == ASSUME NEW b \in Field, NEW U PROVE Ok(b, Fail(b, U))
<1> DEFINE able   == {u \in U : AliveS(b.st[u])}
           fade   == {u \in able : CheckFr(b, u)}
           fallen == able \ fade
           hp  == [u \in Unit |-> IF u \in able THEN 0 ELSE b.hp[u]]
           st  == [u \in Unit |-> IF u \in fade THEN "FADING"
                                  ELSE IF u \in fallen THEN "FAILED" ELSE b.st[u]]
           eff == [u \in Unit |-> IF u \in fallen THEN Wiped(b.eff[u], "FAILED")
                                  ELSE b.eff[u]]
           act == [pl \in Player |-> IF b.front[pl] \in fallen THEN Abort
                                     ELSE b.action[pl]]
<1>1. Fail(b, U) = [b EXCEPT !.hp = hp, !.st = st, !.eff = eff, !.action = act]
  BY DEF Fail
<1>2. hp \in [Unit -> 0 .. MaxHp] BY NumberAssumption DEF Field
<1>3. st \in [Unit -> State] BY DEF Field, State
<1>4. eff \in [Unit -> [Effect -> Int]] BY WipedType DEF Field
<1>5. act \in [Player -> Action] BY AbortAction DEF Field
<1>6. ASSUME NEW u \in Unit PROVE Falls(b.st[u], st[u])
  BY DEF Falls, AliveS, Alive, State
<1> HIDE DEF hp, st, eff, act
<1>7. Fail(b, U) \in Field BY <1>1, <1>2, <1>3, <1>4, <1>5 DEF Field
<1>8. Fail(b, U).st = st /\ Fail(b, U).hist = b.hist BY <1>1 DEF Field
<1> QED BY <1>6, <1>7, <1>8 DEF Ok

-----------------------------------------------------------------------------
(* The operations that leave every state and the history as they are.      *)

Same(b, c) == c \in Field /\ c.st = b.st /\ c.hist = b.hist

LEMMA SameOk == ASSUME NEW b \in Field, NEW c, Same(b, c) PROVE Ok(b, c)
BY DEF Same, Ok, Falls

LEMMA SameTransitive ==
  ASSUME NEW b, NEW c, NEW d, Same(b, c), Same(c, d) PROVE Same(b, d)
BY DEF Same

LEMMA EffectNames ==
  /\ -1 \in Int
  /\ \A k \in {"perish_song", "stunned", "suppressed", "absolutely_immortal", "reduced",
              "cursed", "operation_denied", "ATK", "SPEED"} : k \in Effect
BY DEF Effect

LEMMA SetEffectType ==
  ASSUME NEW e \in [Effect -> Int], NEW k \in Effect, NEW n \in Int
  PROVE  [e EXCEPT ![k] = n] \in [Effect -> Int]
OBVIOUS

LEMMA SetEffectSame ==
  ASSUME NEW b \in Field, NEW u \in Unit, NEW k \in Effect, NEW n \in Int
  PROVE  Same(b, [b EXCEPT !.eff[u][k] = n])
BY DEF Same, Field

LEMMA Owners ==
  /\ \A u \in Unit : Owner(u) \in Player
  /\ \A pl \in Player : Enemy(pl) \in Player /\ Enemy(pl) # pl
  /\ \A b \in Field : \A u \in Unit : Osite(b, u) \in Unit
BY UnitAssumption DEF Owner, Enemy, Player, Osite, Field

LEMMA SetCooldownSame ==
  ASSUME NEW b \in Field, NEW u \in Unit, NEW i \in MoveIndex
  PROVE  Same(b, SetCooldown(b, u, i))
<1>1. Cooldown[Kit[u][i]] \in Nat BY KitAssumption, NumberAssumption
<1> QED BY <1>1 DEF SetCooldown, Same, Field

LEMMA SetWinnerSame ==
  ASSUME NEW b \in Field, NEW pl \in Player PROVE Same(b, SetWinner(b, pl))
BY DEF SetWinner, Same, Field

LEMMA AddEffectSame ==
  ASSUME NEW b \in Field, NEW k \in Effect, NEW dest \in Unit, NEW src, NEW n \in Int
  PROVE  Same(b, AddEffect(b, k, dest, src, n))
<1> DEFINE old == b.eff[dest][k]
           new == IF k \in Inits /\ old # 0 THEN old ELSE n
           c   == [b EXCEPT !.eff[dest][k] = new]
<1>1. Same(b, b) BY DEF Same
<1>2. Same(b, c)
  <2>1. new \in Int BY DEF Field
  <2> HIDE DEF new
  <2> QED BY <2>1 DEF Same, Field
<1> HIDE DEF c
<1>3. Same(b, SetWinner(c, Enemy(Owner(dest))))
  BY <1>2, SetWinnerSame, SameTransitive, Owners DEF Same
<1>4. AddEffect(b, k, dest, src, n) \in {b, c, SetWinner(c, Enemy(Owner(dest)))}
  BY DEF AddEffect, c
<1> QED BY <1>1, <1>2, <1>3, <1>4

LEMMA CastSame ==
  ASSUME NEW b \in Field, NEW k \in Effect, NEW dest \in Unit, NEW src
  PROVE  Same(b, Cast(b, k, dest, src))
BY AddEffectSame, NumberAssumption DEF Cast

LEMMA SwitchUnitSame ==
  ASSUME NEW b \in Field, NEW to \in Unit PROVE Same(b, SwitchUnit(b, to))
BY AbortAction, Owners DEF SwitchUnit, Same, Field

LEMMA CooldownDecreaseSame ==
  ASSUME NEW b \in Field, NEW pl PROVE Same(b, CooldownDecrease(b, pl))
<1> DEFINE cool == [u \in Unit |-> [i \in MoveIndex |->
                      IF Owner(u) = pl /\ ~Vanished(b.st[u]) /\ b.cool[u][i] > 0
                        THEN b.cool[u][i] - 1 ELSE b.cool[u][i]]]
<1>1. cool \in [Unit -> [MoveIndex -> Nat]] BY DEF Field
<1> HIDE DEF cool
<1>2. CooldownDecrease(b, pl) = [b EXCEPT !.cool = cool] BY DEF CooldownDecrease, cool
<1> QED BY <1>1, <1>2 DEF Same, Field

LEMMA EffectRoundDecreaseSame ==
  ASSUME NEW b \in Field PROVE Same(b, EffectRoundDecrease(b))
<1> DEFINE eff == [u \in Unit |-> [k \in Effect |->
                     IF b.eff[u][k] > 0 THEN b.eff[u][k] - 1 ELSE b.eff[u][k]]]
<1>1. eff \in [Unit -> [Effect -> Int]] BY DEF Field
<1> HIDE DEF eff
<1>2. EffectRoundDecrease(b) = [b EXCEPT !.eff = eff] BY DEF EffectRoundDecrease, eff
<1> QED BY <1>1, <1>2 DEF Same, Field

-----------------------------------------------------------------------------
(* The operations that let units fall.                                     *)

LEMMA VanishOk ==
  ASSUME NEW b \in Field, NEW u \in Unit PROVE Ok(b, Vanish(b, u))
<1>1. CASE b.st[u] # "FAILED" BY <1>1, OkReflexive DEF Vanish
<1>2. CASE b.st[u] = "FAILED"
  <2>1. Wiped(b.eff[u], "VANISHED") \in [Effect -> Int] BY WipedType DEF Field
  <2> QED BY <1>2, <2>1 DEF Vanish, Ok, Falls, Field, State
<1> QED BY <1>1, <1>2

LEMMA UpdateStateOk ==
  ASSUME NEW b \in Field, NEW pl PROVE Ok(b, UpdateState(b, pl))
<1> DEFINE st == [u \in Unit |-> IF Owner(u) = pl /\ Alive(b.st[u])
                                   THEN Condition(b, u) ELSE b.st[u]]
<1>1. st \in [Unit -> State] BY ConditionAlive DEF Field
<1>2. ASSUME NEW u \in Unit PROVE Falls(b.st[u], st[u])
  BY ConditionAlive DEF Falls, Alive
<1> HIDE DEF st
<1>3. UpdateState(b, pl) = [b EXCEPT !.st = st] BY DEF UpdateState, st
<1> QED BY <1>1, <1>2, <1>3 DEF Ok, Field

LEMMA KillOk ==
  ASSUME NEW b \in Field, NEW u \in Unit PROVE Ok(b, Kill(b, u))
<1> DEFINE c == Fail(b, {u})
<1>1. Ok(b, b) BY OkReflexive
<1>2. Ok(b, c) BY FailOk
<1>3. Ok(b, [c EXCEPT !.eff[u]["perish_song"] = -1])
  <2> HIDE DEF c
  <2>1. Same(c, [c EXCEPT !.eff[u]["perish_song"] = -1])
    BY <1>2, SetEffectSame, EffectNames DEF Ok
  <2> QED BY <1>2, <2>1, SameOk, OkTransitive DEF Ok
<1> QED BY <1>1, <1>2, <1>3 DEF Kill

LEMMA DamageOk ==
  ASSUME NEW b \in Field, NEW u \in Unit, NEW d \in Nat PROVE Ok(b, Damage(b, u, d))
<1> DEFINE left == IF d < b.hp[u] THEN b.hp[u] - d ELSE 0
           c    == [b EXCEPT !.hp[u] = left]
<1>1. Ok(b, b) BY OkReflexive
<1>2. Same(b, c)
  <2>1. left \in 0 .. MaxHp BY NumberAssumption DEF Field
  <2> HIDE DEF left
  <2> QED BY <2>1 DEF Same, Field
<1>3. Damage(b, u, d) = IF ~Alive(b.st[u]) THEN b ELSE Kill(c, u)
  BY DEF Damage, Field
<1> HIDE DEF c
<1>4. Ok(b, Kill(c, u)) BY <1>2, SameOk, KillOk, OkTransitive DEF Same
<1> QED BY <1>1, <1>3, <1>4

LEMMA ReapFadingOk == ASSUME NEW b \in Field PROVE Ok(b, ReapFading(b))
<1> DEFINE fading == {u \in Unit : b.st[u] = "FADING"}
           early  == {u \in fading : Index(u) <= Index(b.front[Owner(u)])}
           c      == Fail(b, early)
<1>1. Ok(b, c) BY FailOk
<1>2. Ok(c, Fail(c, fading \ early)) BY <1>1, FailOk DEF Ok
<1>3. Ok(b, Fail(c, fading \ early)) BY <1>1, <1>2, OkTransitive
<1> QED BY <1>3 DEF ReapFading

LEMMA RoundEndEffectsOk ==
  ASSUME NEW b \in Field, NEW d \in Nat PROVE Ok(b, RoundEndEffects(b, d))
<1> DEFINE hurt == {u \in Unit : b.eff[u]["cursed"] # 0 /\ Alive(b.st[u])}
           left == [u \in Unit |-> IF u \notin hurt THEN b.hp[u]
                                   ELSE IF d < b.hp[u] THEN b.hp[u] - d ELSE 0]
           dead == {u \in hurt : left[u] = 0 /\ b.eff[u]["absolutely_immortal"] = 0}
           a    == [b EXCEPT !.hp = left]
           c    == Fail(a, dead)
           eff  == [u \in Unit |-> IF u \in dead /\ c.eff[u]["perish_song"] # 0
                                     THEN [c.eff[u] EXCEPT !["perish_song"] = -1]
                                     ELSE c.eff[u]]
<1>1. left \in [Unit -> 0 .. MaxHp] BY NumberAssumption DEF Field
<1>2. Same(b, a)
  <2> HIDE DEF left
  <2> QED BY <1>1 DEF Same, Field
<1> HIDE DEF a, dead
<1>3. Ok(b, c) BY <1>2, SameOk, FailOk, OkTransitive DEF Same
<1> HIDE DEF c
<1>4. eff \in [Unit -> [Effect -> Int]]
  <2>1. c.eff \in [Unit -> [Effect -> Int]] BY <1>3 DEF Ok, Field
  <2>2. \A u \in Unit : [c.eff[u] EXCEPT !["perish_song"] = -1] \in [Effect -> Int]
    BY <2>1, SetEffectType, EffectNames
  <2> QED BY <2>1, <2>2
<1> HIDE DEF eff
<1>5. Same(c, [c EXCEPT !.eff = eff]) BY <1>3, <1>4 DEF Ok, Same, Field
<1>6. Ok(b, [c EXCEPT !.eff = eff]) BY <1>3, <1>5, SameOk, OkTransitive DEF Ok
<1>7. RoundEndEffects(b, d) = [c EXCEPT !.eff = eff]
  BY DEF RoundEndEffects, c, eff, dead, a
<1> QED BY <1>6, <1>7

-----------------------------------------------------------------------------
(* Striking down with a roar, reviving and going back.                     *)

Roared(b, c, t) ==
  /\ c \in Field
  /\ c.st = [b.st EXCEPT ![t] = "FREEZING_ROARINGED"]
  /\ c.hist = RoarHistory(b, t)

Revived(b, c) ==
  /\ c \in Field
  /\ c.hist = b.hist
  /\ \A u \in Unit : c.st[u] = b.st[u] \/ (b.st[u] = "FAILED" /\ Alive(c.st[u]))

BackTo(b, c) ==
  /\ c \in Field
  /\ c.hist = b.hist
  /\ \E i \in DOMAIN b.hist : c.st = b.hist[i].st

(* What an action may turn field b into.                                   *)
Outcome(b, c) ==
  Ok(b, c) \/ Revived(b, c) \/ BackTo(b, c) \/ \E t \in Unit : Roared(b, c, t)

LEMMA OutcomeField == ASSUME NEW b, NEW c, Outcome(b, c) PROVE c \in Field
BY DEF Outcome, Ok, Revived, BackTo, Roared

LEMMA SameOutcome ==
  ASSUME NEW b, NEW c, NEW d, Same(b, c), Outcome(c, d) PROVE Outcome(b, d)
<1>1. b.st = c.st /\ b.hist = c.hist BY DEF Same
<1>2. \A t : Roared(c, d, t) => Roared(b, d, t) BY <1>1 DEF Roared, RoarHistory
<1>3. Ok(c, d) => Ok(b, d) BY <1>1 DEF Ok
<1>4. Revived(c, d) => Revived(b, d) BY <1>1 DEF Revived
<1>5. BackTo(c, d) => BackTo(b, d) BY <1>1 DEF BackTo
<1> QED BY <1>2, <1>3, <1>4, <1>5 DEF Outcome

LEMMA OutcomeSame ==
  ASSUME NEW b, NEW c, NEW d, Outcome(b, c), Same(c, d) PROVE Outcome(b, d)
<1>1. d.st = c.st /\ d.hist = c.hist /\ d \in Field BY DEF Same
<1> QED BY <1>1 DEF Outcome, Ok, Revived, BackTo, Roared

LEMMA NoEffectType == [k \in Effect |-> 0] \in [Effect -> Int]
OBVIOUS

LEMMA RoarSnapshotType ==
  ASSUME NEW h \in Snapshot, NEW u \in Unit PROVE RoarSnapshot(h, u) \in Snapshot
<1>1. "FREEZING_ROARINGED" \in State BY DEF State
<1> QED BY <1>1, NoEffectType DEF RoarSnapshot, Snapshot

LEMMA RoarHistoryType ==
  ASSUME NEW b \in Field, NEW u \in Unit PROVE RoarHistory(b, u) \in Seq(Snapshot)
<1>1. b.hist \in Seq(Snapshot) BY DEF Field
<1>2. Len(b.hist) \in Nat /\ DOMAIN b.hist = 1 .. Len(b.hist) BY <1>1
<1>3. RoarHistory(b, u) \in [1 .. Len(b.hist) -> Snapshot]
  BY <1>1, <1>2, RoarSnapshotType DEF RoarHistory
<1> QED BY <1>2, <1>3, SeqDef

LEMMA RoarDownOutcome ==
  ASSUME NEW b \in Field, NEW u \in Unit PROVE Outcome(b, RoarDown(b, u))
<1> DEFINE act == [pl \in Player |-> IF b.front[pl] = u THEN Abort ELSE b.action[pl]]
           st  == [b.st EXCEPT ![u] = "FREEZING_ROARINGED"]
           eff == [b.eff EXCEPT ![u] = [k \in Effect |-> 0]]
           hist == RoarHistory(b, u)
<1>1. CASE b.st[u] = "FREEZING_ROARINGED"
  BY <1>1, OkReflexive DEF RoarDown, Outcome
<1>2. CASE b.st[u] # "FREEZING_ROARINGED"
  <2>1. act \in [Player -> Action] BY AbortAction DEF Field
  <2>2. hist \in Seq(Snapshot) BY RoarHistoryType
  <2>3. st \in [Unit -> State] BY DEF State, Field
  <2>4. eff \in [Unit -> [Effect -> Int]] BY NoEffectType DEF Field
  <2>5. RoarDown(b, u) = [b EXCEPT !.hist = hist, !.action = act, !.st = st, !.eff = eff]
    BY <1>2 DEF RoarDown, Field
  <2> HIDE DEF act, st, eff, hist
  <2>6. /\ RoarDown(b, u) \in Field
        /\ RoarDown(b, u).st = st
        /\ RoarDown(b, u).hist = hist
    BY <2>1, <2>2, <2>3, <2>4, <2>5 DEF Field
  <2>7. Roared(b, RoarDown(b, u), u) BY <2>6 DEF Roared, st, hist
  <2> QED BY <2>7 DEF Outcome
<1> QED BY <1>1, <1>2

LEMMA ReviveRevived ==
  ASSUME NEW b \in Field, NEW U, NEW hp \in [Unit -> 0 .. MaxHp],
         \A u \in U : b.st[u] = "FAILED"
  PROVE  Revived(b, Revive(b, U, hp))
<1> DEFINE back == {u \in U : ~Alive(b.st[u]) /\ ~Vanished(b.st[u])}
           st  == [u \in Unit |-> IF u \in back THEN Condition(b, u) ELSE b.st[u]]
           left == [u \in Unit |-> IF u \in back THEN hp[u] ELSE b.hp[u]]
<1>1. st \in [Unit -> State] BY ConditionAlive DEF Field
<1>2. left \in [Unit -> 0 .. MaxHp] BY DEF Field
<1>3. \A u \in Unit : st[u] = b.st[u] \/ (b.st[u] = "FAILED" /\ Alive(st[u]))
  BY ConditionAlive
<1> HIDE DEF st, left
<1>4. Revive(b, U, hp) = [b EXCEPT !.st = st, !.hp = left] BY DEF Revive, st, left
<1> QED BY <1>1, <1>2, <1>3, <1>4 DEF Revived, Field

LEMMA HistoryAddType ==
  ASSUME NEW b \in Field
  PROVE  /\ HistoryAdd(b) \in Field
         /\ HistoryAdd(b).st = b.st
         /\ \E h \in Snapshot : h.st = b.st /\ HistoryAdd(b).hist = Append(b.hist, h)
<1> DEFINE h == [st |-> b.st, hp |-> b.hp, eff |-> b.eff, cool |-> b.cool,
                 front |-> b.front]
<1>1. h \in Snapshot /\ h.st = b.st BY DEF Field, Snapshot
<1> HIDE DEF h
<1>2. HistoryAdd(b) = [b EXCEPT !.hist = Append(b.hist, h)] BY DEF HistoryAdd, h
<1>3. Append(b.hist, h) \in Seq(Snapshot) BY <1>1 DEF Field
<1> QED BY <1>1, <1>2, <1>3 DEF Field

-----------------------------------------------------------------------------
(* The moves.                                                              *)

(* An operation that is Ok, or leaves the states alone, after one that is. *)
LEMMA OkThenSame ==
  ASSUME NEW b \in Field, NEW c, NEW d, Ok(b, c), Same(c, d) PROVE Ok(b, d)
<1>1. c \in Field BY DEF Ok
<1> QED BY <1>1, SameOk, OkTransitive

LEMMA AttackOk ==
  ASSUME NEW b \in Field, NEW t \in Unit, NEW x \in Miss(b, t) \cup Hit(b, t)
  PROVE  Ok(b, x)
<1>1. CASE x \in Miss(b, t) BY <1>1, OkReflexive DEF Miss
<1>2. CASE x \in Hit(b, t)
  <2>1. PICK d \in 1 .. MaxHp : x = Damage(b, t, d) BY <1>2 DEF Hit
  <2>2. d \in Nat BY NumberAssumption
  <2> QED BY <2>1, <2>2, DamageOk
<1> QED BY <1>1, <1>2

LEMMA NormalAttackOk ==
  ASSUME NEW b \in Field, NEW s \in Unit, NEW x \in NormalAttack(b, s) PROVE Ok(b, x)
BY Owners, AttackOk DEF NormalAttack

LEMMA PerishSongOk ==
  ASSUME NEW b \in Field, NEW s \in Unit, NEW i \in MoveIndex, NEW x \in PerishSong(b, s, i)
  PROVE  Ok(b, x)
<1> DEFINE t == Osite(b, s)
           a == Cast(b, "perish_song", t, s)
           c == Cast(a, "perish_song", s, s)
<1>1. t \in Unit BY Owners
<1>2. Same(b, a) BY <1>1, CastSame, EffectNames
<1>3. Same(a, c) BY <1>2, CastSame, EffectNames DEF Same
<1>4. Ok(b, c) /\ c \in Field BY <1>2, <1>3, SameTransitive, SameOk DEF Same
<1>5. PICK y \in Miss(c, t) \cup Hit(c, t) : x = SetCooldown(y, s, i)
  BY DEF PerishSong
<1>6. Ok(b, y) /\ y \in Field BY <1>1, <1>4, <1>5, AttackOk, OkTransitive DEF Ok
<1> QED BY <1>5, <1>6, SetCooldownSame, OkThenSame

LEMMA DmtsImpactOk ==
  ASSUME NEW b \in Field, NEW s \in Unit, NEW i \in MoveIndex, NEW x \in DmtsImpact(b, s, i)
  PROVE  Ok(b, x)
<1> DEFINE t == Osite(b, s)
<1>1. t \in Unit BY Owners
<1>2. CASE x \in Miss(b, t) BY <1>1, <1>2, AttackOk
<1>3. ASSUME NEW y \in Hit(b, t), NEW n \in 1 .. Rounds["stunned"],
             x = SetCooldown(AddEffect(y, "stunned", t, s, n), s, i)
      PROVE  Ok(b, x)
  <2>1. Ok(b, y) /\ y \in Field BY <1>1, AttackOk DEF Ok
  <2>2. n \in Int BY NumberAssumption, EffectNames
  <2>3. Same(y, AddEffect(y, "stunned", t, s, n)) BY <1>1, <2>1, <2>2, AddEffectSame, EffectNames
  <2>4. Same(AddEffect(y, "stunned", t, s, n), x) BY <1>3, <2>3, SetCooldownSame DEF Same
  <2> QED BY <2>1, <2>3, <2>4, OkThenSame
<1> QED BY <1>2, <1>3 DEF DmtsImpact

LEMMA SteelFlywheelOk ==
  ASSUME NEW b \in Field, NEW s \in Unit, NEW i \in MoveIndex,
         NEW x \in SteelFlywheel(b, s, i)
  PROVE  Ok(b, x)
<1> DEFINE t == Osite(b, s)
<1>1. t \in Unit BY Owners
<1>2. PICK z \in Miss(b, t) \cup {Cast(y, "cursed", t, s) : y \in Hit(b, t)} :
        x = SetCooldown(z, s, i)
  BY DEF SteelFlywheel
<1>3. Ok(b, z)
  <2>1. CASE z \in Miss(b, t) BY <1>1, <2>1, AttackOk
  <2>2. ASSUME NEW y \in Hit(b, t), z = Cast(y, "cursed", t, s) PROVE Ok(b, z)
    <3>1. Ok(b, y) /\ y \in Field BY <1>1, AttackOk DEF Ok
    <3>2. Same(y, z) BY <1>1, <2>2, <3>1, CastSame, EffectNames
    <3> QED BY <3>1, <3>2, OkThenSame
  <2> QED BY <1>2, <2>1, <2>2
<1>4. Same(z, x) BY <1>2, <1>3, SetCooldownSame DEF Ok
<1> QED BY <1>3, <1>4, OkThenSame

LEMMA RedLotusOk ==
  ASSUME NEW b \in Field, NEW s \in Unit, NEW x \in RedLotus(b, s) PROVE Ok(b, x)
<1> DEFINE t == Osite(b, s)
<1>1. t \in Unit BY Owners
<1>2. CASE x \in Miss(b, t) BY <1>1, <1>2, AttackOk
<1>3. ASSUME NEW y \in Hit(b, t), NEW d \in {0, 1},
             x = Damage(Cast(y, "reduced", t, s), s, d)
      PROVE  Ok(b, x)
  <2>1. Ok(b, y) /\ y \in Field BY <1>1, AttackOk DEF Ok
  <2>2. Same(y, Cast(y, "reduced", t, s)) BY <1>1, <2>1, CastSame, EffectNames
  <2>3. Ok(b, Cast(y, "reduced", t, s)) BY <2>1, <2>2, OkThenSame
  <2>4. Ok(Cast(y, "reduced", t, s), x) BY <1>3, <2>2, DamageOk DEF Same
  <2> QED BY <2>3, <2>4, OkTransitive
<1> QED BY <1>2, <1>3 DEF RedLotus

LEMMA AbsolutelyImmortalOk ==
  ASSUME NEW b \in Field, NEW s \in Unit, NEW i \in MoveIndex,
         NEW x \in AbsolutelyImmortal(b, s, i)
  PROVE  Ok(b, x)
<1>1. Same(b, Cast(b, "absolutely_immortal", s, s)) BY CastSame, EffectNames
<1>2. Same(Cast(b, "absolutely_immortal", s, s), x)
  BY <1>1, SetCooldownSame DEF Same, AbsolutelyImmortal
<1> QED BY <1>1, <1>2, SameTransitive, SameOk

LEMMA PlasmatizingLightcannonOk ==
  ASSUME NEW b \in Field, NEW s \in Unit, NEW i \in MoveIndex,
         NEW x \in PlasmatizingLightcannon(b, s, i)
  PROVE  Ok(b, x)
<1> DEFINE t == Osite(b, s)
           c == Damage(b, t, MaxHp)
           y == IF Alive(c.st[t]) THEN Cast(c, "suppressed", t, s) ELSE Vanish(c, t)
<1>1. t \in Unit BY Owners
<1>2. Ok(b, c) /\ c \in Field
  <2>1. MaxHp \in Nat BY NumberAssumption
  <2> QED BY <1>1, <2>1, DamageOk DEF Ok
<1> HIDE DEF c
<1>3. Ok(b, Cast(c, "suppressed", t, s))
  BY <1>1, <1>2, CastSame, EffectNames, OkThenSame
<1>4. Ok(b, Vanish(c, t)) BY <1>1, <1>2, VanishOk, OkTransitive
<1>5. Ok(b, y) BY <1>3, <1>4
<1>6. x = SetCooldown(y, s, i) BY DEF PlasmatizingLightcannon, c
<1> HIDE DEF y
<1>7. Same(y, x) BY <1>5, <1>6, SetCooldownSame DEF Ok
<1> QED BY <1>5, <1>7, OkThenSame

LEMMA PlainRoarOk ==
  ASSUME NEW b \in Field, NEW s \in Unit, NEW x \in PlainRoar(b, s) PROVE Ok(b, x)
<1> DEFINE t == Osite(b, s)
           slow == {Cast(y, "SPEED", t, s) : y \in Hit(b, t)}
<1>1. t \in Unit BY Owners
<1>2. PICK z \in Miss(b, t) \cup Hit(b, t) \cup slow : x = Cast(z, "ATK", s, s)
  BY DEF PlainRoar
<1>3. Ok(b, z)
  <2>1. CASE z \in Miss(b, t) \cup Hit(b, t) BY <1>1, <2>1, AttackOk
  <2>2. ASSUME NEW y \in Hit(b, t), z = Cast(y, "SPEED", t, s) PROVE Ok(b, z)
    <3>1. Ok(b, y) /\ y \in Field BY <1>1, AttackOk DEF Ok
    <3>2. Same(y, z) BY <1>1, <2>2, <3>1, CastSame, EffectNames
    <3> QED BY <3>1, <3>2, OkThenSame
  <2> QED BY <1>2, <2>1, <2>2
<1>4. Same(z, x) BY <1>2, <1>3, CastSame, EffectNames DEF Ok
<1> QED BY <1>3, <1>4, OkThenSame

LEMMA EnhancedRoarOutcome ==
  ASSUME NEW b \in Field, NEW s \in Unit, NEW i \in MoveIndex, NEW t \in Unit
  PROVE  Outcome(b, EnhancedRoar(b, s, i, t))
<1> DEFINE left == IF Alive(b.st[t]) THEN 0 ELSE b.hp[t]
           a == [b EXCEPT !.hp[t] = left]
           c == RoarDown(a, t)
           healed == [k \in Effect |-> IF k \in Negative THEN 0 ELSE c.eff[s][k]]
           winner == IF c.winner = Owner(t) THEN None ELSE c.winner
           d == [c EXCEPT !.eff[s] = healed, !.winner = winner, !.cool[s][i] = 0]
<1>1. Same(b, a)
  <2>1. left \in 0 .. MaxHp BY NumberAssumption DEF Field
  <2> HIDE DEF left
  <2> QED BY <2>1 DEF Same, Field
<1>2. EnhancedRoar(b, s, i, t) = d BY DEF EnhancedRoar, Field
<1> HIDE DEF a
<1>3. Outcome(a, c) BY <1>1, RoarDownOutcome DEF Same
<1> HIDE DEF c
<1>4. c \in Field BY <1>3, OutcomeField
<1>5. healed \in [Effect -> Int] BY <1>4 DEF Field
<1>6. winner \in Player \cup {None} BY <1>4 DEF Field
<1> HIDE DEF healed, winner
<1>7. Same(c, d)
  <2>1. [c.eff EXCEPT ![s] = healed] \in [Unit -> [Effect -> Int]] BY <1>4, <1>5 DEF Field
  <2>2. [c.cool EXCEPT ![s][i] = 0] \in [Unit -> [MoveIndex -> Nat]] BY <1>4 DEF Field
  <2> QED BY <1>4, <1>6, <2>1, <2>2 DEF Same, Field
<1> QED BY <1>1, <1>2, <1>3, <1>7, SameOutcome, OutcomeSame

LEMMA FreezingRoaringOutcome ==
  ASSUME NEW b \in Field, NEW s \in Unit, NEW i \in MoveIndex,
         NEW x \in FreezingRoaring(b, s, i)
  PROVE  Outcome(b, x)
<1>1. CASE ~HasNegative(b, s)
  BY <1>1, PlainRoarOk DEF FreezingRoaring, Outcome
<1>2. CASE HasNegative(b, s)
  <2>1. PICK aim \in UnitsOf(Enemy(Owner(s))) :
          x = EnhancedRoar(b, s, i, IF b.st[aim] = "FREEZING_ROARINGED"
                                      THEN Osite(b, s) ELSE aim)
    BY <1>2 DEF FreezingRoaring
  <2> DEFINE t == IF b.st[aim] = "FREEZING_ROARINGED" THEN Osite(b, s) ELSE aim
  <2>2. t \in Unit BY Owners DEF UnitsOf
  <2> HIDE DEF t
  <2>3. x = EnhancedRoar(b, s, i, t) BY <2>1 DEF t
  <2> QED BY <2>2, <2>3, EnhancedRoarOutcome
<1> QED BY <1>1, <1>2

(* Which snapshot time_back() and karma_reverse() look at.                 *)
LEMMA HistoryIndexType ==
  ASSUME NEW b \in Field, NEW span \in Nat, HistoryIndex(b, span) <= Len(b.hist)
  PROVE  /\ HistoryIndex(b, span) \in DOMAIN b.hist
         /\ b.hist[HistoryIndex(b, span)] \in Snapshot
<1>1. b.round \in Nat /\ b.hist \in Seq(Snapshot) BY DEF Field
<1>2. Len(b.hist) \in Nat /\ DOMAIN b.hist = 1 .. Len(b.hist) BY <1>1
<1>3. HistoryIndex(b, span) \in 1 .. Len(b.hist) BY <1>1, <1>2 DEF HistoryIndex
<1> QED BY <1>1, <1>2, <1>3

LEMMA BackBackTo ==
  ASSUME NEW b \in Field, NEW i \in DOMAIN b.hist, b.hist[i] \in Snapshot
  PROVE  BackTo(b, Back(b, b.hist[i]))
<1> DEFINE act == [pl \in Player |-> Abort]
           h == b.hist[i]
<1>1. act \in [Player -> Action] BY AbortAction
<1>2. /\ h.st \in [Unit -> State] /\ h.hp \in [Unit -> 0 .. MaxHp]
      /\ h.eff \in [Unit -> [Effect -> Int]] /\ h.cool \in [Unit -> [MoveIndex -> Nat]]
      /\ h.front \in [Player -> Unit]
  BY DEF Snapshot
<1>3. Back(b, h) = [b EXCEPT !.st = h.st, !.hp = h.hp, !.eff = h.eff, !.cool = h.cool,
                             !.front = h.front, !.action = act]
  BY DEF Back
<1> HIDE DEF act
<1>4. Back(b, h) \in Field BY <1>1, <1>2, <1>3 DEF Field
<1>5. Back(b, h).st = h.st /\ Back(b, h).hist = b.hist BY <1>3 DEF Field
<1> QED BY <1>4, <1>5 DEF BackTo

LEMMA TimeBackOutcome ==
  ASSUME NEW b \in Field, NEW s \in Unit, NEW i \in MoveIndex, NEW x \in TimeBack(b, s, i)
  PROVE  Outcome(b, x)
<1> DEFINE j == HistoryIndex(b, TimeBackSpan)
<1>1. CASE j > Len(b.hist) BY <1>1, OkReflexive DEF TimeBack, Outcome
<1>2. CASE ~(j > Len(b.hist)) /\ NoEffects(b)
  <2>1. x = [b EXCEPT !.stage = "CRASHED"] BY <1>2 DEF TimeBack
  <2>2. Same(b, x) BY <2>1 DEF Same, Field, Stage
  <2> QED BY <2>2, SameOk DEF Outcome
<1>3. CASE ~(j > Len(b.hist)) /\ ~NoEffects(b)
  <2>1. TimeBackSpan \in Nat /\ b.round \in Nat /\ Len(b.hist) \in Nat
    BY NumberAssumption DEF Field
  <2>2. j <= Len(b.hist) BY <1>3, <2>1 DEF HistoryIndex
  <2>3. BackTo(b, Back(b, b.hist[j])) BY <2>1, <2>2, HistoryIndexType, BackBackTo
  <2>4. x = SetCooldown(Back(b, b.hist[j]), s, i) BY <1>3 DEF TimeBack
  <2>5. Same(Back(b, b.hist[j]), x) BY <2>3, <2>4, SetCooldownSame DEF BackTo
  <2> QED BY <2>3, <2>5, OutcomeSame DEF Outcome
<1> QED BY <1>1, <1>2, <1>3

LEMMA KarmaReverseOutcome ==
  ASSUME NEW b \in Field, NEW s \in Unit, NEW i \in MoveIndex,
         NEW x \in KarmaReverse(b, s, i)
  PROVE  Outcome(b, x)
<1> DEFINE j == HistoryIndex(b, KarmaSpan)
           h == b.hist[j]
           up == {u \in Unit : b.st[u] = "FAILED" /\ h.st[u] # "FAILED"}
           c == Revive(b, up, h.hp)
           t == Osite(b, s)
           d == IF b.acted[Enemy(Owner(s))] THEN c ELSE Cast(c, "operation_denied", t, t)
<1>1. CASE j > Len(b.hist) BY <1>1, OkReflexive DEF KarmaReverse, Outcome
<1>2. CASE ~(j > Len(b.hist))
  <2>1. KarmaSpan \in Nat /\ b.round \in Nat /\ Len(b.hist) \in Nat
    BY NumberAssumption DEF Field
  <2>2. j <= Len(b.hist) BY <1>2, <2>1 DEF HistoryIndex
  <2>3. h.hp \in [Unit -> 0 .. MaxHp] BY <2>1, <2>2, HistoryIndexType DEF Snapshot
  <2>4. Revived(b, c) BY <2>3, ReviveRevived
  <2>5. x = SetCooldown(d, s, i) BY <1>2 DEF KarmaReverse
  <2> HIDE DEF c
  <2>6. t \in Unit BY Owners
  <2>7. Same(c, d)
    <3>1. Same(c, c) BY <2>4 DEF Same, Revived
    <3>2. Same(c, Cast(c, "operation_denied", t, t))
      BY <2>4, <2>6, CastSame, EffectNames DEF Revived
    <3> QED BY <3>1, <3>2
  <2> HIDE DEF d
  <2>8. Same(d, x) BY <2>5, <2>7, SetCooldownSame DEF Same
  <2> QED BY <2>4, <2>7, <2>8, OutcomeSame DEF Outcome
<1> QED BY <1>1, <1>2

(* Every move, and the way a player comes to use it.                       *)
LEMMA MoveActionOutcome ==
  ASSUME NEW b \in Field, NEW s \in Unit, NEW i \in MoveIndex, NEW x \in MoveAction(b, s, i)
  PROVE  Outcome(b, x)
<1>1. CASE Kit[s][i] = "freezing_roaring"
  BY <1>1, FreezingRoaringOutcome DEF MoveAction
<1>2. CASE Kit[s][i] = "time_back"
  BY <1>2, TimeBackOutcome DEF MoveAction
<1>3. CASE Kit[s][i] = "karma_reverse"
  BY <1>3, KarmaReverseOutcome DEF MoveAction
<1>4. CASE Kit[s][i] = "perish_song"
  BY <1>4, PerishSongOk DEF MoveAction, Outcome
<1>5. CASE Kit[s][i] = "dmts_impact"
  BY <1>5, DmtsImpactOk DEF MoveAction, Outcome
<1>6. CASE Kit[s][i] = "steel_flywheel"
  BY <1>6, SteelFlywheelOk DEF MoveAction, Outcome
<1>7. CASE Kit[s][i] = "red_lotus"
  BY <1>7, RedLotusOk DEF MoveAction, Outcome
<1>8. CASE Kit[s][i] = "absolutely_immortal"
  BY <1>8, AbsolutelyImmortalOk DEF MoveAction, Outcome
<1>9. CASE Kit[s][i] = "plasmatizing_lightcannon"
  BY <1>9, PlasmatizingLightcannonOk DEF MoveAction, Outcome
<1>10. CASE Kit[s][i] = "none"
  BY <1>10, OkReflexive DEF MoveAction, Outcome
<1>11. Kit[s][i] \in Move BY KitAssumption
<1> QED
  BY <1>1, <1>2, <1>3, <1>4, <1>5, <1>6, <1>7, <1>8, <1>9, <1>10, <1>11 DEF Move

LEMMA UnitMoveOutcome ==
  ASSUME NEW b \in Field, NEW s \in Unit, NEW i \in MoveIndex,
         NEW x \in UnitMove(b, s, i) \cup UnitMoveNonhookable(b, s, i)
  PROVE  Outcome(b, x)
BY OkReflexive, MoveActionOutcome DEF UnitMove, UnitMoveNonhookable, Outcome

(* Whatever a player does turns the field into one of the outcomes.        *)
THEOREM PlayerActionOutcome ==
  ASSUME NEW b \in Field, NEW pl \in Player, NEW x \in PlayerAction(b, pl)
  PROVE  Outcome(b, x)
<1> DEFINE f   == b.front[pl]
           act == b.action[pl]
<1>1. f \in Unit /\ act \in Action BY DEF Field
<1>2. Outcome(b, b) BY OkReflexive DEF Outcome
<1>3. ASSUME NEW y, Outcome(b, y), x = [y EXCEPT !.acted[pl] = TRUE]
      PROVE  Outcome(b, x)
  <2>1. y \in Field BY <1>3, OutcomeField
  <2>2. Same(y, x) BY <1>3, <2>1 DEF Same, Field
  <2> QED BY <1>3, <2>2, OutcomeSame
<1>4. CASE x = b BY <1>2, <1>4
<1>5. CASE x # b
  <2> DEFINE done == CASE Roars(b, pl) -> UnitMoveNonhookable(b, f, act.n)
                       [] ~Roars(b, pl) /\ act.kind = "move" -> UnitMove(b, f, act.n)
                       [] act.kind = "attack" -> NormalAttack(b, f)
                       [] act.kind = "unit"   -> {SwitchUnit(b, <<pl, act.n>>)}
                       [] OTHER               -> {b}
  <2>1. PICK y \in done : x = [y EXCEPT !.acted[pl] = TRUE]
    BY <1>5 DEF PlayerAction
  <2>2. Roars(b, pl) \/ CanAction2(b, pl, act)
    BY <1>5 DEF PlayerAction
  <2>3. CASE Roars(b, pl)
    <3>1. act.kind = "move" /\ act.n \in MoveIndex BY <2>3 DEF Roars, IfFr
    <3>2. y \in UnitMoveNonhookable(b, f, act.n) BY <2>1, <2>3, <3>1
    <3> QED BY <1>1, <1>3, <2>1, <3>1, <3>2, UnitMoveOutcome
  <2>4. CASE ~Roars(b, pl) /\ act.kind = "move"
    <3>1. act.n \in MoveIndex BY <2>2, <2>4 DEF CanAction2
    <3>2. y \in UnitMove(b, f, act.n) BY <2>1, <2>4
    <3> QED BY <1>1, <1>3, <2>1, <3>1, <3>2, UnitMoveOutcome
  <2>5. CASE ~Roars(b, pl) /\ act.kind = "attack"
    BY <1>1, <1>3, <2>1, <2>5, NormalAttackOk DEF Outcome
  <2>6. CASE ~Roars(b, pl) /\ act.kind = "unit"
    <3>1. <<pl, act.n>> \in Unit BY <2>2, <2>6 DEF CanAction2
    <3>2. y = SwitchUnit(b, <<pl, act.n>>) BY <2>1, <2>6
    <3> QED BY <1>3, <2>1, <3>1, <3>2, SwitchUnitSame, SameOk DEF Outcome
  <2>7. CASE ~Roars(b, pl) /\ act.kind \notin {"move", "attack", "unit"}
    BY <1>2, <1>3, <2>1, <2>7
  <2> QED BY <2>3, <2>4, <2>5, <2>6, <2>7
<1> QED BY <1>4, <1>5

-----------------------------------------------------------------------------
(***************************************************************************)
(* What the operations on the field do beside moving units from state to   *)
(* state: to the effects and hit points of the fallen, to the bearers of   *)
(* absolutely_immortal, to the actions that wait to be carried out, to the *)
(* winner, and to the denial of karma_reverse.                             *)
(***************************************************************************)

(* Unit u of field or snapshot h has nothing that the fallen may not have. *)
SoundUnit(h, u) ==
  /\ h.st[u] \in {"FADING", "FAILED", "VANISHED"} => h.hp[u] = 0
  /\ h.st[u] = "FAILED"  => \A k \in Effect \ Keep : h.eff[u][k] = 0
  /\ Vanished(h.st[u])   => \A k \in Effect : h.eff[u][k] = 0
  /\ h.st[u] = "FADING"  => h.eff[u]["absolutely_immortal"] = 0

(* u stands, and cannot be killed.                                         *)
Bears(b, u) == Alive(b.st[u]) /\ b.eff[u]["absolutely_immortal"] # 0

(* An effect accounts for the state of u.                                  *)
Synced(b, u) ==
  b.st[u] \in {"CONTROLLED", "SUPPRESSED"}
    => b.eff[u]["stunned"] # 0 \/ b.eff[u]["suppressed"] # 0

UnitCourse(b, c, u) ==
  /\ SoundUnit(b, u) => SoundUnit(c, u)
  /\ Bears(b, u) => Bears(c, u)
  /\ Synced(b, u) => Synced(c, u)
  /\ b.st[u] = "VANISHED" => c.st[u] = "VANISHED"

(* Whoever has a new front, or whose front fell, has nothing left to do.   *)
Pending(b, c) ==
  \A pl \in Player :
    \/ c.front[pl] = b.front[pl] /\ c.action[pl] \in {b.action[pl], Abort}
    \/ Owner(c.front[pl]) = pl /\ c.action[pl] = Abort

(* What c may be after an operation on b that neither roars nor rewinds:   *)
(* won holds the player it may make the winner, denied the rounds it may   *)
(* deny.                                                                   *)
Course(b, c, won, denied) ==
  /\ c \in Field
  /\ c.hist = b.hist /\ c.stage = b.stage /\ c.acted = b.acted
  /\ c.winner \in {b.winner} \cup won
  /\ \A u \in Unit : c.eff[u]["operation_denied"]
                       \in {0, b.eff[u]["operation_denied"]} \cup denied
  /\ \A u \in Unit : UnitCourse(b, c, u)
  /\ Pending(b, c)

(* Each front is one of its player's own units.                            *)
Led(h) == \A pl \in Player : Owner(h.front[pl]) = pl

LEMMA CourseReflexive ==
  ASSUME NEW b \in Field, NEW won, NEW denied PROVE Course(b, b, won, denied)
BY DEF Course, UnitCourse, Pending

LEMMA CourseField ==
  ASSUME NEW b, NEW c, NEW won, NEW denied, Course(b, c, won, denied)
  PROVE  c \in Field
BY DEF Course

LEMMA CourseTransitive ==
  ASSUME NEW b, NEW c, NEW d, NEW won, NEW denied,
         Course(b, c, won, denied), Course(c, d, won, denied)
  PROVE  Course(b, d, won, denied)
<1>1. /\ d \in Field /\ d.hist = b.hist /\ d.stage = b.stage /\ d.acted = b.acted
      /\ d.winner \in {b.winner} \cup won
  BY DEF Course
<1>2. ASSUME NEW u \in Unit
      PROVE  d.eff[u]["operation_denied"] \in {0, b.eff[u]["operation_denied"]} \cup denied
  <2>1. c.eff[u]["operation_denied"] \in {0, b.eff[u]["operation_denied"]} \cup denied
    BY DEF Course
  <2>2. d.eff[u]["operation_denied"] \in {0, c.eff[u]["operation_denied"]} \cup denied
    BY DEF Course
  <2> QED BY <2>1, <2>2
<1>3. ASSUME NEW u \in Unit PROVE UnitCourse(b, d, u)
  <2>1. UnitCourse(b, c, u) /\ UnitCourse(c, d, u) BY DEF Course
  <2> QED BY <2>1 DEF UnitCourse
<1>4. Pending(b, d)
  <2>1. Pending(b, c) /\ Pending(c, d) BY DEF Course
  <2> QED BY <2>1 DEF Pending
<1> QED BY <1>1, <1>2, <1>3, <1>4 DEF Course

LEMMA CourseWeaker ==
  ASSUME NEW b, NEW c, NEW won, NEW denied, Course(b, c, {}, {})
  PROVE  Course(b, c, won, denied)
BY DEF Course

LEMMA CourseLed ==
  ASSUME NEW b, NEW c, NEW won, NEW denied, Course(b, c, won, denied), Led(b)
  PROVE  Led(c)
BY DEF Course, Pending, Led

(* c differs from b in nothing that Course looks at.                       *)
Untouched(b, c) ==
  /\ c \in Field
  /\ c.st = b.st /\ c.hp = b.hp /\ c.eff = b.eff /\ c.hist = b.hist
  /\ c.front = b.front /\ c.action = b.action /\ c.acted = b.acted
  /\ c.stage = b.stage /\ c.winner = b.winner

LEMMA UntouchedCourse ==
  ASSUME NEW b, NEW c, NEW won, NEW denied, Untouched(b, c)
  PROVE  Course(b, c, won, denied)
BY DEF Untouched, Course, UnitCourse, SoundUnit, Bears, Synced, Pending

LEMMA SetCooldownUntouched ==
  ASSUME NEW b \in Field, NEW u \in Unit, NEW i \in MoveIndex
  PROVE  Untouched(b, SetCooldown(b, u, i))
BY SetCooldownSame DEF SetCooldown, Same, Untouched, Field

LEMMA CooldownDecreaseUntouched ==
  ASSUME NEW b \in Field, NEW pl PROVE Untouched(b, CooldownDecrease(b, pl))
<1> DEFINE cool == [u \in Unit |-> [i \in MoveIndex |->
                      IF Owner(u) = pl /\ ~Vanished(b.st[u]) /\ b.cool[u][i] > 0
                        THEN b.cool[u][i] - 1 ELSE b.cool[u][i]]]
<1>1. CooldownDecrease(b, pl) = [b EXCEPT !.cool = cool] BY DEF CooldownDecrease
<1>2. CooldownDecrease(b, pl) \in Field BY CooldownDecreaseSame DEF Same
<1> HIDE DEF cool
<1> QED BY <1>1, <1>2 DEF Untouched, Field

-----------------------------------------------------------------------------
(* The operations units fall by.                                           *)

(* What Fail leaves, field by field.                                       *)
LEMMA FailFields ==
  ASSUME NEW b \in Field, NEW U, NEW f, f = Fail(b, U)
  PROVE  /\ f \in Field
         /\ f.hist = b.hist /\ f.stage = b.stage /\ f.acted = b.acted
         /\ f.winner = b.winner /\ f.front = b.front /\ f.cool = b.cool
         /\ \A u \in Unit :
              IF u \notin U \/ ~AliveS(b.st[u])
                THEN f.hp[u] = b.hp[u] /\ f.st[u] = b.st[u] /\ f.eff[u] = b.eff[u]
              ELSE IF CheckFr(b, u)
                THEN f.hp[u] = 0 /\ f.st[u] = "FADING" /\ f.eff[u] = b.eff[u]
              ELSE f.hp[u] = 0 /\ f.st[u] = "FAILED" /\ f.eff[u] = Wiped(b.eff[u], "FAILED")
         /\ \A pl \in Player :
              f.action[pl] = IF /\ b.front[pl] \in U
                                /\ AliveS(b.st[b.front[pl]])
                                /\ ~CheckFr(b, b.front[pl])
                               THEN Abort ELSE b.action[pl]
BY FailOk DEF Fail, Ok, Field

LEMMA WipedValues ==
  ASSUME NEW e \in [Effect -> Int]
  PROVE  /\ \A k \in Effect \ Keep : Wiped(e, "FAILED")[k] = 0
         /\ \A k \in Effect \cap Keep : Wiped(e, "FAILED")[k] = e[k]
         /\ \A k \in Effect : Wiped(e, "VANISHED")[k] = 0
BY DEF Wiped, Vanished

(* Nobody fails who cannot be killed.                                      *)
LEMMA FailCourse ==
  ASSUME NEW b \in Field, NEW U,
         \A u \in U \cap Unit : b.st[u] = "FADING" \/ b.eff[u]["absolutely_immortal"] = 0
  PROVE  Course(b, Fail(b, U), {}, {})
<1> DEFINE f == Fail(b, U)
<1>1. b.eff \in [Unit -> [Effect -> Int]] /\ b.st \in [Unit -> State] BY DEF Field
<1> HIDE DEF f
<1>2. f = Fail(b, U) BY DEF f
<1>3. ASSUME NEW u \in Unit
      PROVE  /\ UnitCourse(b, f, u)
             /\ f.eff[u]["operation_denied"] \in {0, b.eff[u]["operation_denied"]}
  <2>1. CASE u \notin U \/ ~AliveS(b.st[u])
    <3>1. f.hp[u] = b.hp[u] /\ f.st[u] = b.st[u] /\ f.eff[u] = b.eff[u]
      BY <1>2, <2>1, FailFields
    <3> QED BY <3>1 DEF UnitCourse, SoundUnit, Bears, Synced
  <2>2. CASE u \in U /\ AliveS(b.st[u]) /\ CheckFr(b, u)
    <3>1. f.hp[u] = 0 /\ f.st[u] = "FADING" /\ f.eff[u] = b.eff[u]
      BY <1>2, <2>2, FailFields
    <3> QED BY <2>2, <3>1 DEF UnitCourse, SoundUnit, Bears, Synced, Vanished, Alive, AliveS
  <2>3. CASE u \in U /\ AliveS(b.st[u]) /\ ~CheckFr(b, u)
    <3>1. f.hp[u] = 0 /\ f.st[u] = "FAILED" /\ f.eff[u] = Wiped(b.eff[u], "FAILED")
      BY <1>2, <2>3, FailFields
    <3>2. \A k \in Effect \ Keep : f.eff[u][k] = 0
      BY <1>1, <3>1, WipedValues
    <3>3. "operation_denied" \in Effect \ Keep BY DEF Effect, Keep
    <3> QED
      BY <2>3, <3>1, <3>2, <3>3
      DEF UnitCourse, SoundUnit, Bears, Synced, Vanished, Alive, AliveS
  <2> QED BY <2>1, <2>2, <2>3
<1>4. Pending(b, f) BY <1>2, FailFields DEF Pending
<1>5. /\ f \in Field /\ f.hist = b.hist /\ f.stage = b.stage /\ f.acted = b.acted
      /\ f.winner = b.winner
  BY <1>2, FailFields
<1> QED BY <1>3, <1>4, <1>5 DEF Course, f

LEMMA VanishCourse ==
  ASSUME NEW b \in Field, NEW u \in Unit PROVE Course(b, Vanish(b, u), {}, {})
<1> DEFINE f == Vanish(b, u)
<1>1. CASE b.st[u] # "FAILED" BY <1>1, CourseReflexive DEF Vanish
<1>2. CASE b.st[u] = "FAILED"
  <2>1. f \in Field BY VanishOk DEF Ok
  <2>2. /\ f.hist = b.hist /\ f.stage = b.stage /\ f.acted = b.acted
        /\ f.winner = b.winner /\ f.front = b.front /\ f.action = b.action /\ f.hp = b.hp
    BY <1>2 DEF Vanish, Field
  <2>3. /\ f.st = [b.st EXCEPT ![u] = "VANISHED"]
        /\ f.eff = [b.eff EXCEPT ![u] = Wiped(b.eff[u], "VANISHED")]
    BY <1>2 DEF Vanish, Field
  <2>4. b.st \in [Unit -> State] /\ b.eff \in [Unit -> [Effect -> Int]] BY DEF Field
  <2> HIDE DEF f
  <2>5. ASSUME NEW v \in Unit, v # u PROVE f.st[v] = b.st[v] /\ f.eff[v] = b.eff[v]
    BY <2>3, <2>4, <2>5
  <2>6. f.st[u] = "VANISHED" /\ \A k \in Effect : f.eff[u][k] = 0
    BY <2>3, <2>4, WipedValues
  <2>7. ASSUME NEW v \in Unit
        PROVE  /\ UnitCourse(b, f, v)
               /\ f.eff[v]["operation_denied"] \in {0, b.eff[v]["operation_denied"]}
    <3>1. CASE v # u
      BY <2>2, <2>5, <3>1 DEF UnitCourse, SoundUnit, Bears, Synced
    <3>2. CASE v = u
      <4>1. UnitCourse(b, f, u)
        BY <1>2, <2>2, <2>6 DEF UnitCourse, SoundUnit, Bears, Synced, Alive
      <4>2. "operation_denied" \in Effect BY EffectNames
      <4> QED BY <2>6, <3>2, <4>1, <4>2
    <3> QED BY <3>1, <3>2
  <2>8. Pending(b, f) BY <2>2 DEF Pending
  <2>9. Course(b, f, {}, {}) BY <2>1, <2>2, <2>7, <2>8 DEF Course
  <2> QED BY <2>9 DEF f
<1> QED BY <1>1, <1>2

LEMMA SetEffectFields ==
  ASSUME NEW b \in Field, NEW u \in Unit, NEW k \in Effect, NEW n \in Int,
         NEW f, f = [b EXCEPT !.eff[u][k] = n]
  PROVE  /\ f \in Field
         /\ f.st = b.st /\ f.hp = b.hp /\ f.hist = b.hist /\ f.stage = b.stage
         /\ f.acted = b.acted /\ f.winner = b.winner /\ f.front = b.front
         /\ f.action = b.action /\ f.cool = b.cool
         /\ \A v \in Unit : v # u => f.eff[v] = b.eff[v]
         /\ f.eff[u][k] = n
         /\ \A j \in Effect : j # k => f.eff[u][j] = b.eff[u][j]
<1>1. f \in Field BY SetEffectSame DEF Same
<1>2. b.eff \in [Unit -> [Effect -> Int]] BY DEF Field
<1>3. /\ f.st = b.st /\ f.hp = b.hp /\ f.hist = b.hist /\ f.stage = b.stage
      /\ f.acted = b.acted /\ f.winner = b.winner /\ f.front = b.front
      /\ f.action = b.action /\ f.cool = b.cool
      /\ f.eff = [b.eff EXCEPT ![u][k] = n]
  BY DEF Field
<1>4. /\ \A v \in Unit : v # u => f.eff[v] = b.eff[v]
      /\ f.eff[u] = [b.eff[u] EXCEPT ![k] = n]
  BY <1>2, <1>3
<1>5. /\ f.eff[u][k] = n
      /\ \A j \in Effect : j # k => f.eff[u][j] = b.eff[u][j]
  BY <1>2, <1>4
<1> QED BY <1>1, <1>3, <1>4, <1>5

(* An effect that the failed keep, on a unit that may not yet have failed.  *)
LEMMA KeptEffectCourse ==
  ASSUME NEW b \in Field, NEW u \in Unit, b.st[u] \in {"FADING", "FAILED"},
         NEW k \in Keep, NEW n \in Int
  PROVE  Course(b, [b EXCEPT !.eff[u][k] = n], {}, {})
<1> DEFINE f == [b EXCEPT !.eff[u][k] = n]
<1>1. k \in Effect /\ k \notin {"operation_denied", "absolutely_immortal", "stunned",
                                "suppressed"}
  BY DEF Keep, Effect
<1> HIDE DEF f
<1>2. /\ f \in Field
      /\ f.st = b.st /\ f.hp = b.hp /\ f.hist = b.hist /\ f.stage = b.stage
      /\ f.acted = b.acted /\ f.winner = b.winner /\ f.front = b.front
      /\ f.action = b.action /\ f.cool = b.cool
      /\ \A v \in Unit : v # u => f.eff[v] = b.eff[v]
      /\ \A j \in Effect : j # k => f.eff[u][j] = b.eff[u][j]
  BY <1>1, SetEffectFields DEF f
<1>3. ASSUME NEW v \in Unit
      PROVE  /\ UnitCourse(b, f, v)
             /\ f.eff[v]["operation_denied"] \in {0, b.eff[v]["operation_denied"]}
  <2>1. CASE v # u
    BY <1>2, <2>1 DEF UnitCourse, SoundUnit, Bears, Synced
  <2>2. CASE v = u
    <3>1. /\ f.eff[u]["operation_denied"] = b.eff[u]["operation_denied"]
          /\ f.eff[u]["absolutely_immortal"] = b.eff[u]["absolutely_immortal"]
      BY <1>1, <1>2, EffectNames
    <3>2. UnitCourse(b, f, u)
      BY <1>2, <3>1 DEF UnitCourse, SoundUnit, Bears, Synced, Alive, Vanished
    <3> QED BY <2>2, <3>1, <3>2
  <2> QED BY <2>1, <2>2
<1>4. Pending(b, f) BY <1>2 DEF Pending
<1>5. Course(b, f, {}, {}) BY <1>2, <1>3, <1>4 DEF Course
<1> QED BY <1>5 DEF f

LEMMA KillCourse ==
  ASSUME NEW b \in Field, NEW u \in Unit PROVE Course(b, Kill(b, u), {}, {})
<1> DEFINE c == Fail(b, {u})
<1>1. CASE ~Alive(b.st[u]) \/ b.hp[u] # 0 \/ b.eff[u]["absolutely_immortal"] # 0
  BY <1>1, CourseReflexive DEF Kill
<1>2. CASE Alive(b.st[u]) /\ b.hp[u] = 0 /\ b.eff[u]["absolutely_immortal"] = 0
  <2>1. Course(b, c, {}, {}) BY <1>2, FailCourse
  <2>2. c \in Field BY FailFields
  <2>3. c.st[u] \in {"FADING", "FAILED"}
    BY <1>2, FailFields DEF AliveS
  <2>4. Kill(b, u) = IF c.eff[u]["perish_song"] = 0 THEN c
                     ELSE [c EXCEPT !.eff[u]["perish_song"] = -1]
    BY <1>2 DEF Kill
  <2> HIDE DEF c
  <2>5. Course(c, [c EXCEPT !.eff[u]["perish_song"] = -1], {}, {})
    <3>1. "perish_song" \in Keep /\ -1 \in Int BY DEF Keep
    <3> QED BY <2>2, <2>3, <3>1, KeptEffectCourse
  <2> QED BY <2>1, <2>4, <2>5, CourseTransitive
<1> QED BY <1>1, <1>2

(* Hit points taken from the standing.                                     *)
LEMMA HurtCourse ==
  ASSUME NEW b \in Field, NEW hp \in [Unit -> 0 .. MaxHp],
         \A u \in Unit : hp[u] = b.hp[u] \/ Alive(b.st[u])
  PROVE  Course(b, [b EXCEPT !.hp = hp], {}, {})
<1> DEFINE f == [b EXCEPT !.hp = hp]
<1>1. /\ f \in Field
      /\ f.st = b.st /\ f.eff = b.eff /\ f.hist = b.hist /\ f.stage = b.stage
      /\ f.acted = b.acted /\ f.winner = b.winner /\ f.front = b.front
      /\ f.action = b.action /\ f.hp = hp
  BY DEF Field
<1> HIDE DEF f
<1>2. \A u \in Unit : UnitCourse(b, f, u)
  BY <1>1 DEF UnitCourse, SoundUnit, Bears, Synced, Alive, Vanished
<1>3. Pending(b, f) BY <1>1 DEF Pending
<1>4. Course(b, f, {}, {}) BY <1>1, <1>2, <1>3 DEF Course
<1> QED BY <1>4 DEF f

LEMMA DamageCourse ==
  ASSUME NEW b \in Field, NEW u \in Unit, NEW d \in Nat
  PROVE  Course(b, Damage(b, u, d), {}, {})
<1> DEFINE left == [b.hp EXCEPT ![u] = IF d < b.hp[u] THEN b.hp[u] - d ELSE 0]
           c    == [b EXCEPT !.hp = left]
<1>1. CASE ~Alive(b.st[u]) BY <1>1, CourseReflexive DEF Damage
<1>2. CASE Alive(b.st[u])
  <2>1. left \in [Unit -> 0 .. MaxHp] BY NumberAssumption DEF Field
  <2>2. \A v \in Unit : left[v] = b.hp[v] \/ Alive(b.st[v])
    BY <1>2 DEF Field
  <2>3. Damage(b, u, d) = Kill(c, u) BY <1>2 DEF Damage, Field
  <2> HIDE DEF left
  <2>4. Course(b, c, {}, {}) BY <2>1, <2>2, HurtCourse
  <2> HIDE DEF c
  <2>5. Course(c, Kill(c, u), {}, {}) BY <2>4, KillCourse DEF Course
  <2> QED BY <2>3, <2>4, <2>5, CourseTransitive
<1> QED BY <1>1, <1>2

(* The bench before the front: who fades at a roar keeps fading no longer. *)
LEMMA ReapFadingCourse ==
  ASSUME NEW b \in Field PROVE Course(b, ReapFading(b), {}, {})
<1> DEFINE fading == {u \in Unit : b.st[u] = "FADING"}
           early  == {u \in fading : Index(u) <= Index(b.front[Owner(u)])}
           late   == fading \ early
           c      == Fail(b, early)
<1>1. Course(b, c, {}, {}) /\ c \in Field BY FailCourse, FailFields
<1>2. \A u \in late : c.st[u] = b.st[u] BY FailFields
<1>3. \A u \in late \cap Unit : c.st[u] = "FADING" BY <1>2
<1>4. ReapFading(b) = Fail(c, late) BY DEF ReapFading
<1> HIDE DEF c, late
<1>5. Course(c, Fail(c, late), {}, {}) BY <1>1, <1>3, FailCourse
<1> QED BY <1>1, <1>4, <1>5, CourseTransitive

-----------------------------------------------------------------------------
(* The operations that leave the states alone.                             *)

(* An effect is put on the standing; only `reduced' names a winner.        *)
LEMMA AddEffectCourse ==
  ASSUME NEW b \in Field, NEW k \in Effect, NEW dest \in Unit, NEW src,
         NEW n \in Int \ {0}, NEW won, NEW denied,
         k = "reduced" => Enemy(Owner(dest)) \in won,
         k = "operation_denied" => n \in denied
  PROVE  Course(b, AddEffect(b, k, dest, src, n), won, denied)
<1> DEFINE old == b.eff[dest][k]
           new == IF k \in Inits /\ old # 0 THEN old ELSE n
           f   == [b EXCEPT !.eff[dest][k] = new]
           refused == \/ ~Alive(b.st[dest])
                      \/ HasRoaring(dest) /\ Owner(src) = Owner(dest) /\ k \in Negative
<1>1. CASE refused BY <1>1, CourseReflexive DEF AddEffect
<1>2. CASE ~refused
  <2>1. Alive(b.st[dest]) BY <1>2
  <2>2. old \in Int BY DEF Field
  <2>3. new \in Int \ {0} BY <2>2
  <2>4. k \notin Inits => new = n OBVIOUS
  <2>5. AddEffect(b, k, dest, src, n) =
          IF k = "reduced" /\ AllReduced(f, Owner(dest))
            THEN SetWinner(f, Enemy(Owner(dest))) ELSE f
    BY <1>2 DEF AddEffect
  <2> HIDE DEF new, refused
  <2> HIDE DEF f
  <2>6. /\ f \in Field
        /\ f.st = b.st /\ f.hp = b.hp /\ f.hist = b.hist /\ f.stage = b.stage
        /\ f.acted = b.acted /\ f.winner = b.winner /\ f.front = b.front
        /\ f.action = b.action /\ f.cool = b.cool
        /\ \A v \in Unit : v # dest => f.eff[v] = b.eff[v]
        /\ f.eff[dest][k] = new
        /\ \A j \in Effect : j # k => f.eff[dest][j] = b.eff[dest][j]
    BY <2>3, SetEffectFields DEF f
  <2>7. ASSUME NEW v \in Unit
        PROVE  /\ UnitCourse(b, f, v)
               /\ f.eff[v]["operation_denied"]
                    \in {0, b.eff[v]["operation_denied"]} \cup denied
    <3>1. CASE v # dest
      BY <2>6, <3>1 DEF UnitCourse, SoundUnit, Bears, Synced
    <3>2. CASE v = dest
      <4>1. ASSUME NEW j \in Effect
            PROVE  f.eff[dest][j] = b.eff[dest][j] \/ (j = k /\ f.eff[dest][j] = new)
        BY <2>6
      <4>2. /\ f.eff[dest]["absolutely_immortal"] = 0
                 => b.eff[dest]["absolutely_immortal"] = 0
            /\ f.eff[dest]["stunned"] = 0 => b.eff[dest]["stunned"] = 0
            /\ f.eff[dest]["suppressed"] = 0 => b.eff[dest]["suppressed"] = 0
        BY <2>3, <4>1, EffectNames
      <4>3. UnitCourse(b, f, dest)
        BY <2>1, <2>6, <4>2 DEF UnitCourse, SoundUnit, Bears, Synced, Alive, Vanished
      <4>4. "operation_denied" \notin Inits BY DEF Inits
      <4>5. f.eff[dest]["operation_denied"]
              \in {0, b.eff[dest]["operation_denied"]} \cup denied
        BY <2>4, <4>1, <4>4, EffectNames
      <4> QED BY <3>2, <4>3, <4>5
    <3> QED BY <3>1, <3>2
  <2>8. Pending(b, f) BY <2>6 DEF Pending
  <2>9. Course(b, f, won, denied) BY <2>6, <2>7, <2>8 DEF Course
  <2>10. ASSUME k = "reduced"
         PROVE  Course(f, SetWinner(f, Enemy(Owner(dest))), won, denied)
    <3> DEFINE w == Enemy(Owner(dest))
               g == SetWinner(f, w)
    <3>1. w \in won /\ w \in Player BY <2>10, Owners
    <3> HIDE DEF w
    <3>2. /\ g \in Field
          /\ g.st = f.st /\ g.hp = f.hp /\ g.eff = f.eff /\ g.hist = f.hist
          /\ g.front = f.front /\ g.action = f.action /\ g.acted = f.acted
          /\ g.stage = f.stage /\ g.winner = w
      BY <2>6, <3>1 DEF SetWinner, Field
    <3> HIDE DEF g
    <3>3. Course(f, g, won, denied)
      BY <3>1, <3>2 DEF Course, UnitCourse, SoundUnit, Bears, Synced, Pending
    <3> QED BY <3>3 DEF g, w
  <2> QED BY <2>5, <2>9, <2>10, CourseTransitive
<1> QED BY <1>1, <1>2

LEMMA CastCourse ==
  ASSUME NEW b \in Field, NEW k \in Effect \ {"reduced", "operation_denied"},
         NEW dest \in Unit, NEW src
  PROVE  Course(b, Cast(b, k, dest, src), {}, {})
<1>1. Rounds[k] \in Int \ {0} BY NumberAssumption
<1> QED BY <1>1, AddEffectCourse DEF Cast

LEMMA SwitchUnitCourse ==
  ASSUME NEW b \in Field, NEW to \in Unit PROVE Course(b, SwitchUnit(b, to), {}, {})
<1> DEFINE f == SwitchUnit(b, to)
<1>1. CASE ~CanSwitch(b, to) BY <1>1, CourseReflexive DEF SwitchUnit
<1>2. CASE CanSwitch(b, to)
  <2>1. f \in Field BY SwitchUnitSame DEF Same
  <2>2. /\ f.st = b.st /\ f.hp = b.hp /\ f.hist = b.hist /\ f.stage = b.stage
        /\ f.acted = b.acted /\ f.winner = b.winner /\ f.eff = b.eff
        /\ f.action = [b.action EXCEPT ![Owner(to)] = Abort]
        /\ f.front = [b.front EXCEPT ![Owner(to)] = to]
    BY <1>2 DEF SwitchUnit, Field
  <2> HIDE DEF f
  <2>3. Pending(b, f) BY <2>2, Owners DEF Pending, Field
  <2>4. Course(b, f, {}, {})
    BY <2>1, <2>2, <2>3 DEF Course, UnitCourse, SoundUnit, Bears, Synced
  <2> QED BY <2>4 DEF f
<1> QED BY <1>1, <1>2

-----------------------------------------------------------------------------
(* The operations that compute states.                                     *)

LEMMA ConditionSynced ==
  ASSUME NEW b \in Field, NEW u \in Unit
  PROVE  Condition(b, u) \in {"CONTROLLED", "SUPPRESSED"}
           => b.eff[u]["stunned"] # 0 \/ b.eff[u]["suppressed"] # 0
BY DEF Condition

LEMMA UpdateStateFields ==
  ASSUME NEW b \in Field, NEW pl, NEW f, f = UpdateState(b, pl)
  PROVE  /\ f \in Field
         /\ f.hp = b.hp /\ f.eff = b.eff /\ f.hist = b.hist /\ f.stage = b.stage
         /\ f.acted = b.acted /\ f.winner = b.winner /\ f.front = b.front
         /\ f.action = b.action /\ f.cool = b.cool
         /\ \A u \in Unit : f.st[u] = IF Owner(u) = pl /\ Alive(b.st[u])
                                        THEN Condition(b, u) ELSE b.st[u]
BY UpdateStateOk DEF UpdateState, Ok, Field

LEMMA UpdateStateCourse ==
  ASSUME NEW b \in Field, NEW pl PROVE Course(b, UpdateState(b, pl), {}, {})
<1> DEFINE f == UpdateState(b, pl)
<1> HIDE DEF f
<1>1. /\ f \in Field
      /\ f.hp = b.hp /\ f.eff = b.eff /\ f.hist = b.hist /\ f.stage = b.stage
      /\ f.acted = b.acted /\ f.winner = b.winner /\ f.front = b.front
      /\ f.action = b.action
      /\ \A u \in Unit : f.st[u] = IF Owner(u) = pl /\ Alive(b.st[u])
                                     THEN Condition(b, u) ELSE b.st[u]
  BY UpdateStateFields DEF f
<1>2. ASSUME NEW u \in Unit PROVE UnitCourse(b, f, u)
  <2>1. CASE f.st[u] = b.st[u]
    BY <1>1, <2>1 DEF UnitCourse, SoundUnit, Bears, Synced
  <2>2. CASE f.st[u] = Condition(b, u)
    BY <1>1, <2>2, ConditionAlive, ConditionSynced
    DEF UnitCourse, SoundUnit, Bears, Synced, Alive, Vanished
  <2> QED BY <1>1, <2>1, <2>2
<1>3. Pending(b, f) BY <1>1 DEF Pending
<1>4. Course(b, f, {}, {}) BY <1>1, <1>2, <1>3 DEF Course
<1> QED BY <1>4 DEF f

LEMMA ReviveCourse ==
  ASSUME NEW b \in Field, NEW U, NEW hp \in [Unit -> 0 .. MaxHp],
         \A u \in U : b.st[u] = "FAILED"
  PROVE  Course(b, Revive(b, U, hp), {}, {})
<1> DEFINE f == Revive(b, U, hp)
           back == {u \in U : ~Alive(b.st[u]) /\ ~Vanished(b.st[u])}
           st  == [u \in Unit |-> IF u \in back THEN Condition(b, u) ELSE b.st[u]]
           left == [u \in Unit |-> IF u \in back THEN hp[u] ELSE b.hp[u]]
<1>1. ASSUME NEW u \in Unit
      PROVE  \/ st[u] = b.st[u] /\ left[u] = b.hp[u]
             \/ st[u] = Condition(b, u) /\ b.st[u] = "FAILED"
  <2>1. u \in back => b.st[u] = "FAILED" OBVIOUS
  <2> HIDE DEF back
  <2>2. CASE u \in back BY <2>1, <2>2
  <2>3. CASE u \notin back BY <2>3
  <2> QED BY <2>2, <2>3
<1>2. f = [b EXCEPT !.st = st, !.hp = left] BY DEF Revive
<1>3. f \in Field BY ReviveRevived DEF Revived
<1> HIDE DEF f, st, left
<1>4. /\ f \in Field
      /\ f.eff = b.eff /\ f.hist = b.hist /\ f.stage = b.stage
      /\ f.acted = b.acted /\ f.winner = b.winner /\ f.front = b.front
      /\ f.action = b.action
      /\ \A u \in Unit :
           \/ f.st[u] = b.st[u] /\ f.hp[u] = b.hp[u]
           \/ f.st[u] = Condition(b, u) /\ b.st[u] = "FAILED"
  BY <1>1, <1>2, <1>3 DEF Field
<1>5. ASSUME NEW u \in Unit PROVE UnitCourse(b, f, u)
  <2>1. CASE f.st[u] = b.st[u] /\ f.hp[u] = b.hp[u]
    BY <1>4, <2>1 DEF UnitCourse, SoundUnit, Bears, Synced
  <2>2. CASE f.st[u] = Condition(b, u) /\ b.st[u] = "FAILED"
    BY <1>4, <2>2, ConditionAlive, ConditionSynced
    DEF UnitCourse, SoundUnit, Bears, Synced, Alive, Vanished
  <2> QED BY <1>4, <2>1, <2>2
<1>6. Pending(b, f) BY <1>4 DEF Pending
<1>7. Course(b, f, {}, {}) BY <1>4, <1>5, <1>6 DEF Course
<1> QED BY <1>7 DEF f

(* The curses: perish_song stays, permanent, on those who die of them.     *)
LEMMA RoundEndEffectsCourse ==
  ASSUME NEW b \in Field, NEW d \in Nat
  PROVE  Course(b, RoundEndEffects(b, d), {}, {})
<1> DEFINE hurt == {u \in Unit : b.eff[u]["cursed"] # 0 /\ Alive(b.st[u])}
           left == [u \in Unit |-> IF u \notin hurt THEN b.hp[u]
                                   ELSE IF d < b.hp[u] THEN b.hp[u] - d ELSE 0]
           dead == {u \in hurt : left[u] = 0 /\ b.eff[u]["absolutely_immortal"] = 0}
           a    == [b EXCEPT !.hp = left]
           c    == Fail(a, dead)
           eff  == [u \in Unit |-> IF u \in dead /\ c.eff[u]["perish_song"] # 0
                                     THEN [c.eff[u] EXCEPT !["perish_song"] = -1]
                                     ELSE c.eff[u]]
           f    == [c EXCEPT !.eff = eff]
<1>1. left \in [Unit -> 0 .. MaxHp] BY NumberAssumption DEF Field
<1>2. \A u \in Unit : left[u] = b.hp[u] \/ Alive(b.st[u]) OBVIOUS
<1>3. \A u \in dead : /\ u \in Unit
                      /\ Alive(b.st[u])
                      /\ b.eff[u]["absolutely_immortal"] = 0
  OBVIOUS
<1> HIDE DEF left, hurt
<1>4. Course(b, a, {}, {}) /\ a \in Field BY <1>1, <1>2, HurtCourse DEF Course
<1>5. a.st = b.st /\ a.eff = b.eff BY DEF Field
<1>6. RoundEndEffects(b, d) = f BY DEF RoundEndEffects, left, hurt
<1> HIDE DEF a, dead
<1>7. Course(a, c, {}, {}) /\ c \in Field BY <1>3, <1>4, <1>5, FailCourse DEF Course
<1>8. \A u \in dead : c.st[u] \in {"FADING", "FAILED"}
  BY <1>3, <1>4, <1>5, FailFields DEF AliveS
<1> HIDE DEF c
<1>9. c.eff \in [Unit -> [Effect -> Int]] BY <1>7 DEF Field
<1>10. ASSUME NEW u \in Unit
       PROVE  \/ eff[u] = c.eff[u]
              \/ /\ c.st[u] \in {"FADING", "FAILED"}
                 /\ \A k \in Effect : k # "perish_song" => eff[u][k] = c.eff[u][k]
  BY <1>8, <1>9
<1>11. eff \in [Unit -> [Effect -> Int]]
  <2>1. \A u \in Unit : [c.eff[u] EXCEPT !["perish_song"] = -1] \in [Effect -> Int]
    BY <1>9, SetEffectType, EffectNames
  <2> QED BY <1>9, <2>1
<1> HIDE DEF eff
<1>12. /\ f \in Field
       /\ f.st = c.st /\ f.hp = c.hp /\ f.hist = c.hist /\ f.stage = c.stage
       /\ f.acted = c.acted /\ f.winner = c.winner /\ f.front = c.front
       /\ f.action = c.action /\ f.eff = eff
  BY <1>7, <1>11 DEF Field
<1> HIDE DEF f
<1>13. ASSUME NEW u \in Unit
       PROVE  /\ UnitCourse(c, f, u)
              /\ f.eff[u]["operation_denied"] \in {0, c.eff[u]["operation_denied"]}
  <2>1. CASE eff[u] = c.eff[u]
    BY <1>12, <2>1 DEF UnitCourse, SoundUnit, Bears, Synced
  <2>2. CASE /\ c.st[u] \in {"FADING", "FAILED"}
             /\ \A k \in Effect : k # "perish_song" => eff[u][k] = c.eff[u][k]
    <3>1. "perish_song" \in Keep BY DEF Keep
    <3>2. /\ f.eff[u]["operation_denied"] = c.eff[u]["operation_denied"]
          /\ f.eff[u]["absolutely_immortal"] = c.eff[u]["absolutely_immortal"]
      BY <1>12, <2>2, EffectNames
    <3>3. UnitCourse(c, f, u)
      BY <1>12, <2>2, <3>1, <3>2 DEF UnitCourse, SoundUnit, Bears, Synced, Alive, Vanished
    <3> QED BY <3>2, <3>3
  <2> QED BY <1>10, <2>1, <2>2
<1>14. Pending(c, f) BY <1>12 DEF Pending
<1>15. Course(c, f, {}, {}) BY <1>12, <1>13, <1>14 DEF Course
<1> QED BY <1>4, <1>6, <1>7, <1>15, CourseTransitive

-----------------------------------------------------------------------------
(* The moves: unit s of player pl uses slot i.                             *)

LEMMA CourseThen ==
  ASSUME NEW b, NEW c, NEW d, NEW won, NEW denied,
         Course(b, c, won, denied), Course(c, d, {}, {})
  PROVE  Course(b, d, won, denied)
BY CourseWeaker, CourseTransitive

LEMMA ThenCooldownCourse ==
  ASSUME NEW b, NEW c, NEW s \in Unit, NEW i \in MoveIndex, NEW won, NEW denied,
         Course(b, c, won, denied)
  PROVE  Course(b, SetCooldown(c, s, i), won, denied)
<1>1. c \in Field BY CourseField
<1>2. Course(c, SetCooldown(c, s, i), won, denied)
  BY <1>1, SetCooldownUntouched, UntouchedCourse
<1> QED BY <1>2, CourseTransitive

LEMMA AttackCourse ==
  ASSUME NEW b \in Field, NEW t \in Unit, NEW x \in Miss(b, t) \cup Hit(b, t)
  PROVE  Course(b, x, {}, {})
<1>1. CASE x \in Miss(b, t) BY <1>1, CourseReflexive DEF Miss
<1>2. CASE x \in Hit(b, t)
  <2>1. PICK d \in 1 .. MaxHp : x = Damage(b, t, d) BY <1>2 DEF Hit
  <2>2. d \in Nat BY NumberAssumption
  <2> QED BY <2>1, <2>2, DamageCourse
<1> QED BY <1>1, <1>2

LEMMA HitThenCastCourse ==
  ASSUME NEW b \in Field, NEW t \in Unit, NEW s,
         NEW k \in Effect \ {"reduced", "operation_denied"}, NEW y \in Hit(b, t)
  PROVE  Course(b, Cast(y, k, t, s), {}, {})
<1>1. Course(b, y, {}, {}) /\ y \in Field BY AttackCourse, CourseField
<1>2. Course(y, Cast(y, k, t, s), {}, {}) BY <1>1, CastCourse
<1> QED BY <1>1, <1>2, CourseTransitive

LEMMA PlainEffects ==
  \A k \in {"perish_song", "stunned", "suppressed", "absolutely_immortal", "cursed",
            "ATK", "SPEED"} : k \in Effect \ {"reduced", "operation_denied"}
BY DEF Effect

LEMMA PerishSongCourse ==
  ASSUME NEW b \in Field, NEW s \in Unit, NEW i \in MoveIndex, NEW x \in PerishSong(b, s, i)
  PROVE  Course(b, x, {}, {})
<1> DEFINE t == Osite(b, s)
           a == Cast(b, "perish_song", t, s)
           c == Cast(a, "perish_song", s, s)
<1>1. t \in Unit BY Owners
<1>2. Course(b, a, {}, {}) /\ a \in Field BY <1>1, CastCourse, PlainEffects, CourseField
<1>3. Course(a, c, {}, {}) /\ c \in Field BY <1>2, CastCourse, PlainEffects, CourseField
<1>4. PICK y \in Miss(c, t) \cup Hit(c, t) : x = SetCooldown(y, s, i)
  BY DEF PerishSong
<1>5. Course(c, y, {}, {}) BY <1>1, <1>3, <1>4, AttackCourse
<1> HIDE DEF a, c
<1>6. Course(b, y, {}, {}) BY <1>2, <1>3, <1>5, CourseTransitive
<1> QED BY <1>4, <1>6, ThenCooldownCourse

LEMMA DmtsImpactCourse ==
  ASSUME NEW b \in Field, NEW s \in Unit, NEW i \in MoveIndex, NEW x \in DmtsImpact(b, s, i)
  PROVE  Course(b, x, {}, {})
<1> DEFINE t == Osite(b, s)
<1>1. t \in Unit BY Owners
<1>2. CASE x \in Miss(b, t) BY <1>1, <1>2, AttackCourse
<1>3. ASSUME NEW y \in Hit(b, t), NEW n \in 1 .. Rounds["stunned"],
             x = SetCooldown(AddEffect(y, "stunned", t, s, n), s, i)
      PROVE  Course(b, x, {}, {})
  <2>1. Course(b, y, {}, {}) /\ y \in Field BY <1>1, AttackCourse, CourseField
  <2>2. n \in Int \ {0} BY NumberAssumption, EffectNames
  <2>3. Course(y, AddEffect(y, "stunned", t, s, n), {}, {})
    BY <1>1, <2>1, <2>2, AddEffectCourse, EffectNames
  <2>4. Course(b, AddEffect(y, "stunned", t, s, n), {}, {})
    BY <2>1, <2>3, CourseTransitive
  <2> QED BY <1>3, <2>4, ThenCooldownCourse
<1> QED BY <1>2, <1>3 DEF DmtsImpact

LEMMA SteelFlywheelCourse ==
  ASSUME NEW b \in Field, NEW s \in Unit, NEW i \in MoveIndex,
         NEW x \in SteelFlywheel(b, s, i)
  PROVE  Course(b, x, {}, {})
<1> DEFINE t == Osite(b, s)
<1>1. t \in Unit BY Owners
<1>2. PICK z \in Miss(b, t) \cup {Cast(y, "cursed", t, s) : y \in Hit(b, t)} :
        x = SetCooldown(z, s, i)
  BY DEF SteelFlywheel
<1>3. Course(b, z, {}, {})
  <2>1. CASE z \in Miss(b, t) BY <1>1, <2>1, AttackCourse
  <2>2. CASE \E y \in Hit(b, t) : z = Cast(y, "cursed", t, s)
    BY <1>1, <2>2, HitThenCastCourse, PlainEffects
  <2> QED BY <1>2, <2>1, <2>2
<1> QED BY <1>2, <1>3, ThenCooldownCourse

(* The only move here that may end the battle, for its user's side.        *)
LEMMA RedLotusCourse ==
  ASSUME NEW b \in Field, Led(b), NEW s \in Unit, NEW x \in RedLotus(b, s)
  PROVE  Course(b, x, {Owner(s)}, {})
<1> DEFINE t == Osite(b, s)
<1>1. t \in Unit BY Owners
<1>2. Enemy(Owner(t)) = Owner(s)
  <2>1. Owner(s) \in Player BY Owners
  <2>2. Owner(t) = Enemy(Owner(s)) BY <2>1, Owners DEF Led, Osite
  <2> QED BY <2>1, <2>2 DEF Enemy, Player
<1>3. CASE x \in Miss(b, t) BY <1>1, <1>3, AttackCourse, CourseWeaker
<1>4. ASSUME NEW y \in Hit(b, t), NEW d \in {0, 1},
             x = Damage(Cast(y, "reduced", t, s), s, d)
      PROVE  Course(b, x, {Owner(s)}, {})
  <2> DEFINE z == Cast(y, "reduced", t, s)
  <2>1. Course(b, y, {Owner(s)}, {}) /\ y \in Field
    BY <1>1, AttackCourse, CourseWeaker, CourseField
  <2>2. Rounds["reduced"] \in Int \ {0} BY NumberAssumption, EffectNames
  <2>3. Course(y, z, {Owner(s)}, {})
    <3>1. Enemy(Owner(t)) \in {Owner(s)} BY <1>2
    <3>2. "reduced" \in Effect /\ "reduced" # "operation_denied" BY EffectNames
    <3>3. z = AddEffect(y, "reduced", t, s, Rounds["reduced"]) BY DEF Cast
    <3> HIDE DEF t, z
    <3> QED BY <1>1, <2>1, <2>2, <3>1, <3>2, <3>3, AddEffectCourse
  <2> HIDE DEF z
  <2>4. Course(z, Damage(z, s, d), {}, {}) BY <2>3, DamageCourse, CourseField
  <2>5. Course(b, z, {Owner(s)}, {}) BY <2>1, <2>3, CourseTransitive
  <2> QED BY <1>4, <2>4, <2>5, CourseThen DEF z
<1>5. x \in Miss(b, t) \/ \E y \in Hit(b, t), d \in {0, 1} :
                             x = Damage(Cast(y, "reduced", t, s), s, d)
  BY DEF RedLotus
<1> QED BY <1>3, <1>4, <1>5

LEMMA AbsolutelyImmortalCourse ==
  ASSUME NEW b \in Field, NEW s \in Unit, NEW i \in MoveIndex,
         NEW x \in AbsolutelyImmortal(b, s, i)
  PROVE  Course(b, x, {}, {})
<1>1. Course(b, Cast(b, "absolutely_immortal", s, s), {}, {})
  BY CastCourse, PlainEffects
<1> QED BY <1>1, ThenCooldownCourse DEF AbsolutelyImmortal

LEMMA PlasmatizingLightcannonCourse ==
  ASSUME NEW b \in Field, NEW s \in Unit, NEW i \in MoveIndex,
         NEW x \in PlasmatizingLightcannon(b, s, i)
  PROVE  Course(b, x, {}, {})
<1> DEFINE t == Osite(b, s)
           c == Damage(b, t, MaxHp)
           y == IF Alive(c.st[t]) THEN Cast(c, "suppressed", t, s) ELSE Vanish(c, t)
<1>1. t \in Unit /\ MaxHp \in Nat BY Owners, NumberAssumption
<1>2. Course(b, c, {}, {}) /\ c \in Field BY <1>1, DamageCourse, CourseField
<1> HIDE DEF c
<1>3. Course(c, Cast(c, "suppressed", t, s), {}, {}) BY <1>1, <1>2, CastCourse, PlainEffects
<1>4. Course(c, Vanish(c, t), {}, {}) BY <1>1, <1>2, VanishCourse
<1>5. Course(b, y, {}, {}) BY <1>2, <1>3, <1>4, CourseTransitive
<1>6. x = SetCooldown(y, s, i) BY DEF PlasmatizingLightcannon, c
<1> HIDE DEF y
<1> QED BY <1>5, <1>6, ThenCooldownCourse

LEMMA PlainRoarCourse ==
  ASSUME NEW b \in Field, NEW s \in Unit, NEW x \in PlainRoar(b, s)
  PROVE  Course(b, x, {}, {})
<1> DEFINE t == Osite(b, s)
           slow == {Cast(y, "SPEED", t, s) : y \in Hit(b, t)}
<1>1. t \in Unit BY Owners
<1>2. PICK z \in Miss(b, t) \cup Hit(b, t) \cup slow : x = Cast(z, "ATK", s, s)
  BY DEF PlainRoar
<1>3. Course(b, z, {}, {}) /\ z \in Field
  <2>1. CASE z \in Miss(b, t) \cup Hit(b, t) BY <1>1, <2>1, AttackCourse, CourseField
  <2>2. CASE \E y \in Hit(b, t) : z = Cast(y, "SPEED", t, s)
    BY <1>1, <2>2, HitThenCastCourse, PlainEffects, CourseField
  <2> QED BY <1>2, <2>1, <2>2
<1>4. Course(z, x, {}, {}) BY <1>2, <1>3, CastCourse, PlainEffects
<1> QED BY <1>3, <1>4, CourseTransitive

(* karma_reverse() revives, and denies the enemy one round.                *)
LEMMA KarmaReverseCourse ==
  ASSUME NEW b \in Field, NEW s \in Unit, NEW i \in MoveIndex,
         NEW x \in KarmaReverse(b, s, i)
  PROVE  Course(b, x, {}, {1})
<1> DEFINE j == HistoryIndex(b, KarmaSpan)
           h == b.hist[j]
           up == {u \in Unit : b.st[u] = "FAILED" /\ h.st[u] # "FAILED"}
           c == Revive(b, up, h.hp)
           t == Osite(b, s)
           d == IF b.acted[Enemy(Owner(s))] THEN c ELSE Cast(c, "operation_denied", t, t)
<1>1. CASE j > Len(b.hist) BY <1>1, CourseReflexive DEF KarmaReverse
<1>2. CASE ~(j > Len(b.hist))
  <2>1. KarmaSpan \in Nat /\ b.round \in Nat /\ Len(b.hist) \in Nat
    BY NumberAssumption DEF Field
  <2>2. j <= Len(b.hist) BY <1>2, <2>1 DEF HistoryIndex
  <2>3. h.hp \in [Unit -> 0 .. MaxHp] BY <2>1, <2>2, HistoryIndexType DEF Snapshot
  <2>4. Course(b, c, {}, {1}) /\ c \in Field
    <3>1. \A u \in up : b.st[u] = "FAILED" OBVIOUS
    <3> HIDE DEF up, h
    <3>2. Course(b, c, {}, {}) BY <2>3, <3>1, ReviveCourse
    <3> QED BY <3>2, CourseWeaker, CourseField
  <2>5. x = SetCooldown(d, s, i) BY <1>2 DEF KarmaReverse
  <2> HIDE DEF c
  <2>6. t \in Unit BY Owners
  <2>7. Course(c, Cast(c, "operation_denied", t, t), {}, {1})
    BY <2>4, <2>6, AddEffectCourse, EffectNames, DenialAssumption DEF Cast
  <2>8. Course(b, d, {}, {1}) BY <2>4, <2>7, CourseTransitive
  <2> HIDE DEF d
  <2> QED BY <2>5, <2>8, ThenCooldownCourse
<1> QED BY <1>1, <1>2

-----------------------------------------------------------------------------
(* The enhanced roar of s at t, and going back to a snapshot.              *)

Struck(b, c, s, t) ==
  /\ c \in Field
  /\ c.stage = b.stage /\ c.acted = b.acted /\ c.front = b.front
  /\ c.st = [b.st EXCEPT ![t] = "FREEZING_ROARINGED"]
  /\ c.hist \in {b.hist, RoarHistory(b, t)}
  /\ c.winner = IF b.winner = Owner(t) THEN None ELSE b.winner
  /\ \A u \in Unit : \A k \in Effect : c.eff[u][k] \in {0, b.eff[u][k]}
  /\ \A u \in Unit \ {t} :
       /\ c.hp[u] = b.hp[u]
       /\ \A k \in Effect \ Negative : c.eff[u][k] = b.eff[u][k]
  /\ \A u \in Unit \ {s, t} : c.eff[u] = b.eff[u]
  /\ b.st[t] # "FREEZING_ROARINGED" => \A k \in Effect : c.eff[t][k] = 0
  /\ \A pl \in Player :
       /\ c.action[pl] \in {b.action[pl], Abort}
       /\ b.front[pl] # t => c.action[pl] = b.action[pl]

(* What RoarDown leaves, field by field.                                   *)
LEMMA RoarDownFields ==
  ASSUME NEW b \in Field, NEW t \in Unit, NEW f, f = RoarDown(b, t)
  PROVE  /\ f \in Field
         /\ f.stage = b.stage /\ f.acted = b.acted /\ f.front = b.front
         /\ f.hp = b.hp /\ f.winner = b.winner /\ f.cool = b.cool
         /\ f.st = [b.st EXCEPT ![t] = "FREEZING_ROARINGED"]
         /\ f.hist \in {b.hist, RoarHistory(b, t)}
         /\ \A u \in Unit \ {t} : f.eff[u] = b.eff[u]
         /\ \A k \in Effect : f.eff[t][k] \in {0, b.eff[t][k]}
         /\ b.st[t] # "FREEZING_ROARINGED" => \A k \in Effect : f.eff[t][k] = 0
         /\ \A pl \in Player :
              /\ f.action[pl] \in {b.action[pl], Abort}
              /\ b.front[pl] # t => f.action[pl] = b.action[pl]
<1> DEFINE act == [pl \in Player |-> IF b.front[pl] = t THEN Abort ELSE b.action[pl]]
           none == [k \in Effect |-> 0]
           hist == RoarHistory(b, t)
<1>1. b.st \in [Unit -> State] /\ b.eff \in [Unit -> [Effect -> Int]] BY DEF Field
<1>2. f \in Field BY RoarDownOutcome, OutcomeField
<1>3. CASE b.st[t] = "FREEZING_ROARINGED"
  <2>1. f = b BY <1>3 DEF RoarDown
  <2>2. b.st = [b.st EXCEPT ![t] = "FREEZING_ROARINGED"] BY <1>1, <1>3
  <2> QED BY <1>2, <1>3, <2>1, <2>2
<1>4. CASE b.st[t] # "FREEZING_ROARINGED"
  <2>1. f = [b EXCEPT !.hist = hist, !.action = act, !.st[t] = "FREEZING_ROARINGED",
                      !.eff[t] = none]
    BY <1>4 DEF RoarDown
  <2>2. \A pl \in Player : /\ act[pl] \in {b.action[pl], Abort}
                           /\ b.front[pl] # t => act[pl] = b.action[pl]
    OBVIOUS
  <2>3. \A k \in Effect : none[k] = 0 OBVIOUS
  <2> HIDE DEF act, none, hist
  <2>4. /\ f.stage = b.stage /\ f.acted = b.acted /\ f.front = b.front
        /\ f.hp = b.hp /\ f.winner = b.winner /\ f.cool = b.cool
        /\ f.st = [b.st EXCEPT ![t] = "FREEZING_ROARINGED"]
        /\ f.hist = hist /\ f.action = act
        /\ f.eff = [b.eff EXCEPT ![t] = none]
    BY <2>1 DEF Field
  <2>5. f.eff[t] = none /\ \A u \in Unit \ {t} : f.eff[u] = b.eff[u] BY <1>1, <2>4
  <2>6. f.hist = RoarHistory(b, t) BY <2>4 DEF hist
  <2> QED BY <1>2, <2>2, <2>3, <2>4, <2>5, <2>6
<1> QED BY <1>3, <1>4

LEMMA EnhancedRoarStruck ==
  ASSUME NEW b \in Field, NEW s \in Unit, NEW i \in MoveIndex, NEW t \in Unit, s # t
  PROVE  Struck(b, EnhancedRoar(b, s, i, t), s, t)
<1> DEFINE left == IF Alive(b.st[t]) THEN 0 ELSE b.hp[t]
           a == [b EXCEPT !.hp[t] = left]
           c == RoarDown(a, t)
           healed == [k \in Effect |-> IF k \in Negative THEN 0 ELSE c.eff[s][k]]
           winner == IF c.winner = Owner(t) THEN None ELSE c.winner
           d == [c EXCEPT !.eff[s] = healed, !.winner = winner, !.cool[s][i] = 0]
<1>1. a \in Field
  <2>1. left \in 0 .. MaxHp BY NumberAssumption DEF Field
  <2> HIDE DEF left
  <2> QED BY <2>1 DEF Field
<1>2. EnhancedRoar(b, s, i, t) = d BY DEF EnhancedRoar, Field
<1>3. d \in Field
  <2>1. Outcome(b, EnhancedRoar(b, s, i, t)) BY EnhancedRoarOutcome
  <2>2. EnhancedRoar(b, s, i, t) \in Field BY <2>1, OutcomeField
  <2> HIDE DEF d
  <2> QED BY <1>2, <2>2
<1>4. /\ a.stage = b.stage /\ a.acted = b.acted /\ a.front = b.front
      /\ a.winner = b.winner /\ a.st = b.st /\ a.eff = b.eff /\ a.hist = b.hist
      /\ a.action = b.action /\ \A u \in Unit \ {t} : a.hp[u] = b.hp[u]
  BY DEF Field
<1> HIDE DEF a
<1>5. /\ c \in Field
      /\ c.stage = b.stage /\ c.acted = b.acted /\ c.front = b.front
      /\ c.winner = b.winner
      /\ \A u \in Unit \ {t} : c.hp[u] = b.hp[u]
      /\ c.st = [b.st EXCEPT ![t] = "FREEZING_ROARINGED"]
      /\ c.hist \in {b.hist, RoarHistory(b, t)}
      /\ \A u \in Unit \ {t} : c.eff[u] = b.eff[u]
      /\ \A k \in Effect : c.eff[t][k] \in {0, b.eff[t][k]}
      /\ b.st[t] # "FREEZING_ROARINGED" => \A k \in Effect : c.eff[t][k] = 0
      /\ \A pl \in Player :
           /\ c.action[pl] \in {b.action[pl], Abort}
           /\ b.front[pl] # t => c.action[pl] = b.action[pl]
  <2>1. RoarHistory(a, t) = RoarHistory(b, t) BY <1>4 DEF RoarHistory
  <2>2. c = RoarDown(a, t) OBVIOUS
  <2> HIDE DEF c
  <2>3. /\ c \in Field
        /\ c.stage = a.stage /\ c.acted = a.acted /\ c.front = a.front
        /\ c.hp = a.hp /\ c.winner = a.winner /\ c.cool = a.cool
        /\ c.st = [a.st EXCEPT ![t] = "FREEZING_ROARINGED"]
        /\ c.hist \in {a.hist, RoarHistory(a, t)}
        /\ \A u \in Unit \ {t} : c.eff[u] = a.eff[u]
        /\ \A k \in Effect : c.eff[t][k] \in {0, a.eff[t][k]}
        /\ a.st[t] # "FREEZING_ROARINGED" => \A k \in Effect : c.eff[t][k] = 0
        /\ \A pl \in Player :
             /\ c.action[pl] \in {a.action[pl], Abort}
             /\ a.front[pl] # t => c.action[pl] = a.action[pl]
    BY <1>1, <2>2, RoarDownFields
  <2> QED BY <1>4, <2>1, <2>3
<1> HIDE DEF c
<1>6. \A k \in Effect : /\ healed[k] \in {0, c.eff[s][k]}
                        /\ k \notin Negative => healed[k] = c.eff[s][k]
  OBVIOUS
<1>7. winner = IF b.winner = Owner(t) THEN None ELSE b.winner BY <1>5
<1> HIDE DEF healed, winner
<1>8. /\ d.stage = c.stage /\ d.acted = c.acted /\ d.front = c.front /\ d.hp = c.hp
      /\ d.st = c.st /\ d.hist = c.hist /\ d.action = c.action /\ d.winner = winner
      /\ d.eff = [c.eff EXCEPT ![s] = healed]
  BY <1>5 DEF Field
<1>9. d.eff[s] = healed /\ \A u \in Unit \ {s} : d.eff[u] = c.eff[u]
  <2>1. c.eff \in [Unit -> [Effect -> Int]] BY <1>5 DEF Field
  <2> QED BY <1>8, <2>1
<1> HIDE DEF d
<1>10. \A u \in Unit : \A k \in Effect : d.eff[u][k] \in {0, b.eff[u][k]}
  BY <1>5, <1>6, <1>9
<1>11. \A u \in Unit \ {t} : \A k \in Effect \ Negative : d.eff[u][k] = b.eff[u][k]
  BY <1>5, <1>6, <1>9
<1>12. \A u \in Unit \ {s, t} : d.eff[u] = b.eff[u] BY <1>5, <1>9
<1>13. b.st[t] # "FREEZING_ROARINGED" => \A k \in Effect : d.eff[t][k] = 0
  BY <1>5, <1>9
<1>14. Struck(b, d, s, t)
  <2>1. /\ d.stage = b.stage /\ d.acted = b.acted /\ d.front = b.front
        /\ d.st = [b.st EXCEPT ![t] = "FREEZING_ROARINGED"]
        /\ d.hist \in {b.hist, RoarHistory(b, t)}
        /\ d.winner = IF b.winner = Owner(t) THEN None ELSE b.winner
    BY <1>5, <1>7, <1>8
  <2>2. \A u \in Unit \ {t} : d.hp[u] = b.hp[u] BY <1>5, <1>8
  <2>3. \A pl \in Player : /\ d.action[pl] \in {b.action[pl], Abort}
                           /\ b.front[pl] # t => d.action[pl] = b.action[pl]
    BY <1>5, <1>8
  <2> QED BY <1>3, <1>10, <1>11, <1>12, <1>13, <2>1, <2>2, <2>3 DEF Struck
<1> QED BY <1>2, <1>14

(* The roar takes effects away, and strikes down nobody but its target.    *)
LEMMA StruckUnits ==
  ASSUME NEW b \in Field, NEW c, NEW s \in Unit, NEW t \in Unit, Struck(b, c, s, t),
         NEW u \in Unit
  PROVE  /\ SoundUnit(b, u) => SoundUnit(c, u)
         /\ u # t => c.st[u] = b.st[u]
         /\ c.st[t] = "FREEZING_ROARINGED"
         /\ u # t /\ Bears(b, u) => Bears(c, u)
         /\ u # s /\ Synced(b, u) => Synced(c, u)
<1>1. b.st \in [Unit -> State] BY DEF Field
<1>2. /\ c.st[t] = "FREEZING_ROARINGED"
      /\ \A v \in Unit \ {t} : c.st[v] = b.st[v]
  BY <1>1 DEF Struck
<1>3. \A k \in Effect : c.eff[u][k] \in {0, b.eff[u][k]} BY DEF Struck
<1>4. u # t => c.hp[u] = b.hp[u] BY DEF Struck
<1>5. b.st[t] # "FREEZING_ROARINGED" => \A k \in Effect : c.eff[t][k] = 0 BY DEF Struck
<1>6. SoundUnit(b, u) => SoundUnit(c, u)
  <2>1. CASE u # t
    BY <1>2, <1>3, <1>4, <2>1, EffectNames DEF SoundUnit, Vanished
  <2>2. CASE u = t
    BY <1>2, <1>3, <1>5, <2>2 DEF SoundUnit, Vanished
  <2> QED BY <2>1, <2>2
<1>7. u # t /\ Bears(b, u) => Bears(c, u)
  <2>1. "absolutely_immortal" \in Effect \ Negative BY DEF Effect, Negative
  <2>2. u # t => c.eff[u]["absolutely_immortal"] = b.eff[u]["absolutely_immortal"]
    BY <2>1 DEF Struck
  <2> QED BY <1>2, <2>2 DEF Bears
<1>8. u # s /\ Synced(b, u) => Synced(c, u)
  <2>1. u \notin {s, t} => c.eff[u] = b.eff[u] BY DEF Struck
  <2> QED BY <1>2, <2>1 DEF Synced
<1> QED BY <1>2, <1>6, <1>7, <1>8

(* What a roar makes of one snapshot.                                      *)
LEMMA RoarSnapshotUnits ==
  ASSUME NEW h \in Snapshot, NEW t \in Unit, NEW g, g = RoarSnapshot(h, t), NEW u \in Unit
  PROVE  /\ g.front = h.front
         /\ SoundUnit(h, u) => SoundUnit(g, u)
         /\ h.st[u] # "FADING" => g.st[u] # "FADING"
         /\ g.eff[u]["operation_denied"] \in {0, h.eff[u]["operation_denied"]}
<1> DEFINE none == [k \in Effect |-> 0]
<1>1. h.st \in [Unit -> State] /\ h.eff \in [Unit -> [Effect -> Int]] BY DEF Snapshot
<1>2. \A k \in Effect : none[k] = 0 OBVIOUS
<1>3. g = [h EXCEPT !.st[t] = "FREEZING_ROARINGED", !.eff[t] = none]
  BY DEF RoarSnapshot
<1> HIDE DEF none
<1>4. /\ g.front = h.front /\ g.hp = h.hp
      /\ g.st = [h.st EXCEPT ![t] = "FREEZING_ROARINGED"]
      /\ g.eff = [h.eff EXCEPT ![t] = none]
  BY <1>3 DEF Snapshot
<1>5. CASE u # t
  <2>1. g.st[u] = h.st[u] /\ g.eff[u] = h.eff[u] /\ g.hp[u] = h.hp[u]
    BY <1>1, <1>4, <1>5
  <2> QED BY <1>4, <2>1 DEF SoundUnit
<1>6. CASE u = t
  <2>1. g.st[t] = "FREEZING_ROARINGED" /\ \A k \in Effect : g.eff[t][k] = 0
    BY <1>1, <1>2, <1>4
  <2> QED BY <1>4, <1>6, <2>1, EffectNames DEF SoundUnit
<1> QED BY <1>5, <1>6

LEMMA RoarHistoryEntries ==
  ASSUME NEW b \in Field, NEW t \in Unit
  PROVE  /\ DOMAIN RoarHistory(b, t) = DOMAIN b.hist
         /\ \A i \in DOMAIN b.hist : /\ b.hist[i] \in Snapshot
                                     /\ RoarHistory(b, t)[i] = RoarSnapshot(b.hist[i], t)
BY DEF RoarHistory, Field

(* c is b taken back to snapshot h, with nothing left to do.               *)
GoneBack(b, c, h) ==
  /\ c \in Field
  /\ c.st = h.st /\ c.hp = h.hp /\ c.eff = h.eff /\ c.front = h.front
  /\ c.hist = b.hist /\ c.stage = b.stage /\ c.acted = b.acted /\ c.winner = b.winner
  /\ \A pl \in Player : c.action[pl] = Abort

LEMMA TimeBackGoneBack ==
  ASSUME NEW b \in Field, NEW s \in Unit, NEW i \in MoveIndex, NEW x \in TimeBack(b, s, i)
  PROVE  \/ x = b
         \/ x = [b EXCEPT !.stage = "CRASHED"]
         \/ \E j \in DOMAIN b.hist : GoneBack(b, x, b.hist[j])
<1> DEFINE j == HistoryIndex(b, TimeBackSpan)
           h == b.hist[j]
           act == [pl \in Player |-> Abort]
           c == Back(b, h)
<1>1. CASE j > Len(b.hist) BY <1>1 DEF TimeBack
<1>2. CASE ~(j > Len(b.hist)) /\ NoEffects(b) BY <1>2 DEF TimeBack
<1>3. CASE ~(j > Len(b.hist)) /\ ~NoEffects(b)
  <2>1. TimeBackSpan \in Nat /\ b.round \in Nat /\ Len(b.hist) \in Nat
    BY NumberAssumption DEF Field
  <2>2. j <= Len(b.hist) BY <1>3, <2>1 DEF HistoryIndex
  <2>3. j \in DOMAIN b.hist /\ h \in Snapshot BY <2>1, <2>2, HistoryIndexType
  <2>4. x = SetCooldown(c, s, i) BY <1>3 DEF TimeBack
  <2>5. c \in Field BY <2>3, BackBackTo DEF BackTo
  <2>6. \A pl \in Player : act[pl] = Abort OBVIOUS
  <2>7. c = [b EXCEPT !.st = h.st, !.hp = h.hp, !.eff = h.eff, !.cool = h.cool,
                      !.front = h.front, !.action = act]
    BY DEF Back
  <2> HIDE DEF act, h, j
  <2>8. /\ c.st = h.st /\ c.hp = h.hp /\ c.eff = h.eff /\ c.front = h.front
        /\ c.hist = b.hist /\ c.stage = b.stage /\ c.acted = b.acted
        /\ c.winner = b.winner /\ c.action = act
    BY <2>7 DEF Field
  <2> HIDE DEF c
  <2>9. Untouched(c, x) BY <2>4, <2>5, SetCooldownUntouched
  <2>10. GoneBack(b, x, h) BY <2>6, <2>8, <2>9 DEF Untouched, GoneBack
  <2> QED BY <2>3, <2>10 DEF h
<1> QED BY <1>1, <1>2, <1>3

-----------------------------------------------------------------------------
(* What a player's action may leave.                                       *)

(* Without a roar: pl may have won and have denied the enemy's action, the *)
(* process may be gone, or the battle is back at an earlier round.         *)
Plain(b, c, pl) ==
  \/ Course(b, c, {pl}, {1})
  \/ c = [b EXCEPT !.stage = "CRASHED"]
  \/ \E j \in DOMAIN b.hist : GoneBack(b, c, b.hist[j])

LEMMA CoursePlain ==
  ASSUME NEW b, NEW c, NEW pl,
         Course(b, c, {}, {}) \/ Course(b, c, {pl}, {}) \/ Course(b, c, {}, {1})
  PROVE  Plain(b, c, pl)
BY DEF Course, Plain

LEMMA MoveActionPlain ==
  ASSUME NEW b \in Field, Led(b), NEW s \in Unit, NEW i \in MoveIndex,
         NEW x \in MoveAction(b, s, i), ~IfFr(b, s, i)
  PROVE  Plain(b, x, Owner(s))
<1>1. CASE Kit[s][i] = "freezing_roaring"
  <2>1. ~HasNegative(b, s) BY <1>1 DEF IfFr, Roaring
  <2>2. x \in PlainRoar(b, s) BY <1>1, <2>1 DEF MoveAction, FreezingRoaring
  <2> QED BY <2>2, PlainRoarCourse, CoursePlain
<1>2. CASE Kit[s][i] = "time_back"
  <2>1. x \in TimeBack(b, s, i) BY <1>2 DEF MoveAction
  <2> QED BY <2>1, TimeBackGoneBack, CourseReflexive DEF Plain
<1>3. CASE Kit[s][i] = "karma_reverse"
  BY <1>3, KarmaReverseCourse, CoursePlain DEF MoveAction
<1>4. CASE Kit[s][i] = "perish_song"
  BY <1>4, PerishSongCourse, CoursePlain DEF MoveAction
<1>5. CASE Kit[s][i] = "dmts_impact"
  BY <1>5, DmtsImpactCourse, CoursePlain DEF MoveAction
<1>6. CASE Kit[s][i] = "steel_flywheel"
  BY <1>6, SteelFlywheelCourse, CoursePlain DEF MoveAction
<1>7. CASE Kit[s][i] = "red_lotus"
  BY <1>7, RedLotusCourse, CoursePlain DEF MoveAction
<1>8. CASE Kit[s][i] = "absolutely_immortal"
  BY <1>8, AbsolutelyImmortalCourse, CoursePlain DEF MoveAction
<1>9. CASE Kit[s][i] = "plasmatizing_lightcannon"
  BY <1>9, PlasmatizingLightcannonCourse, CoursePlain DEF MoveAction
<1>10. CASE Kit[s][i] = "none"
  BY <1>10, CourseReflexive DEF MoveAction, Plain
<1>11. Kit[s][i] \in Move BY KitAssumption
<1> QED
  BY <1>1, <1>2, <1>3, <1>4, <1>5, <1>6, <1>7, <1>8, <1>9, <1>10, <1>11 DEF Move

(* An enhanced roar strikes one of the enemy's units: the one aimed at, or *)
(* the front when that one is down for good already.                       *)
Strikes(b, c, s) ==
  \E t \in UnitsOf(Enemy(Owner(s))) :
    /\ Struck(b, c, s, t)
    /\ b.st[t] # "FREEZING_ROARINGED" \/ t = Osite(b, s)

LEMMA MoveActionStrikes ==
  ASSUME NEW b \in Field, Led(b), NEW s \in Unit, NEW i \in MoveIndex,
         NEW x \in MoveAction(b, s, i), IfFr(b, s, i)
  PROVE  Strikes(b, x, s)
<1>1. Kit[s][i] = "freezing_roaring" /\ HasNegative(b, s) BY DEF IfFr, Roaring
<1>2. x \in FreezingRoaring(b, s, i) BY <1>1 DEF MoveAction
<1>3. PICK aim \in UnitsOf(Enemy(Owner(s))) :
        x = EnhancedRoar(b, s, i, IF b.st[aim] = "FREEZING_ROARINGED"
                                    THEN Osite(b, s) ELSE aim)
  BY <1>1, <1>2 DEF FreezingRoaring
<1> DEFINE t == IF b.st[aim] = "FREEZING_ROARINGED" THEN Osite(b, s) ELSE aim
<1>4. Owner(s) \in Player /\ Enemy(Owner(s)) \in Player /\ Enemy(Owner(s)) # Owner(s)
  BY Owners
<1>5. Osite(b, s) \in UnitsOf(Enemy(Owner(s)))
  BY <1>4, Owners DEF Led, Osite, UnitsOf
<1>6. t \in UnitsOf(Enemy(Owner(s))) BY <1>5
<1>7. b.st[t] # "FREEZING_ROARINGED" \/ t = Osite(b, s) OBVIOUS
<1> HIDE DEF t
<1>8. x = EnhancedRoar(b, s, i, t) BY <1>3 DEF t
<1>9. t \in Unit /\ s # t BY <1>4, <1>6 DEF UnitsOf
<1>10. Struck(b, x, s, t) BY <1>8, <1>9, EnhancedRoarStruck
<1> QED BY <1>6, <1>7, <1>10 DEF Strikes

(* The action is not carried out at all.                                   *)
ActionFails(b, pl) ==
  /\ ~Roars(b, pl)
  /\ \/ b.eff[b.front[pl]]["operation_denied"] # 0
     \/ b.action[pl] = Abort
     \/ ~CanAction2(b, pl, b.action[pl])

Acted(b, c, pl) ==
  IF Roars(b, pl)
    THEN IF AliveS(b.st[b.front[pl]]) THEN Strikes(b, c, b.front[pl]) ELSE c = b
  ELSE Plain(b, c, pl)

LEMMA PlayerActionCourse ==
  ASSUME NEW b \in Field, Led(b), NEW pl \in Player, NEW x \in PlayerAction(b, pl)
  PROVE  \/ x = b /\ (b.acted[pl] \/ ActionFails(b, pl))
         \/ /\ ~b.acted[pl] /\ ~ActionFails(b, pl)
            /\ \E y : Acted(b, y, pl) /\ x = [y EXCEPT !.acted[pl] = TRUE]
<1> DEFINE f   == b.front[pl]
           act == b.action[pl]
           done == CASE Roars(b, pl) -> UnitMoveNonhookable(b, f, act.n)
                     [] ~Roars(b, pl) /\ act.kind = "move" -> UnitMove(b, f, act.n)
                     [] act.kind = "attack" -> NormalAttack(b, f)
                     [] act.kind = "unit"   -> {SwitchUnit(b, <<pl, act.n>>)}
                     [] OTHER               -> {b}
<1>1. f \in Unit /\ act \in Action /\ Owner(f) = pl BY DEF Field, Led
<1>2. CASE b.acted[pl] \/ ActionFails(b, pl)
  BY <1>2 DEF PlayerAction, ActionFails
<1>3. CASE ~(b.acted[pl] \/ ActionFails(b, pl))
  <2>1. PICK y \in done : x = [y EXCEPT !.acted[pl] = TRUE]
    BY <1>3 DEF PlayerAction, ActionFails
  <2>2. Acted(b, y, pl)
    <3>1. CASE Roars(b, pl)
      <4>1. act.kind = "move" /\ act.n \in MoveIndex /\ IfFr(b, f, act.n)
        BY <3>1 DEF Roars, IfFr
      <4>2. y \in UnitMoveNonhookable(b, f, act.n) BY <2>1, <3>1, <4>1
      <4>3. AliveS(b.st[f]) => y \in MoveAction(b, f, act.n)
        BY <4>2 DEF UnitMoveNonhookable
      <4>4. ~AliveS(b.st[f]) => y = b BY <4>2 DEF UnitMoveNonhookable
      <4>5. AliveS(b.st[f]) => Strikes(b, y, f) BY <1>1, <4>1, <4>3, MoveActionStrikes
      <4> QED BY <3>1, <4>4, <4>5 DEF Acted
    <3>2. CASE ~Roars(b, pl) /\ act.kind = "move"
      <4>1. act.n \in MoveIndex BY <1>3, <3>2 DEF ActionFails, CanAction2
      <4>2. ~IfFr(b, f, act.n) BY <3>2 DEF Roars
      <4>3. y \in UnitMove(b, f, act.n) BY <2>1, <3>2
      <4>4. y = b \/ y \in MoveAction(b, f, act.n)
        BY <4>3 DEF UnitMove, UnitMoveNonhookable
      <4>5. Plain(b, b, pl) BY CourseReflexive DEF Plain
      <4>6. Plain(b, y, pl) BY <1>1, <4>1, <4>2, <4>4, <4>5, MoveActionPlain
      <4> QED BY <3>2, <4>6 DEF Acted
    <3>3. CASE ~Roars(b, pl) /\ act.kind = "attack"
      <4>1. y \in NormalAttack(b, f) BY <2>1, <3>3
      <4>2. Course(b, y, {}, {})
        BY <1>1, <4>1, Owners, AttackCourse DEF NormalAttack
      <4> QED BY <3>3, <4>2, CoursePlain DEF Acted
    <3>4. CASE ~Roars(b, pl) /\ act.kind = "unit"
      <4>1. y = SwitchUnit(b, <<pl, act.n>>) BY <2>1, <3>4
      <4>2. <<pl, act.n>> \in Unit BY <1>3, <3>4 DEF ActionFails, CanAction2
      <4>3. Course(b, y, {}, {}) BY <4>1, <4>2, SwitchUnitCourse
      <4> QED BY <3>4, <4>3, CoursePlain DEF Acted
    <3>5. CASE ~Roars(b, pl) /\ act.kind \notin {"move", "attack", "unit"}
      <4>1. y = b BY <2>1, <3>5
      <4>2. Plain(b, b, pl) BY CourseReflexive DEF Plain
      <4> QED BY <3>5, <4>1, <4>2 DEF Acted
    <3> QED BY <3>1, <3>2, <3>3, <3>4, <3>5
  <2> HIDE DEF done
  <2> QED BY <1>3, <2>1, <2>2
<1> QED BY <1>2, <1>3

-----------------------------------------------------------------------------
(* What the rounds do between the actions.                                 *)

(* Both players: afterwards effects account for every state.               *)
LEMMA UpdateBothFields ==
  ASSUME NEW b \in Field, NEW pl \in Player, NEW f,
         f = UpdateState(UpdateState(b, pl), Enemy(pl))
  PROVE  /\ Course(b, f, {}, {})
         /\ f.eff = b.eff /\ f.front = b.front /\ f.action = b.action
         /\ \A u \in Unit : /\ f.st[u] = IF Alive(b.st[u]) THEN Condition(b, u) ELSE b.st[u]
                            /\ Synced(f, u)
<1> DEFINE a == UpdateState(b, pl)
<1>1. Course(b, a, {}, {}) /\ a \in Field BY UpdateStateCourse, CourseField
<1>2. /\ a.eff = b.eff /\ a.front = b.front /\ a.action = b.action
      /\ \A u \in Unit : a.st[u] = IF Owner(u) = pl /\ Alive(b.st[u])
                                     THEN Condition(b, u) ELSE b.st[u]
  BY UpdateStateFields
<1> HIDE DEF a
<1>3. f = UpdateState(a, Enemy(pl)) BY DEF a
<1>4. Course(a, f, {}, {}) BY <1>1, <1>3, UpdateStateCourse
<1>5. /\ f.eff = a.eff /\ f.front = a.front /\ f.action = a.action
      /\ \A u \in Unit : f.st[u] = IF Owner(u) = Enemy(pl) /\ Alive(a.st[u])
                                     THEN Condition(a, u) ELSE a.st[u]
  BY <1>1, <1>3, UpdateStateFields
<1>6. \A u \in Unit : Condition(a, u) = Condition(b, u) BY <1>2 DEF Condition
<1>7. \A u \in Unit : Owner(u) # pl => Owner(u) = Enemy(pl)
  BY Owners DEF Player, Enemy
<1>8. \A u \in Unit : f.st[u] = IF Alive(b.st[u]) THEN Condition(b, u) ELSE b.st[u]
  BY <1>2, <1>5, <1>6, <1>7, ConditionAlive
<1>9. \A u \in Unit : Synced(f, u)
  BY <1>2, <1>5, <1>8, ConditionSynced DEF Synced, Alive
<1> QED BY <1>1, <1>2, <1>4, <1>5, <1>8, <1>9, CourseTransitive

(* With nobody about to roar, the fading fall, and nobody fades.           *)
LEMMA NobodyFades ==
  ASSUME NEW b \in Field, NEW U, b.stage = "ROUNDEND"
  PROVE  \A u \in Unit : b.st[u] # "FADING" \/ u \in U => Fail(b, U).st[u] # "FADING"
<1>1. \A u \in Unit : ~CheckFr(b, u) BY DEF CheckFr
<1> QED BY <1>1, FailFields DEF AliveS

(* With nobody fading, ReapFading does nothing.                            *)
LEMMA FailNobody ==
  ASSUME NEW b \in Field, NEW U, U = {} PROVE Fail(b, U) = b
<1> DEFINE hp == [u \in Unit |-> IF u \in {} THEN 0 ELSE b.hp[u]]
<1>1. /\ b.hp = [u \in Unit |-> b.hp[u]] /\ b.st = [u \in Unit |-> b.st[u]]
      /\ b.eff = [u \in Unit |-> b.eff[u]]
      /\ b.action = [pl \in Player |-> b.action[pl]]
  BY DEF Field
<1>2. Fail(b, U) = [b EXCEPT !.hp = [u \in Unit |-> b.hp[u]],
                             !.st = [u \in Unit |-> b.st[u]],
                             !.eff = [u \in Unit |-> b.eff[u]],
                             !.action = [pl \in Player |-> b.action[pl]]]
  BY DEF Fail
<1>3. Fail(b, U) = [b EXCEPT !.hp = b.hp, !.st = b.st, !.eff = b.eff, !.action = b.action]
  BY <1>1, <1>2
<1> QED BY <1>3 DEF Field

LEMMA ReapNobody ==
  ASSUME NEW b \in Field, \A u \in Unit : b.st[u] # "FADING" PROVE ReapFading(b) = b
<1>1. {u \in Unit : b.st[u] = "FADING"} = {} OBVIOUS
<1>2. ReapFading(b) = Fail(Fail(b, {}), {}) BY <1>1 DEF ReapFading
<1> QED BY <1>2, FailNobody

-----------------------------------------------------------------------------
(* Sound fields.                                                           *)

(* A snapshot is taken with nobody fading and nobody denied an action.     *)
SoundRecord(h) ==
  /\ Led(h)
  /\ \A u \in Unit : /\ SoundUnit(h, u)
                     /\ h.st[u] # "FADING"
                     /\ h.eff[u]["operation_denied"] = 0

Sound(b) ==
  /\ Led(b)
  /\ \A u \in Unit : SoundUnit(b, u)
  /\ \A i \in DOMAIN b.hist : SoundRecord(b.hist[i])

(* c has the units and the snapshots of b.                                 *)
SameUnits(b, c) ==
  /\ c \in Field
  /\ c.st = b.st /\ c.hp = b.hp /\ c.eff = b.eff /\ c.front = b.front /\ c.hist = b.hist

LEMMA SameUnitsSound ==
  ASSUME NEW b, NEW c, SameUnits(b, c), Sound(b) PROVE Sound(c)
BY DEF SameUnits, Sound, Led, SoundUnit

LEMMA SetStageFields ==
  ASSUME NEW b \in Field, NEW x \in Stage, NEW f, f = [b EXCEPT !.stage = x]
  PROVE  /\ SameUnits(b, f)
         /\ f.action = b.action /\ f.acted = b.acted /\ f.stage = x
         /\ f.winner = b.winner /\ f.cool = b.cool
BY DEF SameUnits, Field

LEMMA SetActedFields ==
  ASSUME NEW b \in Field, NEW pl \in Player, NEW f, f = [b EXCEPT !.acted[pl] = TRUE]
  PROVE  /\ SameUnits(b, f)
         /\ f.action = b.action /\ f.stage = b.stage /\ f.winner = b.winner
         /\ f.acted = [b.acted EXCEPT ![pl] = TRUE]
BY DEF SameUnits, Field

LEMMA SetActionFields ==
  ASSUME NEW b \in Field, NEW pl \in Player, NEW r \in Action,
         NEW f, f = [b EXCEPT !.action[pl] = r]
  PROVE  /\ SameUnits(b, f)
         /\ f.acted = b.acted /\ f.stage = b.stage /\ f.winner = b.winner /\ f.cool = b.cool
         /\ f.action = [b.action EXCEPT ![pl] = r]
BY DEF SameUnits, Field

LEMMA CourseSound ==
  ASSUME NEW b, NEW c, NEW won, NEW denied, Course(b, c, won, denied), Sound(b)
  PROVE  Sound(c)
<1>1. Led(c) BY CourseLed DEF Sound
<1>2. \A u \in Unit : SoundUnit(c, u) BY DEF Course, UnitCourse, Sound
<1>3. c.hist = b.hist BY DEF Course
<1> QED BY <1>1, <1>2, <1>3 DEF Sound

LEMMA StruckSound ==
  ASSUME NEW b \in Field, NEW c, NEW s \in Unit, NEW t \in Unit, Struck(b, c, s, t), Sound(b)
  PROVE  Sound(c)
<1>1. Led(c) BY DEF Struck, Led, Sound
<1>2. \A u \in Unit : SoundUnit(c, u) BY StruckUnits DEF Sound
<1>3. ASSUME NEW i \in DOMAIN b.hist PROVE SoundRecord(RoarSnapshot(b.hist[i], t))
  <2> DEFINE h == b.hist[i]
             g == RoarSnapshot(h, t)
  <2>1. SoundRecord(h) /\ h \in Snapshot BY RoarHistoryEntries DEF Sound
  <2> HIDE DEF g, h
  <2>2. \A u \in Unit : /\ g.front = h.front
                        /\ SoundUnit(h, u) => SoundUnit(g, u)
                        /\ h.st[u] # "FADING" => g.st[u] # "FADING"
                        /\ g.eff[u]["operation_denied"] \in {0, h.eff[u]["operation_denied"]}
    BY <2>1, RoarSnapshotUnits DEF g
  <2>3. t \in Unit OBVIOUS
  <2>4. Led(g) BY <2>1, <2>2, <2>3 DEF SoundRecord, Led
  <2>5. SoundRecord(g) BY <2>1, <2>2, <2>4 DEF SoundRecord
  <2> QED BY <2>5 DEF g, h
<1>4. \A i \in DOMAIN c.hist : SoundRecord(c.hist[i])
  <2>1. CASE c.hist = b.hist BY <2>1 DEF Sound
  <2>2. CASE c.hist = RoarHistory(b, t) BY <1>3, <2>2, RoarHistoryEntries
  <2> QED BY <2>1, <2>2 DEF Struck
<1> QED BY <1>1, <1>2, <1>4 DEF Sound

LEMMA GoneBackSound ==
  ASSUME NEW b, NEW c, NEW j \in DOMAIN b.hist, GoneBack(b, c, b.hist[j]), Sound(b)
  PROVE  Sound(c)
<1>1. PICK h : h = b.hist[j] OBVIOUS
<1>2. SoundRecord(h) BY <1>1 DEF Sound
<1>3. /\ c.st = h.st /\ c.hp = h.hp /\ c.eff = h.eff /\ c.front = h.front /\ c.hist = b.hist
  BY <1>1 DEF GoneBack
<1>4. Led(c) BY <1>2, <1>3 DEF SoundRecord, Led
<1>5. \A u \in Unit : SoundUnit(c, u)
  <2> SUFFICES ASSUME NEW u \in Unit PROVE SoundUnit(c, u)
    OBVIOUS
  <2>1. SoundUnit(h, u) BY <1>2 DEF SoundRecord
  <2> QED BY <1>3, <2>1 DEF SoundUnit
<1>6. \A i \in DOMAIN c.hist : SoundRecord(c.hist[i]) BY <1>3 DEF Sound
<1> QED BY <1>4, <1>5, <1>6 DEF Sound

-----------------------------------------------------------------------------
(* What a player's action does to the units, and to who is still to act.   *)

(* c has the states, hit points and fronts of a snapshot.                  *)
Returned(b, c) ==
  \E h \in {b.hist[i] : i \in DOMAIN b.hist} :
    c.st = h.st /\ c.hp = h.hp /\ c.front = h.front

Spared(b, c) ==
  /\ Sound(c)
  /\ \A u \in Unit :
       /\ b.st[u] = "VANISHED" =>
            c.st[u] \in {"VANISHED", "FREEZING_ROARINGED"} \/ Returned(b, c)
       /\ Bears(b, u) =>
            Alive(c.st[u]) \/ c.st[u] = "FREEZING_ROARINGED" \/ Returned(b, c)
       /\ c.eff[u]["operation_denied"] \in {0, 1, b.eff[u]["operation_denied"]}

LEMMA SparedSame ==
  ASSUME NEW b, NEW c, NEW d, Spared(b, c), SameUnits(c, d) PROVE Spared(b, d)
<1>1. Sound(d) BY SameUnitsSound DEF Spared
<1> QED BY <1>1 DEF Spared, SameUnits, Returned

LEMMA CourseSpared ==
  ASSUME NEW b, NEW c, NEW won, Course(b, c, won, {1}), Sound(b) PROVE Spared(b, c)
<1>1. Sound(c) BY CourseSound
<1>2. \A u \in Unit : /\ UnitCourse(b, c, u)
                      /\ c.eff[u]["operation_denied"] \in {0, 1, b.eff[u]["operation_denied"]}
  BY DEF Course
<1> QED BY <1>1, <1>2 DEF Spared, UnitCourse, Bears

LEMMA GoneBackSpared ==
  ASSUME NEW b, NEW c, NEW j \in DOMAIN b.hist, GoneBack(b, c, b.hist[j]), Sound(b)
  PROVE  Spared(b, c)
<1>1. Sound(c) BY GoneBackSound
<1>2. Returned(b, c) BY DEF GoneBack, Returned
<1>3. \A u \in Unit : c.eff[u]["operation_denied"] = 0
  BY DEF GoneBack, Sound, SoundRecord
<1> QED BY <1>1, <1>2, <1>3 DEF Spared

LEMMA StruckSpared ==
  ASSUME NEW b \in Field, NEW c, NEW s \in Unit, NEW t \in Unit, Struck(b, c, s, t), Sound(b)
  PROVE  Spared(b, c)
<1>1. Sound(c) BY StruckSound
<1>2. ASSUME NEW u \in Unit
      PROVE  /\ b.st[u] = "VANISHED" => c.st[u] \in {"VANISHED", "FREEZING_ROARINGED"}
             /\ Bears(b, u) => Alive(c.st[u]) \/ c.st[u] = "FREEZING_ROARINGED"
  <2>1. CASE u = t BY <2>1, StruckUnits
  <2>2. CASE u # t
    <3>1. c.st[u] = b.st[u] BY <2>2, StruckUnits
    <3> QED BY <3>1 DEF Bears
  <2> QED BY <2>1, <2>2
<1>3. \A u \in Unit : c.eff[u]["operation_denied"] \in {0, 1, b.eff[u]["operation_denied"]}
  BY EffectNames DEF Struck
<1> QED BY <1>1, <1>2, <1>3 DEF Spared

LEMMA ReflexiveSpared ==
  ASSUME NEW b \in Field, Sound(b) PROVE Spared(b, b)
BY CourseReflexive, CourseSpared

LEMMA CrashFields ==
  ASSUME NEW b \in Field, NEW f, f = [b EXCEPT !.stage = "CRASHED"]
  PROVE  /\ SameUnits(b, f)
         /\ f.action = b.action /\ f.acted = b.acted /\ f.stage = "CRASHED"
         /\ f.winner = b.winner
BY SetStageFields DEF Stage

LEMMA ActedSpared ==
  ASSUME NEW b \in Field, Sound(b), NEW pl \in Player, NEW y, Acted(b, y, pl)
  PROVE  y \in Field /\ Spared(b, y)
<1>1. CASE y = b BY <1>1, ReflexiveSpared
<1>2. ASSUME NEW t \in Unit, Struck(b, y, b.front[pl], t) PROVE y \in Field /\ Spared(b, y)
  <2>1. b.front[pl] \in Unit BY DEF Field
  <2> QED BY <1>2, <2>1, StruckSpared DEF Struck
<1>3. CASE Plain(b, y, pl)
  <2>1. CASE Course(b, y, {pl}, {1}) BY <2>1, CourseSpared, CourseField
  <2>2. CASE y = [b EXCEPT !.stage = "CRASHED"]
    BY <2>2, CrashFields, ReflexiveSpared, SparedSame DEF SameUnits
  <2>3. ASSUME NEW j \in DOMAIN b.hist, GoneBack(b, y, b.hist[j])
        PROVE  y \in Field /\ Spared(b, y)
    BY <2>3, GoneBackSpared DEF GoneBack
  <2> QED BY <1>3, <2>1, <2>2, <2>3 DEF Plain
<1> QED BY <1>1, <1>2, <1>3 DEF Acted, Strikes, UnitsOf

(* A player's action leaves a sound field, spares those who cannot be      *)
(* killed and those who vanished, and denies at most one round.            *)
LEMMA PlayerActionSpared ==
  ASSUME NEW b \in Field, Sound(b), NEW pl \in Player, NEW x \in PlayerAction(b, pl)
  PROVE  x \in Field /\ Spared(b, x)
<1>1. CASE x = b BY <1>1, ReflexiveSpared
<1>2. ASSUME NEW y, Acted(b, y, pl), x = [y EXCEPT !.acted[pl] = TRUE]
      PROVE  x \in Field /\ Spared(b, x)
  <2>1. y \in Field /\ Spared(b, y) BY <1>2, ActedSpared
  <2>2. SameUnits(y, x) BY <1>2, <2>1, SetActedFields
  <2> QED BY <2>1, <2>2, SparedSame DEF SameUnits
<1> QED BY <1>1, <1>2, PlayerActionCourse DEF Sound

(* u's state is accounted for as long as its player has something to do.   *)
Tied(b, q) == b.action[q] = Abort \/ Synced(b, b.front[q])

(* What is left to do after pl's turn: nothing new.                        *)
Turned(b, c, pl) ==
  /\ c.stage \in {b.stage, "CRASHED"}
  /\ \A q \in Player :
       /\ \/ c.action[q] = Abort
          \/ c.action[q] = b.action[q] /\ c.front[q] = b.front[q]
       /\ q # pl => /\ c.acted[q] = b.acted[q]
                    /\ Tied(b, q) => Tied(c, q)

LEMMA StruckTurned ==
  ASSUME NEW b \in Field, NEW c, NEW pl \in Player, NEW t \in UnitsOf(Enemy(pl)),
         Led(b), Struck(b, c, b.front[pl], t)
  PROVE  Turned(b, c, pl)
<1>1. b.front[pl] \in Unit /\ t \in Unit BY DEF Field, UnitsOf
<1>2. ASSUME NEW q \in Player, q # pl, Tied(b, q) PROVE Tied(c, q)
  <2>1. c.front[q] = b.front[q] /\ c.action[q] \in {b.action[q], Abort}
    BY DEF Struck
  <2>2. b.front[q] \in Unit /\ b.front[q] # b.front[pl] BY <1>2 DEF Field, Led
  <2> DEFINE s == b.front[pl]
             u == b.front[q]
  <2>3. Synced(b, u) => Synced(c, u)
    <3>1. Struck(b, c, s, t) OBVIOUS
    <3>2. s \in Unit /\ u \in Unit /\ u # s BY <1>1, <2>2
    <3> HIDE DEF s, u
    <3> QED BY <1>1, <3>1, <3>2, StruckUnits
  <2> QED BY <1>2, <2>1, <2>3 DEF Tied
<1> QED BY <1>2 DEF Turned, Struck

LEMMA CourseTurned ==
  ASSUME NEW b, NEW c, NEW pl, NEW won, NEW denied, Course(b, c, won, denied),
         b.front \in [Player -> Unit]
  PROVE  Turned(b, c, pl)
<1>1. Pending(b, c) /\ c.stage = b.stage /\ c.acted = b.acted BY DEF Course
<1>2. ASSUME NEW q \in Player, Tied(b, q) PROVE Tied(c, q)
  <2>1. b.front[q] \in Unit OBVIOUS
  <2>2. Synced(b, b.front[q]) => Synced(c, b.front[q])
    BY <2>1 DEF Course, UnitCourse
  <2> QED BY <1>1, <1>2, <2>2 DEF Pending, Tied
<1> QED BY <1>1, <1>2 DEF Pending, Turned

LEMMA ActedTurned ==
  ASSUME NEW b \in Field, Led(b), NEW pl \in Player, NEW y, Acted(b, y, pl)
  PROVE  Turned(b, y, pl)
<1>1. b.front \in [Player -> Unit] BY DEF Field
<1>2. Turned(b, b, pl) BY DEF Turned
<1>3. CASE Plain(b, y, pl)
  <2>1. CASE Course(b, y, {pl}, {1}) BY <1>1, <2>1, CourseTurned
  <2>2. CASE y = [b EXCEPT !.stage = "CRASHED"]
    <3>1. /\ y.stage = "CRASHED" /\ y.action = b.action /\ y.acted = b.acted
          /\ y.front = b.front /\ y.st = b.st /\ y.eff = b.eff
      BY <2>2, CrashFields DEF SameUnits
    <3>2. \A q \in Player : Tied(b, q) => Tied(y, q) BY <3>1 DEF Tied, Synced
    <3> QED BY <3>1, <3>2 DEF Turned
  <2>3. CASE \E j \in DOMAIN b.hist : GoneBack(b, y, b.hist[j])
    BY <2>3 DEF GoneBack, Turned, Tied
  <2> QED BY <1>3, <2>1, <2>2, <2>3 DEF Plain
<1> QED BY <1>2, <1>3, StruckTurned DEF Acted, Strikes, Led

(* A turn adds nothing to what is left to do, and is taken once.           *)
LEMMA PlayerActionTurned ==
  ASSUME NEW b \in Field, Led(b), NEW pl \in Player, NEW x \in PlayerAction(b, pl)
  PROVE  /\ Turned(b, x, pl)
         /\ x.acted[pl] \/ (ActionFails(b, pl) /\ x = b)
<1>1. CASE x = b /\ (b.acted[pl] \/ ActionFails(b, pl)) BY <1>1 DEF Turned
<1>2. ASSUME NEW y, Acted(b, y, pl), y \in Field, x = [y EXCEPT !.acted[pl] = TRUE]
      PROVE  Turned(b, x, pl) /\ x.acted[pl]
  <2>1. Turned(b, y, pl) BY <1>2, ActedTurned
  <2>2. /\ x.st = y.st /\ x.eff = y.eff /\ x.front = y.front
        /\ x.action = y.action /\ x.stage = y.stage
        /\ x.acted = [y.acted EXCEPT ![pl] = TRUE]
    BY <1>2, SetActedFields DEF SameUnits
  <2>3. \A q \in Player : Tied(y, q) => Tied(x, q)
    BY <2>2 DEF Tied, Synced
  <2>4. x.acted[pl] /\ \A q \in Player : q # pl => x.acted[q] = y.acted[q]
    BY <1>2, <2>2 DEF Field
  <2>5. ASSUME NEW q \in Player, q # pl
        PROVE  x.acted[q] = b.acted[q] /\ (Tied(b, q) => Tied(x, q))
    <3>1. y.acted[q] = b.acted[q] /\ (Tied(b, q) => Tied(y, q))
      BY <2>1, <2>5, Zenon DEF Turned
    <3>2. x.acted[q] = b.acted[q] BY <2>4, <2>5, <3>1, Zenon
    <3> QED BY <2>3, <3>1, <3>2, Zenon
  <2>6. /\ x.stage \in {b.stage, "CRASHED"}
        /\ \A q \in Player :
             \/ x.action[q] = Abort
             \/ x.action[q] = b.action[q] /\ x.front[q] = b.front[q]
    BY <2>1, <2>2 DEF Turned
  <2>7. Turned(b, x, pl) BY <2>5, <2>6, Zenon DEF Turned
  <2> QED BY <2>4, <2>7
<1>3. ASSUME NEW y, Acted(b, y, pl) PROVE y \in Field
  BY <1>3, CourseField, CrashFields
  DEF Acted, Strikes, Struck, Plain, SameUnits, GoneBack
<1> QED BY <1>1, <1>2, <1>3, PlayerActionCourse

(* Only a plain action names a winner, and it names its own player.        *)
LEMMA PlayerActionWinner ==
  ASSUME NEW b \in Field, Led(b), NEW pl \in Player, NEW x \in PlayerAction(b, pl)
  PROVE  x.winner \in {b.winner, pl, None}
<1>1. ASSUME NEW y, Acted(b, y, pl) PROVE y \in Field /\ y.winner \in {b.winner, pl, None}
  BY <1>1, CrashFields DEF Acted, Strikes, Struck, Plain, SameUnits, GoneBack, Course
<1>2. ASSUME NEW y, Acted(b, y, pl), x = [y EXCEPT !.acted[pl] = TRUE]
      PROVE  x.winner \in {b.winner, pl, None}
  BY <1>1, <1>2, SetActedFields
<1> QED BY <1>2, PlayerActionCourse

(* What an enhanced roar leaves, and to whom.                              *)
RoaredAt(b, x, pl, t) ==
  LET q == Enemy(pl)
  IN  /\ b.st[t] # "FREEZING_ROARINGED" \/ t = b.front[q]
      /\ x.st[t] = "FREEZING_ROARINGED"
      /\ x.stage = b.stage
      /\ x.winner = IF b.winner = q THEN None ELSE b.winner
      /\ b.front[q] # t => /\ x.front[q] = b.front[q]
                           /\ x.action[q] = b.action[q]
                           /\ x.st[b.front[q]] = b.st[b.front[q]]
                           /\ x.eff[b.front[q]] = b.eff[b.front[q]]

LEMMA PlayerActionRoars ==
  ASSUME NEW b \in Field, Led(b), NEW pl \in Player, NEW x \in PlayerAction(b, pl),
         Roars(b, pl), ~b.acted[pl], AliveS(b.st[b.front[pl]])
  PROVE  \E t \in UnitsOf(Enemy(pl)) : RoaredAt(b, x, pl, t)
<1> DEFINE s == b.front[pl]
           q == Enemy(pl)
<1>1. /\ s \in Unit /\ Owner(s) = pl /\ q \in Player /\ q # pl
      /\ b.front[q] \in Unit /\ b.front[q] # s
  BY Owners DEF Field, Led
<1>2. PICK y : Strikes(b, y, s) /\ x = [y EXCEPT !.acted[pl] = TRUE]
  BY PlayerActionCourse DEF Acted, ActionFails
<1>3. PICK t \in UnitsOf(q) : /\ Struck(b, y, s, t)
                              /\ b.st[t] # "FREEZING_ROARINGED" \/ t = b.front[q]
  BY <1>1, <1>2 DEF Strikes, Osite
<1>4. t \in Unit /\ Owner(t) = q BY <1>3 DEF UnitsOf
<1>5. /\ y \in Field
      /\ y.stage = b.stage /\ y.front = b.front
      /\ y.winner = IF b.winner = q THEN None ELSE b.winner
      /\ y.st = [b.st EXCEPT ![t] = "FREEZING_ROARINGED"]
      /\ b.front[q] # t => /\ y.action[q] = b.action[q]
                           /\ y.eff[b.front[q]] = b.eff[b.front[q]]
  BY <1>1, <1>3, <1>4 DEF Struck
<1>6. /\ x.st = y.st /\ x.front = y.front /\ x.action = y.action /\ x.stage = y.stage
      /\ x.eff = y.eff /\ x.winner = y.winner
  BY <1>2, <1>5, SetActedFields DEF SameUnits
<1>7. y.st[t] = "FREEZING_ROARINGED" /\ \A u \in Unit \ {t} : y.st[u] = b.st[u]
  BY <1>4, <1>5 DEF Field
<1>8. RoaredAt(b, x, pl, t) BY <1>1, <1>3, <1>5, <1>6, <1>7 DEF RoaredAt
<1> QED BY <1>3, <1>8

-----------------------------------------------------------------------------
(* Nobody fades at ROUNDEND, once those who faded have fallen.             *)

LEMMA ReapSettles ==
  ASSUME NEW b \in Field, b.stage = "ROUNDEND", NEW u \in Unit
  PROVE  ReapFading(b).st[u] # "FADING"
<1> DEFINE fading == {v \in Unit : b.st[v] = "FADING"}
           early  == {v \in fading : Index(v) <= Index(b.front[Owner(v)])}
           late   == fading \ early
           c      == Fail(b, early)
<1>1. c \in Field /\ c.stage = "ROUNDEND" BY FailFields
<1>2. ReapFading(b) = Fail(c, late) BY DEF ReapFading
<1>3. b.st[u] = "FADING" => u \in early \/ u \in late OBVIOUS
<1>4. c.st[u] # "FADING" \/ u \in late
  <2>1. b.st[u] # "FADING" \/ u \in early => c.st[u] # "FADING" BY NobodyFades
  <2> HIDE DEF c, early, late
  <2> QED BY <1>3, <2>1
<1> HIDE DEF c, late
<1> QED BY <1>1, <1>2, <1>4, NobodyFades

LEMMA RoundEndEffectsSettle ==
  ASSUME NEW b \in Field, NEW d \in Nat, b.stage = "ROUNDEND",
         \A u \in Unit : b.st[u] # "FADING"
  PROVE  \A u \in Unit : RoundEndEffects(b, d).st[u] # "FADING"
<1> DEFINE hurt == {u \in Unit : b.eff[u]["cursed"] # 0 /\ Alive(b.st[u])}
           left == [u \in Unit |-> IF u \notin hurt THEN b.hp[u]
                                   ELSE IF d < b.hp[u] THEN b.hp[u] - d ELSE 0]
           dead == {u \in hurt : left[u] = 0 /\ b.eff[u]["absolutely_immortal"] = 0}
           a    == [b EXCEPT !.hp = left]
           c    == Fail(a, dead)
           eff  == [u \in Unit |-> IF u \in dead /\ c.eff[u]["perish_song"] # 0
                                     THEN [c.eff[u] EXCEPT !["perish_song"] = -1]
                                     ELSE c.eff[u]]
<1>1. left \in [Unit -> 0 .. MaxHp] BY NumberAssumption DEF Field
<1>2. RoundEndEffects(b, d) = [c EXCEPT !.eff = eff] BY DEF RoundEndEffects
<1> HIDE DEF left, hurt, eff
<1>3. a \in Field /\ a.stage = "ROUNDEND" /\ a.st = b.st BY <1>1 DEF Field
<1> HIDE DEF a, dead
<1>4. c \in Field /\ \A u \in Unit : c.st[u] # "FADING" BY <1>3, NobodyFades, FailFields
<1> HIDE DEF c
<1>5. RoundEndEffects(b, d).st = c.st BY <1>2, <1>4 DEF Field
<1> QED BY <1>4, <1>5

-----------------------------------------------------------------------------
(* The end of the round takes one round from every effect.                 *)

LEMMA RoundDecreaseFields ==
  ASSUME NEW b \in Field, NEW f, f = EffectRoundDecrease(b)
  PROVE  /\ f \in Field
         /\ f.st = b.st /\ f.hp = b.hp /\ f.hist = b.hist /\ f.stage = b.stage
         /\ f.acted = b.acted /\ f.winner = b.winner /\ f.front = b.front
         /\ f.action = b.action
         /\ \A u \in Unit : \A k \in Effect :
              f.eff[u][k] = IF b.eff[u][k] > 0 THEN b.eff[u][k] - 1 ELSE b.eff[u][k]
<1> DEFINE eff == [u \in Unit |-> [k \in Effect |->
                     IF b.eff[u][k] > 0 THEN b.eff[u][k] - 1 ELSE b.eff[u][k]]]
<1>1. f \in Field BY EffectRoundDecreaseSame DEF Same
<1>2. f = [b EXCEPT !.eff = eff] BY DEF EffectRoundDecrease
<1>3. \A u \in Unit : \A k \in Effect :
        eff[u][k] = IF b.eff[u][k] > 0 THEN b.eff[u][k] - 1 ELSE b.eff[u][k]
  OBVIOUS
<1> HIDE DEF eff
<1>4. /\ f.st = b.st /\ f.hp = b.hp /\ f.hist = b.hist /\ f.stage = b.stage
      /\ f.acted = b.acted /\ f.winner = b.winner /\ f.front = b.front
      /\ f.action = b.action /\ f.eff = eff
  BY <1>2 DEF Field
<1> QED BY <1>1, <1>3, <1>4

LEMMA RoundDecreaseSound ==
  ASSUME NEW b \in Field, Sound(b) PROVE Sound(EffectRoundDecrease(b))
<1> DEFINE f == EffectRoundDecrease(b)
<1> HIDE DEF f
<1>1. /\ f.st = b.st /\ f.hp = b.hp /\ f.hist = b.hist /\ f.front = b.front
      /\ \A u \in Unit : \A k \in Effect :
           f.eff[u][k] = IF b.eff[u][k] > 0 THEN b.eff[u][k] - 1 ELSE b.eff[u][k]
  BY RoundDecreaseFields DEF f
<1>2. \A u \in Unit : \A k \in Effect : b.eff[u][k] = 0 => f.eff[u][k] = 0 BY <1>1
<1>3. ASSUME NEW u \in Unit PROVE SoundUnit(f, u)
  <2>1. SoundUnit(b, u) BY DEF Sound
  <2> QED BY <1>1, <1>2, <2>1, EffectNames DEF SoundUnit
<1>4. Sound(f) BY <1>1, <1>3 DEF Sound, Led
<1> QED BY <1>4 DEF f

(* A round begins with a record of the field it begins with.               *)
LEMMA HistoryAddSound ==
  ASSUME NEW b \in Field, Sound(b),
         \A u \in Unit : b.st[u] # "FADING" /\ b.eff[u]["operation_denied"] = 0
  PROVE  Sound(HistoryAdd(b))
<1> DEFINE h == [st |-> b.st, hp |-> b.hp, eff |-> b.eff, cool |-> b.cool,
                 front |-> b.front]
           f == HistoryAdd(b)
<1>1. SoundRecord(h) BY DEF Sound, SoundRecord, Led, SoundUnit
<1>2. b.hist \in Seq(Snapshot) BY DEF Field
<1>3. f.hist = Append(b.hist, h) BY DEF HistoryAdd, Field
<1>4. f.st = b.st /\ f.hp = b.hp /\ f.eff = b.eff /\ f.front = b.front
  BY DEF HistoryAdd, Field
<1> HIDE DEF f, h
<1>5. ASSUME NEW i \in DOMAIN f.hist PROVE SoundRecord(f.hist[i])
  <2>1. CASE i \in DOMAIN b.hist
    <3>1. f.hist[i] = b.hist[i] BY <1>2, <1>3, <2>1
    <3> QED BY <2>1, <3>1 DEF Sound
  <2>2. CASE i \notin DOMAIN b.hist
    <3>1. f.hist[i] = h BY <1>2, <1>3, <2>2
    <3> QED BY <1>1, <3>1
  <2> QED BY <2>1, <2>2
<1>6. Sound(f) BY <1>4, <1>5 DEF Sound, Led, SoundUnit
<1> QED BY <1>6 DEF f
=============================================================================
