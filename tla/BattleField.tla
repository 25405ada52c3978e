----------------------------- MODULE BattleField -----------------------------
(***************************************************************************)
(* The battle field and the operations battle-core.c performs on it.  A    *)
(* battle is a sequential program that threads one struct battle_field     *)
(* through nested calls, so every C function is an operator from a field   *)
(* record to the field it leaves behind (or to the set of fields it may    *)
(* leave behind, when hit tests and damage rolls decide).  Module Battle   *)
(* sequences these operators the way battle() does.                        *)
(*                                                                         *)
(* The catalogue of moves and effects is a representative of each kind of  *)
(* code in moves.c that touches the battle's control: a plain hit, control *)
(* effects, a veto of unit_kill, an effect kept after death, damage over   *)
(* time, vanishing, revival and turning time back, freezing roaring, and   *)
(* an effect that decides the battle.  Damage is a roll in 1..MaxHp.       *)
(***************************************************************************)
EXTENDS Integers, Sequences

CONSTANTS
  Unit,          (* the slots <<player, index>> whose base is not NULL     *)
  MoveIndex,     (* ACT_MOVE0 .. ACT_MOVE7                                 *)
  Kit,           (* unit_base.moves: what each unit has in each slot       *)
  MaxHp,         (* the most hit points a unit has                         *)
  Rounds,        (* how many rounds each effect lasts; -1: until it is ended*)
  StartCooldown, (* the cooldown each move begins the battle with          *)
  Cooldown,      (* what each move passes to setcooldown()                 *)
  TimeBackSpan,  (* rounds time_back() goes back (20 in the code)          *)
  KarmaSpan      (* rounds karma_reverse() looks back (5 in the code)      *)

Player == {"p", "e"}
Enemy(pl) == IF pl = "p" THEN "e" ELSE "p"
None == "none"
Owner(u) == u[1]
Index(u) == u[2]

State == {"NORMAL", "CONTROLLED", "SUPPRESSED", "FADING",
          "FAILED", "VANISHED", "FREEZING_ROARINGED"}

Stage == {"INIT", "ROUNDSTART", "SELECT", "PRIOR", "LATTER", "ROUNDEND",
          "BATTLE_END", "CRASHED"}

Move == {"none", "freezing_roaring", "time_back", "karma_reverse",
         "perish_song", "dmts_impact", "steel_flywheel", "red_lotus",
         "absolutely_immortal", "plasmatizing_lightcannon"}

Roaring    == {"freezing_roaring"}                          \* MLEVEL_FREEZING_ROARING
Conceptual == {"time_back", "karma_reverse", "absolutely_immortal"}
NoControl  == {"time_back", "karma_reverse"}                \* MOVE_NOCONTROL

Effect == {"perish_song", "stunned", "suppressed", "absolutely_immortal",
           "reduced", "cursed", "operation_denied", "ATK", "SPEED"}

Negative == {"perish_song", "stunned", "suppressed", "reduced", "cursed", "SPEED"}
Keep     == {"perish_song", "ATK", "SPEED"}                 \* EFFECT_KEEP
Inits    == {"stunned", "cursed"}                           \* abnormal_init()

Action == [kind : {"move", "unit"}, n : 0 .. 7]
            \cup [kind : {"attack", "abort", "giveup"}, n : {0}]
Abort  == [kind |-> "abort", n |-> 0]

ASSUME UnitAssumption ==
  /\ Unit \subseteq Player \X (0 .. 5)
  /\ \A pl \in Player : <<pl, 0>> \in Unit
  /\ \A u \in Unit : \A i \in 0 .. u[2] : <<u[1], i>> \in Unit
ASSUME KitAssumption ==
  /\ MoveIndex \subseteq 0 .. 7
  /\ Kit \in [Unit -> [MoveIndex -> Move]]
ASSUME NumberAssumption ==
  /\ MaxHp \in Nat \ {0}
  /\ Rounds \in [Effect -> (Nat \ {0}) \cup {-1}]
  /\ StartCooldown \in [Move -> Nat]
  /\ Cooldown \in [Move -> Nat]
  /\ TimeBackSpan \in Nat
  /\ KarmaSpan \in Nat
(* karma_reverse() passes effect() one round for operation_denied.         *)
ASSUME DenialAssumption == Rounds["operation_denied"] = 1

Snapshot == [st    : [Unit -> State],
             hp    : [Unit -> 0 .. MaxHp],
             eff   : [Unit -> [Effect -> Int]],
             cool  : [Unit -> [MoveIndex -> Nat]],
             front : [Player -> Unit]]

(***************************************************************************)
(* The stage CRASHED is ours: the process died in the middle of a call.    *)
(* eff[u][k] is what is left of effect k on u: 0 when it is not there, -1  *)
(* when it is permanent.  hist is f->ht, one snapshot per round.           *)
(***************************************************************************)
Field == [st     : [Unit -> State],
          hp     : [Unit -> 0 .. MaxHp],
          eff    : [Unit -> [Effect -> Int]],
          cool   : [Unit -> [MoveIndex -> Nat]],
          front  : [Player -> Unit],
          action : [Player -> Action],
          acted  : [Player -> BOOLEAN],
          stage  : Stage,
          round  : Nat,
          winner : Player \cup {None},
          hist   : Seq(Snapshot)]

NewField ==
  [st     |-> [u \in Unit |-> "NORMAL"],
   hp     |-> [u \in Unit |-> MaxHp],
   eff    |-> [u \in Unit |-> [k \in Effect |-> 0]],
   cool   |-> [u \in Unit |-> [i \in MoveIndex |-> StartCooldown[Kit[u][i]]]],
   front  |-> [pl \in Player |-> <<pl, 0>>],
   action |-> [pl \in Player |-> Abort],
   acted  |-> [pl \in Player |-> FALSE],
   stage  |-> "INIT",
   round  |-> 0,
   winner |-> None,
   hist   |-> << >>]

-----------------------------------------------------------------------------
(* Predicates on states and units.                                         *)

Alive(s)    == s \in {"NORMAL", "CONTROLLED", "SUPPRESSED"}
AliveS(s)   == Alive(s) \/ s = "FADING"
Vanished(s) == s \in {"VANISHED", "FREEZING_ROARINGED"}

UnitsOf(pl)  == {u \in Unit : Owner(u) = pl}
FrontOf(b, u) == b.front[Owner(u)] = u
Osite(b, u)  == b.front[Enemy(Owner(u))]

HasRoaring(u) == \E i \in MoveIndex : Kit[u][i] \in Roaring

HasNegative(b, u) ==
  \/ \E k \in Negative : b.eff[u][k] # 0
  \/ HasRoaring(u) /\ b.st[u] \in {"CONTROLLED", "SUPPRESSED"}

(* Move i of u would be an enhanced freezing roaring.                      *)
IfFr(b, u, i) == i \in MoveIndex /\ Kit[u][i] \in Roaring /\ HasNegative(b, u)

(* The action of pl is one.                                                *)
Roars(b, pl) == b.action[pl].kind = "move" /\ IfFr(b, b.front[pl], b.action[pl].n)

(* u is about to roar, so it may not fall or leave yet.  The action is the *)
(* player's, whoever of its units u is.                                    *)
CheckFr(b, u) ==
  LET act == b.action[Owner(u)]
  IN  \/ b.stage = "ROUNDSTART" /\ HasRoaring(u) /\ HasNegative(b, u)
      \/ /\ b.stage \in {"ROUNDSTART", "SELECT", "PRIOR", "LATTER"}
         /\ act.kind = "move"
         /\ ~b.acted[Owner(u)]
         /\ IfFr(b, u, act.n)

-----------------------------------------------------------------------------
(* unit_setstate() and what is built on it.                                *)

(* The effects of u that survive a change to state s.                      *)
Wiped(e, s) ==
  [k \in Effect |-> IF Vanished(s) \/ (s = "FAILED" /\ k \notin Keep)
                      THEN 0 ELSE e[k]]

(* unit_setstate(u, FAILED) for each u of U: a unit that is about to roar  *)
(* fades instead, and a front that fails loses its pending action.         *)
Fail(b, U) ==
  LET able   == {u \in U : AliveS(b.st[u])}
      fade   == {u \in able : CheckFr(b, u)}
      fallen == able \ fade
  IN  [b EXCEPT
        !.hp  = [u \in Unit |-> IF u \in able THEN 0 ELSE b.hp[u]],
        !.st  = [u \in Unit |-> IF u \in fade THEN "FADING"
                                ELSE IF u \in fallen THEN "FAILED" ELSE b.st[u]],
        !.eff = [u \in Unit |-> IF u \in fallen THEN Wiped(b.eff[u], "FAILED")
                                ELSE b.eff[u]],
        !.action = [pl \in Player |-> IF b.front[pl] \in fallen THEN Abort
                                      ELSE b.action[pl]]]

Vanish(b, u) ==
  IF b.st[u] # "FAILED" THEN b
  ELSE [b EXCEPT !.st[u] = "VANISHED", !.eff[u] = Wiped(b.eff[u], "VANISHED")]

(* Mutant: the effects in the snapshot are left alone.                     *)
RoarSnapshot_StateOnly(h, u) == [h EXCEPT !.st[u] = "FREEZING_ROARINGED"]

(* unit_set_freezing_roaringed_in_each_history() on one snapshot.          *)
RoarSnapshot(h, u) == [h EXCEPT !.st[u]  = "FREEZING_ROARINGED",
                                !.eff[u] = [k \in Effect |-> 0]]

(* Mutants: the loop stops one short; history is not rewritten.            *)
RoarHistory_ButLast(b, u) ==
  [i \in DOMAIN b.hist |-> IF i = Len(b.hist) THEN b.hist[i] ELSE RoarSnapshot(b.hist[i], u)]
RoarHistory_Untouched(b, u) == b.hist

RoarHistory(b, u) == [i \in DOMAIN b.hist |-> RoarSnapshot(b.hist[i], u)]

(* A unit that is roared down is roared down in every snapshot too.        *)
RoarDown(b, u) ==
  IF b.st[u] = "FREEZING_ROARINGED" THEN b
  ELSE [b EXCEPT
         !.hist   = RoarHistory(b, u),
         !.action = [pl \in Player |-> IF b.front[pl] = u THEN Abort ELSE b.action[pl]],
         !.st[u]  = "FREEZING_ROARINGED",
         !.eff[u] = [k \in Effect |-> 0]]

(* What the update_state hooks of u's effects compute.                     *)
Condition(b, u) ==
  IF b.eff[u]["suppressed"] # 0 THEN "SUPPRESSED"
  ELSE IF b.eff[u]["stunned"] # 0 THEN "CONTROLLED" ELSE "NORMAL"

(* Mutant: without the early return for units that do not stand.           *)
UpdateState_Fallen(b, pl) ==
  [b EXCEPT !.st = [u \in Unit |-> IF Owner(u) = pl /\ b.st[u] # "FREEZING_ROARINGED"
                                     THEN Condition(b, u) ELSE b.st[u]]]

UpdateState(b, pl) ==
  [b EXCEPT !.st = [u \in Unit |-> IF Owner(u) = pl /\ Alive(b.st[u])
                                     THEN Condition(b, u) ELSE b.st[u]]]

(* Mutant: no effect is asked whether the unit may be killed.              *)
Kill_NoVeto(b, u) ==
  IF ~Alive(b.st[u]) \/ b.hp[u] # 0 THEN b ELSE Fail(b, {u})

(* unit_kill(): the kill hook of absolutely_immortal vetoes, the kill_end  *)
(* hook of perish_song makes the song permanent.                           *)
Kill(b, u) ==
  IF ~Alive(b.st[u]) \/ b.hp[u] # 0 \/ b.eff[u]["absolutely_immortal"] # 0 THEN b
  ELSE LET c == Fail(b, {u})
       IN  IF c.eff[u]["perish_song"] = 0 THEN c
           ELSE [c EXCEPT !.eff[u]["perish_song"] = -1]

Damage(b, u, d) ==
  IF ~Alive(b.st[u]) THEN b
  ELSE Kill([b EXCEPT !.hp[u] = IF d < @ THEN @ - d ELSE 0], u)

(* revive_nonhookable(u, hp) for each u of U, without a hook on revive_end.*)
Revive(b, U, hp) ==
  LET back == {u \in U : ~Alive(b.st[u]) /\ ~Vanished(b.st[u])}
  IN  [b EXCEPT
        !.st = [u \in Unit |-> IF u \in back THEN Condition(b, u) ELSE b.st[u]],
        !.hp = [u \in Unit |-> IF u \in back THEN hp[u] ELSE b.hp[u]]]

(* Mutant: only the units of e are reaped.                                 *)
ReapFading_OnlyE(b) == Fail(b, {u \in Unit : b.st[u] = "FADING" /\ Owner(u) = "e"})

(* reap_fading(): in index order, so a bench unit after the front sees the *)
(* action the front lost.                                                  *)
ReapFading(b) ==
  LET fading == {u \in Unit : b.st[u] = "FADING"}
      early  == {u \in fading : Index(u) <= Index(b.front[Owner(u)])}
  IN  Fail(Fail(b, early), fading \ early)

-----------------------------------------------------------------------------
(* Effects, cooldowns, history, switching.                                 *)

(* setwinner() without hooks. *)
SetWinner(b, pl) == [b EXCEPT !.winner = pl]

(* reduced_inited(): every unit still standing is reduced.                 *)
AllReduced(b, pl) ==
  /\ \E u, v \in UnitsOf(pl) : u # v /\ ~Vanished(b.st[u]) /\ ~Vanished(b.st[v])
  /\ \A u \in UnitsOf(pl) : AliveS(b.st[u]) => b.eff[u]["reduced"] # 0

(* effect(k, dest, src, .., n): refused on the fallen, and a unit that can *)
(* roar takes no negative effect from its own side.                        *)
AddEffect(b, k, dest, src, n) ==
  IF \/ ~Alive(b.st[dest])
     \/ HasRoaring(dest) /\ Owner(src) = Owner(dest) /\ k \in Negative
    THEN b
  ELSE LET old == b.eff[dest][k]
           c   == [b EXCEPT !.eff[dest][k] =
                     IF k \in Inits /\ old # 0 THEN old ELSE n]
       IN  IF k = "reduced" /\ AllReduced(c, Owner(dest))
             THEN SetWinner(c, Enemy(Owner(dest))) ELSE c

SetCooldown(b, u, i) == [b EXCEPT !.cool[u][i] = Cooldown[Kit[u][i]]]

HistoryAdd(b) ==
  [b EXCEPT !.hist = Append(@, [st |-> b.st, hp |-> b.hp, eff |-> b.eff,
                                cool |-> b.cool, front |-> b.front])]

CanSwitch(b, to) ==
  /\ ~FrontOf(b, to)
  /\ Alive(b.st[to])
  /\ ~CheckFr(b, b.front[Owner(to)])

SwitchUnit(b, to) ==
  IF ~CanSwitch(b, to) THEN b
  ELSE [b EXCEPT !.action[Owner(to)] = Abort, !.front[Owner(to)] = to]

(* Mutant: a move that is ready is counted down too.                       *)
CooldownDecrease_Ready(b, pl) ==
  [b EXCEPT !.cool = [u \in Unit |-> [i \in MoveIndex |->
     IF Owner(u) = pl /\ ~Vanished(b.st[u]) THEN b.cool[u][i] - 1 ELSE b.cool[u][i]]]]

CooldownDecrease(b, pl) ==
  [b EXCEPT !.cool = [u \in Unit |-> [i \in MoveIndex |->
     IF Owner(u) = pl /\ ~Vanished(b.st[u]) /\ b.cool[u][i] > 0
       THEN b.cool[u][i] - 1 ELSE b.cool[u][i]]]]

(* Mutant: off by one.                                                     *)
EffectRoundDecrease_KeepsLast(b) ==
  [b EXCEPT !.eff = [u \in Unit |-> [k \in Effect |->
     IF b.eff[u][k] > 1 THEN b.eff[u][k] - 1 ELSE b.eff[u][k]]]]

(* effect_round_decrease(effects, 1): an effect that reaches 0 ends.       *)
EffectRoundDecrease(b) ==
  [b EXCEPT !.eff = [u \in Unit |-> [k \in Effect |->
     IF b.eff[u][k] > 0 THEN b.eff[u][k] - 1 ELSE b.eff[u][k]]]]

(* effect_in_roundend(): cursed takes its toll.  Every unit it is on rolls *)
(* alike; nothing is about to roar at ROUNDEND, so the order is immaterial.*)
RoundEndEffects(b, d) ==
  LET hurt == {u \in Unit : b.eff[u]["cursed"] # 0 /\ Alive(b.st[u])}
      left == [u \in Unit |-> IF u \notin hurt THEN b.hp[u]
                              ELSE IF d < b.hp[u] THEN b.hp[u] - d ELSE 0]
      dead == {u \in hurt : left[u] = 0 /\ b.eff[u]["absolutely_immortal"] = 0}
      c    == Fail([b EXCEPT !.hp = left], dead)
  IN  [c EXCEPT !.eff = [u \in Unit |->
         IF u \in dead /\ c.eff[u]["perish_song"] # 0
           THEN [c.eff[u] EXCEPT !["perish_song"] = -1] ELSE c.eff[u]]]

-----------------------------------------------------------------------------
(* The moves: what may be left of field b once unit s has used slot i.     *)

(* What an attack on t may leave when it hits, and when it misses: the     *)
(* suppressed cannot dodge.                                                *)
Hit(b, t)  == {Damage(b, t, d) : d \in 1 .. MaxHp}
Miss(b, t) == IF b.st[t] = "SUPPRESSED" THEN {} ELSE {b}

Cast(b, k, dest, src) == AddEffect(b, k, dest, src, Rounds[k])

NormalAttack(b, s) == LET t == Osite(b, s) IN Miss(b, t) \cup Hit(b, t)

PerishSong(b, s, i) ==
  LET t == Osite(b, s)
      c == Cast(Cast(b, "perish_song", t, s), "perish_song", s, s)
  IN  {SetCooldown(x, s, i) : x \in Miss(c, t) \cup Hit(c, t)}

(* It stuns for 1 to 3 rounds. *)
DmtsImpact(b, s, i) ==
  LET t == Osite(b, s)
  IN  Miss(b, t) \cup
      {SetCooldown(AddEffect(x, "stunned", t, s, n), s, i) :
         x \in Hit(b, t), n \in 1 .. Rounds["stunned"]}

SteelFlywheel(b, s, i) ==
  LET t == Osite(b, s)
  IN  {SetCooldown(x, s, i) :
         x \in Miss(b, t) \cup {Cast(y, "cursed", t, s) : y \in Hit(b, t)}}

(* reduce(): a sixteenth of the target's hit points, here 0 or 1, strikes  *)
(* the caster.                                                             *)
RedLotus(b, s) ==
  LET t == Osite(b, s)
      reduced == {Cast(x, "reduced", t, s) : x \in Hit(b, t)}
      recoil(x) == IF x.hp[t] = 0 THEN {0} ELSE {0, 1}
  IN  Miss(b, t) \cup UNION {{Damage(x, s, d) : d \in recoil(x)} : x \in reduced}

AbsolutelyImmortal(b, s, i) ==
  {SetCooldown(Cast(b, "absolutely_immortal", s, s), s, i)}

PlasmatizingLightcannon(b, s, i) ==
  LET t == Osite(b, s)
      c == Damage(b, t, MaxHp)
  IN  {SetCooldown(IF Alive(c.st[t]) THEN Cast(c, "suppressed", t, s)
                   ELSE Vanish(c, t), s, i)}

(* Without a negative effect on the caster freezing_roaring() is a hit     *)
(* that may slow the target and strengthens the caster.                    *)
PlainRoar(b, s) ==
  LET t    == Osite(b, s)
      slow == {Cast(x, "SPEED", t, s) : x \in Hit(b, t)}
  IN  {Cast(x, "ATK", s, s) : x \in Miss(b, t) \cup Hit(b, t) \cup slow}

(* With one it strikes down unit t whatever its state, heals the caster of *)
(* every negative effect and takes back a victory that t's side was given. *)
EnhancedRoar(b, s, i, t) ==
  LET c == RoarDown([b EXCEPT !.hp[t] = IF Alive(b.st[t]) THEN 0 ELSE @], t)
  IN  [c EXCEPT !.eff[s] = [k \in Effect |-> IF k \in Negative THEN 0 ELSE c.eff[s][k]],
                !.winner = IF c.winner = Owner(t) THEN None ELSE c.winner,
                !.cool[s][i] = 0]

(* The player names the target; one already roared down stands for the     *)
(* front of its side.                                                      *)
FreezingRoaring(b, s, i) ==
  IF ~HasNegative(b, s) THEN PlainRoar(b, s)
  ELSE {EnhancedRoar(b, s, i, IF b.st[aim] = "FREEZING_ROARINGED" THEN Osite(b, s)
                              ELSE aim) : aim \in UnitsOf(Enemy(Owner(s)))}

HistoryIndex(b, span) == IF b.round < span THEN 1 ELSE b.round - span + 1

(* time_back() ends in effect_freeall(), which reads the first effect of    *)
(* the list it frees: on a field without effects the process is gone.      *)
NoEffects(b) == \A u \in Unit : \A k \in Effect : b.eff[u][k] = 0

(* Mutant: the actions chosen before the rewind stay.                      *)
Back_KeepsActions(b, h) == [b EXCEPT !.st = h.st, !.hp = h.hp, !.eff = h.eff,
                                     !.cool = h.cool, !.front = h.front]

(* back() for both players, and the effects of the snapshot.               *)
Back(b, h) == [b EXCEPT !.st = h.st, !.hp = h.hp, !.eff = h.eff, !.cool = h.cool,
                        !.front = h.front, !.action = [pl \in Player |-> Abort]]

TimeBack(b, s, i) ==
  LET h == b.hist[HistoryIndex(b, TimeBackSpan)]
  IN  IF HistoryIndex(b, TimeBackSpan) > Len(b.hist) THEN {b}
      ELSE IF NoEffects(b) THEN {[b EXCEPT !.stage = "CRASHED"]}
      ELSE {SetCooldown(Back(b, h), s, i)}

KarmaReverse(b, s, i) ==
  LET h  == b.hist[HistoryIndex(b, KarmaSpan)]
      up == {u \in Unit : b.st[u] = "FAILED" /\ h.st[u] # "FAILED"}
      c  == Revive(b, up, h.hp)
      t  == Osite(b, s)
  IN  IF HistoryIndex(b, KarmaSpan) > Len(b.hist) THEN {b}
      ELSE {SetCooldown(IF b.acted[Enemy(Owner(s))] THEN c
                        ELSE Cast(c, "operation_denied", t, t), s, i)}

MoveAction(b, s, i) ==
  CASE Kit[s][i] = "freezing_roaring"         -> FreezingRoaring(b, s, i)
    [] Kit[s][i] = "time_back"                -> TimeBack(b, s, i)
    [] Kit[s][i] = "karma_reverse"            -> KarmaReverse(b, s, i)
    [] Kit[s][i] = "perish_song"              -> PerishSong(b, s, i)
    [] Kit[s][i] = "dmts_impact"              -> DmtsImpact(b, s, i)
    [] Kit[s][i] = "steel_flywheel"           -> SteelFlywheel(b, s, i)
    [] Kit[s][i] = "red_lotus"                -> RedLotus(b, s)
    [] Kit[s][i] = "absolutely_immortal"      -> AbsolutelyImmortal(b, s, i)
    [] Kit[s][i] = "plasmatizing_lightcannon" -> PlasmatizingLightcannon(b, s, i)
    [] OTHER                                  -> {b}

-----------------------------------------------------------------------------
(* Choosing and performing an action.                                      *)

CanAction2(b, pl, act) ==
  LET f == b.front[pl]
      s == b.st[f]
  IN  CASE act.kind = "move" ->
             /\ act.n \in MoveIndex
             /\ Kit[f][act.n] # "none"
             /\ LET cpfr == \/ b.stage # "SELECT" /\ Kit[f][act.n] \in Conceptual
                            \/ IfFr(b, f, act.n)
                IN  \/ s \in {"CONTROLLED", "SUPPRESSED"} /\ cpfr
                    \/ /\ s \in {"NORMAL", "FADING"}
                       /\ (b.stage = "SELECT" /\ b.cool[f][act.n] # 0) => cpfr
        [] act.kind = "attack" -> s \in {"NORMAL", "FADING"}
        [] act.kind = "unit" ->
             /\ <<pl, act.n>> \in Unit \ {f}
             /\ Alive(b.st[<<pl, act.n>>])
             /\ s \notin {"CONTROLLED", "SUPPRESSED"}
        [] OTHER -> TRUE

(* unit_move_nonhookable(): the fallen do not move.                        *)
UnitMoveNonhookable(b, s, i) == IF AliveS(b.st[s]) THEN MoveAction(b, s, i) ELSE {b}

(* unit_move(): the suppressed move only as their player selected.         *)
UnitMove(b, s, i) ==
  IF /\ b.st[s] = "SUPPRESSED"
     /\ ~(b.action[Owner(s)] = [kind |-> "move", n |-> i] /\ Kit[s][i] \in Conceptual)
    THEN {b}
  ELSE UnitMoveNonhookable(b, s, i)

(* An enhanced roar skips every hook and check; otherwise operation_denied *)
(* or an action that is no longer legal makes the action fail.             *)
PlayerAction(b, pl) ==
  LET f   == b.front[pl]
      act == b.action[pl]
      fr  == Roars(b, pl)
      failed == /\ ~fr
                /\ \/ b.eff[f]["operation_denied"] # 0
                   \/ act = Abort
                   \/ ~CanAction2(b, pl, act)
      done == CASE fr                           -> UnitMoveNonhookable(b, f, act.n)
                [] ~fr /\ act.kind = "move"   -> UnitMove(b, f, act.n)
                [] act.kind = "attack"        -> NormalAttack(b, f)
                [] act.kind = "unit"          -> {SwitchUnit(b, <<pl, act.n>>)}
                [] OTHER                      -> {b}
  IN  IF b.acted[pl] \/ failed THEN {b}
      ELSE {[x EXCEPT !.acted[pl] = TRUE] : x \in done}

(* Mutant: an enhanced roar has no precedence.                             *)
GetPrior_BySpeed(b) == Player

(* getprior(): an enhanced roar goes first; otherwise priorities and speed *)
(* decide, which are not modelled.                                         *)
GetPrior(b) ==
  IF Roars(b, "p") = Roars(b, "e") THEN Player ELSE {pl \in Player : Roars(b, pl)}

-----------------------------------------------------------------------------
(* Who has won.                                                            *)

HasUnit(b, pl) == \E u \in UnitsOf(pl) : AliveS(b.st[u])

(* The set of answers of getwinner(); None while the battle goes on.  The  *)
(* tie-break by level and speed may go either way.                         *)
GetWinner(b) ==
  LET roared(pl) == b.st[b.front[pl]] = "FREEZING_ROARINGED"
  IN  IF HasUnit(b, "p") /\ HasUnit(b, "e")
        THEN {IF b.winner # None /\ ~CheckFr(b, b.front[Enemy(b.winner)])
                THEN b.winner ELSE None}
      ELSE IF HasUnit(b, "p") # HasUnit(b, "e")
        THEN {pl \in Player : HasUnit(b, pl)}
      ELSE IF roared("p") # roared("e")
        THEN {pl \in Player : ~roared(pl)}
      ELSE Player

(* Mutant: the fronts are compared before the units left.                  *)
GetWinnerNonnull_FrontsOnly(b) ==
  LET standing(pl) == AliveS(b.st[b.front[pl]])
  IN  IF standing("p") # standing("e") THEN {pl \in Player : standing(pl)} ELSE Player

(* getwinner_nonnull(): it compares the results of player_hasunit(), not   *)
(* the states of the fronts, with UNIT_FREEZING_ROARINGED, so a front that *)
(* was roared down never decides.                                          *)
GetWinnerNonnull(b) ==
  LET standing(pl) == AliveS(b.st[b.front[pl]])
  IN  IF HasUnit(b, "p") # HasUnit(b, "e")
        THEN {pl \in Player : HasUnit(b, pl)}
      ELSE IF standing("p") # standing("e")
        THEN {pl \in Player : standing(pl)}
      ELSE Player
=============================================================================
