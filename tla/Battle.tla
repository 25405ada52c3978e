------------------------------- MODULE Battle -------------------------------
(***************************************************************************)
(* battle(): the rounds of a battle between p and e.  pc is the place in   *)
(* the function; the macro deadcheck is the place "deadcheck", which       *)
(* returns to the place in `after'.  The selectors of the two players (a   *)
(* terminal, or rand_selector) may answer anything.                        *)
(***************************************************************************)
EXTENDS BattleField

CONSTANT RoundMax        (* ROUND_MAX, 1024 in the code *)

ASSUME RoundMaxAssumption == RoundMax \in Nat \ {0}

VARIABLES
  b,        (* the battle field                                            *)
  pc,       (* the place in battle()                                       *)
  after,    (* where deadcheck returns to                                  *)
  ns,       (* deadcheck's ns: some player failed to replace its front     *)
  prior,    (* who is prior; the other one is latter                       *)
  result,   (* whom the value battle() returns names as the winner         *)
  chooser   (* history: the front for which each player chose its action   *)

vars == <<b, pc, after, ns, prior, result, chooser>>

Place == {"round", "order", "select_prior", "select_latter", "prior", "update",
          "latter", "roundend", "effects", "cool_prior", "cool_latter", "decrease",
          "deadcheck", "out", "done", "crashed"}

latter == Enemy(prior)
NoUnit == <<None, 0>>

GiveUp == [kind |-> "giveup", n |-> 0]
Switches(pl) == {[kind |-> "unit", n |-> Index(u)] : u \in UnitsOf(pl)}

(* What a selector may answer when it is asked for an action.              *)
Replies(pl) == Switches(pl)
                 \cup {[kind |-> "move", n |-> i] : i \in MoveIndex}
                 \cup {[kind |-> "attack", n |-> 0], Abort, GiveUp}

Init ==
  /\ b = NewField
  /\ pc = "round"
  /\ after = "round"
  /\ ns = FALSE
  /\ prior \in Player
  /\ result = None
  /\ chooser = [pl \in Player |-> NoUnit]

Deadcheck(place) == pc' = "deadcheck" /\ after' = place /\ ns' = FALSE

RoundLimit ==
  /\ pc = "round"
  /\ b.round >= RoundMax
  /\ result' \in GetWinnerNonnull(b)
  /\ pc' = "out"
  /\ UNCHANGED <<b, after, ns, prior, chooser>>

RoundStart ==
  /\ pc = "round"
  /\ b.round < RoundMax
  /\ b' = HistoryAdd([b EXCEPT !.stage  = "ROUNDSTART",
                               !.action = [pl \in Player |-> Abort],
                               !.acted  = [pl \in Player |-> FALSE]])
  /\ Deadcheck("order")
  /\ chooser' = [pl \in Player |-> NoUnit]
  /\ UNCHANGED <<prior, result>>

(* The faster front is asked first; speed is not modelled.                 *)
Order ==
  /\ pc = "order"
  /\ prior' \in Player
  /\ b' = [UpdateState(UpdateState(b, prior'), Enemy(prior')) EXCEPT !.stage = "SELECT"]
  /\ pc' = "select_prior"
  /\ UNCHANGED <<after, ns, result, chooser>>

Legal(pl, r) == r # GiveUp /\ CanAction2(b, pl, r)

(* A player whose selector gives up, or answers what is not legal, loses.  *)
Resign(pl, place) ==
  /\ pc = place
  /\ \E r \in Replies(pl) : ~Legal(pl, r)
  /\ result' = Enemy(pl)
  /\ pc' = "out"
  /\ UNCHANGED <<b, after, ns, prior, chooser>>

SelectPrior ==
  /\ pc = "select_prior"
  /\ \E r \in Replies(prior) : Legal(prior, r) /\ b' = [b EXCEPT !.action[prior] = r]
  /\ chooser' = [chooser EXCEPT ![prior] = b.front[prior]]
  /\ pc' = "select_latter"
  /\ UNCHANGED <<after, ns, prior, result>>

SelectLatter ==
  /\ pc = "select_latter"
  /\ \E r \in Replies(latter) :
       /\ Legal(latter, r)
       /\ LET c == [b EXCEPT !.action[latter] = r]
          IN  prior' \in GetPrior(c) /\ b' = ReapFading(c)
  /\ chooser' = [chooser EXCEPT ![latter] = b.front[latter]]
  /\ Deadcheck("prior")
  /\ UNCHANGED result

(* player_action() by pl on field c, then a deadcheck if it returns.       *)
Acts(c, pl, place) ==
  /\ b' \in PlayerAction(c, pl)
  /\ IF b'.stage = "CRASHED" THEN pc' = "crashed" /\ UNCHANGED <<after, ns>>
     ELSE Deadcheck(place)
  /\ UNCHANGED <<prior, result, chooser>>

PriorActs == pc = "prior" /\ Acts([b EXCEPT !.stage = "PRIOR"], prior, "update")

(* The states catch up with the effects before the latter is judged again. *)
Update ==
  /\ pc = "update"
  /\ LET c == [UpdateState(UpdateState(b, prior), latter) EXCEPT !.stage = "LATTER"]
     IN  b' = IF CanAction2(c, latter, c.action[latter]) THEN c
              ELSE [c EXCEPT !.action[latter] = Abort]
  /\ pc' = "latter"
  /\ UNCHANGED <<after, ns, prior, result, chooser>>

LatterActs == pc = "latter" /\ Acts(b, latter, "roundend")

RoundEnd ==
  /\ pc = "roundend"
  /\ b' = ReapFading([b EXCEPT !.stage = "ROUNDEND"])
  /\ Deadcheck("effects")
  /\ UNCHANGED <<prior, result, chooser>>

Effects ==
  /\ pc = "effects"
  /\ \E d \in 1 .. MaxHp : b' = RoundEndEffects(b, d)
  /\ Deadcheck("cool_prior")
  /\ UNCHANGED <<prior, result, chooser>>

CoolPrior ==
  /\ pc = "cool_prior"
  /\ b' = CooldownDecrease(b, prior)
  /\ Deadcheck("cool_latter")
  /\ UNCHANGED <<prior, result, chooser>>

CoolLatter ==
  /\ pc = "cool_latter"
  /\ b' = CooldownDecrease(b, latter)
  /\ Deadcheck("decrease")
  /\ UNCHANGED <<prior, result, chooser>>

Decrease ==
  /\ pc = "decrease"
  /\ b' = EffectRoundDecrease(b)
  /\ Deadcheck("round")
  /\ UNCHANGED <<prior, result, chooser>>

-----------------------------------------------------------------------------
(* One turn of deadcheck's loop: p, then e, replaces a front that is down. *)

Down(c, pl) == ~AliveS(c.st[c.front[pl]])

(* player_selectunit() succeeds on field c when the selector answers r.    *)
CanReplace(c, pl, r) ==
  /\ HasUnit(c, pl)
  /\ r.kind = "unit"
  /\ CanAction2(c, pl, r)
  /\ CanSwitch(c, <<pl, r.n>>)

(* Mutant: a player is asked whether or not its front is down.             *)
Replace_Always(c, pl, r) ==
  IF CanReplace(c, pl, r) THEN SwitchUnit(c, <<pl, r.n>>) ELSE c

Replace(c, pl, r) ==
  IF Down(c, pl) /\ CanReplace(c, pl, r) THEN SwitchUnit(c, <<pl, r.n>>) ELSE c

NoReplacement(c, pl, r) == Down(c, pl) /\ ~CanReplace(c, pl, r)

(* A front came in: check again.                                           *)
DeadReplace ==
  /\ pc = "deadcheck"
  /\ \E rp \in Switches("p") \cup {GiveUp}, re \in Switches("e") \cup {GiveUp} :
       LET c == Replace(b, "p", rp)
       IN  /\ b' = Replace(c, "e", re)
           /\ b'.front # b.front
           /\ ns' = (ns \/ NoReplacement(b, "p", rp) \/ NoReplacement(c, "e", re))
  /\ UNCHANGED <<pc, after, prior, result, chooser>>

Verdict(c, failed) == IF failed THEN GetWinnerNonnull(c) ELSE GetWinner(c)

(* No front came in: ns says which of the two winner functions is asked.   *)
DeadDecide ==
  /\ pc = "deadcheck"
  /\ \E rp \in Switches("p") \cup {GiveUp}, re \in Switches("e") \cup {GiveUp} :
       /\ Replace(Replace(b, "p", rp), "e", re) = b
       /\ ns' = (ns \/ NoReplacement(b, "p", rp) \/ NoReplacement(b, "e", re))
  /\ \E w \in Verdict(b, ns') :
       IF w = None
         THEN /\ pc' = after
              /\ b' = IF after = "round" THEN [b EXCEPT !.round = @ + 1] ELSE b
              /\ UNCHANGED result
         ELSE /\ pc' = "out"
              /\ result' = w
              /\ UNCHANGED b
  /\ UNCHANGED <<after, prior, chooser>>

(* The label out.  A winner that an effect has set stays.                  *)
Finish ==
  /\ pc = "out"
  /\ b' = [b EXCEPT !.stage = "BATTLE_END",
                    !.winner = IF @ = None THEN result ELSE @]
  /\ pc' = "done"
  /\ UNCHANGED <<after, ns, prior, result, chooser>>

Over == pc \in {"done", "crashed"} /\ UNCHANGED vars

Step ==
  \/ RoundLimit \/ RoundStart \/ Order
  \/ Resign(prior, "select_prior") \/ SelectPrior
  \/ Resign(latter, "select_latter") \/ SelectLatter
  \/ PriorActs \/ Update \/ LatterActs
  \/ RoundEnd \/ Effects \/ CoolPrior \/ CoolLatter \/ Decrease
  \/ DeadReplace \/ DeadDecide \/ Finish

Next == Step \/ Over

(* battle() is one thread that only waits for the selectors.               *)
Spec == Init /\ [][Next]_vars /\ WF_vars(Step)

-----------------------------------------------------------------------------
(* Properties.                                                             *)

(* Every variable, the field of every snapshot included, has its type.     *)
TypeOK ==
  /\ b \in Field
  /\ pc \in Place
  /\ after \in Place
  /\ ns \in BOOLEAN
  /\ prior \in Player
  /\ result \in Player \cup {None}
  /\ chooser \in [Player -> Unit \cup {NoUnit}]

(* The states as the snapshots of f->ht hold them.                         *)
Past == [i \in DOMAIN b.hist |-> b.hist[i].st]

(* The step takes the battle back to a snapshot.                           *)
Rewound == \E h \in {b.hist[i] : i \in DOMAIN b.hist} :
             b'.st = h.st /\ b'.hp = h.hp /\ b'.front = h.front

(* unit_setstate() rewrites history: a unit that is roared down is roared  *)
(* down in every snapshot time_back() or karma_reverse() could return to.  *)
RoaredInEverySnapshot ==
  \A u \in Unit : b.st[u] = "FREEZING_ROARINGED" =>
    \A i \in DOMAIN b.hist : b.hist[i].st[u] = "FREEZING_ROARINGED"

(* A unit that is roared down stays so, whatever is revived or rewound     *)
(* later (zh_CN.lang, state_6).                                            *)
RoaredForever ==
  [][\A u \in Unit : b.st[u] = "FREEZING_ROARINGED" => b'.st[u] = "FREEZING_ROARINGED"]_vars

(* A unit that vanished comes back only when the whole battle is rewound   *)
(* to a round before it did (zh_CN.lang, state_5); it can still be roared  *)
(* down.                                                                   *)
VanishedComesBackOnlyInTime ==
  [][\A u \in Unit : b.st[u] = "VANISHED" =>
       \/ b'.st[u] \in {"VANISHED", "FREEZING_ROARINGED"}
       \/ Rewound]_vars

(* Once both players have chosen, an enhanced roar is carried out: the     *)
(* enemy may kill the roarer, control it or deny its action, but the roar  *)
(* either still stands or strikes a unit down, unless the roarer is roared *)
(* down first (zh_CN.lang, state_3 and karma_reverse).                     *)
RoarIsUnstoppable ==
  [][\A pl \in Player :
       pc \in {"prior", "update", "latter"} /\ Roars(b, pl) /\ ~b.acted[pl] =>
         \/ Roars(b', pl) /\ ~b'.acted[pl]
         \/ b'.st[b.front[pl]] = "FREEZING_ROARINGED"
         \/ \E u \in UnitsOf(Enemy(pl)) :
              b.st[u] # "FREEZING_ROARINGED" /\ b'.st[u] = "FREEZING_ROARINGED"]_vars

(* Fading lasts until the round ends: no round begins, and no snapshot is  *)
(* taken, with a unit that is neither standing nor fallen.                 *)
NoFadingBetweenRounds ==
  /\ pc \in {"round", "order"} => \A u \in Unit : b.st[u] # "FADING"
  /\ \A i \in DOMAIN Past : \A u \in Unit : Past[i][u] # "FADING"

(* The action a player chose for one front is never left to be carried out *)
(* by another: fronts are replaced by switches, by deaths and by time.     *)
OwnAction ==
  pc \in {"prior", "update", "latter"} =>
    \A pl \in Player : b.action[pl].kind \in {"move", "attack"} /\ ~b.acted[pl]
                         => b.front[pl] = chooser[pl]

(* deadcheck lets the battle go on only with a standing front on each side.*)
FrontsStand ==
  pc \notin {"deadcheck", "out", "done", "crashed"} =>
    \A pl \in Player : AliveS(b.st[b.front[pl]])

(* What fell is stripped, in the field and in every snapshot: no hit       *)
(* points and only EFFECT_KEEP effects once failed, no effect at all once  *)
(* vanished or roared down.  Rewinding therefore never returns an effect   *)
(* to a unit that may not have it.                                         *)
Stripped(h) ==
  \A u \in Unit :
    /\ h.st[u] \in {"FADING", "FAILED", "VANISHED"} => h.hp[u] = 0
    /\ h.st[u] = "FAILED"  => \A k \in Effect \ Keep : h.eff[u][k] = 0
    /\ Vanished(h.st[u])   => \A k \in Effect : h.eff[u][k] = 0

FallenAreStripped == Stripped(b) /\ \A i \in DOMAIN b.hist : Stripped(b.hist[i])

(* A selector gave up, or chose what is not legal.                         *)
Resigned == pc = "out" /\ b.stage = "SELECT" /\ after = "order"

(* Unless a player resigned, a side that alone has a unit left is the one  *)
(* battle() returns, whoever refused to send a replacement.                *)
ResultIsSurvivor ==
  \A pl \in Player :
    pc = "out" /\ ~Resigned /\ HasUnit(b, pl) /\ ~HasUnit(b, Enemy(pl))
      => result = pl

(* What karma_reverse() denies is this round's action only: the denial is  *)
(* gone when the round is over, and rewinding does not bring it back.      *)
DenialEndsWithTheRound ==
  pc \in {"round", "order", "select_prior", "select_latter"} =>
    \A u \in Unit : b.eff[u]["operation_denied"] = 0

(* While absolutely_immortal lasts its bearer stands, through hits, curses *)
(* and instant death; only a roar or a rewind takes it down.               *)
ImmortalStands ==
  [][\A u \in Unit : b.eff[u]["absolutely_immortal"] # 0 =>
       \/ Alive(b'.st[u])
       \/ b'.st[u] = "FREEZING_ROARINGED"
       \/ Rewound]_vars

(* A victory that an effect has named ends the battle at once, unless the  *)
(* side that lost still has a roar to come; that roar takes it back.       *)
VictoryWaitsOnlyForARoar ==
  pc \notin {"deadcheck", "out", "done", "crashed"} /\ b.winner # None =>
    /\ pc \in {"update", "latter"}
    /\ latter = Enemy(b.winner)
    /\ Roars(b, latter)

(* Every battle comes to an end.                                           *)
Termination == <>(pc \in {"done", "crashed"})

(* The states of the units live the life that Lifecycle describes.         *)
L == INSTANCE Lifecycle WITH st <- b.st, past <- Past
ImplementsLifecycle == L!Spec

(* A round begins, and a snapshot is taken, with nobody fading, and the    *)
(* battle goes on past deadcheck only with a front standing on each side.  *)
RoundsBeginSettled == NoFadingBetweenRounds /\ FrontsStand

(* The winner, named by an effect or the last to stand, is the one that    *)
(* battle() returns, as soon as it may.                                    *)
WinnerIsRight == ResultIsSurvivor /\ VictoryWaitsOnlyForARoar
=============================================================================
