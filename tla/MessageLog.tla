----------------------------- MODULE MessageLog -----------------------------
(***************************************************************************)
(* The record of messages of a battle, and the two searches that find out  *)
(* from it why something happened.  Moves, events and the hooks of effects *)
(* report that they begin and that they end, and the searches go back over *)
(* what has ended.  effect_ev() also counts, in inevent, how many times a  *)
(* hook of the effect is running, and for_each_effect() passes over an     *)
(* effect at its limit; moon_elf_shield is the one effect whose hook       *)
(* returns from the middle of its effect_ev().                             *)
(***************************************************************************)
EXTENDS Integers, Sequences, FiniteSets, FiniteSetsExt, Functions

CONSTANTS
  RecursionDefault,  (* EFFECT_RECURSION_DEFAULT, which is 8               *)
  MaxLen,            (* bound: messages in the record                      *)
  ShieldLen,         (* bound: messages more when the shield reports, too  *)
  MaxDepth,          (* bound: moves, events and hooks in one another      *)
  RoundMax

ASSUME MessageLogAssumption ==
  /\ RecursionDefault \in Nat \ {0}
  /\ MaxLen \in Nat /\ ShieldLen \in Nat /\ MaxDepth \in Nat /\ RoundMax \in Nat

(* "begin" is MSG_MOVE, MSG_EVENT and MSG_EFFECT_EVENT, "end" their ends.  *)
Type == {"round", "damage", "effect", "begin", "end"}

None == -1       (* NULL                                                   *)
Outside == -2    (* a read in front of the record                          *)

VARIABLES
  log,       (* rec: the messages; whether the unit has moon_elf_shield,   *)
             (* and inevent of it; whether the unit has a control effect,  *)
             (* and moon_elf_shield_cooldown                               *)
  round,
  calls,     (* what has begun and not returned, as indices into the       *)
             (* record, innermost last                                     *)
  asked      (* history: what the last effect put on the unit was          *)

vars == <<log, round, calls, asked>>

(* Each message also has, as history, what was running when it was         *)
(* reported.                                                               *)
Running(c) == IF c = << >> THEN 0 ELSE c[Len(c)]
Report(l, t, c) == [l EXCEPT !.rec = Append(@, [type |-> t, round |-> round,
                                                src |-> Running(c)])]
Fits(l) == Len(l.rec) <= MaxLen + (IF l.shielded THEN ShieldLen ELSE 0)

-----------------------------------------------------------------------------
(* moon_elf_shield_effect_end() and what it calls.                         *)

EffectEvent(l, c) == [Report(l, "begin", c) EXCEPT !.inevent = @ + 1]
EffectEventEnd(l, c) == [Report(l, "end", c) EXCEPT !.inevent = @ - 1]
RecursionCheck(l) == l.inevent < RecursionDefault
Inner(l, c) == Append(c, Len(l.rec))

(* What effect_reinit() of the shield reports; its own hook is called for  *)
(* it, finds no control effect any more, and returns.                      *)
Reinit(l, c) ==
  LET m == Report(l, "effect", c) IN IF RecursionCheck(m) THEN EffectEvent(m, c) ELSE m

(* The effects of control are removed, the shield is renewed, and the      *)
(* cooldown begins, for which the hook does nothing.                       *)
Trigger(l, c) ==
  LET purified == [Report(l, "effect", c) EXCEPT !.control = FALSE]
      cooled   == [Report(Reinit(purified, c), "effect", c) EXCEPT !.cooldown = TRUE]
  IN  cooled

(* Without a control effect the return skips effect_event_end().           *)
ShieldEffectEnd(l, c) ==
  IF l.cooldown THEN l
  ELSE LET m == EffectEvent(l, c)
       IN  IF m.control THEN EffectEventEnd(Trigger(m, Inner(m, c)), c) ELSE m

(* effectx() on the unit: the report, and the hook effect_end              *)
PutOn(l, c) ==
  LET m == Report(l, "effect", c)
  IN  IF m.shielded /\ RecursionCheck(m) THEN ShieldEffectEnd(m, c) ELSE m

-----------------------------------------------------------------------------
Init ==
  /\ log \in [rec : {<< >>}, shielded : BOOLEAN, inevent : {0},
              control : {FALSE}, cooldown : {FALSE}]
  /\ round = 0
  /\ calls = << >>
  /\ asked = "none"

(* Before the first round come the messages of the passive moves.          *)
RoundStart ==
  /\ calls = << >>
  /\ log.rec # << >> => round < RoundMax
  /\ round' = IF log.rec = << >> THEN 0 ELSE round + 1
  /\ log' = [log EXCEPT !.rec = Append(@, [type |-> "round", round |-> round', src |-> 0])]
  /\ Fits(log')
  /\ asked' = "none"
  /\ UNCHANGED calls

(* report(MSG_MOVE), event_start(), effect_event() of another effect; the  *)
(* first message of a battle is none of these.                             *)
Begin ==
  /\ log.rec # << >>
  /\ Len(calls) < MaxDepth
  /\ log' = Report(log, "begin", calls)
  /\ calls' = Inner(log', calls)
  /\ Fits(log')
  /\ asked' = "none"
  /\ UNCHANGED round

Pop == SubSeq(calls, 1, Len(calls) - 1)

(* report(MSG_MOVE_END), event_end(), effect_event_end()                   *)
End ==
  /\ calls # << >>
  /\ log' = Report(log, "end", Pop)
  /\ calls' = Pop
  /\ Fits(log')
  /\ asked' = "none"
  /\ UNCHANGED round

Hurt ==
  /\ log' = Report(log, "damage", calls)
  /\ Fits(log')
  /\ asked' = "none"
  /\ UNCHANGED <<round, calls>>

(* effect() with an effect of control, or without                          *)
Effect(control) ==
  /\ log' = PutOn([log EXCEPT !.control = @ \/ control], calls)
  /\ Fits(log')
  /\ asked' = IF control THEN "control" ELSE "other"
  /\ UNCHANGED <<round, calls>>

(* The cooldown ends: moon_elf_shield_cooldown_end() calls the hook itself *)
(* and asks for no limit.                                                  *)
CooldownEnd ==
  /\ log.cooldown
  /\ log' = ShieldEffectEnd([Report(log, "effect", calls) EXCEPT !.cooldown = FALSE], calls)
  /\ Fits(log')
  /\ asked' = "none"
  /\ UNCHANGED <<round, calls>>

Next ==
  \/ RoundStart \/ Begin \/ End \/ Hurt \/ CooldownEnd
  \/ \E control \in BOOLEAN : Effect(control)

Spec == Init /\ [][Next]_vars

-----------------------------------------------------------------------------
(* The searches.                                                           *)

Count(s, t, a, z) == Cardinality({k \in a .. z : s[k].type = t})

(* Mutant: the depth is not counted.                                       *)
BeforeBegin_Flat(s, i) ==
  LET begins == {k \in 1 .. i - 1 : s[k].type = "begin"}
  IN  IF begins = {} THEN 0 ELSE Max(begins) - 1

(* Mutant: the end itself is counted, too.                                 *)
BeforeBegin_Twice(s, i) ==
  LET begins == {k \in 1 .. i - 1 : Count(s, "begin", k, i) = Count(s, "end", k, i) + 1}
  IN  IF begins = {} THEN 0 ELSE Max(begins) - 1

(* From an end the loop with d goes to the message before its beginning.   *)
BeforeBegin(s, i) ==
  LET begins == {k \in 1 .. i - 1 : Count(s, "begin", k, i - 1) = Count(s, "end", k, i - 1) + 1}
  IN  IF begins = {} THEN 0 ELSE Max(begins) - 1

(* At message k, looking in round r for one of the types; from has the     *)
(* answers at the messages before.                                         *)
Answer(s, types, r, k, from) ==
  IF k = 0 \/ s[k].round # r THEN None
  ELSE IF s[k].type \in types THEN k
  ELSE IF s[k].type # "end" THEN from[k - 1]
  ELSE IF BeforeBegin(s, k) = 0 THEN Outside ELSE from[BeforeBegin(s, k)]

(* Backward from i through the messages of round r.                        *)
Search(s, types, i, r) ==
  LET from[k \in 0 .. i] == Answer(s, types, r, k, from) IN from[i]

rec == log.rec

MessageFind(types) == Search(rec, types, Len(rec), round)

MessageFindSource(i) == Search(rec, {"begin"}, i, rec[i].round)

-----------------------------------------------------------------------------
(* Properties.                                                             *)

TypeOK ==
  /\ rec \in Seq([type : Type, round : 0 .. RoundMax, src : 0 .. MaxLen + ShieldLen])
  /\ Fits(log)
  /\ log.inevent \in Nat
  /\ log.shielded \in BOOLEAN /\ log.control \in BOOLEAN /\ log.cooldown \in BOOLEAN
  /\ round \in 0 .. RoundMax
  /\ calls \in Seq(DOMAIN rec)

(* message_findsource() answers with the move, event or hook that was      *)
(* running when the message was reported, and with a beginning itself, as  *)
(* long as every beginning is followed by its end: without the shield.     *)
SourceIsWhatRan ==
  ~log.shielded =>
  \A i \in DOMAIN rec :
    MessageFindSource(i) = IF rec[i].type = "begin" THEN i
                           ELSE IF rec[i].src = 0 THEN None ELSE rec[i].src

(* message_find() answers with the last message of this round that what is *)
(* now running caused itself, and with nothing caused by what has ended,   *)
(* without the shield.                                                     *)
FindsOwnMessages ==
  ~log.shielded =>
  LET own == {i \in DOMAIN rec : /\ rec[i].round = round
                                 /\ rec[i].type = "damage"
                                 /\ rec[i].src \in {0} \cup Range(calls)}
  IN  MessageFind({"damage"}) = IF own = {} THEN None ELSE Max(own)

(* The searches never read in front of the record, though the shield       *)
(* leaves beginnings without an end in it.                                 *)
InsideRecord ==
  /\ \A i \in DOMAIN rec : MessageFindSource(i) # Outside
  /\ MessageFind({"damage"}) # Outside

(* What is searched for in the record is found where it was caused, and    *)
(* never outside of it.                                                    *)
SearchesAreRight == TypeOK /\ InsideRecord /\ FindsOwnMessages
=============================================================================
