----------------------------- MODULE EffectList -----------------------------
(***************************************************************************)
(* The effects on the field as battle-core.c keeps them: an intrusive      *)
(* doubly linked list sorted by priority, a copy of it in the history, and *)
(* a list of trash that is only emptied after the battle.  Hooks are       *)
(* called by walking the list with for_each_effect(), and a hook may add   *)
(* and end effects, kill units, rewind the battle, and so start further    *)
(* walks, while the outer ones are in the middle of the list.              *)
(*                                                                         *)
(* Nodes are numbered as malloc() gives them out, and 0 is NULL.           *)
(***************************************************************************)
EXTENDS Integers, Sequences, FiniteSets, SequencesExt

CONSTANTS
  Kind,       (* kinds of effects: a base and the unit they are on         *)
  Prior,      (* base->prior                                               *)
  Unit,
  Dest,       (* the unit                                                  *)
  Kept,       (* the kinds with EFFECT_KEEP                                *)
  AllowFailed, (* the kinds with EFFECT_ALLOWFAILED                        *)
  Isolated,   (* the kinds with EFFECT_ISOLATED                            *)
  Hook,       (* what hooks do: "add", "end", "final", "kill", "roar",     *)
              (* "rewind", "walk"                                          *)
  MaxNode,    (* bound: how many nodes are allocated                       *)
  MaxDepth    (* bound: how deep walks and calls nest; the code lets each  *)
              (* effect run 8 hooks inside one another                     *)

ASSUME EffectListAssumption ==
  /\ Prior \in [Kind -> Int]
  /\ Dest \in [Kind -> Unit]
  /\ AllowFailed \subseteq Kept /\ Kept \subseteq Kind
  /\ Isolated \subseteq Kind
  /\ Hook \subseteq {"add", "end", "final", "kill", "roar", "rewind", "walk"}
  /\ MaxNode \in Nat /\ MaxDepth \in Nat

VARIABLES
  f,         (* the pointers: next and prev of each node, f->effects,      *)
             (* h->effects of one record, f->trash; and the nodes whose    *)
             (* intrash is set                                             *)
  base,      (* the kinds of the nodes allocated so far                    *)
  state,     (* of each unit: up, FAILED, or FREEZING_ROARINGED            *)
  past,      (* the states in the record                                   *)
  stack,     (* the walks and calls under way, innermost last              *)
  freed      (* the nodes given back to free(), in that order              *)

vars == <<f, base, state, past, stack, freed>>

Null == 0
Node == 1 .. MaxNode
States == {"up", "failed", "roared"}

(* A walk is at node cur, and in its body while the hook of cur runs; nxt  *)
(* is the variable _next of the macro, and hooks are those it calls and    *)
(* those that the same function calls in walks after this one.  The rest   *)
(* is history: the nodes visited, those on the list ever since the walk    *)
(* began, and whether it reached an effect that had ended.                 *)
Walk(h, stay, hooks) ==
  [op |-> "walk", hooks |-> hooks, cur |-> h, nxt |-> Null, body |-> FALSE,
   seen |-> << >>, stay |-> stay, astray |-> FALSE]

(* effect_end() in its end hook, and effectx() in base->inited             *)
Call(op, n) == [op |-> op, node |-> n]

Top == stack[Len(stack)]
In(op) == stack # << >> /\ Top.op = op
Pop == SubSeq(stack, 1, Len(stack) - 1)
SetTop(frame) == [stack EXCEPT ![Len(stack)] = frame]

(* The nodes from h on, by their next pointers.                            *)
Chain(g, h) ==
  LET at[k \in 1 .. MaxNode + 1] ==
        IF k = 1 THEN h ELSE IF at[k - 1] = Null THEN Null ELSE g.next[at[k - 1]]
  IN  [k \in 1 .. Cardinality({i \in DOMAIN at : at[i] # Null}) |-> at[k]]

Effects == Chain(f, f.head)
Listed == ToSet(Effects)
Recorded == Chain(f, f.hist)
Trash == Chain(f, f.trash)

-----------------------------------------------------------------------------
(* Operations on the pointers.                                             *)

Between(g, n, e) ==
  [g EXCEPT !.next = [@ EXCEPT ![n] = g.next[e], ![e] = n],
            !.prev = [m \in Node |-> IF m = n THEN e
                                     ELSE IF m = g.next[e] THEN n ELSE @[m]]]

AtFront(g, n) ==
  IF g.head = Null
    THEN [g EXCEPT !.head = n]
    ELSE [g EXCEPT !.next[n] = g.head, !.prev[g.head] = n, !.head = n]

(* Mutant: a new effect goes before the older ones of its priority.        *)
EffectInsert_Before(g, n, p) ==
  LET list == Chain(g, g.head)
      lower == {i \in DOMAIN list : p[list[i]] <= p[n]}
  IN  IF lower = {} /\ list # << >> THEN Between(g, n, Last(list))
      ELSE IF lower = {} \/ 1 \in lower THEN AtFront(g, n)
      ELSE Between(g, n, list[Min(lower) - 1])

(* effect_insert(): n goes before the first node of a lower priority, or   *)
(* last; p is the priority of each node.                                   *)
EffectInsert(g, n, p) ==
  LET list == Chain(g, g.head)
      lower == {i \in DOMAIN list : p[list[i]] < p[n]}
  IN  IF lower = {} /\ list # << >> THEN Between(g, n, Last(list))
      ELSE IF lower = {} \/ 1 \in lower THEN AtFront(g, n)
      ELSE Between(g, n, list[Min(lower) - 1])

(* Mutant: the successor keeps pointing back at the node removed.          *)
Unlinked_OneWay(g, n) ==
  [g EXCEPT !.next = [m \in Node |-> IF m = g.prev[n] THEN g.next[n] ELSE @[m]]]

(* What effect_remove() does to the neighbours; n keeps its own pointers.  *)
Unlinked(g, n) ==
  [g EXCEPT !.next = [m \in Node |-> IF m = g.prev[n] THEN g.next[n] ELSE @[m]],
            !.prev = [m \in Node |-> IF m = g.next[n] THEN g.prev[n] ELSE @[m]]]

(* effect_remove() from the list that starts at g.head, and at g.hist      *)
EffectRemove(g, n) ==
  [Unlinked(g, n) EXCEPT !.head = IF g.prev[n] = Null THEN g.next[n] ELSE @]
RecordRemove(g, n) ==
  [Unlinked(g, n) EXCEPT !.hist = IF g.prev[n] = Null THEN g.next[n] ELSE @]

(* effect_free(): n becomes the first of the trash.                        *)
EffectFree(g, n) ==
  IF n \in g.intrash THEN g
  ELSE [g EXCEPT !.intrash = @ \cup {n},
                 !.prev    = [m \in Node |-> IF m = n THEN Null
                                             ELSE IF m = g.trash THEN n ELSE @[m]],
                 !.next[n] = g.trash,
                 !.trash   = n]

(* effect_final() *)
EffectFinal(g, n) == IF n \in g.intrash THEN g ELSE EffectFree(EffectRemove(g, n), n)

(* n leaves the record for the trash.                                      *)
Strike(g, n) == EffectFree(RecordRemove(g, n), n)

(* effect_final() of those of the list that are in N                       *)
Finals(g, list, N) ==
  LET after[i \in 0 .. Len(list)] ==
        IF i = 0 THEN g
        ELSE IF list[i] \in N THEN EffectFinal(after[i - 1], list[i]) ELSE after[i - 1]
  IN  after[Len(list)]

(* Those of the record that are in N leave it for the trash.               *)
Struck(g, list, N) ==
  LET after[i \in 0 .. Len(list)] ==
        IF i = 0 THEN g
        ELSE IF list[i] \in N THEN Strike(after[i - 1], list[i])
        ELSE after[i - 1]
  IN  after[Len(list)]

(* unit_wipeeffect(u, mask): its hooks end only the effect they are at.    *)
Wiped(u, mask) == {n \in Listed : Dest[base[n]] = u /\ base[n] \notin mask}

(* unit_set_freezing_roaringed_in_each_history(u)                          *)
StruckFromRecord(g, u) ==
  Struck(g, Recorded, {n \in ToSet(Recorded) : Dest[base[n]] = u})

(* effect_copyall(list): the copies are the nodes after those allocated,   *)
(* and the result starts at the first of them.                             *)
CopyHead(list) == IF list = << >> THEN Null ELSE Len(base) + 1
CopyAll(g, list) ==
  LET first == Len(base) + 1
      last  == Len(base) + Len(list)
  IN  [g EXCEPT
        !.next = [n \in Node |-> IF n \in first .. last
                                   THEN IF n = last THEN Null ELSE n + 1 ELSE @[n]],
        !.prev = [n \in Node |-> IF n \in first .. last
                                   THEN IF n = first THEN Null ELSE n - 1 ELSE @[n]]]
KindsOf(list) == [i \in DOMAIN list |-> base[list[i]]]

(* effect_freeall(&f->effects) *)
FreeAll(g, list) == Finals(g, list, ToSet(list))

-----------------------------------------------------------------------------
(* What the code that runs now may do: the hook at the top of the stack,   *)
(* or the battle when nothing is under way.                                *)

Init ==
  /\ f = [next |-> [n \in Node |-> Null], prev |-> [n \in Node |-> Null],
          head |-> Null, hist |-> Null, trash |-> Null, intrash |-> {}]
  /\ base = << >>
  /\ state = [u \in Unit |-> "up"]
  /\ past = state
  /\ stack = << >>
  /\ freed = << >>

Over == freed # << >>
Runs == ~Over /\ ~(stack # << >> /\ Top.op = "walk" /\ ~Top.body)
May(h) == Runs /\ (stack = << >> \/ h \in Hook)
Room(n) == Len(base) + n <= MaxNode

(* effect_recursion_check(): a limit for each effect in the code, and for  *)
(* all of them together here.                                              *)
Deeper == Len(stack) < MaxDepth

(* The stack when the nodes of N have left the list.                       *)
Left(N) == [i \in DOMAIN stack |-> IF stack[i].op = "walk"
                                     THEN [stack[i] EXCEPT !.stay = @ \ N] ELSE stack[i]]

CheckAlive3(k) ==
  CASE state[Dest[k]] = "up"     -> TRUE
    [] state[Dest[k]] = "failed" -> k \in AllowFailed
    [] OTHER                     -> FALSE

(* effectx() with a kind of effect that is not on the field yet, or that   *)
(* is not looked for, up to base->inited ...                               *)
Add(k) ==
  LET n == Len(base) + 1
      prior == [m \in 1 .. n |-> Prior[Append(base, k)[m]]]
  IN  /\ May("add")
      /\ Deeper
      /\ Room(1)
      /\ CheckAlive3(k)
      /\ k \in Isolated \/ \A m \in Listed : base[m] # k
      /\ base' = Append(base, k)
      /\ f' = EffectInsert(f, n, prior)
      /\ stack' = Append(stack, Call("inited", n))
      /\ UNCHANGED <<state, past, freed>>

(* ... and the hooks effect_end and effect_end0.                           *)
Added ==
  /\ In("inited")
  /\ stack' = Append(Pop, Walk(f.head, Listed, <<"effect_end", "effect_end0">>))
  /\ UNCHANGED <<f, base, state, past, freed>>

(* effect_end() up to the end hook, which runs with n on neither list ...  *)
End(n) ==
  /\ May("end")
  /\ Deeper
  /\ n \in Listed
  /\ f' = EffectRemove(f, n)
  /\ stack' = Append(Left({n}), Call("end", n))
  /\ UNCHANGED <<base, state, past, freed>>

(* ... and the rest of it, with the hooks effect_endt.                     *)
Ended ==
  /\ In("end")
  /\ f' = EffectFree(f, Top.node)
  /\ stack' = Append(Pop, Walk(f.head, Listed, <<"effect_endt">>))
  /\ UNCHANGED <<base, state, past, freed>>

(* effect_final() *)
Drop(n) ==
  /\ May("final")
  /\ n \in Listed
  /\ f' = EffectFinal(f, n)
  /\ stack' = Left({n})
  /\ UNCHANGED <<base, state, past, freed>>

(* unit_kill(), when the hooks kill have not prevented it: the effects on  *)
(* u are wiped, then come the hooks statemod and kill_end.                 *)
Kill(u) ==
  LET gone == Wiped(u, Kept)
  IN  /\ May("kill")
      /\ Deeper
      /\ state[u] = "up"
      /\ state' = [state EXCEPT ![u] = "failed"]
      /\ f' = Finals(f, Effects, gone)
      /\ stack' = Append(Left(gone), Walk(f'.head, Listed \ gone, <<"statemod", "kill_end">>))
      /\ UNCHANGED <<base, past, freed>>

(* Mutant: the record is left alone.                                       *)
RoarDown_Now(u) ==
  LET gone == Wiped(u, {})
  IN  /\ May("roar")
      /\ Deeper
      /\ state[u] # "roared"
      /\ state' = [state EXCEPT ![u] = "roared"]
      /\ f' = Finals(f, Effects, gone)
      /\ stack' = Append(Left(gone), Walk(f'.head, Listed \ gone, <<"statemod">>))
      /\ UNCHANGED <<base, past, freed>>

(* unit_setstate(u, UNIT_FREEZING_ROARINGED) *)
RoarDown(u) ==
  LET gone == Wiped(u, {})
  IN  /\ May("roar")
      /\ Deeper
      /\ state[u] # "roared"
      /\ state' = [state EXCEPT ![u] = "roared"]
      /\ past' = [past EXCEPT ![u] = "roared"]
      /\ f' = Finals(StruckFromRecord(f, u), Effects, gone)
      /\ stack' = Append(Left(gone), Walk(f'.head, Listed \ gone, <<"statemod">>))
      /\ UNCHANGED <<base, freed>>

(* history_add(), once: what the next records would add is more copies.    *)
Record ==
  /\ Runs
  /\ stack = << >>
  /\ f.hist = Null
  /\ Room(Len(Effects))
  /\ f' = [CopyAll(f, Effects) EXCEPT !.hist = CopyHead(Effects)]
  /\ base' = base \o KindsOf(Effects)
  /\ past' = state
  /\ UNCHANGED <<state, stack, freed>>

(* time_back() on a field with effects (without, effect_freeall() crashes: *)
(* that is in module Battle): back(), effect_copyall(), effect_freeall().  *)
Rewind ==
  /\ May("rewind")
  /\ f.head # Null
  /\ Room(Len(Recorded))
  /\ state' = past
  /\ f' = [FreeAll(CopyAll(f, Recorded), Effects) EXCEPT !.head = CopyHead(Recorded)]
  /\ base' = base \o KindsOf(Recorded)
  /\ stack' = Left(Listed)
  /\ UNCHANGED <<past, freed>>

(* for_each_effect(), by the battle or in a hook                           *)
BeginWalk ==
  /\ May("walk")
  /\ Deeper
  /\ stack' = Append(stack, Walk(f.head, Listed,
                                 IF stack = << >> THEN <<"roundend">> ELSE <<"hook">>))
  /\ UNCHANGED <<f, base, state, past, freed>>

Visit ==
  /\ In("walk")
  /\ ~Top.body
  /\ Top.cur # Null
  /\ stack' = SetTop([Top EXCEPT !.body = TRUE, !.nxt = f.next[Top.cur],
                                 !.seen = Append(@, Top.cur),
                                 !.astray = @ \/ Top.cur \in f.intrash])
  /\ UNCHANGED <<f, base, state, past, freed>>

(* Mutant: _next is always taken instead of the next of cur.               *)
Onward_Cached(w) == w.nxt
(* The third expression of the macro.                                      *)
Onward(w) == IF w.cur \in f.intrash THEN w.nxt ELSE f.next[w.cur]

Step ==
  /\ In("walk")
  /\ Top.body
  /\ stack' = SetTop([Top EXCEPT !.body = FALSE, !.cur = Onward(Top)])
  /\ UNCHANGED <<f, base, state, past, freed>>

EndWalk ==
  /\ In("walk")
  /\ ~Top.body
  /\ Top.cur = Null
  /\ stack' = IF Len(Top.hooks) = 1 THEN Pop
              ELSE SetTop(Walk(f.head, Listed, Tail(Top.hooks)))
  /\ UNCHANGED <<f, base, state, past, freed>>

(* field_free(): both lists go to the trash, and wipetrash() frees it.     *)
FieldFree ==
  /\ Runs
  /\ stack = << >>
  /\ base # << >>
  /\ LET g == Struck(FreeAll(f, Effects), Recorded, ToSet(Recorded))
     IN  f' = [g EXCEPT !.trash = Null] /\ freed' = Chain(g, g.trash)
  /\ UNCHANGED <<base, state, past, stack>>

Next ==
  \/ \E k \in Kind : Add(k)
  \/ \E n \in Node : End(n) \/ Drop(n)
  \/ \E u \in Unit : Kill(u) \/ RoarDown(u)
  \/ Added \/ Ended \/ Record \/ Rewind
  \/ BeginWalk \/ Visit \/ Step \/ EndWalk
  \/ FieldFree

Spec == Init /\ [][Next]_vars

-----------------------------------------------------------------------------
(* Properties.                                                             *)

TypeOK ==
  /\ f \in [next : [Node -> {Null} \cup Node], prev : [Node -> {Null} \cup Node],
            head : {Null} \cup Node, hist : {Null} \cup Node,
            trash : {Null} \cup Node, intrash : SUBSET Node]
  /\ base \in Seq(Kind) /\ Len(base) <= MaxNode
  /\ state \in [Unit -> States] /\ past \in [Unit -> States]
  /\ Len(stack) <= MaxDepth

BeingEnded == {stack[i].node : i \in {j \in DOMAIN stack : stack[j].op = "end"}}

(* No effect is lost and none is in two places: each one allocated is on   *)
(* the list, in the record, in the trash or being ended, whatever the      *)
(* hooks that run in the middle of effect_end() do to its neighbours; and  *)
(* field_free() frees each one exactly once.                               *)
NothingIsLost ==
  LET all == Effects \o Recorded \o Trash \o freed
  IN  /\ IsInjective(all)
      /\ ToSet(all) \cap BeingEnded = {}
      /\ ToSet(all) \cup BeingEnded = DOMAIN base

(* Both ways along the list are the same way.                              *)
Linked ==
  /\ f.head # Null => f.prev[f.head] = Null
  /\ \A n \in Listed : f.next[n] # Null => f.prev[f.next[n]] = n

(* A unit that has fallen has no effects but the kept ones, and one that   *)
(* is roared down has none, on the field or in the record: none of the     *)
(* calls under way can put one back.                                       *)
FallenAreBare ==
  /\ \A n \in Listed : LET k == base[n] IN
       state[Dest[k]] = "up" \/ (state[Dest[k]] = "failed" /\ k \in Kept)
  /\ \A n \in ToSet(Recorded) : state[Dest[base[n]]] # "roared"

(* A walk loses its place when its own hook ends both the effect it is     *)
(* called for and the next one, or in the same way wipes the whole list.   *)
Lost(w) == w.cur \in f.intrash /\ w.nxt \in f.intrash

(* The hook of an effect that has ended is never called, except after the  *)
(* walk has lost its place.                                                *)
GhostsOnlyWhenLost ==
  [][(Step /\ ~Top.astray /\ ~Lost(Top)) => stack'[Len(stack)].cur \notin f.intrash]_vars

(* A walk that has not lost its place calls the hook of each effect that   *)
(* stays on the list, and none twice.                                      *)
WalkIsComplete ==
  [][(EndWalk /\ ~Top.astray) =>
        /\ Top.stay \subseteq ToSet(Top.seen)
        /\ IsInjective(Top.seen)]_vars

(* The order of the hooks: by priority, then by age; and a rewind brings   *)
(* back the recorded effects in their order.                               *)
Order == INSTANCE EffectOrder WITH order <- KindsOf(Effects), record <- KindsOf(Recorded)
InOrder == Order!Spec

(* src/zh_CN.lang:203 says of radiated that the unit is hurt at the end of *)
(* each round, as lines 205 and 209 do of poisoned and burnt: an effect    *)
(* that is on the field from the beginning to the end of the walk that     *)
(* calls the hooks roundend has its hook called.                           *)
EveryRoundEndHook ==
  [][EndWalk /\ Top.hooks = <<"roundend">> => Top.stay \subseteq ToSet(Top.seen)]_vars

(* The list is whole: linked both ways, without a loss.                    *)
ListIsWhole == TypeOK /\ NothingIsLost /\ Linked

(* The hooks are called for each effect that stays, once, and for none     *)
(* that has ended, unless the walk lost its place.                         *)
WalkIsSound == GhostsOnlyWhenLost /\ WalkIsComplete
=============================================================================
