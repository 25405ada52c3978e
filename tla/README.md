# A verification of roundbattle

roundbattle is a turn-based battle game in C: two players bring up to six units
each, a unit has up to eight moves, and `battle()` plays rounds until one side
has won. Around the battle there are the player's data and save files, menus, a
terminal view, an expression evaluator and a few tools. There are no tests; the
only document is the tutorial in `zh_CN.lang` (lines 99-136, and the
descriptions of moves and effects).

This directory holds TLA+ modules for the battle, what it leaves in the player's
data and files, the menus and the terminal around it, and the expression library
beside it; TLC configurations that check them on small instances; and theorems
checked by TLAPS.

    tlc -workers 2 -config Roar.cfg MCBattle      # and the other .cfg files, each
                                                  # with the module the table names
    tlapm Battle_proofs.tla                       # and the other *_proofs

## The system

| component | state | operations | hard behaviour |
|---|---|---|---|
| battle loop, `battle.c` | stage, round, who is prior, result | `battle()`, `deadcheck`, `player_selectunit` | the same six decisions interleaved with deaths and replacements nine times a round; early exits |
| battle core, `battle-core.c/.h` | units (state, hit points, attributes, cooldowns), fronts, actions, effect list, history, message record | about 120 functions: damage, effects, killing, reviving, switching, judging and performing actions, winners | hooks of effects run in the middle of every operation and call other operations; history is rewritten |
| moves and effects, `moves.c` | tables | some 150 moves, 200 effects: actions, and hooks of effects | moves that undo what others did: revival, time travel, denial, roars |
| player data, `player_data.c`, `item.c` | units, experience, items, endless level | load, save, give, evolve | a save is not atomic, a bad file becomes a new player, slots must have no gap |
| NBT, `nbt.c`, `nbtedit.c`, `nbtdump.c` | a tree of tagged nodes | add, find, delete, rename, re-root, read, write; an editor | intrusive lists, keys compared by length and by signed characters, two nodes of one name |
| menus, `menu.c`, `fun.c` | a frame for each menu that is open, cursors into the player data | editing of moves, storage, items, endless mode | cursors kept over changes and resizing; a copy edited by single keys |
| terminal, `term.c` | record of lines, cursor and arguments of the selector | drawing, the selector of a human player, also for the enemy | everything is static and lasts from battle to battle |
| expressions, `expr.c/.h` | instructions with their variables, symbol sets | scan, optimise, evaluate; add, remove, move, save symbols | passes that rewrite code in place; cached depths; symbols moved while they are walked over |
| locale, string maps, utilities | hash tables, files | lookup | lazy loading |

The battle is one thread. `battle()` calls the core and the two selectors, the
core calls hooks of the effects on the field, hooks call the core again. The
menus call `battle()` with a selector that reads the terminal on one side and
`rand_selector` on the other, and take the result back into the player data.

## What is modelled

### `BattleField`: battle-core.c and a catalogue of moves.c

One record for `struct battle_field` with the units of both players. Every C
function is an operator from a field to the field it leaves, or to the set of
those it may leave when a hit test or a damage roll decides; so a call that
calls others is an expression, and an action of the battle contains all the
state changes of the calls it makes.

| in the model | in the code |
|---|---|
| `b.st[u]` | `u->state`, the seven `UNIT_*` |
| `b.hp[u]` | `u->hp`, with `max_hp` = `MaxHp` |
| `b.eff[u][k]` | `round` of effect `k` with `dest` = `u`: 0 when there is none, -1 when it is permanent |
| `b.cool[u][i]` | `u->moves[i].cooldown` |
| `b.front`, `b.action`, `b.acted` | `p->front`, `p->action`, `p->acted` |
| `b.stage`, `b.round`, `b.winner` | `*field.stage`, `*field.round`, `field.winner` |
| `b.hist` | `field.ht`, one snapshot per round |
| `Fail`, `Vanish`, `RoarDown` | the branches of `unit_setstate()` with `unit_state_update()` |
| `Kill`, `Damage`, `AddEffect`, `SwitchUnit`, `Revive`, ... | the functions of these names |
| `CheckFr`, `HasNegative`, `CanAction2`, `PlayerAction`, `GetPrior`, `GetWinner` | the functions of these names |

The stage `CRASHED` is the model's: the process died inside a call.

The catalogue is one move and one effect of each kind of code that reaches the
control of the battle: `steel_flywheel` (hit, then damage at each round end),
`dmts_impact` (control), `perish_song` (an effect kept after death, changed by
a hook of the kill), `absolutely_immortal` (a hook that vetoes the kill),
`plasmatizing_lightcannon` (suppression, or vanishing when the hit kills),
`karma_reverse` (revival and denial), `time_back` (rewinding),
`freezing_roaring` (in both forms), `red_lotus` (an effect that names a winner).

### `Battle`: battle.c

`pc` is the place in `battle()`; one action per piece of the loop between two
deadchecks. The macro `deadcheck` is a place of its own that returns to `after`:
`DeadReplace` is a turn of its loop in which a front came in, `DeadDecide` the
turn in which none did, with the decision that follows. Selectors answer
anything, legal or not (`Resign` is the answer that loses). `chooser` is a
history variable: the front for which each player chose its action.

### `EffectList` and `EffectOrder`: the list the hooks are called from

`BattleField` knows of the effects only which there are and for how long.
`EffectList` has them as battle-core.c keeps them: nodes with `next` and `prev`
(`f.next`, `f.prev`), the heads `f->effects`, `h->effects` of one record and
`f->trash` (`f.head`, `f.hist`, `f.trash`), and `intrash` of each node. Nodes
are numbered as `malloc()` gives them out.

| in the model | in the code |
|---|---|
| `EffectInsert`, `EffectRemove`, `EffectFree`, `EffectFinal`, `CopyAll`, `FreeAll` | the functions of these names, `effect_copyall()`, `effect_freeall()` |
| `Add`, `Added` | `effectx()` up to `base->inited`, and its hooks `effect_end`, `effect_end0` |
| `End`, `Ended` | `effect_end()` up to the effect's own `end`, and the rest with the hooks `effect_endt` |
| `Kill`, `RoarDown` | `unit_kill()` and `unit_setstate()` with `unit_wipeeffect()`, and the roar with `unit_set_freezing_roaringed_in_each_history()` |
| `BeginWalk`, `Visit`, `Step`, `EndWalk` | `for_each_effect()` and `for_all_effect()`: the macro's start, its body with `_next`, its third expression, its end |
| `Record`, `Rewind`, `FieldFree` | `history_add()`, `time_back()`, `field_free()` with `wipetrash()` |

`stack` is the C stack as far as it matters: the walks under way with their
variables `cur` and `_next`, and the calls in the middle of an effect's own
hook. Whatever runs innermost may do anything in `Hook`. A frame of a walk also
has history: which nodes it visited (`seen`), which have been on the list ever
since it began (`stay`), and whether it reached an effect that had ended
(`astray`).

`EffectOrder` is what the list promises: a sequence of kinds, by priority and
then by age, in which effects are inserted and from which they are removed, and
a record of it that can be brought back. `InOrder` says that `EffectList`
implements it.

Left out: merging an effect with one that is there (`effect_reinitx()`), which
does not touch the list; failing allocations. The recursion limit, 8 for each
effect, is one limit `MaxDepth` on everything under way. `Rewind` needs an
effect on the field: without one the process dies, as in `BattleField`.

### `MessageLog`: why something happened

Effects ask the record of messages what caused what they answer to.
`message_find()` and `message_findsource()` go backward over it and pass over
everything between an end and its beginning. `log.rec` is the record, of moves,
events and hooks (`begin`, `end`), `damage`, `effect` and `round` messages; each
message has as history (`src`) what was running when it was reported; `calls`
is what has begun and not returned. The module also has the one hook that
leaves `effect_ev()` in its middle, that of `moon_elf_shield`, and the counter
`inevent` by which `for_each_effect()` knows the recursion limit.
`Search` has the code's way of jumping over a span: it is into the middle of
the loop, without the loop's test, so a span that begins with the record would
be followed by a read in front of it (`Outside`).

### `Nbt` and `PlayerData`: the player's units and the save file

`Nbt` is the shape of a list of nodes of nbt.c: a search tree that is never
balanced (`Path`, `Add`, `AddAll`, `Detach`, `WriteOrder`, `Read` for `nbt_find()`,
`nbt_add()`, `nbt_addall()`, `nbt_detach()`, `nbt_writep()`, `nbt_read()`). Its keys are the five
of a save; the shape decides what is in a file that was written in part.

| in the model | in the code |
|---|---|
| `pd.ui`, `pd.xp`, `pd.level`, `pd.highest` | `struct player_data`; `None` is a slot whose `spec` is NULL |
| `pd.storage`, `pd.items` | the nodes `storage` and `items/endless_cream/count` below `pd->nbt` |
| `pd.tree` | the shape of `pd->nbt` |
| `pd.won` | history: the experience won in all |
| `file` | the save file: what was to be written, which elements of it are there, and whether the last is cut |
| `menu`, `cur` | the menu that is open and its cursor |
| `Load`; `Exit`, `Write` | `pdata_load()`; `pdata_save()` up to `open()`, and its `write()` |
| `UnitDown` ... `SelectType` | the keys of `units_menu()` |
| `StorageDown` ... `Deploy` | those of `storage_menu()` |
| `Endless`, `MirrorBattling`, `EndlessCream` | victories of the endless mode and the mirror battle, and the item |
| `Crash` | the process is killed, at any time |

A file cut between two elements, or in the first bytes of one, reads as the
elements before; a file cut inside one is not read. What makes a part of a save
different from a whole one is that `pdata_save()` deletes `units` and adds it
again: it comes last, whatever was added or deleted before, and its absence is
asserted against. `LoadedWholeOrNew` fails as soon as the list is replaced where it is.

Left out: the moves of a unit, `main.c`'s random numbers, the second of two
programs that share a file. Prices are exact; the code rounds each one down, so
that `XpIsKept` holds of it up to one point for each purchase. Only battles that
are won are steps, for the others change nothing.

### `SymSet` and `SymbolTable`: the symbol set of expr.c

The set in which expr.c has its symbols and locale.c its texts is a tree with
fourteen children to a node, intrusive in both directions: a symbol holds the
address of the pointer that leads to it. Walks use a stack that is allocated
beforehand from the cached depth.

| in the model | in the code |
|---|---|
| `set.at`, `set.tail` | the pointers `next[]` and `syms`, and `tail` of each symbol |
| `set.depthm1`, `set.depth`, `depth_n`, `removed`, `removed_m`, `size` | the fields of these names |
| `Insert`, `RemoveAll`, `RemoveKind` | `expr_symset_insert()`, `expr_symset_removea()` with `expr_symset_reinsert()`, `expr_rmsymt()` |
| `Saved`, `Recombined`, `Corrected`, `Clone`, `Wiped` | `expr_symset_save()`, `_recombine()`, `_correct()`, `_clone()`, `_wipe()` |
| `Write`, `Read` | `expr_symset_write()`, `expr_symset_readfd()`, whose reader may fail anywhere |

`SymbolTable` is what the users of the set rely on: a set of names. `IsTable`
says that `SymSet` implements it with the names that a search finds.

### `NbtEdit`: nbt.c under the tree editor

Nodes by address with both links, lists inside lists, and every key of
`nbtedit`. Two nodes of one name can be in a list, for `nbt_add()` never finds
the name there; `clash` remembers that this happened, and the properties say
what still holds then. `frames` are the calls of `edit_menu()`; mode `broken` is
the model's, for a use of freed or missing nodes, and for what a second empty
name makes of a list (`ReadsOn`). `AddNext` and `FindNext` are
the two comparisons, which differ where a name begins another and the next byte
is above 127.

### `MoveEditor` and `Menus`

`MoveEditor` is `writemove()`: a cursor over the learned moves and the slots, a
copy that is edited and written back. `Menus` composes it with the tree of all
menus: frames with cursor and scroll position, over tables that other menus
make longer and shorter, on a screen that may change its size at any key.

### `Terminal`: term.c

The selector with its static cursor and arguments, the recursion by which a
player looks through the enemy's eyes, the record of lines with its two ways to
write (`Added` is `wm()`, `Replaced` is `wm_o()`), and the life of the terminal
from `tm_init()` to `tm_end()`. `Done` is what `battle()` makes of the answer,
`checkfr()` in `switchunit()` included. `aslp`, which the key m switches and which
lasts too, only says whether to pause after a message, and is left out.
Where `Battle` lets a selector answer anything, `Terminal` is the one that does.

### `ExprCode`, `ExprPasses`, `ExprScan`, `ExprOptimizer`

`ExprCode` is the instruction set with its evaluation; `ExprPasses` each pass of
`expr_optimize_once()` as an operator from expression to expression; `ExprScan`
what `scan()` emits for operands, signs, operators, assignments, branches and
groups, and beside it `MeaningOf`, what the same text means by precedence alone,
without any code. `ExprOptimizer` runs one pass per step. Numbers are fractions:
what is checked is which operations are done in which order, not rounding.

| in the model | in the code |
|---|---|
| `[code, mem]` | `ep->data`, and the doubles of `ep->vars` |
| addresses: positive, negative, 0 | variables of the expression, of the program around it, NULL |
| `Const` ... `CopyEnd` | `expr_optimize_const()` ... `expr_optimize_copyend()` |
| `Cont`, `ContMul` | `expr_optimize_contadd()` and `_contsh()`, `expr_optimize_contmul()` |
| `AsNumber` | the end of `init_expr8()` |

### `Lifecycle`: what the battle promises about units

An abstract specification over the units' states and the states recorded in
history: units only fall, until they are revived from FAILED or the battle is
rewound to a record; a roar is forever, in every record. `Battle` implements it
(`ImplementsLifecycle`, with `st <- b.st` and `past` the states in `b.hist`).

### Abstractions

Attributes, damage types, levels and priorities are not in the model. A damage
roll is any value from 1 to `MaxHp`, a hit test may fail unless the target is
suppressed, the faster side is either one, and ties between winners go either
way. This allows every control flow the numbers could cause. A direct
`instant_death()` is damage of `MaxHp`. Effects have no level: what is asked of
them is whether they are there and for how long. Blockades, passive moves,
switching hooks and the recursion limit on moves are left out.

## Runs

Those of `MCBattle` have three rounds (`RoundMax` = 3), `TimeBackSpan` and
`KarmaSpan` = 1, `MaxHp` 1 or 2, effects that last 1 or 2 rounds, cooldowns of at most 3.

| run | module | instance | checks |
|---|---|---|---|
| roar | `MCBattle` | 2 against 2, one move each, MaxHp 1 | `TypeOK`, `RoaredInEverySnapshot`, `RoundsBeginSettled`, `OwnAction`, `FallenAreStripped`, `RoaredForever`, `Termination` |
| control | `MCBattle` | 2 against 1, two moves each | `DenialEndsWithTheRound`, `RoarIsUnstoppable`, `VanishedComesBackOnlyInTime`, `ImplementsLifecycle` |
| winner | `MCBattle` | 1 against 2, two moves each | `WinnerIsRight`, `ImmortalStands` |
| effects | `MCEffectList` | 3 nodes, 2 units, depth 2, hooks that add, end, kill and rewind | `ListIsWhole`, `FallenAreBare`, `WalkIsSound`, `InOrder` |
| round_end_hooks | `MCEffectList` | as effects, hooks that kill | that each effect has its round-end hook called, which the code does not keep |
| messages | `MessageLog` | 2 rounds, 8 messages (11 with the shield), depth 2, recursion limit 2 | `SourceIsWhatRan`, `SearchesAreRight` |
| player | `MCPlayerData` | 3 units, 3 slots, 3 species, 3 levels, 3 types; 3 starts, 3 changes | `UnitsAreKept`, `XpIsKept`, `LoadedWholeOrNew` |
| symset | `MCSymSet` | 4 names in the slots the code gives them, 2 types, 3 removals, files of 2 | `TreeAgrees`, `DepthsAgree`, `IsTable` |
| nbtedit | `MCNbtEdit` | 4 nodes, 5 names: the empty one, one that begins another, one not typed; depth 2, arrays of 2 | `NodesAreKept`, `SavedReadsBack`, `FramesHoldTheirLists`, `OneKeyOneEdit` |
| menus | `MCMenus` | 3 moves in 3 slots, 3 units, tables of up to 5 entries, screens of 2 and 4 lines | `CursorIsShown`, `HolesAreTheOnlyHarm`, `OnlyTheSelectedChanges` |
| terminal | `MCTerminal` | 5 situations for each side, 3 lines, 2 snapshots | `NothingCarriesOver`, `ArrowsUndo`, `OnlyProgressIsReplaced`, `AnswersCount` |
| expr | `MCExprOptimizer` | 3502 expressions, 2 inputs, 2 variables around with 2 values | `CodeIsSound`, `ScannedAsWritten`, `KeepsItsValue`, `EndsWithAnExpression` |

A property that is a conjunction (`RoundsBeginSettled`, `WinnerIsRight`,
`ListIsWhole`, ...) has its parts, each with a comment, above it in its module.

Why these bounds are enough for what they ask. Three rounds let a unit be hurt
in the first, roar or be revived in the second and be rewound or reaped in the
third, with a snapshot before each. Two units a side give a front and a bench
unit, which is what `deadcheck`, `checkfr()` and `reap_fading()` tell apart;
nothing in the modelled code counts units beyond two. `MaxHp` = 2 separates a
hit that hurts from one that kills; the roar run needs only the latter. A span
of 1 takes the battle back to the round before. The longest useful effect is
one that survives the round in which it is cast, 2 rounds.

Three nodes are a list with a middle, of two priorities and with two of the
same kind; a walk that is inside another, and a call inside a walk, need depth
2, and every hook that runs deeper sees the list and the walks above it as one
that runs at depth 2 does. The copies of a rewind come out of the same three
nodes, so a record has at most one effect when there is one to be freed. Three
nodes also let a walk's place and the one it remembers be wiped at once, which
is the case where the code loses its way. A record of 8 messages holds two
beginnings with their ends, inside or after one another, with damage before,
between and after; the shield reports up to four messages for each effect, so
its battles may have three more. The recursion limit 2 for 8 lets a leak fill
it within the record.

The player's run has three starts: the first makes a new player, whose tree
grows as the code adds to it; the second has a tree that was read from a file,
and writes one over it; the third loads that. Three changes, of all kinds and in any
order, reach a unit that rose and evolved, a type that was shifted past the
other, and slots that are filled, emptied and reordered. Three slots have a
top, a middle and an end.

Four names in the slots `strdiff()` and `modi()` give them make chains and forks
of every depth, and batches of a removal that lie below one another. Four nodes
are a list whose root has two below it, one of which can be taken out from
between, or a list inside another; two of a name need only two. Three slots let
the last move be lowered past an empty slot with another before it; a table
longer than the screen and one shorter need the two heights. The record of three
lines is full in reach of a row of progress messages; the five situations are
those the selector tells apart when it begins: free, bound with nothing ready,
one move only, and with the front fallen, which may have a roar left.

The expressions are all chains of three operators that bind the same, also with
a chain of constants between, an assignment after each, or counts that are no
whole number; every pair of operators, up to four signs before an operand of
each operator, assignments of each operand, and groups, branches and repetitions
with such expressions inside: each pass meets the code it looks for, before and
after the passes that change it. Exponents beyond 4 and shifts beyond 12 (`MaxExponent`, `MaxShift`)
are undefined, and nothing is asked of an undefined value; `VOID` is an address
no expression reaches. The model has been compared with the compiled expr.c on
these expressions and several thousand random ones.

Modules that stop (the field is freed, the record is bounded, changes and starts
are counted, an expression is made, a program is left) do not ask for deadlocks.

What the runs show, beyond the finding: a roar that has been chosen cannot be
prevented by killing, stunning or denying the roarer; fading is always resolved
within its round; an action is never carried out by a unit it was not chosen
for, though fronts change by switching, death and rewinding; the winner returned
is the side that has units left. Whatever hooks do in the middle of a walk, no
effect is lost, freed twice or on two lists, a fallen unit has no effects but
the kept ones, and hooks are called in order and once, as long as the walk keeps
its place. The search of the record blames what really ran, unless a hook leaves
a beginning without an end; even then it stays inside the record. No key of the
menus loses or doubles a unit or experience, and a save that was written in part
is never taken for a whole one. A symbol set is a table whatever was removed,
moved or shuffled, and no walk leaves its stack. The tree editor edits what the
user named, until two names clash; what it writes reads back even then. The
entry a menu takes is on the screen. Only lowering the last move can make a
unit's moves inconsistent. A selector's answer is allowed and carries nothing
over. Every pass of the optimizer keeps what an expression evaluates to and
assigns, but in five ways, and the rounds end.

`FrontsStand` says that the loop of `deadcheck` and `getwinner_nonnull()`
together keep the battle from continuing without a front: a side without a
replacement loses, whatever its other units do.

`Termination` assumes weak fairness of `Step`: `battle()` is one thread that
waits for nothing but the selectors, which return (a human player can leave
only by giving up, which is an answer). `EndsWithAnExpression` assumes weak
fairness of the next pass, which is a loop of one function; its `ENABLED` is
written out (`Unfinished`), for TLC would find it by running every pass twice.
Everything else is safety.

### Where the code departs from its documents

`round_end_hooks` is a run of its own: `for_all_effect()` remembers one
successor. When a hook ends both its own effect and that one, the walk goes on
in the trash list: the effects after them are passed over, and hooks of effects
that ended long ago are called. `GhostsOnlyWhenLost` and `WalkIsComplete` say
that nothing else makes a walk go wrong. (In `BattleField`, `RoundEndEffects`
has one effect per unit that kills at the round's end, which is too few for
this.)

The models have these departures too, as the code has them, without a run:

* `canaction2()` (battle-core.c:1270) misses a `break`, so `MOVE_NOCONTROL` has
  no effect when a move is selected; zh_CN.lang:127 says a controlled unit can
  use such moves. `CanAction2` in `BattleField`.
* `time_back()` frees an empty effect list (battle-core.c:919) and dies;
  zh_CN.lang:508 has it return to the beginning. The stage `CRASHED`.
* The side named winner by `reduced` (zh_CN.lang:388) may still be returned as
  the loser (battle.c:240). `SetWinner` and `GetWinnerNonnull`.
* Cooldowns of vanished units do not count down (battle-core.c:996);
  zh_CN.lang:114 exempts only units roared down. `CooldownDecrease`.
* The hook of `moon_elf_shield` returns without `effect_event_end()`
  (moves.c:2338), so after eight other effects the shield is passed over;
  zh_CN.lang:575. `ShieldEffectEnd` in `MessageLog`.
* A unit that is chosen with an argument, in place of one that fell, is no
  choice: `player_selectunit()` (battle.c:100) does not take the argument off.
* `wm_o()` (term.c:88) writes behind a record that is full (`spilled`).
* `2**-1` is 2: the minus of an exponent is lost with its node (expr.c:5382;
  `NoMinusInExponent`).
* `x%1` becomes `x` (expr.c:6849; `RemainderByOne`).
* What is assigned is the variable that operators and signs after it go on with,
  and they are folded into a constant, or into the operators before it:
  `x*2->y*3` makes `y` 6, `(x*2)->y*3` makes it `x*6` (`Lends`).
* A fold writes every constant of the code to memory again, also one that
  another operator went into: `x- -2+(1<3)` is `x-2+1` (expr.c:6535;
  `WritesBack`).
* Into a constant `expr_optimize_contmul()` folds what it has deleted of another
  chain too, for both have the destination NULL by then: `(x*2)*(5*7)*3` is
  `x*630` (expr.c:6703; `FoldsTwice`).
* `expr_optimize_contsh()` adds counts of which a shift takes the whole part only:
  `x<<0.5<<0.5` is `x<<1` (expr.c:6643; `ShiftsInParts`).
* A node can be renamed to the empty name (nbtedit.c:402), which no new node can
  have. A second one in the list is compared with the first over the length 0,
  which `expr_firstdiff()` (nbt.c:12) counts down from: it reads on behind both
  nodes. What it finds there is undefined, and the model ends (`ReadsOn`).
* `expr_optimize_constneg()` tests the wrong pointer in its search
  (expr.c:7562); `SignsFollowAValue` says that no code lets it run past the
  beginning.
* expr.h:396 asks for `__LITTLE_ENDIAN__`, which gcc does not define, so that
  shifts and operators on bits take the fields of a double in the other order;
  the model has the order the file means. A negative count of `don()` is
  undefined and not in the model. `expr_rmsymt()` of a type without symbols
  reads a buffer that was never written (`crashed` in `SymSet`).

## Proofs

Those about a battle are for any set of units (with at least one a side), any
kits, hit points, durations, cooldowns, spans and number of rounds:
`UnitAssumption`, `KitAssumption`, `NumberAssumption`, `RoundMaxAssumption`.

`BattleField_proofs` classifies what an operation does to a field:
`Same` (states and history untouched), `Ok` (units only fall), `Revived`,
`BackTo` (a snapshot), `Roared`. There is a lemma per operation and per move,
each of which also carries the type of the field; `PlayerActionOutcome` says
that an action is one of the four (`Outcome`).

`Battle_proofs` has a lemma per action of `Battle` saying which of these it is,
and derives

* `TypeCorrect`: `Spec => []TypeOK`. The type is inductive as it stands.
* `LifecycleImplemented`: `Spec => ImplementsLifecycle`. Each outcome is an
  action of `Lifecycle` on the mapped variables; `RoundStart` is `Record`.
* `RoaredEverywhere` and `RoaredStaysRoared`: `RoaredInEverySnapshot` and
  `RoaredForever`. `RoaredInEverySnapshot` alone is not inductive: a rewind
  could bring in a unit that is roared down in one snapshot and not in the
  others. `RoaredInPast` is: the same units are roared down now and in every
  snapshot. It is an invariant of the life cycle (`LifecycleInvariant`, and
  `LifecycleRoaredForever` its action property: both from `L!Spec`, not from the
  battle's), and the battle has it because it implements that.

Its second part is the same walk through the operations and moves for all
that `Falls` does not see: what an operation leaves to the fallen (`SoundUnit`),
to the bearers of `absolutely_immortal` (`Bears`), which effect accounts for a
state (`Synced`), which action still waits (`Pending`), whom it names winner and
whom it denies (`Course`).

The second part of `Battle_proofs` composes these lemmas along the places of `battle()`. None
of the safety properties is inductive. Their common invariant `IInv` is `TypeOK`
and, of `Kept`:

* `Sound`: what fell is stripped *in every snapshot as well*, for a rewind makes
  one of them the field;
* `Staged`, `Settled`, `Fronted`: which stage goes with which place, between
  which places nobody fades, and when both fronts stand. `RoundsBeginSettled`
  speaks of two places, but is established three before them;
* `Denials`, `ChoosersKnown`: that a denial is 0 or 1, and for whom an action was
  chosen while the other player still chooses;
* `Accounted`, `PriorMoves`, `VictoryWaits`: an effect accounts for every state
  until the first action, so what was legal when chosen is legal when the prior
  player acts and its move is carried out. Only therefore can a winner that is
  named still be waiting for nothing but a roar of the other side.

From `IInv` follow `FallenStripped`, `RoundsSettled`, `ActionsAreOwn`,
`DenialEnds` and `RightWinner`, each the property of its run, and as action
properties `VanishedStays`, `ImmortalsStand` and `RoarStrikesHome`; the last with
a second invariant, `FreshActs`: nobody has acted before the first action. With
the first part this is every safety and action property of `Battle`.
`DenialAssumption` is the number in `karma_reverse()`: were it more than 1, the
denial would outlive the round.

`Menus_proofs` is for tables and screens of any size, any number of units, of
slots and of moves learned. `EditorInv`, of `writemove()`, adds to the type that
a unit without a learned move is not edited and that `holed` knows of every
hole: without a hole the first empty slot is behind all moves, so `Learn` stops
at a move that it would double, and `Delete` has nothing behind the run it
shifts. `MenusInv`, of all menus, adds to it what the calls have to do with each
other: the menus whose tables change are called by the main menu only
(`Placed`), so that no change of a table reaches the cursor of a frame below;
and what a frame was called for was there (`Called`). `DrawKeeps` is the lemma
on the drawing: only the innermost frame may be without an entry, and then it
returns.

* `EntryIsShown`: `CursorIsShown`; `HolesHarm`: `HolesAreTheOnlyHarm`;
  `SelectedChanges`: `OnlyTheSelectedChanges`, with lemmas on how often a move is
  in what `Exchanged` and `Deleted` make of a sequence.

`NaturalSets` has what these proofs and those of the record need of numbers:
`LeastNat`, that a set of naturals that is not empty has a least element, and
from it what `Min` and `Max` are. It comes from `WFMin` of
`WellFoundedInduction`, which takes a relation as a set. It is induction as well:
what holds of a number if it holds of all smaller ones has no least number it
fails for.

`MessageLog_proofs` is for records of any length, any depth of what runs and any
limit of recursion. `Search` is a recursive function; `AnswersExist` and
`AnswersAgree` show, by `LeastNat`, that there is one such function and that its
answer at a message depends on the messages before only, and `SearchFacts` gives
its equations. `Depth(s, k, z)` is how many more have begun than ended from `k` to
`z`. The invariant `IInv` has two parts:

* with or without the shield, `Whole`: every end in the record has some beginning
  that is open before it (`HasBegun`), behind the first message, and what runs is
  at least as deep as it is nested. The shield only adds beginnings that do not
  end, and among those that are open from a beginning to now one is open last
  (`OpenOne`), so every end finds one, though not its own. Hence `StaysInside`;
* without it, `Tidy`: the depth is exactly the nesting, what was reported since a
  beginning is its own or of what ran in it, and a search from in front of *each*
  beginning finds what that runs in. The last is the strengthening needed: an end
  makes the search go on from in front of its beginning.

From them `SourcesFound`: `SourceIsWhatRan`; and `SearchesStayRight`:
`SearchesAreRight`.

`EffectList_proofs` is for any number of effects, any kinds and priorities, any
`Hook` and any depth of what is under way. `IsList(g, h, S, r)` says that from `h`
on the pointers lead through `S` and back, by a rank `r` that grows along the way:
with the rank neither a path nor a recursive definition is needed to say that a
list has no cycle and that one of its nodes comes before another. `Laid` puts the
field's list, the record and the trash side by side under one rank, and each
operation on the pointers has a lemma that says which nodes change their list and
that the others keep their order (`InsertLaid`, `RemoveLaid`, `FreeLaid`,
`FinalsLaid`, `StruckLaid`, `CopyFacts`). `ChainGoes` says that following the
pointers, as the macro does, visits exactly `S`, in that order. `IInv` adds what
makes the properties inductive:

* `Held`: what is allocated is in one of the lists or in the hand of one
  `effect_end()` that is under way, and no two of those have the same node;
* `Walks`: each walk that has not gone astray is at a node of the list, of the
  trash, or *that a call above it has in hand*, and what it has still to visit
  comes after what it has visited (`Onto`, `Beyond`), for `_next` as well as for
  the node itself. This has to hold of every walk on the stack and through every
  change that the hooks above it make: `Turns`, `Keeps` and `Shifts` are what a
  step does to the frames below, to the nodes and to their order, and `StackKept`
  carries `Held` and `Walks` over;
* `Bare`, also of the states in the record, since a rewind makes them the present
  ones.

The theorems are `ListStaysWhole`: `ListIsWhole`; `FallenStayBare`:
`FallenAreBare`; and `WalksAreSound`: `WalkIsSound`.

`HooksInOrder` is the refinement: `InOrder`, each step of the list is one of
`EffectOrder` or leaves both of its sequences alone. The ranks carry it. A list
that has lost nodes and kept the order of the others is some of what it was
(`RankedSome`), one with the same nodes in the same order is the same
(`RankedSame`), and copies, whose ranks are their numbers, have the kinds of the
list they are copied from (`KindsOfCopies`). `effect_insert()` stops at the first
node of a lower priority, so that it finds the place `EffectOrder` means only in
a list that falls by priority: `Sorted`, of the list and of the record, is the
invariant needed besides `IInv`. With it `InsertLaid` says where the new node is
(`Placed`), and `RankedPutIn` that the sequence is the old one with it put in.

`Terminal_proofs` is for any length of the record, any limit of the arguments
and any situations of the two players (`TerminalAssumption`: among them that a
player has one to six units). Its invariant `Inv` adds to the type that a unit
is asked for just when the front fell, that snapshots are gone through only
while the view is told of the battle, and that `fred` is off outside of it: by
the type alone neither `RefusedForAReason` nor `NothingIsLeft` is preserved.

* `NothingCarriesOverEver` and `ArrowsAlwaysUndo`: the two invariants of the run.
* `AnswersAlwaysCount`: `AnswersCount`. `StartAllowed` is its lemma on the
  cursor: in place of a front that fell the least living unit is one there is,
  though the state of an empty slot reads as that of a living unit.
* `OnlyProgressIsEverReplaced`: `OnlyProgressIsReplaced`, by the further
  invariant `ProgressIsLast`: while `fred` is on the last line is a line of
  progress, which a full record, where `wm_o()` misses it, keeps.

`PlayerData_proofs` is for any number of slots, any units that a new player gets,
any species, prices, prize and number of types (at least two), and without the
bounds on changes and starts. `PlayerDataAssumption` says what is used of them:
the ids of the new units differ; the order in which `strcmp()` puts the five keys;
that the species a unit evolves into is the next of the table and not cheaper, as
in species.c, for a cheaper one would lose what was spent; and that what
`CanSelectType` starts with are two types of which the first is one.
Its invariant `IInv` has four parts, because each property speaks of one thing and
holds by another:

* `PlayerOK`: the player in memory is `Good`, and the list of nodes that holds it
  has one of two shapes (`TreeFits`): `Fresh`, that of a new player, with `units`
  right below the root, or `Kept`, what `pdata_save()` and `pdata_load()` make of it, with
  `units` below `storage`; either one with the node of the items or without it.
  No step leads to another;
* `FileOK`: what the file was to hold is a `Good` player as well, and its elements
  are the first so many of the order in which a `Kept` list is written;
* `SavingOK`: between `open()` and `write()` the list is a `Kept` one that has the
  items the content speaks of;
* `MenuOK`: the cursor is at a unit.

`Good` has the parts of `UnitsAreKept` that are about the player, `NoXpIsLost`, and
in place of `AllTypesDiffer`, which is not inductive, `AllSelected`: the first type
of a unit that can select is never void either, or `NextType1` could meet it at void.
There are three groups of lemmas. On sums: what `Total` is, and what it becomes when an
element is appended, changed or taken out, so that each price of the menu is the
difference of two worths (`RaisedUnit`, `EvolveStep`); a price for several levels
is the sum of the single ones by `FactorsToNext`. On moves: `SwapGood`,
`ClosedIs`, `StoreGood`, `DeployGood`, `BecomesGood`, `NewGood`, each that no id
leaves or doubles and no gap comes in. On trees: `PathIs`, `PreOrderIs`, `DepthIs`
and `WriteOrderIs` give the equations of the recursive functions of `Nbt`; from
them every operation on every shape there can be, `SaveFresh` and `SaveKept`
(both give a `Kept` list), `KeptOrder` (`units` is written last, behind all
that must not be missing) and `ReadKept` (reading what was written whole gives the
same list again). `WholeFile` puts it together: a file in which `units` is found
is the whole file.

* `UnitsKept`: `UnitsAreKept`; `XpKept`: `XpIsKept`; `LoadedWhole`:
  `LoadedWholeOrNew`, an action property.

Only model-checked: the properties of `NbtEdit`, `SymSet` and `ExprOptimizer`;
`Termination` and `EndsWithAnExpression`, because liveness under fairness is
beyond the prover; and what `NbtEdit`, `SymSet` and the `Expr` modules compute,
which is by RECURSIVE operators. The induction theorems that take an operator
as a parameter are beyond it as well; a set or a relation in its place is not
(`LeastNat`).

## What is left

Not modelled, and why: the catalogue of `moves.c` beyond one of each kind (its
other moves differ in numbers, attributes and hooks that call the same
functions); the damage formula and attributes, which are arithmetic of doubles;
drawing in `term.c` and `menu.c`; `getunit()`, which nothing calls; `nbtdump`,
which prints; the fun modes beyond what they change; of `expr.c` sums, loops and
integrals, functions of several arguments, hot functions, operators on bits,
comparisons with a tolerance, memory and jump instructions, and the text of
symbols and numbers; tables of species, locale texts and string maps, which do
not change after they are read; random numbers and the programs around.

What could come next:

1. Hooks that answer other hooks, and the recursion limit, in a catalogue of
   their own beside `EffectList`.
2. Sums and repeated functions of `expr.c`, whose index is a variable that the
   optimizer must not take for a constant (`except` of `expr_constexpr()`).
3. A proof of the invariants of the editor of NBT trees, with its RECURSIVE
   operators written as functions first, as those of `Nbt` are.
