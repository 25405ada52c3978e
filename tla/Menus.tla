-------------------------------- MODULE Menus --------------------------------
(***************************************************************************)
(* The menus of menu.c and fun.c.  A menu is a function that runs until it *)
(* is left, and shows another by calling it: the calls are frames.  Each   *)
(* frame keeps its cursor, and those of long tables which part of them is  *)
(* on the screen, whose size may change at every key.  Some menus change   *)
(* the table they show.                                                    *)
(***************************************************************************)
EXTENDS MoveEditor, Integers

CONSTANTS
  Size,      (* entries of the tables "wp", "move", "effect" and "type":   *)
             (* builtin_species, builtin_moves, effects and the types: 20  *)
  Below,     (* of a species, its moves; of a move, its species; of a      *)
             (* topic of the tutorial, its lines                           *)
  Units,     (* of the player                                              *)
  Deployable,(* units that can be deployed at a time: 6                    *)
  Heights,   (* of the screen                                              *)
  MaxCream   (* bound: items                                               *)

(***************************************************************************)
(* What each menu does: which part of the screen its table may take up --  *)
(* none that is limited (0), all lines (1), or half of them (2); what the  *)
(* names in it call, or what its entries show; whether enter leaves it;    *)
(* and whether it returns when its table is empty.                         *)
(***************************************************************************)
Plain == [part |-> 0, calls |-> << >>, shows |-> "", leaves |-> FALSE, returns |-> FALSE]

mmop == <<"units", "storage", "endless", "battle", "fun", "item", "list", "tutorial", "exit">>
list_ops == <<"wp", "move", "type", "effect", "exit">>
fun_modes == <<"battle", "battle", "battle", "battle", "battle", "exit">>

main_menu == [Plain EXCEPT !.calls = mmop]
list_menu == [Plain EXCEPT !.calls = list_ops]
fun_menu == [Plain EXCEPT !.calls = fun_modes]
endless_menu == [Plain EXCEPT !.calls = <<"battle", "exit", "battle">>]
units_menu == [Plain EXCEPT !.returns = TRUE]
storage_menu == [Plain EXCEPT !.part = 2, !.returns = TRUE]
item_menu == [Plain EXCEPT !.part = 2, !.returns = TRUE]
wp_menu == [Plain EXCEPT !.part = 2, !.shows = "listmove"]
listmove == [Plain EXCEPT !.part = 2, !.leaves = TRUE, !.returns = TRUE]
move_menu == [Plain EXCEPT !.part = 2, !.shows = "move_unit"]
move_unit_menu == [Plain EXCEPT !.part = 1, !.leaves = TRUE, !.returns = TRUE]
effect_menu == [Plain EXCEPT !.part = 2]
type_menu == [Plain EXCEPT !.part = 2, !.leaves = TRUE]
tutorial_menu == [Plain EXCEPT !.shows = "show_tutorial"]
show_tutorial == [Plain EXCEPT !.leaves = TRUE]
msgbox == [Plain EXCEPT !.leaves = TRUE]
giveitem == [Plain EXCEPT !.leaves = TRUE]

Menu ==
  [main |-> main_menu, list |-> list_menu, fun |-> fun_menu, endless |-> endless_menu,
   units |-> units_menu, storage |-> storage_menu, item |-> item_menu, wp |-> wp_menu,
   listmove |-> listmove, move |-> move_menu, move_unit |-> move_unit_menu,
   effect |-> effect_menu, type |-> type_menu, tutorial |-> tutorial_menu,
   show_tutorial |-> show_tutorial, msgbox |-> msgbox, giveitem |-> giveitem]

ASSUME MenusAssumption ==
  /\ DOMAIN Size = {"wp", "move", "effect", "type"}
  /\ \A t \in DOMAIN Size : Size[t] \in Nat \ {0}
  /\ DOMAIN Below = {"wp", "move", "tutorial"}
  /\ \A t \in DOMAIN Below : Below[t] \in Seq(Nat)
  /\ Len(Below["wp"]) = Size["wp"] /\ Len(Below["move"]) = Size["move"]
  /\ Below["tutorial"] # << >>
  /\ Deployable \in Nat \ {0} /\ Units \in Nat
  /\ Heights \subseteq Nat \ {0, 1} /\ MaxCream \in Nat

VARIABLES
  frames,  (* the calls, the innermost last; none when the program ended   *)
  lines,   (* LINES                                                        *)
  stored,  (* units in storage                                             *)
  creams   (* items "endless_cream"                                        *)

menus == <<frames, lines, stored, creams>>
vars == <<menus, editor>>

Deployed == Units - stored

(* The entries of a frame's table with s units stored and c items.  The    *)
(* list of items also has its "root", the last.                            *)
Table(f, s, c) ==
  CASE f.menu \in DOMAIN Size     -> Size[f.menu]
    [] f.menu = "tutorial"       -> Len(Below["tutorial"])
    [] f.menu = "listmove"       -> Below["wp"][f.of + 1]
    [] f.menu = "move_unit"      -> Below["move"][f.of + 1]
    [] f.menu = "show_tutorial"  -> Below["tutorial"][f.of + 1]
    [] f.menu = "units"          -> Units - s
    [] f.menu = "storage"        -> s
    [] f.menu = "item"           -> IF c > 0 THEN 2 ELSE 0
    [] OTHER                     -> Len(Menu[f.menu].calls)

Frame(menu, of) == [menu |-> menu, of |-> of, cur |-> 0, shift |-> 0]
Rows(f, l) == l \div Menu[f.menu].part

(* Mutant: the last row is not counted.                                    *)
Scrolled_Late(f, n) ==
  [f EXCEPT !.shift = IF f.cur < @ THEN f.cur ELSE IF f.cur > @ + n THEN f.cur - n ELSE @]

Scrolled(f, n) ==
  [f EXCEPT !.shift = IF f.cur < @ THEN f.cur
                      ELSE IF f.cur > @ + (n - 1) THEN f.cur - (n - 1) ELSE @]

(* A menu whose table is empty returns; the calls below it show nothing    *)
(* that can be empty.                                                      *)
Returns(f, s, c) == Menu[f.menu].returns /\ Table(f, s, c) = 0

(* The innermost menu of fs is drawn, on l lines, with s units in storage  *)
(* and c items.                                                            *)
Draw(fs, l, s, c) ==
  LET kept == IF Returns(Last(fs), s, c) THEN Front(fs) ELSE fs
      top  == Last(kept)
  IN  /\ frames' = IF Menu[top.menu].part > 0
                   THEN Front(kept) \o <<Scrolled(top, Rows(top, l))>> ELSE kept
      /\ lines' = l /\ stored' = s /\ creams' = c

Shown(fs) == Draw(fs, lines, stored, creams)
Here == frames # << >> /\ ~editing /\ UNCHANGED editor
Top == Last(frames)
Entries == Table(Top, stored, creams)
At(c) == [frames EXCEPT ![Len(frames)].cur = c]
Into(menu) == Shown(Append(frames, Frame(menu, Top.cur)))
Call == LET calls == Menu[Top.menu].calls IN IF calls = << >> THEN "" ELSE calls[Top.cur + 1]

Init ==
  /\ frames = <<Frame("main", 0)>>
  /\ lines \in Heights
  /\ stored \in 0 .. Units /\ Deployed <= Deployable
  /\ creams = 0
  /\ EditorInit

-----------------------------------------------------------------------------

(* The keys for the next and the previous entry; the root of the items is  *)
(* not stopped at.                                                         *)
Step(d) ==
  /\ Here
  /\ Top.menu \notin {"msgbox", "giveitem"}
  /\ LET to == Ring(Top.cur + d, Entries)
     IN  Shown(At(IF Top.menu = "item" /\ to = Entries - 1 THEN Ring(to + d, Entries) ELSE to))

(* A key that no menu knows, among them the one ncurses makes when the     *)
(* window was resized; and enter where it does nothing.  (writemove() does *)
(* not scroll.)                                                            *)
Resize == Here /\ \E l \in Heights : Draw(frames, l, stored, creams)

(* Enter on the name of another menu, or on an entry that is shown.        *)
Open ==
  /\ Here
  /\ \/ Call \notin {"", "battle", "exit"} /\ Into(Call)
     \/ Menu[Top.menu].shows # "" /\ Into(Menu[Top.menu].shows)

(* A battle takes the screen over and gives it back: tm_init(), tm_end().  *)
(* mirror_battling() gives an item to the winner and says so.              *)
Battle ==
  /\ Here
  /\ Call = "battle"
  /\ \/ Shown(frames)
     \/ /\ Top.menu = "main" /\ Deployed > 0 /\ creams < MaxCream
        /\ Draw(Append(frames, Frame("giveitem", 0)), lines, stored, creams + 1)

(* Leaving the main menu ends the program.                                 *)
Quit ==
  /\ Here
  /\ Len(frames) = 1
  /\ frames' = << >>
  /\ UNCHANGED <<lines, stored, creams>>

Back == Here /\ Len(frames) > 1 /\ Shown(Front(frames))

(* Enter on "exit", in a message, or in a table that it leaves; and q.     *)
Exit ==
  /\ Here
  /\ Menu[Top.menu].leaves \/ Call = "exit"
  /\ Quit \/ Back
Escape == Quit \/ Back

Limit(c, n) == IF c > n /\ n >= 0 THEN n ELSE c

(* Enter in the storage: the unit at the cursor is deployed, if there is   *)
(* room for it.                                                            *)
Deploy ==
  /\ Here
  /\ Top.menu = "storage"
  /\ IF Deployed = Deployable THEN Into("msgbox")
     ELSE Draw(At(Limit(Top.cur, stored - 2)), lines, stored - 1, creams)

(* The key s in units_menu(); what it does to its cursor is in PlayerData. *)
Store ==
  /\ Here
  /\ Top.menu = "units"
  /\ Draw(At(Limit(Top.cur, Deployed - 2)), lines, stored + 1, creams)

(* Enter on an item: endless_cream_onenter().                              *)
UseItem ==
  /\ Here
  /\ Top.menu = "item"
  /\ Draw(frames, lines, stored, creams - 1)

(* Enter on "move" in units_menu(), where units are also raised; a unit is *)
(* saved and loaded when it is stored and deployed again.                  *)
Moves == /\ frames # << >> /\ Top.menu = "units" /\ UNCHANGED menus
         /\ WriteMove \/ Rise \/ Reload \/ Edit

Next ==
  \/ Step(1) \/ Step(-1) \/ Resize \/ Open \/ Battle \/ Exit \/ Escape
  \/ Deploy \/ Store \/ UseItem \/ Moves

Spec == Init /\ [][Next]_vars

-----------------------------------------------------------------------------
(* Properties.                                                             *)

TypeOK ==
  /\ EditorTypeOK
  /\ lines \in Heights /\ stored \in 0 .. Units /\ creams \in 0 .. MaxCream
  /\ Deployed \in 0 .. Deployable
  /\ \A i \in DOMAIN frames : frames[i].cur \in Int /\ frames[i].shift \in Nat
  /\ editing => frames # << >> /\ Top.menu = "units"

(* Whatever was deployed, stored or used up in the meantime: when a menu   *)
(* takes the entry at its cursor from its table the entry is there, and a  *)
(* menu that is returned to from one it called still has the entry that it *)
(* was called for.                                                         *)
CursorInTable ==
  \A i \in DOMAIN frames :
    LET f == frames[i]
    IN  f.menu \notin {"show_tutorial", "msgbox", "giveitem"} => f.cur \in 0 .. Table(f, stored, creams) - 1

(* After any key, resizing and return to the menu the entry at the cursor  *)
(* is among those that are drawn: what is taken from the table is on the   *)
(* screen.                                                                 *)
SelectedIsShown ==
  frames # << >> /\ Menu[Top.menu].part > 0 =>
    Top.cur \in Top.shift .. Top.shift + Rows(Top, lines) - 1

(* The entry under the cursor is in its table and on the screen.           *)
CursorIsShown == TypeOK /\ CursorInTable /\ SelectedIsShown

(* What is chosen stays free of holes and of moves chosen twice, until the *)
(* last of the moves is lowered.                                           *)
HolesAreTheOnlyHarm == []WholeUntilAHole /\ HolesByLowering
=============================================================================
