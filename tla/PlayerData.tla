----------------------------- MODULE PlayerData -----------------------------
(***************************************************************************)
(* A player's units, experience, items and endless levels: loaded when the *)
(* program starts, changed by the menus, and saved when the main menu is   *)
(* left.  The file is truncated before it is written, the process may die  *)
(* at any time, and the write may fail half-way.                           *)
(***************************************************************************)
EXTENDS Nbt, Integers

CONSTANTS
  Slots,      (* of deployed units: 6                                      *)
  Species,    (* numbers, in the order of the table                        *)
  XpType,     (* of each species                                           *)
  EvolveLevel,   (* from which each evolves into the next; 0 if it does not *)
  CanSelectType, (* the species with UF_CANSELECTTYPE                      *)
  MaxType,    (* of each species: max.type0 and max.type1                  *)
  Types,      (* how many regular types there are: 17                      *)
  MaxLevel,   (* 150                                                       *)
  Factor,     (* by which a level is dearer than level 0: 1.056^level      *)
  Prize,      (* experience for a victory on the first endless level: 183  *)
  NewUnits,   (* the units a new player has deployed: id and species of    *)
  NewStorage, (* each; and those in storage                                *)
  MaxEarned,  (* bound: experience won                                     *)
  MaxCream,   (* bound: items                                              *)
  MaxChanges, (* bound: changes in all                                     *)
  MaxStarts   (* bound: how often the program is started                   *)

(* What a unit is known by, whatever it evolves into.                      *)
Ids == {NewUnits[i][1] : i \in DOMAIN NewUnits} \cup {NewStorage[i][1] : i \in DOMAIN NewStorage}

(* The keys in the order of strcmp(); in species.c no unit evolves into a  *)
(* species that is cheaper.                                                *)
ASSUME PlayerDataAssumption ==
  /\ Slots \in Nat \ {0} /\ Len(NewUnits) <= Slots
  /\ Key = {"xp", "endless", "storage", "items", "units"}
  /\ Rank["endless"] < Rank["items"] /\ Rank["items"] < Rank["storage"]
  /\ Rank["storage"] < Rank["units"] /\ Rank["units"] < Rank["xp"]
  /\ XpType \in [Species -> Nat] /\ EvolveLevel \in [Species -> Nat]
  /\ \A s \in Species : EvolveLevel[s] > 0 =>
       s + 1 \in Species /\ XpType[s] <= XpType[s + 1]
  /\ MaxLevel \in Nat \ {0} /\ Factor \in [1 .. MaxLevel -> Nat] /\ Prize \in Nat
  /\ Types \in Nat /\ Types >= 2 /\ MaxType \in [Species -> (0 .. Types) \X (0 .. Types)]
  /\ \A s \in CanSelectType : MaxType[s][1] # MaxType[s][2] /\ MaxType[s][1] # 0
  /\ NewUnits \in Seq(Ids \X Species) /\ NewStorage \in Seq(Ids \X Species)
  /\ \A i, j \in DOMAIN NewUnits : NewUnits[i][1] = NewUnits[j][1] => i = j
  /\ \A i, j \in DOMAIN NewStorage : NewStorage[i][1] = NewStorage[j][1] => i = j
  /\ \A i \in DOMAIN NewUnits, j \in DOMAIN NewStorage : NewUnits[i][1] # NewStorage[j][1]

VARIABLES
  pd,       (* struct player_data with the shape of the list it is kept    *)
            (* in, and how much experience was won in all                  *)
  file,     (* the save: the content that was to be written, which keys    *)
            (* of it the file has, in order, and whether the last is whole *)
  menu,     (* "off", "main", "units", "storage" or "saving"               *)
  cur,      (* the cursor of the menu, counted from 1                      *)
  bound     (* starts and changes so far                                   *)

vars == <<pd, file, menu, cur, bound>>

None == [id |-> "none"]       (* spec is NULL                              *)

(* A type is the number of its bit, from 1; 0 is TYPE_VOID.                *)
UiCreate(id, s) ==
  [id |-> id, spec |-> s, level |-> 1,
   type |-> IF s \in CanSelectType THEN MaxType[s] ELSE <<0, 0>>]

Deployed(ui) == {i \in 1 .. Slots : ui[i] # None}
IsUnit(ui, i) == i \in 1 .. Slots /\ ui[i] # None

-----------------------------------------------------------------------------
(* Loading and saving: pdata_load() and pdata_save().                      *)

Create(units) == [i \in DOMAIN units |-> UiCreate(units[i][1], units[i][2])]
Padded(units) == [i \in 1 .. Slots |-> IF i <= Len(units) THEN units[i] ELSE None]

(* The content of a new player, and the shape of the list it is kept in.   *)
NewContent ==
  [units |-> Create(NewUnits), storage |-> Create(NewStorage), items |-> 0,
   xp |-> 0, level |-> 1, highest |-> 1, won |-> 0]
NewTree == AddAll(Single("xp"), <<"units", "endless", "storage">>)

Live(content, tree) ==
  [ui |-> Padded(content.units), storage |-> content.storage,
   items |-> content.items, xp |-> content.xp, level |-> content.level,
   highest |-> content.highest, won |-> content.won, tree |-> tree]

(* The units before the first empty slot are saved.                        *)
Saved(ui) ==
  LET n == Min({i \in 1 .. Slots : ui[i] = None} \cup {Slots + 1}) - 1
  IN  SubSeq(ui, 1, n)

NewPlayer == Live(NewContent, NewTree)

Content(p) ==
  [units |-> Saved(p.ui), storage |-> p.storage, items |-> p.items, xp |-> p.xp,
   level |-> p.level, highest |-> p.highest, won |-> p.won]

(* Mutant: the list of units is replaced where it is.                      *)
SaveTree_InPlace(t) == t

(* The list of units is deleted and a new one added.                       *)
SaveTree(t) == Add(IF Found(t, "units") THEN Detach(t, "units") ELSE t, "units")

(* What nbt_read() makes of a file: NULL when it is empty or ends inside   *)
(* an element, and else what whole elements there are.                     *)
Readable == file.keys # << >> /\ file.whole
Has(k) == k \in ToSet(file.keys)

(* Of what is not found, storage is empty and there are no items; the rest *)
(* is asserted to be there.                                                *)
Asserted == Has("xp") /\ Has("endless") /\ Has("units")
FileContent ==
  [file.content EXCEPT !.storage = IF Has("storage") THEN @ ELSE << >>,
                       !.items = IF Has("items") THEN @ ELSE 0]

Init ==
  /\ pd = NewPlayer
  /\ file = [content |-> NewContent, keys |-> << >>, whole |-> TRUE]
  /\ menu = "off"
  /\ cur = 1
  /\ bound = [starts |-> 0, changes |-> 0]

(* The process has ended, and its memory is gone.                          *)
Off == menu' = "off" /\ pd' = NewPlayer

Load ==
  /\ menu = "off"
  /\ bound.starts < MaxStarts
  /\ \/ Readable /\ Asserted /\ pd' = Live(FileContent, Read(file.keys)) /\ menu' = "main"
     \/ Readable /\ ~Asserted /\ Off
     \/ ~Readable /\ pd' = NewPlayer /\ menu' = "main"
  /\ cur' = 1
  /\ bound' = [bound EXCEPT !.starts = @ + 1]
  /\ UNCHANGED file

(* The main menu is left; open() truncates the file, or it fails ...       *)
Exit ==
  /\ menu = "main"
  /\ \/ /\ menu' = "saving"
        /\ pd' = [pd EXCEPT !.tree = SaveTree(@)]
        /\ file' = [content |-> Content(pd), keys |-> << >>, whole |-> TRUE]
     \/ Off /\ UNCHANGED file
  /\ UNCHANGED <<cur, bound>>

(* ... and write() writes the file, or some of it.                         *)
Write ==
  /\ menu = "saving"
  /\ \E n \in 0 .. Len(WriteOrder(pd.tree)), whole \in BOOLEAN :
       /\ n = Len(WriteOrder(pd.tree)) => whole
       /\ file' = [file EXCEPT !.keys = SubSeq(WriteOrder(pd.tree), 1, n), !.whole = whole]
  /\ Off
  /\ UNCHANGED <<cur, bound>>

(* The process is killed.                                                  *)
Crash ==
  /\ menu # "off"
  /\ Off
  /\ UNCHANGED <<file, cur, bound>>

-----------------------------------------------------------------------------
(* The menu of deployed units.                                             *)

Changed == /\ bound.changes < MaxChanges
           /\ bound' = [bound EXCEPT !.changes = @ + 1]

To(m, c) == menu' = m /\ cur' = c /\ UNCHANGED <<pd, file, bound>>

OpenUnits == menu = "main" /\ IsUnit(pd.ui, 1) /\ To("units", 1)

(* The loop returns as soon as no unit is at the cursor.                   *)
Here == menu = "units" /\ IsUnit(pd.ui, cur)
LeaveUnits == menu = "units" /\ To("main", 1)

Swapped(ui, i, j) == [ui EXCEPT ![i] = ui[j], ![j] = ui[i]]

UnitDown == Here /\ To("units", IF IsUnit(pd.ui, cur + 1) THEN cur + 1 ELSE 1)
UnitUp ==
  Here /\ To("units", IF cur > 1 THEN cur - 1
                      ELSE Max({n \in 1 .. Slots : \A i \in 1 .. n : IsUnit(pd.ui, i)}))

(* The keys t, u and i *)
MoveTo(c) ==
  /\ Here
  /\ c # cur
  /\ Changed
  /\ pd' = [pd EXCEPT !.ui = Swapped(@, c, cur)]
  /\ cur' = c
  /\ UNCHANGED <<file, menu>>
UnitTop   == MoveTo(1)
UnitRaise == cur > 1 /\ MoveTo(cur - 1)
UnitLower == IsUnit(pd.ui, cur + 1) /\ MoveTo(cur + 1)

(* Mutant: the units after the one that leaves stay where they are.        *)
Closed_NotShifted(ui, c) == [ui EXCEPT ![c] = None]

Closed(ui, c) ==
  IF ~IsUnit(ui, c + 1) THEN [ui EXCEPT ![c] = None]
  ELSE [i \in 1 .. Slots |-> IF i < c THEN ui[i] ELSE IF i < Slots THEN ui[i + 1] ELSE None]

WithKey(t, k) == IF Found(t, k) THEN t ELSE Add(t, k)

(* The key s *)
Store ==
  /\ Here
  /\ Changed
  /\ pd' = [pd EXCEPT !.ui = Closed(@, cur), !.storage = Append(@, pd.ui[cur]),
                      !.tree = WithKey(@, "storage")]
  /\ cur' = Max({c \in 1 .. cur : c = 1 \/ pd'.ui[c] # None})
  /\ UNCHANGED <<file, menu>>

(* xp_require(), xp_require_fromto() and xp_require_evo(): the code rounds *)
(* the products of real numbers down.                                      *)
XpRequire(u) == XpType[u.spec] * Factor[u.level]
Total(s) ==
  LET to[i \in 0 .. Len(s)] == IF i = 0 THEN 0 ELSE to[i - 1] + s[i]
  IN  to[Len(s)]
FactorsTo(l) == Total([i \in 1 .. l - 1 |-> Factor[i]])

(* Mutant: the difference of one level only.                               *)
XpRequireEvo_Level(u) ==
  LET more == XpType[u.spec + 1] - XpType[u.spec]
  IN  IF more > 0 THEN more * Factor[u.level] ELSE 0

XpRequireEvo(u) ==
  LET more == XpType[u.spec + 1] - XpType[u.spec]
  IN  IF more > 0 THEN more * FactorsTo(u.level) ELSE 0

Raised(u, n) == [u EXCEPT !.level = @ + n]
XpRequireTo(u, n) == XpType[u.spec] * (FactorsTo(u.level + n) - FactorsTo(u.level))

Spend(u, xp) ==
  /\ Changed
  /\ xp <= pd.xp
  /\ pd' = [pd EXCEPT !.ui[cur] = u, !.xp = @ - xp]
  /\ UNCHANGED <<file, menu, cur>>

LevelUp ==
  /\ Here
  /\ pd.ui[cur].level < MaxLevel
  /\ Spend(Raised(pd.ui[cur], 1), XpRequire(pd.ui[cur]))

(* The key K: as many levels as there is experience for.                   *)
LevelMax ==
  /\ Here
  /\ LET u == pd.ui[cur]
         n == Max({k \in 0 .. MaxLevel - u.level : XpRequireTo(u, k) <= pd.xp})
     IN  n > 0 /\ Spend(Raised(u, n), XpRequireTo(u, n))

Evolve ==
  /\ Here
  /\ EvolveLevel[pd.ui[cur].spec] > 0
  /\ pd.ui[cur].level >= EvolveLevel[pd.ui[cur].spec]
  /\ LET u == pd.ui[cur]
         s == u.spec + 1
     IN  Spend([u EXCEPT !.spec = s, !.type = IF s \in CanSelectType THEN MaxType[s] ELSE @],
               XpRequireEvo(u))

(* The keys c and C, which shift the bit of a type.                        *)
Shift(t) == IF t = 0 THEN 0 ELSE t + 1
Past(t, other) == IF t = other THEN Shift(t) ELSE t

NextType0(t) ==
  LET next == Past(Shift(t[1]), t[2])
  IN  Past(IF next \in 1 .. Types THEN next ELSE 1, t[2])

NextType1(t) ==
  LET next == Past(Shift(t[2]), t[1])
      some == IF next = 0 THEN 1 ELSE next
  IN  Past(IF some \in 1 .. Types THEN some ELSE 0, t[1])

SelectType ==
  /\ Here
  /\ pd.ui[cur].spec \in CanSelectType
  /\ LET t == pd.ui[cur].type
     IN  \/ Spend([pd.ui[cur] EXCEPT !.type[1] = NextType0(t)], 0)
         \/ Spend([pd.ui[cur] EXCEPT !.type[2] = NextType1(t)], 0)

-----------------------------------------------------------------------------
(* The menu of the storage.                                                *)

OpenStorage ==
  /\ menu = "main"
  /\ pd' = [pd EXCEPT !.tree = WithKey(@, "storage")]
  /\ menu' = IF pd.storage = << >> THEN "main" ELSE "storage"
  /\ cur' = 1
  /\ UNCHANGED <<file, bound>>

Stored == menu = "storage" /\ pd.storage # << >>
LeaveStorage == menu = "storage" /\ To("main", 1)

StorageDown == Stored /\ To("storage", IF cur < Len(pd.storage) THEN cur + 1 ELSE 1)
StorageUp == Stored /\ To("storage", IF cur > 1 THEN cur - 1 ELSE Len(pd.storage))

Taken(s, c) == RemoveAt(s, c)
Limit(c, n) == IF c > n /\ n > 0 THEN n ELSE c

(* With no free slot a message is shown.                                   *)
Deploy ==
  /\ Stored
  /\ pd.ui[Slots] = None
  /\ Changed
  /\ LET free == Min({i \in 1 .. Slots : pd.ui[i] = None})
     IN  pd' = [pd EXCEPT !.ui[free] = pd.storage[cur], !.storage = Taken(@, cur)]
  /\ cur' = Limit(cur, Len(pd.storage) - 1)
  /\ UNCHANGED <<file, menu>>

-----------------------------------------------------------------------------
(* Battles and items; their menus keep nothing that outlives a key.        *)

Highest(p) == IF p.highest < p.level + 1 THEN p.level + 1 ELSE p.highest

EndlessWin(p) ==
  [p EXCEPT !.xp = @ + Prize * p.level, !.won = @ + Prize * p.level,
            !.level = @ + 1, !.highest = Highest(p)]

(* battle() is not won without a unit.                                     *)
Fights == menu = "main" /\ IsUnit(pd.ui, 1) /\ Changed /\ UNCHANGED <<file, menu, cur>>

(* A challenge that is won, or up to 1024 of them with auto.               *)
EndlessWins(p, n) ==
  LET after[i \in 0 .. n] == IF i = 0 THEN p ELSE EndlessWin(after[i - 1])
  IN  after[n]
Endless ==
  /\ Fights
  /\ \E n \in 1 .. MaxEarned : pd' = EndlessWins(pd, n)
  /\ pd'.won <= MaxEarned

(* pdata_giveitem(pd, "endless_cream", count)                              *)
GiveItem(p, count) ==
  [p EXCEPT !.tree = WithKey(@, "items"), !.items = IF @ + count < 0 THEN 0 ELSE @ + count]

MirrorBattling ==
  /\ Fights
  /\ pd.items < MaxCream
  /\ pd' = GiveItem(pd, 1)

EndlessCream ==
  /\ menu = "main"
  /\ pd.items > 0
  /\ Changed
  /\ pd' = GiveItem([pd EXCEPT !.level = 1], -1)
  /\ UNCHANGED <<file, menu, cur>>

Next ==
  \/ Load \/ Exit \/ Write \/ Crash
  \/ OpenUnits \/ LeaveUnits \/ UnitDown \/ UnitUp \/ UnitTop \/ UnitRaise \/ UnitLower
  \/ Store \/ LevelUp \/ LevelMax \/ Evolve \/ SelectType
  \/ OpenStorage \/ LeaveStorage \/ StorageDown \/ StorageUp \/ Deploy
  \/ Endless \/ MirrorBattling \/ EndlessCream

Spec == Init /\ [][Next]_vars

-----------------------------------------------------------------------------
(* Properties.                                                             *)

UnitRecord == [id : Ids, spec : Species, level : 1 .. MaxLevel,
               type : (0 .. Types) \X (0 .. Types)]

Player == [ui : [1 .. Slots -> UnitRecord \cup {None}], storage : Seq(UnitRecord),
           items : Nat, xp : Nat, level : Nat \ {0}, highest : Nat, won : Nat, tree : Tree]

TypeOK ==
  /\ pd \in Player
  /\ ToSet(file.keys) \subseteq Key /\ file.whole \in BOOLEAN
  /\ menu \in {"off", "main", "units", "storage", "saving"}
  /\ cur \in Nat \ {0}

(* Whatever is moved between the slots and the storage, saved and loaded:  *)
(* each unit a new player got is in one place, and in one only.            *)
DeployedIds(p) == {p.ui[i].id : i \in Deployed(p.ui)}
StoredIds(p)   == {p.storage[i].id : i \in DOMAIN p.storage}
NoUnitIsLost(p) ==
  /\ \A i, j \in Deployed(p.ui) : p.ui[i].id = p.ui[j].id => i = j
  /\ \A i, j \in DOMAIN p.storage : p.storage[i].id = p.storage[j].id => i = j
  /\ DeployedIds(p) \cap StoredIds(p) = {}
  /\ DeployedIds(p) \cup StoredIds(p) = Ids

(* No unit is behind an empty slot, where pdata_save() would drop it.      *)
NoGaps(p) == \A i \in Deployed(p.ui) : \A j \in 1 .. i : IsUnit(p.ui, j)

(* The experience that was won is there or in the units, in whatever order *)
(* they rose and evolved.                                                  *)
Worth(u)  == IF u = None THEN 0 ELSE XpType[u.spec] * FactorsTo(u.level)
Worths(s) == [i \in DOMAIN s |-> Worth(s[i])]
NoXpIsLost(p) == p.xp + Total(Worths(p.ui)) + Total(Worths(p.storage)) = p.won
XpIsKept == NoXpIsLost(pd)

(* src/zh_CN.lang:101 says that the main and the second type of a unit     *)
(* that can select them cannot be the same.                                *)
TypesDiffer(u) == u.spec \in CanSelectType => u.type[1] # u.type[2]
AllTypesDiffer(p) ==
  /\ \A i \in Deployed(p.ui) : TypesDiffer(p.ui[i])
  /\ \A i \in DOMAIN p.storage : TypesDiffer(p.storage[i])

(* After units have left or come in, the cursor is at a unit, if there is  *)
(* one.                                                                    *)
CursorAtUnit ==
  /\ menu = "units" /\ Deployed(pd.ui) # {} => IsUnit(pd.ui, cur)
  /\ menu = "storage" /\ pd.storage # << >> => cur \in DOMAIN pd.storage

HighestIsHighest(p) == p.highest >= p.level

(* A file is loaded as it was saved or not at all: when writing failed     *)
(* half-way the program starts with a new player, or does not start, but   *)
(* never with part of what was saved.                                      *)
Complete == Readable /\ Has("units") /\ Has("endless")
            /\ (file.content.storage # << >> => Has("storage"))
            /\ (file.content.items > 0 => Has("items"))
LoadedWholeOrNew ==
  [][Load /\ menu' = "main" =>
       Content(pd') = IF Complete THEN file.content ELSE NewContent]_vars

(* Each unit is kept, once, where the menu and pdata_save() find it, and   *)
(* as the documents describe it.                                           *)
UnitsAreKept ==
  /\ TypeOK /\ CursorAtUnit
  /\ NoUnitIsLost(pd) /\ NoGaps(pd) /\ AllTypesDiffer(pd) /\ HighestIsHighest(pd)
=============================================================================
