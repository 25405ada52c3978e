------------------------------- MODULE NbtEdit -------------------------------
(***************************************************************************)
(* The tree editor nbtedit over the lists of nbt.c.  A list is a search    *)
(* tree of nodes; a node may hold values, or lists of its own.  Nodes are  *)
(* told apart by address, so that two of one name can be in a list: no     *)
(* operation of nbt.c refuses that, and each that looks its node up by     *)
(* name then takes the wrong one.                                          *)
(***************************************************************************)
EXTENDS Naturals, Sequences, FiniteSets, FiniteSetsExt, SequencesExt

CONSTANTS
  Key,        (* the names that occur, the empty one among them            *)
  Typed,      (* bound: those that the user gives to a node                *)
  AddNext,    (* <<new, old>>: nbt_add() takes new to the next of old      *)
  FindNext,   (* <<key, old>>: nbt_find() looks for key at the next of old *)
  Kinds,      (* the types of node that are made                           *)
  Value,      (* numbers, and the letters of strings                       *)
  MaxLen,     (* bound: elements of an array                               *)
  Files,      (* what the file may hold at first                           *)
  MaxNode,    (* bound: nodes in memory at a time                          *)
  MaxDepth    (* bound: lists open in the editor, one inside the other     *)

Node == 1 .. MaxNode
NULL == 0
NoName == ""
Kind == {"root", "zd", "str", "list", "zda", "lista"}
(* A file that cannot be read, as an empty one: nbt_read() returns NULL.   *)
Bad == << >>

(* AddNext and FindNext differ only where signed characters make them.     *)
ASSUME NbtEditAssumption ==
  /\ AddNext \subseteq Key \X Key /\ FindNext \subseteq AddNext
  /\ \A k \in Key : <<k, k>> \notin AddNext
  /\ Kinds \subseteq Kind /\ Typed \subseteq Key /\ NoName \in Key
  /\ {MaxNode, MaxDepth, MaxLen} \subseteq Nat /\ 0 \in Value

VARIABLES
  node,    (* the nodes of the document, numbered as a walk comes to them  *)
  doc,     (* np of edit()                                                 *)
  frames,  (* the calls of edit_menu(), the innermost last                 *)
  file,    (* what is in the file                                          *)
  mode,    (* "shell", "edit", "done", or "broken": freed or missing nodes *)
           (* are used, or what is behind a node                           *)
  clash,   (* history: two nodes of one list had names that clash          *)
  lost     (* history: a node was still allocated that nothing led to      *)

vars == <<node, doc, frames, file, mode, clash, lost>>

(* What is at the address of no node.                                      *)
Blank == [key |-> NoName, kind |-> "free", prev |-> NULL, next |-> NULL, elems |-> << >>]

(* nbt_root(), nbt_list() and nbt_zd() .. nbt_dbl() with the value 0.      *)
Plain(k, kind) == [Blank EXCEPT !.key = k, !.kind = kind, !.elems = IF kind = "zd" THEN <<0>> ELSE << >>]

(* nbt_zda() .. nbt_lista() and nbt_str(), empty.                          *)
Array(k, kind) == [Blank EXCEPT !.key = k, !.kind = kind]

Made(k, kind) == IF kind \in {"root", "list", "zd"} THEN Plain(k, kind) ELSE Array(k, kind)

(* nbt_empty(): node n, a list of the one node m.                          *)
EmptyList(h, k, n, m) ==
  [h EXCEPT ![n] = [Plain(k, "list") EXCEPT !.elems = <<m>>], ![m] = Plain("root", "root")]

Lists(h, n) == IF h[n].kind \in {"list", "lista"} THEN h[n].elems ELSE << >>

(***************************************************************************)
(* Walks                                                                   *)
(***************************************************************************)
RECURSIVE InOrder(_, _)
InOrder(h, n) ==
  IF n = NULL THEN << >> ELSE InOrder(h, h[n].prev) \o <<n>> \o InOrder(h, h[n].next)

(* Every node that can be reached from n, to depth d: once for each way.   *)
RECURSIVE Reached(_, _, _)
Reached(h, n, d) ==
  IF n = NULL \/ d = 0 THEN << >>
  ELSE FoldLeft(LAMBDA s, m : s \o Reached(h, m, d - 1),
                <<n>> \o Reached(h, h[n].prev, d - 1) \o Reached(h, h[n].next, d - 1),
                Lists(h, n))

All(h, n) == ToSet(Reached(h, n, MaxNode + 1))

Count(h, n) == Len(InOrder(h, n))
ByIndex(h, n, i) == InOrder(h, n)[i + 1]
Index(h, n, m) == (CHOOSE i \in 1 .. Count(h, n) : InOrder(h, n)[i] = m) - 1

(***************************************************************************)
(* Look-ups: a place is a node and the pointer of it                       *)
(***************************************************************************)
Nowhere == <<NULL, "next">>
SideOf(next, k, old) == IF <<k, old>> \in next THEN "next" ELSE "prev"

RECURSIVE TailFrom(_, _, _)
TailFrom(h, n, k) ==
  LET s == SideOf(AddNext, k, h[n].key)
  IN  IF h[n][s] = NULL THEN <<n, s>> ELSE TailFrom(h, h[n][s], k)

(* The pointer that leads to the first node of the key: none to the root.  *)
RECURSIVE EntryFrom(_, _, _, _)
EntryFrom(h, n, k, at) ==
  IF h[n].key = k THEN at
  ELSE LET s == SideOf(FindNext, k, h[n].key)
       IN  IF h[n][s] = NULL THEN Nowhere ELSE EntryFrom(h, h[n][s], k, <<n, s>>)

FindEntry(h, list, k) == EntryFrom(h, list, k, Nowhere)

RECURSIVE Find(_, _, _)
Find(h, n, k) ==
  IF n = NULL \/ h[n].key = k THEN n
  ELSE Find(h, h[n][SideOf(FindNext, k, h[n].key)], k)

Linked(h, at, m) == [h EXCEPT ![at[1]][at[2]] = m]

(***************************************************************************)
(* Changes of a list                                                       *)
(***************************************************************************)
(* The length nbt_add() compares with is that of a padded key, which no    *)
(* key has: it never finds the key there and never returns NULL.           *)
Add(h, list, m) == Linked(h, TailFrom(h, list, h[m].key), m)

RECURSIVE AddAll(_, _, _)
AddAll(h, list, m) ==
  IF m = NULL THEN h
  ELSE LET alone == [h EXCEPT ![m].prev = NULL, ![m].next = NULL]
       IN  AddAll(AddAll(Add(alone, list, m), list, h[m].prev), list, h[m].next)

(* A mutant: what is at its next is not added again.                       *)
Detach_PrevOnly(h, list, m) ==
  LET at == FindEntry(h, list, h[m].key)
  IN  IF at = Nowhere THEN h
      ELSE [AddAll(Linked(h, at, NULL), list, h[m].prev) EXCEPT ![m].prev = NULL, ![m].next = NULL]

(* What hangs at the place is cut off; what is below m is added again.     *)
Detach(h, list, m) ==
  LET at   == FindEntry(h, list, h[m].key)
      cut  == Linked(h, at, NULL)
      left == [AddAll(cut, list, h[m].prev) EXCEPT ![m].prev = NULL]
  IN  IF at = Nowhere THEN h
      ELSE [AddAll(left, list, h[m].next) EXCEPT ![m].next = NULL]

Detaches(h, list, m) == FindEntry(h, list, h[m].key) # Nowhere

(* nbt_free() of a node that may still have nodes below it.                *)
Freed(h, m) == All(h, m)
Clear(h, gone) == [n \in Node |-> IF n \in gone THEN Blank ELSE h[n]]

(* In a list that can be reached a name is there twice, or two names are   *)
(* compared in one way by nbt_add() and in another by nbt_find().          *)
ListsOf(h, n, nodes) == {n} \cup UNION {ToSet(Lists(h, m)) : m \in nodes}

Clashes(h, n, nodes) ==
  \E list \in ListsOf(h, n, nodes) : \E x, y \in ToSet(InOrder(h, list)) :
    x # y /\ (h[x].key = h[y].key \/ <<h[x].key, h[y].key>> \in AddNext \ FindNext)

(***************************************************************************)
(* The file                                                                *)
(***************************************************************************)
RECURSIVE Depth(_, _)
Depth(h, n) ==
  IF n = NULL THEN 0 ELSE 1 + Max({Depth(h, h[n].prev), Depth(h, h[n].next)})

(* A mutant: in the order of the names.                                    *)
RECURSIVE Written_Sorted(_, _)
Written_Sorted(h, n) ==
  LET e(m) == [key |-> h[m].key, kind |-> h[m].kind,
               elems |-> IF h[m].kind \in {"list", "lista"}
                           THEN [i \in DOMAIN h[m].elems |-> Written_Sorted(h, h[m].elems[i])]
                           ELSE h[m].elems]
  IN  [i \in 1 .. Count(h, n) |-> e(InOrder(h, n)[i])]

(* Elements in the order they are written: a node, then the lower of its   *)
(* subtrees.  Lists inside are part of their element.                      *)
RECURSIVE Written(_, _)
Written(h, n) ==
  IF n = NULL THEN << >>
  ELSE LET e == [key |-> h[n].key, kind |-> h[n].kind,
                 elems |-> IF h[n].kind \in {"list", "lista"}
                             THEN [i \in DOMAIN h[n].elems |-> Written(h, h[n].elems[i])]
                             ELSE h[n].elems]
           p == Written(h, h[n].prev)
           q == Written(h, h[n].next)
       IN  <<e>> \o IF Depth(h, h[n].prev) <= Depth(h, h[n].next) THEN p \o q ELSE q \o p

(* How many nodes a reader allocates, those of the lists inside included.  *)
RECURSIVE SizeOf(_)
SizeOf(s) ==
  FoldLeft(LAMBDA c, e : c + 1 + IF e.kind \in {"list", "lista"}
                                   THEN FoldLeft(LAMBDA a, x : a + SizeOf(x), 0, e.elems)
                                   ELSE 0, 0, s)

(* nbt_read(): <<heap, root>>, with the nodes from the one after top on.   *)
RECURSIVE ReadAt(_, _, _)

ReadElem(h, e, top) ==
  LET lists == e.kind \in {"list", "lista"}
      read(a, s) == LET r == ReadAt(a[1], s, a[3])
                    IN  <<r[1], Append(a[2], r[2]), a[3] + SizeOf(s)>>
      inner == IF lists THEN FoldLeft(read, <<h, << >>, top>>, e.elems) ELSE <<h, e.elems, top>>
      m     == inner[3] + 1
  IN  <<[inner[1] EXCEPT ![m] = [Blank EXCEPT !.key = e.key, !.kind = e.kind, !.elems = inner[2]]], m>>

ReadAt(h, s, top) ==
  LET step(a, e) ==
        LET r == ReadElem(a[1], e, a[3])
        IN  <<IF a[2] = NULL THEN r[1] ELSE Add(r[1], a[2], r[2]),
              IF a[2] = NULL THEN r[2] ELSE a[2], r[2]>>
  IN  FoldLeft(step, <<h, NULL, top>>, s)

(***************************************************************************)
(* The editor                                                              *)
(***************************************************************************)
Top == frames[Len(frames)]
List == Top.np
Npc == ByIndex(node, List, Top.cur)
Here == node[Npc]
Hcur == Top.hcur + 1

Live == {n \in Node : node[n] # Blank}
Fresh == Node \ Live
NewNode == Min(Fresh)
NewInner == Min(Fresh \ {NewNode})

(* The label st: the cursors are put back into their ranges.               *)
Settled(h, f) ==
  LET cur == IF f.cur > f.count - 1 THEN 0 ELSE f.cur
      n   == Len(h[ByIndex(h, f.np, cur)].elems)
  IN  [f EXCEPT !.cur = cur, !.hcur = IF n = 0 \/ f.hcur > n - 1 THEN 0 ELSE f.hcur]

Frame(h, n, at) == Settled(h, [at |-> at, np |-> n, cur |-> 0, hcur |-> 0, count |-> Count(h, n)])

Broken ==
  /\ mode' = "broken"
  /\ UNCHANGED <<node, doc, frames, file, clash, lost>>

(* Addresses matter only as far as they are equal or not: a node gets the  *)
(* number of its place r in a walk of the document.                        *)
Place(r, n) == IF n = NULL THEN NULL ELSE CHOOSE i \in DOMAIN r : r[i] = n

Renumbered(h, r) ==
  LET moved(n) == [h[n] EXCEPT
        !.prev = Place(r, @), !.next = Place(r, @),
        !.elems = [i \in DOMAIN @ |-> IF Lists(h, n) = << >> THEN @[i] ELSE Place(r, @[i])]]
  IN  [i \in Node |-> IF i \in DOMAIN r THEN moved(r[i]) ELSE Blank]

(* Heap h, with the nodes l allocated and the root d, is shown with f as   *)
(* the innermost frame.  It breaks when that comes to a freed node, or to  *)
(* one twice, or asks for more than there is, not having counted again.    *)
Show(l, h, d, f) ==
  LET r == Reached(h, d, MaxNode + 1)
      g == Append(Front(frames), f)
      moved(x) == [x EXCEPT !.np = Place(r, @), !.at[1] = Place(r, @)]
  IN  IF ~IsInjective(r) \/ ~(ToSet(r) \subseteq l) \/ f.count > Count(h, f.np) THEN Broken
      ELSE /\ node' = Renumbered(h, r) /\ doc' = Place(r, d)
           /\ frames' = [i \in DOMAIN g |-> moved(IF i = Len(g) THEN Settled(h, f) ELSE g[i])]
           /\ clash' = (clash \/ Clashes(h, d, ToSet(r)))
           /\ lost' = (lost \/ l # ToSet(r))
           /\ UNCHANGED <<file, mode>>

(* A mutant: back to st where st_di was meant.                             *)
Recounted_Not(h, f) == f

(* The label st_di: the nodes are counted.                                 *)
Recounted(h, f) == [f EXCEPT !.count = Count(h, f.np)]

Editing == mode = "edit"

(* edit(), to the first picture. *)
Open ==
  /\ mode = "shell" /\ file # Bad
  /\ LET r == ReadAt([n \in Node |-> Blank], file, 0)
         n == Reached(r[1], r[2], MaxNode + 1)
         h == Renumbered(r[1], n)
     IN  /\ mode' = "edit" /\ node' = h /\ doc' = 1
         /\ frames' = <<Frame(h, 1, Nowhere)>>
         /\ clash' = Clashes(h, 1, 1 .. Len(n))
         /\ UNCHANGED <<file, lost>>

Move(f) ==
  /\ frames' = Append(Front(frames), Settled(node, f))
  /\ UNCHANGED <<node, doc, file, mode, clash, lost>>

(* The arrow keys.                                                         *)
Cursor ==
  /\ Editing
  /\ \/ \E c \in {Top.cur + 1, Top.cur + Top.count - 1} : Move([Top EXCEPT !.cur = c % Top.count])
     \/ LET n == Len(Here.elems)
        IN  n # 0 /\ \E c \in {Top.hcur + 1, Top.hcur + n - 1} : Move([Top EXCEPT !.hcur = c % n])

(* Enter on a number, on an element of an array, and on a string that is   *)
(* the root: the value is changed where it is.                             *)
Assign ==
  /\ Editing
  /\ \/ Here.kind \in {"zd", "zda"} /\ Here.elems # << >>
        /\ \E v \in Value : Show(Live, [node EXCEPT ![Npc].elems[Hcur] = v], doc, Top)
     \/ Here.kind = "str" /\ Npc = List
        /\ \E s \in {<< >>} \cup {<<v>> : v \in Value} : Show(Live, [node EXCEPT ![Npc].elems = s], doc, Top)

(* Enter on a string below the root: nbt_replace() by a new node.          *)
Replace ==
  /\ Editing /\ Here.kind = "str" /\ Npc # List /\ Fresh # {}
  /\ \E s \in {<< >>} \cup {<<v>> : v \in Value} :
       LET at  == FindEntry(node, List, Here.key)
           new == [node EXCEPT ![NewNode] = [Here EXCEPT !.elems = s]]
       IN  IF at = Nowhere
             THEN Show(Live \cup {NewNode},
                       [node EXCEPT ![NewNode] = [Made(Here.key, "str") EXCEPT !.elems = s]], doc, Top)
             ELSE Show((Live \cup {NewNode}) \ {Npc}, Clear(Linked(new, at, NewNode), {Npc}), doc, Top)

(* Enter on a list, or on a list of an array.                              *)
Enter ==
  /\ Editing /\ Lists(node, Npc) # << >> /\ Len(frames) < MaxDepth
  /\ frames' = Append(frames, Frame(node, Here.elems[Hcur], <<Npc, Hcur>>))
  /\ UNCHANGED <<node, doc, file, mode, clash, lost>>

(* 'i' *)
InsertElem ==
  /\ Editing /\ Npc # List /\ Here.kind \in {"zda", "lista"}
  /\ Here.kind = "lista" => Fresh # {}
  /\ Len(Here.elems) < MaxLen
  /\ FindEntry(node, List, Here.key) # Nowhere
  /\ LET at   == FindEntry(node, List, Here.key)
         x    == IF Here.kind = "lista" THEN NewNode ELSE 0
         more == IF Here.kind = "lista" THEN {NewNode} ELSE {}
         made == IF more = {} THEN node ELSE [node EXCEPT ![NewNode] = Made("root", "root")]
         h    == [Linked(made, at, Npc) EXCEPT ![Npc].elems = InsertAt(@, Hcur, x)]
     IN  Show(Live \cup more, h, doc, Recounted(h, Top))

(* 'd' on an array that is not empty.                                      *)
DeleteElem ==
  /\ Editing /\ Here.kind \in {"zda", "lista"} /\ Here.elems # << >>
  /\ LET gone == IF Here.kind = "lista" THEN All(node, Here.elems[Hcur]) ELSE {}
         h    == Clear([node EXCEPT ![Npc].elems = RemoveAt(@, Hcur)], gone)
     IN  Show(Live \ gone, h, doc, Top)

(* 'D', and 'd' on anything else: nbt_delete().                            *)
DeleteNode ==
  /\ Editing /\ Npc # List
  /\ LET h    == Detach(node, List, Npc)
         gone == All(h, Npc)
     IN  IF Detaches(node, List, Npc)
           THEN Show(Live \ gone, Clear(h, gone), doc, Recounted(Clear(h, gone), Top))
           ELSE Broken

(* nbt_add() of a name to the list: two empty names are compared over the  *)
(* length 0, which expr_firstdiff() counts down from all the same, so that *)
(* it reads on behind both nodes.                                          *)
Comparable(h, list, k) == k # NoName \/ \A n \in ToSet(InOrder(h, list)) : h[n].key # NoName

ReadsOn ==
  /\ mode' = "broken" /\ clash' = TRUE
  /\ UNCHANGED <<node, doc, frames, file, lost>>

(* A mutant: the new node does not get the value.                          *)
Rename_NoValue ==
  /\ Editing /\ Npc # List /\ Fresh # {}
  /\ \E k \in Typed :
       LET h   == Detach(node, List, Npc)
           new == [Clear(h, {Npc}) EXCEPT ![NewNode] = Made(k, h[Npc].kind)]
       IN  /\ Detaches(node, List, Npc) /\ Comparable(h, List, k)
           /\ Show((Live \cup {NewNode}) \ {Npc}, Add(new, List, NewNode), doc, Top)

(* 'm': nbt_rename(), to a new node; nothing is counted again.  Here the   *)
(* name may be empty.                                                      *)
Rename ==
  /\ Editing /\ Npc # List /\ Fresh # {}
  /\ \E k \in Typed :
       LET h   == Detach(node, List, Npc)
           new == [Clear(h, {Npc}) EXCEPT ![NewNode] = [h[Npc] EXCEPT !.key = k]]
       IN  IF ~Detaches(node, List, Npc) THEN Broken
           ELSE IF ~Comparable(h, List, k) THEN ReadsOn
           ELSE Show((Live \cup {NewNode}) \ {Npc}, Add(new, List, NewNode), doc, Top)

(* 'R': nbt_setroot().  Of a node that it cannot detach it makes a ring.   *)
SetRoot ==
  /\ Editing /\ Npc # List
  /\ LET h    == AddAll(Detach(node, List, Npc), Npc, List)
         at   == Top.at
         top  == at = Nowhere
         held == IF top THEN h ELSE [h EXCEPT ![at[1]].elems[at[2]] = Npc]
     IN  IF Detaches(node, List, Npc)
           THEN Show(Live, held, IF top THEN Npc ELSE doc, [Top EXCEPT !.np = Npc])
           ELSE Broken

(* 'z' .. 'B': a new node of a name, an empty list with a node of its own. *)
AddNode ==
  /\ Editing
  /\ \E k \in Typed \ {NoName}, kind \in Kinds :
       /\ Cardinality(Fresh) >= IF kind = "list" THEN 2 ELSE 1
       /\ LET more == IF kind = "list" THEN {NewNode, NewInner} ELSE {NewNode}
              full == IF kind = "list" THEN EmptyList(node, k, NewNode, NewInner)
                      ELSE [node EXCEPT ![NewNode] = Made(k, kind)]
              h    == Add(full, List, NewNode)
          IN  Show(Live \cup more, h, doc,
                   [Recounted(h, Top) EXCEPT !.cur = Index(h, List, NewNode)])

(* 'q' and 'x' in a list inside another.                                   *)
Return ==
  /\ Editing /\ Len(frames) > 1
  /\ frames' = Append(SubSeq(frames, 1, Len(frames) - 2), Settled(node, frames[Len(frames) - 1]))
  /\ UNCHANGED <<node, doc, file, mode, clash, lost>>

Leave(f) ==
  /\ Editing /\ Len(frames) = 1
  /\ node' = [n \in Node |-> Blank] /\ doc' = NULL /\ frames' = << >>
  /\ mode' = "done" /\ file' = f /\ clash' = FALSE /\ lost' = FALSE

(* 'q' *)
Quit == Leave(file)

(* 'x': data_write().  The file may not open; once open it is empty, and   *)
(* memory or room may be lacking: what is in it may then end anywhere.     *)
Save ==
  LET s == Written(node, doc)
  IN  \/ Leave(s) \/ Leave(file) \/ Leave(Bad)
      \/ \E i \in 1 .. Len(s) - 1 : Leave(SubSeq(s, 1, i))

Init ==
  /\ node = [n \in Node |-> Blank] /\ doc = NULL /\ frames = << >>
  /\ file \in Files /\ mode = "shell" /\ clash = FALSE /\ lost = FALSE

Next ==
  \/ Open \/ Cursor \/ Assign \/ Replace \/ Enter \/ InsertElem \/ DeleteElem
  \/ DeleteNode \/ Rename \/ SetRoot \/ AddNode \/ Return \/ Quit \/ Save

Spec == Init /\ [][Next]_vars

(***************************************************************************)
(* Properties                                                              *)
(***************************************************************************)
TypeOK ==
  /\ node \in [Node -> [key : Key, kind : Kind \cup {"free"}, prev : Node \cup {NULL},
                        next : Node \cup {NULL}, elems : Seq(Nat)]]
  /\ mode \in {"shell", "edit", "done", "broken"}
  /\ Editing => /\ frames # << >> /\ doc \in Node
                /\ \A i \in DOMAIN frames : /\ frames[i].np \in Node
                                            /\ frames[i].cur \in 0 .. frames[i].count - 1

(* The editor uses freed memory, or asks for a node that is not there,     *)
(* only after two names of a list clashed; and it reads on behind a node   *)
(* only as a second one gets the empty name.                               *)
BreaksOnlyAfterAClash == mode = "broken" => clash

(* A node is allocated exactly as long as it is in the document: no edit   *)
(* drops what it did not name, or forgets to free what it did.             *)
NothingIsLost == lost => clash

(* However often lists were taken apart and hung again, a search for a     *)
(* name comes to the node that has it.                                     *)
FoundByName ==
  Editing /\ ~clash =>
    \A list \in ListsOf(node, doc, Live) : \A n \in ToSet(InOrder(node, list)) :
      Find(node, list, node[n].key) = n

(* What is written reads back as the same tree, even where names clash.    *)
RECURSIVE Shape(_, _)
Shape(h, n) ==
  IF n = NULL THEN << >>
  ELSE [key |-> h[n].key, kind |-> h[n].kind,
        elems |-> IF h[n].kind \in {"list", "lista"}
                    THEN [i \in DOMAIN h[n].elems |-> Shape(h, h[n].elems[i])]
                    ELSE h[n].elems,
        prev |-> Shape(h, h[n].prev), next |-> Shape(h, h[n].next)]

SavedReadsBack ==
  Editing => LET r == ReadAt([n \in Node |-> Blank], Written(node, doc), 0)
             IN  Shape(r[1], r[2]) = Shape(node, doc)

(* Each call of edit_menu() works on the list that its caller holds now,   *)
(* and knows how many nodes it has, whatever the calls inside it did.      *)
FramesHoldTheirLists ==
  Editing => \A i \in DOMAIN frames :
    LET f == frames[i]
    IN  /\ f.count = Count(node, f.np)
        /\ f.np = IF i = 1 THEN doc ELSE node[f.at[1]].elems[f.at[2]]
        /\ i > 1 => LET g == frames[i - 1] IN f.at = <<ByIndex(node, g.np, g.cur), g.hcur + 1>>

(* The document as a reader of it understands it: by name, in no order.    *)
RECURSIVE Contents(_, _)
Contents(h, n) ==
  LET m(k) == CHOOSE x \in ToSet(InOrder(h, n)) : h[x].key = k
      value(x) == IF h[x].kind \in {"list", "lista"}
                    THEN [i \in DOMAIN h[x].elems |-> Contents(h, h[x].elems[i])]
                    ELSE h[x].elems
  IN  [k \in {h[x].key : x \in ToSet(InOrder(h, n))} |-> <<h[m(k)].kind, value(m(k))>>]

(* c becomes d by one edit: an entry added, dropped or renamed, an element *)
(* of one set, inserted or taken out, or one edit of a list inside.        *)
RECURSIVE OneEdit(_, _)
OneEdit(c, d) ==
  LET same(K) == \A k \in K : c[k] = d[k]
      C == DOMAIN c
      D == DOMAIN d
  IN  \/ \E k \in D \ C : D = C \cup {k} /\ same(C)
      \/ \E k \in C \ D : C = D \cup {k} /\ same(D)
      \/ \E k \in C \ D, m \in D \ C : /\ D = (C \ {k}) \cup {m} /\ d[m] = c[k] /\ same(C \ {k})
      \/ \E k \in C : LET s == c[k][2]
                          t == d[k][2]
                      IN  /\ C = D /\ same(C \ {k}) /\ c[k][1] = d[k][1]
                          /\ \/ c[k][1] = "str"
                             \/ \E i \in DOMAIN s : t = RemoveAt(s, i)
                             \/ \E i \in DOMAIN t : s = RemoveAt(t, i)
                             \/ \E i \in DOMAIN s : /\ t = [s EXCEPT ![i] = t[i]]
                                                    /\ c[k][1] \notin {"list", "lista"} \/ OneEdit(s[i], t[i])

(* One key press changes at most what the user named, in the list shown;   *)
(* moving, re-rooting and going in and out of lists change nothing.        *)
OneKeyOneEdit ==
  [][Editing /\ mode' = "edit" /\ ~clash' =>
       \/ node' = node /\ doc' = doc
       \/ Contents(node', doc') = Contents(node, doc)
       \/ OneEdit(Contents(node, doc), Contents(node', doc'))]_vars

(* Every node that is in the document is allocated and is found by its     *)
(* name, and no other is.                                                  *)
NodesAreKept == TypeOK /\ BreaksOnlyAfterAClash /\ NothingIsLost /\ FoundByName
=============================================================================
