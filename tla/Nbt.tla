-------------------------------- MODULE Nbt --------------------------------
(***************************************************************************)
(* A list of tagged nodes of nbt.c: a binary search tree, never balanced,  *)
(* of nodes with different keys.  The order in which keys are added and    *)
(* taken out decides its shape, and the shape decides the order in which   *)
(* it is written to a file.  Values are not in this module.                *)
(***************************************************************************)
EXTENDS Naturals, Sequences, FiniteSets, SequencesExt

CONSTANTS
  Key,      (* the keys that occur                                         *)
  Rank      (* their order by expr_strdiff(), none a prefix of another     *)

ASSUME NbtAssumption ==
  /\ IsFiniteSet(Key)
  /\ Rank \in [Key -> Nat]
  /\ \A k, m \in Key : Rank[k] = Rank[m] => k = m

NoKey == "NULL"

Tree == [root : Key, prev : [Key -> Key \cup {NoKey}], next : [Key -> Key \cup {NoKey}]]

(* A list of one node, as its constructor returns it.                      *)
Single(k) == [root |-> k, prev |-> [m \in Key |-> NoKey], next |-> [m \in Key |-> NoKey]]

(* The pointer of node n that leads to k.                                  *)
Way(t, n, k) == IF Rank[k] > Rank[n] THEN t.next[n] ELSE t.prev[n]

(* The nodes that a search for k passes, the one that has the key k last.  *)
Path(t, k) ==
  LET from[i \in 0 .. Cardinality(Key)] ==
        IF i = 0 THEN <<t.root>>
        ELSE LET last == from[i - 1][Len(from[i - 1])]
             IN  IF last = k \/ Way(t, last, k) = NoKey THEN from[i - 1]
                 ELSE Append(from[i - 1], Way(t, last, k))
  IN  from[Cardinality(Key)]

(* nbt_find() is not NULL. *)
Found(t, k) == Last(Path(t, k)) = k

Link(t, n, k, to) ==
  IF Rank[k] > Rank[n] THEN [t EXCEPT !.next[n] = to] ELSE [t EXCEPT !.prev[n] = to]

(* nbt_add() of a node without children whose key is not there: it becomes *)
(* a child of the last node on its path.                                   *)
Add(t, k) == Link(t, Last(Path(t, k)), k, k)

(* nbt_addall() adds a node and then those that were below it.             *)
AddAll(t, s) ==
  LET after[i \in 0 .. Len(s)] == IF i = 0 THEN t ELSE Add(after[i - 1], s[i])
  IN  after[Len(s)]

(* The nodes below and including n, those of a node before its children.   *)
PreOrder(t, n) ==
  LET below[d \in 0 .. Cardinality(Key)] ==
        [m \in Key \cup {NoKey} |->
           IF d = 0 \/ m = NoKey THEN << >>
           ELSE <<m>> \o below[d - 1][t.prev[m]] \o below[d - 1][t.next[m]]]
  IN  below[Cardinality(Key)][n]

(* nbt_detach(): the node is cut off with all below it, and nbt_addall()   *)
(* adds again, from the root, what was below.                              *)
Detach(t, k) ==
  LET parent == Path(t, k)[Len(Path(t, k)) - 1]
      again  == PreOrder(t, t.prev[k]) \o PreOrder(t, t.next[k])
      gone   == ToSet(again) \cup {k}
      cut    == [Link(t, parent, k, NoKey) EXCEPT
                   !.prev = [m \in Key |-> IF m \in gone THEN NoKey ELSE @[m]],
                   !.next = [m \in Key |-> IF m \in gone THEN NoKey ELSE @[m]]]
  IN  AddAll(cut, again)

(* nbt_depth() *)
Depth(t, n) ==
  LET depth[d \in 0 .. Cardinality(Key)] ==
        [m \in Key \cup {NoKey} |->
           IF d = 0 \/ m = NoKey THEN 0
           ELSE LET p == depth[d - 1][t.prev[m]]
                    q == depth[d - 1][t.next[m]]
                IN  1 + IF p > q THEN p ELSE q]
  IN  depth[Cardinality(Key)][n]

(* The order in which nbt_writep() writes: a node, then the lower of its   *)
(* subtrees, and at equal depth prev.                                      *)
WriteOrder(t) ==
  LET below[d \in 0 .. Cardinality(Key)] ==
        [m \in Key \cup {NoKey} |->
           IF d = 0 \/ m = NoKey THEN << >>
           ELSE LET p == below[d - 1][t.prev[m]]
                    q == below[d - 1][t.next[m]]
                IN  <<m>> \o IF Depth(t, t.prev[m]) <= Depth(t, t.next[m])
                               THEN p \o q ELSE q \o p]
  IN  below[Cardinality(Key)][t.root]

(* nbt_read() adds the nodes to the first one in the order of the file.    *)
Read(s) == AddAll(Single(s[1]), Tail(s))
=============================================================================
