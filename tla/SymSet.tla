---- MODULE SymSet ----
(* The symbol set of expr.c, in which the expression library keeps its
   constants, variables and functions and locale.c its texts: a tree with
   EXPR_SYMNEXT children to a node. The child below which a name is kept
   depends on the name and on the node's own name only.

   Every walk over the set has a stack of set.depth - 1 frames, allocated when
   the walk begins; so set.depth may be too large but never too small. *)
EXTENDS Integers, FiniteSets, FiniteSetsExt, Functions, SequencesExt, TLC
CONSTANTS
  Name,        \* names of symbols, all shorter than EXPR_SYMLEN - 1
  SlotOf,      \* SlotOf[n][m]: the child of m below which n belongs (strdiff, modi)
  Kind,        \* Kind[n]: the type with which n is added
  None,
  MaxRemoved,  \* bound on removals
  MaxFile      \* bound on the symbols of a file
VARIABLES set, file, crashed
vars == <<set, file, crashed>>

SYMNEXT == 14
Slots == 0 .. SYMNEXT - 1
Root == <<None, 0>>                        \* &esp->syms; <<m, i>> is &m->next[i]
Places == {Root} \cup (Name \X Slots)

ASSUME SlotAssumption == SlotOf \in [Name -> [Name -> Slots]]
ASSUME KindAssumption == Name = DOMAIN Kind /\ None \notin Name

\* struct expr_symset. at[p] is the symbol that pointer p leads to; a p outside
\* the domain of at is NULL. A symbol n has n->tail, which is None when it leads
\* into memory that is no longer the set's, and n->depthm1.
Empty == [at |-> <<>>, tail |-> <<>>, depthm1 |-> <<>>, size |-> 0,
          depth |-> 0, depth_n |-> 0, removed |-> 0, removed_m |-> 0]
Without(f, D) == Restrict(f, DOMAIN f \ D)
Members(s) == DOMAIN s.tail

\* The places on the way to a name, from p down: it ends at an empty place or
\* at the symbol of that name.
RECURSIVE Descend(_, _, _)
Descend(s, p, n) ==
  IF p \notin DOMAIN s.at THEN <<p>>
  ELSE LET m == s.at[p] IN IF m = n THEN <<p>> ELSE <<p>> \o Descend(s, <<m, SlotOf[n][m]>>, n)

Search(s, n) == Last(Descend(s, Root, n)) \in DOMAIN s.at
FindTail(s, n) == Last(Descend(s, Root, n))
FindDepth(s, n) == Len(Descend(s, Root, n))

\* expr_symbol_foreach4: the symbols from place p down, each one at index among
\* its children.
RECURSIVE Visit(_, _, _)
Visit(s, p, index) ==
  IF p \notin DOMAIN s.at THEN <<>>
  ELSE LET m == s.at[p]
           child == {i \in Slots : <<m, i>> \in DOMAIN s.at}
           All(C) == FlattenSeq([i \in DOMAIN SetToSortSeq(C, <) |->
                                   Visit(s, <<m, SetToSortSeq(C, <)[i]>>, index)])
       IN All({i \in child : i < index}) \o <<m>> \o All({i \in child : i >= index})
PreOrder(s, p) == Visit(s, p, 0)
PostOrder(s, p) == Visit(s, p, SYMNEXT)
Depth(s, n) == FindDepth(s, n)
RealDepth(s) == Max({0} \cup {Depth(s, n) : n \in Range(PreOrder(s, Root))})

\* What sset_inc and expr_symset_reinsert do with the depth d of a new place.
Deepen(s, d) ==
  [s EXCEPT !.depth = Max({@, d}),
            !.removed = IF d > s.depth THEN 0 ELSE @,
            !.depth_n = IF d > s.depth THEN 1 ELSE IF d = s.depth THEN @ + 1 ELSE @]
\* A symbol, without children, in the place found for it.
Hang(s, n) ==
  LET bare == [s EXCEPT !.at = Without(@, {n} \X Slots)]
      p == FindTail(bare, n)
      d == FindDepth(bare, n)
  IN Deepen([bare EXCEPT !.at = (p :> n) @@ @, !.tail = (n :> p) @@ @,
                         !.depthm1 = (n :> d - 1) @@ @], d)
Insert(s, n) == IF Search(s, n) THEN s ELSE [Hang(s, n) EXCEPT !.size = @ + 1]

\* *n->tail = NULL
Cut(s, n) ==
  [s EXCEPT !.at = Without(@, {s.tail[n]}),
            !.depth_n = IF s.depthm1[n] = s.depth - 1 THEN @ - 1 ELSE @]
Below(s, n) == FlattenSeq([i \in 1 .. SYMNEXT |-> PostOrder(s, <<n, i - 1>>)])
Detached(s, gone) == [s EXCEPT !.at = Without(@, gone \X Slots), !.tail = Without(@, gone),
                               !.depthm1 = Without(@, gone)]
RemoveAll_Uncounted(s, batch) ==  \* size and removed stay as they are
  LET Rehang(t, m) == FoldLeft(Hang, t, Below(t, m))
  IN [Detached(FoldLeft(Rehang, FoldLeft(Cut, s, batch), batch), Range(batch))
        EXCEPT !.removed_m = @ + Len(batch)]
RemoveAll_Lost(s, batch) ==  \* what hangs below the first goes with it
  LET gone == Range(batch) \cup Range(Below(s, batch[1]))
  IN [Detached(FoldLeft(Cut, s, batch), gone) EXCEPT
        !.size = @ - Cardinality(gone), !.removed = @ + Len(batch), !.removed_m = @ + Len(batch)]
\* All of the batch are cut first; then what hung below each one is hung anew.
RemoveAll(s, batch) ==
  LET n == Len(batch)
      cut == [FoldLeft(Cut, s, batch) EXCEPT
                !.size = @ - n, !.removed = @ + n, !.removed_m = @ + n]
      Rehang(t, m) == FoldLeft(Hang, t, Below(t, m))
  IN Detached(FoldLeft(Rehang, cut, batch), Range(batch))

\* expr_rmsymt: the first sz symbols of a type in one removal, and whether
\* another call is needed. Without any the removal reads what is in the buffer.
FirstOf(s, k, sz) ==
  LET found == SelectSeq(PreOrder(s, Root), LAMBDA n : Kind[n] = k)
  IN SubSeq(found, 1, Min({sz, Len(found)}))
IsMore(s, batch, sz) == Len(batch) = sz /\ Last(batch) # Last(PreOrder(s, Root))
RemoveKind(s, k) ==
  LET sz == s.depth
      Pass(r, i) ==
        LET batch == FirstOf(r.s, k, sz)
        IN IF ~r.more \/ r.undefined THEN r
           ELSE IF batch = <<>> THEN [r EXCEPT !.undefined = TRUE]
           ELSE [r EXCEPT !.s = RemoveAll(r.s, batch), !.more = IsMore(r.s, batch, sz)]
  IN FoldLeft(Pass, [s |-> s, more |-> TRUE, undefined |-> FALSE],
              [i \in 1 .. Cardinality(Members(s)) + 1 |-> i])

Clone(s) == FoldLeft(Insert, Empty, PreOrder(s, Root))
Wiped(s) == [Empty EXCEPT !.removed_m = s.removed_m]
\* All symbols move to a buffer, each before the one that points to it; a
\* second walk gives all but the first their tails in the symbols' new places.
Moved(s) == [s EXCEPT !.tail = [n \in Members(s) |-> IF @[n] = Root THEN Root ELSE None]]
Saved(s) ==
  [Moved(s) EXCEPT !.tail = [n \in Members(s) |-> IF @[n] = Root THEN Root
                                                 ELSE CHOOSE p \in DOMAIN s.at : s.at[p] = n]]
\* Each i is exchanged with a random j, or with its successor when j is i.
Shuffle(q, draw) ==
  LET Other(i) == IF draw[i] # i THEN draw[i] ELSE Min({i + 1, Len(q)})
      Swap(r, i) == [r EXCEPT ![i] = r[Other(i)], ![Other(i)] = r[i]]
  IN FoldLeft(Swap, q, [i \in DOMAIN q |-> i])
\* The orders it can give n symbols.
Orders == [n \in 1 .. Cardinality(Name) |->
             {Shuffle([i \in 1 .. n |-> i], draw) : draw \in [1 .. n -> 1 .. n]}]
Recombined(s, q) ==
  FoldLeft(Hang, [s EXCEPT !.at = Without(@, {Root}), !.depth = 0, !.depth_n = 0], q)
Corrected(s) ==
  [s EXCEPT !.depth = RealDepth(s), !.removed = 0,
            !.depth_n = Cardinality({n \in Members(s) : Depth(s, n) = RealDepth(s)})]

Init == set = Empty /\ file = None /\ crashed = FALSE

Become(s) == set' = s /\ UNCHANGED <<file, crashed>>
MayRemove(n) == set.removed_m + n <= MaxRemoved

AddSymbol(n) == Become(Insert(set, n))
RemoveSymbol(n) == Search(set, n) /\ MayRemove(1) /\ Become(RemoveAll(set, <<n>>))
RemoveType(k) ==
  LET r == RemoveKind(set, k)
  IN /\ MayRemove(Cardinality({n \in Members(set) : Kind[n] = k}))
     /\ IF r.undefined THEN crashed' = TRUE /\ UNCHANGED <<set, file>> ELSE Become(r.s)
Wipe == Become(Wiped(set))
Copy == Become(Clone(set))
Save == Become(Saved(set))
Recombine == /\ set.size > 0
             /\ LET walk == PostOrder(set, Root)
                IN \E q \in Orders[set.size] :
                     Become(Recombined(set, [i \in DOMAIN q |-> walk[q[i]]]))
Correct == Become(Corrected(set))
\* One file is written, of a small set.
Write == file = None /\ set.size <= MaxFile
         /\ file' = Visit(set, Root, SYMNEXT \div 2) /\ UNCHANGED <<set, crashed>>
\* The reader fails after i symbols, or does not.
Read == /\ file # None
        /\ \E i \in 0 .. Len(file) : Become(FoldLeft(Insert, set, SubSeq(file, 1, i)))

Next ==
  /\ ~crashed
  /\ \/ \E n \in Name : AddSymbol(n) \/ RemoveSymbol(n)
     \/ \E k \in Range(Kind) : RemoveType(k)
     \/ Wipe \/ Copy \/ Save \/ Recombine \/ Correct \/ Write \/ Read

Spec == Init /\ [][Next]_vars

(* PROPERTIES *)

TypeOK ==
  /\ set.at \in [DOMAIN set.at -> Name] /\ DOMAIN set.at \subseteq Places
  /\ Members(set) \subseteq Name
  /\ set.tail \in [Members(set) -> Places \cup {None}]
  /\ set.depthm1 \in [Members(set) -> 0 .. Cardinality(Name) - 1]
  /\ {set.size, set.depth} \subseteq 0 .. Cardinality(Name)
  /\ {set.depth_n, set.removed} \subseteq Nat /\ set.removed_m \in 0 .. MaxRemoved
  /\ file = None \/ Range(file) \subseteq Name
  /\ crashed \in BOOLEAN

\* Whatever was added, removed in batches, moved and shuffled: the pointers
\* tail, through which the next removal writes, lead to the places that hold
\* the symbols, and depthm1 is where the symbol really is.
LinksAgree ==
  /\ Range(set.at) = Members(set) /\ set.size = Cardinality(Members(set))
  /\ \A n \in Members(set) :
       /\ set.tail[n] = FindTail(set, n)
       /\ set.depthm1[n] + 1 = Depth(set, n)

\* No walk leaves its stack, though a removal, which allocates its stack by the
\* depth before, can make the tree deeper.
DepthIsEnough == RealDepth(set) <= set.depth
\* expr.h of the field depth: it is the real depth if no symbol was removed
\* since it last grew.
DepthIsExact == set.removed = 0 => set.depth = RealDepth(set)
\* expr.h of depth_n: when it reaches 0 the real depth is lower than depth. It
\* may count symbols that have moved up, never too few.
DepthZeroMeansLower ==
  /\ set.size > 0 /\ set.depth_n = 0 => RealDepth(set) < set.depth
  /\ Cardinality({n \in Members(set) : Depth(set, n) = set.depth}) <= set.depth_n

\* The tree and the numbers kept beside it agree.
TreeAgrees == TypeOK /\ LinksAgree
DepthsAgree == DepthIsEnough /\ DepthIsExact /\ DepthZeroMeansLower

\* What search finds is what was added and not removed, and a file brings back
\* what was there when it was written.
Table == INSTANCE SymbolTable WITH
           names <- {n \in Name : Search(set, n)},
           file <- IF file = None THEN None ELSE Range(file)
IsTable == Table!Spec
====
