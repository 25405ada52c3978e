---------------------------- MODULE Menus_proofs ----------------------------
(***************************************************************************)
(* The menus and writemove() for tables, screens and units of every size:  *)
(* the entry under the cursor is in its table and on the screen, no move   *)
(* is chosen twice, and a hole among the moves is made by lowering the     *)
(* last of them alone.                                                     *)
(***************************************************************************)
EXTENDS Menus, NaturalSets, FunctionTheorems, SequenceTheorems

-----------------------------------------------------------------------------
(* The slots of a unit.                                                    *)

(* The slots from i that are taken, up to the first that is not.           *)
LEMMA RunOf ==
  ASSUME NEW s, NEW i \in Slot, s[i] # NULL
  PROVE  LET run == {k \in i .. Slots - 1 : \A j \in i .. k : s[j] # NULL}
         IN  \E e \in i .. Slots - 1 :
               /\ run = i .. e
               /\ Max(run) = e
               /\ \A j \in i .. e : s[j] # NULL
               /\ e = Slots - 1 \/ s[e + 1] = NULL
<1> DEFINE run == {k \in i .. Slots - 1 : \A j \in i .. k : s[j] # NULL}
           stop == {k \in Nat : k >= i /\ (k = Slots - 1 \/ s[k + 1] = NULL)}
<1>1. i \in Nat /\ Slots \in Nat /\ i <= Slots - 1 BY MoveEditorAssumption DEF Slot
<1>2. Slots - 1 \in stop BY <1>1
<1>3. PICK e \in stop : \A n \in stop : e <= n BY <1>2, LeastNat
<1>4. e \in i .. Slots - 1 BY <1>1, <1>2, <1>3
<1>5. \A k \in i .. e : k # e => s[k + 1] # NULL
  BY <1>1, <1>3, <1>4
<1>6. \A j \in i .. e : s[j] # NULL
  <2> SUFFICES ASSUME NEW j \in i .. e PROVE s[j] # NULL
    OBVIOUS
  <2>1. CASE j = i BY <2>1
  <2>2. CASE j # i
    <3>1. j - 1 \in i .. e /\ j - 1 # e /\ (j - 1) + 1 = j BY <1>1, <1>4, <2>2
    <3> QED BY <1>5, <3>1
  <2> QED BY <2>1, <2>2
<1>7. e = Slots - 1 \/ s[e + 1] = NULL OBVIOUS
<1>8. run = i .. e
  <2>1. \A k \in i .. e : k \in i .. Slots - 1 /\ i .. k \subseteq i .. e BY <1>1, <1>4
  <2>2. i .. e \subseteq run BY <1>6, <2>1
  <2>3. ASSUME NEW k \in run, k \notin i .. e PROVE FALSE
    <3>1. k \in i .. Slots - 1 /\ \A j \in i .. k : s[j] # NULL OBVIOUS
    <3>2. e + 1 \in i .. k /\ e # Slots - 1 BY <1>1, <1>4, <2>3, <3>1
    <3> QED BY <1>7, <3>1, <3>2
  <2> QED BY <2>2, <2>3
<1>9. Max(i .. e) = e BY <1>1, <1>4 DEF Max
<1> QED BY <1>4, <1>6, <1>7, <1>8, <1>9

LEMMA SlotFacts == Slots \in Nat /\ Slots > 1 /\ Slot = 0 .. Slots - 1 /\ IsFiniteSet(Slot)
<1>1. Slots \in Nat /\ Slots > 1 /\ Slot = 0 .. Slots - 1 BY MoveEditorAssumption DEF Slot
<1> QED BY <1>1, FS_Interval

-----------------------------------------------------------------------------
(* The moves of the species and those that are learned.                    *)

LEMMA LearnedFacts ==
  /\ R \in Nat /\ R <= Len(Teach)
  /\ \A i \in 0 .. R - 1 : Learned[i + 1][2] \in Move
<1>1. Len(Teach) \in Nat /\ DOMAIN Teach = 1 .. Len(Teach) BY MoveEditorAssumption
<1>2. IsFiniteSet(DOMAIN Teach) /\ Cardinality(DOMAIN Teach) = Len(Teach)
  <2>1. /\ IsFiniteSet(1 .. Len(Teach))
        /\ Cardinality(1 .. Len(Teach))
             = IF 1 > Len(Teach) THEN 0 ELSE Len(Teach) - 1 + 1
    BY <1>1, FS_Interval
  <2> QED BY <1>1, <2>1
<1>3. R \in Nat /\ R <= Len(Teach)
  <2> DEFINE S == {i \in DOMAIN Teach : Teach[i][1] <= level}
  <2>1. S \in SUBSET DOMAIN Teach OBVIOUS
  <2>2. IsFiniteSet(S) /\ Cardinality(S) <= Len(Teach) BY <1>2, <2>1, FS_Subset
  <2> QED BY <2>2, FS_CardinalityType DEF R
<1>4. ASSUME NEW i \in 0 .. R - 1 PROVE Learned[i + 1][2] \in Move
  <2>1. i + 1 \in 1 .. R /\ i + 1 \in DOMAIN Teach BY <1>1, <1>3
  <2>2. Learned[i + 1] = Teach[i + 1]
    BY <1>1, <1>3, <2>1, MoveEditorAssumption DEF Learned
  <2> QED BY <2>1, <2>2 DEF Move
<1> QED BY <1>3, <1>4

-----------------------------------------------------------------------------
(* What is done to the slots.                                              *)

Choice == [Slot -> Move \cup {NULL}]

LEMMA SameTimes ==
  ASSUME NEW A, NEW B, IsFiniteSet(A), NEW f \in [A -> B],
         \A x, y \in A : f[x] = f[y] => x = y,
         \A y \in B : \E x \in A : f[x] = y
  PROVE  Cardinality(A) = Cardinality(B)
<1>1. f \in Bijection(A, B) BY Fun_IsBij
<1>2. ExistsBijection(A, B) BY <1>1 DEF ExistsBijection
<1> QED BY <1>2, FS_Bijection

(* Adding one to the slots of m adds one to its times.                     *)
LEMMA OneMore ==
  ASSUME NEW s \in Choice, NEW m, NEW i \in Slot, s[i] # m
  PROVE  Times([s EXCEPT ![i] = m], m) = Times(s, m) + 1
<1> DEFINE A == {j \in Slot : s[j] = m}
           d == [s EXCEPT ![i] = m]
<1>1. {j \in Slot : d[j] = m} = A \cup {i} BY DEF Choice
<1>2. IsFiniteSet(A)
  <2>1. A \in SUBSET Slot OBVIOUS
  <2> QED BY <2>1, SlotFacts, FS_Subset
<1>3. i \notin A OBVIOUS
<1>4. Cardinality(A \cup {i}) = Cardinality(A) + 1 BY <1>2, <1>3, FS_AddElement
<1> QED BY <1>1, <1>4 DEF Times

LEMMA OthersStay ==
  ASSUME NEW s \in Choice, NEW m, NEW n, NEW i \in Slot, s[i] # n, m # n
  PROVE  Times([s EXCEPT ![i] = m], n) = Times(s, n)
<1>1. {j \in Slot : [s EXCEPT ![i] = m][j] = n} = {j \in Slot : s[j] = n} BY DEF Choice
<1> QED BY <1>1 DEF Times

LEMMA ExchangedFields ==
  ASSUME NEW s \in Choice, NEW i \in Slot, NEW j \in Slot, NEW d, d = Exchanged(s, i, j)
  PROVE  /\ d \in Choice
         /\ i # j => \A k \in Slot : d[k] = IF k = i THEN s[j] ELSE IF k = j THEN s[i] ELSE s[k]
BY DEF Exchanged, Choice

LEMMA ExchangedTwice ==
  ASSUME NEW s \in Choice, NEW i \in Slot, NEW j \in Slot, i # j, ~Twice(s)
  PROVE  ~Twice(Exchanged(s, i, j))
<1> DEFINE d == Exchanged(s, i, j)
           sw(k) == IF k = i THEN j ELSE IF k = j THEN i ELSE k
<1>1. \A k \in Slot : d[k] = s[sw(k)]
  <2>1. \A k \in Slot : d[k] = IF k = i THEN s[j] ELSE IF k = j THEN s[i] ELSE s[k]
    BY ExchangedFields
  <2> QED BY <2>1
<1> HIDE DEF d
<1>2. ASSUME NEW x \in Slot, NEW y \in Slot, x # y, d[x] = d[y], d[x] # NULL PROVE FALSE
  <2>1. sw(x) # sw(y) BY <1>2
  <2>2. s[sw(x)] = s[sw(y)] /\ s[sw(x)] # NULL BY <1>1, <1>2
  <2>3. sw(x) \in Slot /\ sw(y) \in Slot OBVIOUS
  <2> HIDE DEF sw
  <2> QED BY <2>1, <2>2, <2>3 DEF Twice
<1>3. ~Twice(d) BY <1>2 DEF Twice
<1> QED BY <1>3 DEF d

LEMMA ExchangedTimes ==
  ASSUME NEW s \in Choice, NEW i \in Slot, NEW j \in Slot, i # j, NEW m
  PROVE  Times(Exchanged(s, i, j), m) = Times(s, m)
<1> DEFINE d == Exchanged(s, i, j)
           A == {k \in Slot : s[k] = m}
           B == {k \in Slot : d[k] = m}
           sw(k) == IF k = i THEN j ELSE IF k = j THEN i ELSE k
           f == [k \in A |-> sw(k)]
<1>1. \A k \in Slot : d[k] = s[sw(k)]
  <2>1. \A k \in Slot : d[k] = IF k = i THEN s[j] ELSE IF k = j THEN s[i] ELSE s[k]
    BY ExchangedFields
  <2> QED BY <2>1
<1>2. \A k \in Slot : sw(k) \in Slot /\ sw(sw(k)) = k OBVIOUS
<1>3. IsFiniteSet(A)
  <2>1. A \in SUBSET Slot OBVIOUS
  <2> QED BY <2>1, SlotFacts, FS_Subset
<1> HIDE DEF d
<1>4. \A k \in A : sw(k) \in B BY <1>1, <1>2
<1>5. \A k \in B : sw(k) \in A BY <1>1, <1>2
<1>6. f \in [A -> B] BY <1>4
<1>7. \A x, y \in A : f[x] = f[y] => x = y OBVIOUS
<1>8. \A y \in B : \E x \in A : f[x] = y
  <2> SUFFICES ASSUME NEW y \in B PROVE \E x \in A : f[x] = y
    OBVIOUS
  <2>1. sw(y) \in A /\ f[sw(y)] = y BY <1>2, <1>5
  <2> QED BY <2>1
<1> HIDE DEF A, B, f
<1>9. Cardinality(A) = Cardinality(B) BY <1>3, <1>6, <1>7, <1>8, SameTimes
<1> QED BY <1>9 DEF A, B, d, Times

(* The moves after the i-th, up to a hole, are shifted.                    *)
LEMMA DeletedFields ==
  ASSUME NEW s \in Choice, NEW i \in Slot, s[i] # NULL, NEW d, d = Deleted(s, i)
  PROVE  /\ d \in Choice
         /\ \E e \in i .. Slots - 1 :
              /\ \A j \in i .. e : s[j] # NULL
              /\ e = Slots - 1 \/ s[e + 1] = NULL
              /\ \A k \in Slot : d[k] = IF k \notin i .. e THEN s[k]
                                       ELSE IF k = e THEN NULL ELSE s[k + 1]
<1> DEFINE run == {k \in i .. Slots - 1 : \A j \in i .. k : s[j] # NULL}
<1>1. PICK e \in i .. Slots - 1 :
        /\ run = i .. e
        /\ Max(run) = e
        /\ \A j \in i .. e : s[j] # NULL
        /\ e = Slots - 1 \/ s[e + 1] = NULL
  BY RunOf
<1>2. d = [k \in Slot |-> IF k \notin run THEN s[k]
                          ELSE IF k = Max(run) THEN NULL ELSE s[k + 1]]
  BY DEF Deleted
<1> HIDE DEF run
<1>3. \A k \in Slot : d[k] = IF k \notin i .. e THEN s[k]
                           ELSE IF k = e THEN NULL ELSE s[k + 1]
  BY <1>1, <1>2
<1>4. \A k \in Slot : d[k] \in Move \cup {NULL}
  <2> SUFFICES ASSUME NEW k \in Slot PROVE d[k] \in Move \cup {NULL}
    OBVIOUS
  <2>1. CASE k \in i .. e /\ k # e
    <3>1. k + 1 \in Slot BY <2>1, SlotFacts
    <3> QED BY <1>3, <2>1, <3>1 DEF Choice
  <2>2. CASE ~(k \in i .. e /\ k # e) BY <1>3, <2>2 DEF Choice
  <2> QED BY <2>1, <2>2
<1>5. d \in Choice BY <1>2, <1>4 DEF Choice
<1> QED BY <1>1, <1>3, <1>5

LEMMA DeletedWhole ==
  ASSUME NEW s \in Choice, NEW i \in Slot, s[i] # NULL, ~Hole(s)
  PROVE  ~Hole(Deleted(s, i))
<1> DEFINE d == Deleted(s, i)
<1>1. PICK e \in i .. Slots - 1 :
        /\ \A j \in i .. e : s[j] # NULL
        /\ e = Slots - 1 \/ s[e + 1] = NULL
        /\ \A k \in Slot : d[k] = IF k \notin i .. e THEN s[k]
                                 ELSE IF k = e THEN NULL ELSE s[k + 1]
  BY DeletedFields
<1> HIDE DEF d
<1>2. \A j \in Slot : j > e => s[j] = NULL
  <2> SUFFICES ASSUME NEW j \in Slot, j > e PROVE s[j] = NULL
    OBVIOUS
  <2>1. e \in Nat /\ i \in Nat BY SlotFacts
  <2>2. e + 1 \in Slot /\ s[e + 1] = NULL BY <1>1, <2>1, SlotFacts
  <2> QED BY <2>1, <2>2, SlotFacts DEF Hole
<1>3. \A j \in Slot : j < e => d[j] # NULL
  <2> SUFFICES ASSUME NEW j \in Slot, j < e PROVE d[j] # NULL
    OBVIOUS
  <2>1. e \in Nat /\ i \in Nat /\ j \in Nat BY SlotFacts
  <2>2. CASE j < i
    <3>1. s[j] # NULL BY <2>2 DEF Hole
    <3> QED BY <1>1, <2>1, <2>2, <3>1
  <2>3. CASE j >= i
    <3>1. j \in i .. e /\ j + 1 \in i .. e /\ j # e BY <2>1, <2>3
    <3> QED BY <1>1, <3>1
  <2> QED BY <2>1, <2>2, <2>3
<1>4. \A j \in Slot : j >= e => d[j] = NULL
  <2> SUFFICES ASSUME NEW j \in Slot, j >= e PROVE d[j] = NULL
    OBVIOUS
  <2>1. e \in Nat /\ i \in Nat /\ j \in Nat BY SlotFacts
  <2> QED BY <1>1, <1>2, <2>1
<1>5. \A j \in Slot : j \in Nat BY SlotFacts
<1>6. e \in Nat BY SlotFacts
<1>7. ~Hole(d) BY <1>3, <1>4, <1>5, <1>6 DEF Hole
<1> QED BY <1>7 DEF d

LEMMA DeletedTwice ==
  ASSUME NEW s \in Choice, NEW i \in Slot, s[i] # NULL, ~Twice(s)
  PROVE  ~Twice(Deleted(s, i))
<1> DEFINE d == Deleted(s, i)
<1>1. PICK e \in i .. Slots - 1 :
        \A k \in Slot : d[k] = IF k \notin i .. e THEN s[k]
                              ELSE IF k = e THEN NULL ELSE s[k + 1]
  BY DeletedFields
<1> HIDE DEF d
<1>2. SUFFICES ASSUME NEW j \in Slot, NEW k \in Slot, j # k, d[j] = d[k], d[j] # NULL
               PROVE  FALSE
  BY DEF Twice, d
<1> DEFINE from(x) == IF x \in i .. e THEN x + 1 ELSE x
<1>3. /\ e \in Nat /\ i \in Nat /\ i <= e /\ e < Slots /\ Slots \in Nat
      /\ j \in Nat /\ k \in Nat /\ j < Slots /\ k < Slots
  BY SlotFacts
<1>4. j # e /\ k # e BY <1>1, <1>2, <1>3
<1>5. from(j) \in Slot /\ from(k) \in Slot /\ from(j) # from(k) BY <1>2, <1>3, <1>4, SlotFacts
<1>6. d[j] = s[from(j)] /\ d[k] = s[from(k)] BY <1>1, <1>4
<1> QED BY <1>2, <1>5, <1>6 DEF Twice

(* The deleted move, and no other, is there once less.                     *)
LEMMA DeletedTimes ==
  ASSUME NEW s \in Choice, NEW i \in Slot, s[i] # NULL, NEW m, m # NULL
  PROVE  Times(Deleted(s, i), m) = IF m = s[i] THEN Times(s, m) - 1 ELSE Times(s, m)
<1> DEFINE d == Deleted(s, i)
           A == {k \in Slot : s[k] = m}
           B == {k \in Slot : d[k] = m}
<1>1. PICK e \in i .. Slots - 1 :
        \A k \in Slot : d[k] = IF k \notin i .. e THEN s[k]
                              ELSE IF k = e THEN NULL ELSE s[k + 1]
  BY DeletedFields
<1> HIDE DEF d
<1> DEFINE from(x) == IF x \in i .. e THEN x + 1 ELSE x
           to(x)   == IF x \in i + 1 .. e THEN x - 1 ELSE x
           f       == [k \in B |-> from(k)]
<1>2. e \in Nat /\ i \in Nat /\ i <= e /\ e < Slots /\ Slots \in Nat BY SlotFacts
<1>3. IsFiniteSet(A) /\ IsFiniteSet(B)
  <2>1. A \in SUBSET Slot /\ B \in SUBSET Slot OBVIOUS
  <2> QED BY <2>1, SlotFacts, FS_Subset
<1>4. ASSUME NEW k \in B PROVE from(k) \in A \ {i} /\ k \in Nat /\ k # e
  <2>1. k \in Nat /\ k < Slots /\ k \in Slot BY SlotFacts
  <2>2. k # e BY <1>1, <1>2, <2>1
  <2>3. from(k) \in Slot /\ from(k) # i BY <1>2, <2>1, <2>2, SlotFacts
  <2>4. d[k] = s[from(k)] BY <1>1, <2>1, <2>2
  <2> QED BY <2>1, <2>2, <2>3, <2>4
<1>5. ASSUME NEW k \in A \ {i} PROVE to(k) \in B /\ from(to(k)) = k
  <2>1. k \in Nat /\ k < Slots /\ k \in Slot /\ k # i BY SlotFacts
  <2>2. to(k) \in Slot /\ from(to(k)) = k /\ to(k) # e BY <1>2, <2>1, SlotFacts
  <2>3. d[to(k)] = s[from(to(k))] BY <1>1, <2>2
  <2> QED BY <2>2, <2>3
<1>6. f \in [B -> A \ {i}] BY <1>4
<1>7. \A x, y \in B : f[x] = f[y] => x = y
  <2> SUFFICES ASSUME NEW x \in B, NEW y \in B, from(x) = from(y) PROVE x = y
    OBVIOUS
  <2>1. x \in Nat /\ y \in Nat /\ x # e /\ y # e BY <1>4
  <2> QED BY <1>2, <2>1
<1>8. \A y \in A \ {i} : \E x \in B : f[x] = y
  <2> SUFFICES ASSUME NEW y \in A \ {i} PROVE \E x \in B : f[x] = y
    OBVIOUS
  <2>1. to(y) \in B /\ f[to(y)] = y BY <1>5
  <2> QED BY <2>1
<1>9. i \in A <=> m = s[i] OBVIOUS
<1> HIDE DEF A, B, f
<1>10. Cardinality(B) = Cardinality(A \ {i}) BY <1>3, <1>6, <1>7, <1>8, SameTimes
<1>11. Cardinality(A \ {i}) = IF i \in A THEN Cardinality(A) - 1 ELSE Cardinality(A)
  BY <1>3, FS_RemoveElement
<1>12. Times(s, m) = Cardinality(A) /\ Times(d, m) = Cardinality(B) BY DEF A, B, Times
<1> QED BY <1>9, <1>10, <1>11, <1>12 DEF d

LEMMA CompactedType ==
  ASSUME NEW s \in Choice PROVE Compacted(s) \in Choice
BY DEF Compacted, Choice

(* Without a hole there is nothing to compact.                             *)
LEMMA CompactedWhole ==
  ASSUME NEW s \in Choice, ~Hole(s) PROVE Compacted(s) = s
<1> DEFINE named     == {i \in Slot : s[i] # NULL}
           before(i) == Cardinality({j \in named : j < i})
           from(k)   == {i \in named : before(i) = k}
<1>1. ASSUME NEW i \in named PROVE before(i) = i
  <2>1. i \in Nat /\ i < Slots BY SlotFacts
  <2>2. {j \in named : j < i} = 0 .. i - 1
    <3>1. \A j \in Slot : j < i => s[j] # NULL BY DEF Hole
    <3> QED BY <2>1, <3>1, SlotFacts
  <2>3. Cardinality(0 .. i - 1) = IF 0 > i - 1 THEN 0 ELSE (i - 1) - 0 + 1
    BY <2>1, FS_Interval
  <2>4. Cardinality(0 .. i - 1) = i BY <2>1, <2>3
  <2>5. before(i) = Cardinality(0 .. i - 1) BY <2>2
  <2> QED BY <2>4, <2>5
<1>2. Compacted(s) = [k \in Slot |-> IF from(k) = {} THEN NULL
                                     ELSE s[CHOOSE i \in from(k) : TRUE]]
  BY DEF Compacted
<1>3. ASSUME NEW k \in Slot PROVE Compacted(s)[k] = s[k]
  <2>1. CASE s[k] = NULL
    <3>1. from(k) = {} BY <1>1, <2>1
    <3> QED BY <1>2, <2>1, <3>1
  <2>2. CASE s[k] # NULL
    <3>1. from(k) = {k} BY <1>1, <2>2
    <3> HIDE DEF from
    <3> QED BY <1>2, <3>1
  <2> QED BY <2>1, <2>2
<1>4. Compacted(s) \in Choice BY CompactedType
<1>5. s = [k \in Slot |-> s[k]] /\ Compacted(s) = [k \in Slot |-> Compacted(s)[k]]
  BY <1>4 DEF Choice
<1> QED BY <1>3, <1>5

-----------------------------------------------------------------------------
(* writemove().                                                            *)

(* The inductive invariant: besides what EditorTypeOK and WholeUntilAHole  *)
(* say, that a unit that has learned nothing is not edited, and that holed *)
(* tells of every hole there is.                                           *)
EditorInv ==
  /\ EditorTypeOK
  /\ editing => R > 0
  /\ ~holed => ~Hole(chosen) /\ ~Hole(moves)
  /\ WholeUntilAHole

LEMMA EditorTypes ==
  ASSUME EditorInv
  PROVE  /\ R \in Nat /\ Slots \in Nat /\ Slots > 1
         /\ chosen \in Choice /\ moves \in Choice
         /\ editing => /\ at \in Nat /\ at < R + Slots /\ R > 0
                       /\ at >= R => at - R \in Slot /\ chosen[at - R] # NULL
BY LearnedFacts, SlotFacts DEF EditorInv, EditorTypeOK, Choice, OnSlot

LEMMA EmptyFacts == Empty \in Choice /\ ~Hole(Empty) /\ ~Twice(Empty)
BY DEF Empty, Choice, Hole, Twice

LEMMA EditorInitInv == EditorInit => EditorInv
<1> SUFFICES ASSUME EditorInit PROVE EditorInv
  OBVIOUS
<1>1. level \in 1 .. MaxLevel BY MoveEditorAssumption DEF EditorInit
<1> QED
  BY <1>1, EmptyFacts
  DEF EditorInit, EditorInv, EditorTypeOK, WholeUntilAHole, Choice

(* A cursor goes to a learned or a chosen move.                            *)
LEMMA SettledFacts ==
  ASSUME NEW s \in Choice, NEW c \in Nat, R > 0
  PROVE  /\ Settled(s, c) \in 0 .. R + Slots - 1
         /\ Settled(s, c) >= R => s[Settled(s, c) - R] # NULL
<1>1. R \in Nat /\ Slots \in Nat /\ Slots > 1 BY LearnedFacts, SlotFacts
<1>2. R - R = 0 BY <1>1
<1>3. CASE c < R \/ (c < R + Slots /\ s[c - R] # NULL) BY <1>1, <1>3 DEF Settled
<1>4. CASE ~(c < R \/ (c < R + Slots /\ s[c - R] # NULL)) /\ s[0] = NULL
  BY <1>1, <1>4 DEF Settled
<1>5. CASE ~(c < R \/ (c < R + Slots /\ s[c - R] # NULL)) /\ s[0] # NULL
  BY <1>1, <1>2, <1>5 DEF Settled
<1> QED BY <1>3, <1>4, <1>5

LEMMA PutKeeps ==
  ASSUME EditorInv, Edits, NEW s \in Choice, NEW c \in Nat, Put(s, c),
         ~holed /\ ~Hole(s) => ~Twice(s)
  PROVE  EditorInv'
<1>1. /\ chosen' = s /\ at' = Settled(s, c) /\ holed' = (holed \/ Hole(s))
      /\ level' = level /\ moves' = moves /\ editing' = editing /\ crashed' = crashed
  BY DEF Put
<1>2. editing /\ R > 0 BY DEF Edits, EditorInv
<1>3. R' = R BY <1>1 DEF R
<1>4. /\ Settled(s, c) \in 0 .. R + Slots - 1
      /\ Settled(s, c) >= R => s[Settled(s, c) - R] # NULL
  BY <1>2, SettledFacts
<1>5. Hole(s) \in BOOLEAN BY DEF Hole
<1>6. {editing, holed, crashed}' \subseteq BOOLEAN
  BY <1>1, <1>5 DEF EditorInv, EditorTypeOK
<1>7. EditorTypeOK'
  BY <1>1, <1>3, <1>4, <1>6 DEF EditorInv, EditorTypeOK, OnSlot, Choice
<1> QED BY <1>1, <1>2, <1>3, <1>7 DEF EditorInv, WholeUntilAHole

(* Where Learn ends up.                                                    *)
LEMMA LearnCases ==
  ASSUME EditorInv, Learn
  PROVE  LET m == Learned[at + 1][2]
         IN  /\ m \in Move
             /\ \/ holed /\ crashed' = TRUE
                           /\ UNCHANGED <<level, moves, chosen, at, editing, holed>>
                \/ \E j \in Slot : Put(chosen, R + j)
                \/ \E k \in Slot :
                     /\ chosen[k] = NULL /\ \A i \in Slot : i < k => chosen[i] # NULL
                     /\ ~holed => \A i \in Slot : chosen[i] # m
                     /\ Put([chosen EXCEPT ![k] = m], at)
                \/ UNCHANGED editor
<1> DEFINE m     == Learned[at + 1][2]
           stops == {j \in Compared(chosen) : chosen[j] \in {m, NULL}}
           free  == {i \in Slot : chosen[i] = NULL}
<1>1. /\ editing /\ at \in 0 .. R - 1 /\ chosen \in Choice /\ R \in Nat
  BY EditorTypes DEF Learn, Edits, OnSlot
<1>2. m \in Move BY <1>1, LearnedFacts
<1>3. Compared(chosen) \subseteq Slot BY DEF Compared
<1>4. Slot \subseteq Nat BY SlotFacts
<1>5. stops # {} => Min(stops) \in stops
  <2>1. stops \in SUBSET Nat BY <1>3, <1>4
  <2> HIDE DEF stops
  <2> QED BY <2>1, MinOf
<1>6. free # {} => Min(free) \in free /\ \A i \in free : Min(free) <= i
  <2>1. free \in SUBSET Nat BY <1>4
  <2> HIDE DEF free
  <2> QED BY <2>1, MinOf
<1>7. ~holed => \A j \in Compared(chosen) : chosen[j] # NULL
  <2> SUFFICES ASSUME ~holed, NEW j \in Compared(chosen) PROVE chosen[j] # NULL
    OBVIOUS
  <2>1. ~Hole(chosen) BY DEF EditorInv
  <2>2. j \in Nat /\ j \in Slot BY <1>3, <1>4
  <2>3. CASE chosen[Slots - 1] # NULL
    <3>1. Slots - 1 \in Slot /\ (j = Slots - 1 \/ j < Slots - 1) BY <2>2, SlotFacts
    <3> QED BY <2>1, <2>2, <2>3, <3>1 DEF Hole
  <2>4. CASE chosen[Slots - 1] = NULL
    <3>1. j \in 0 .. j BY <2>2
    <3> QED BY <2>4, <3>1 DEF Compared
  <2> QED BY <2>3, <2>4
<1>8. CASE /\ stops # {} /\ chosen[Min(stops)] = NULL
           /\ crashed' = TRUE /\ UNCHANGED <<level, moves, chosen, at, editing, holed>>
  <2>1. Min(stops) \in Compared(chosen) BY <1>5, <1>8
  <2>2. holed BY <1>7, <1>8, <2>1
  <2> QED BY <1>2, <1>8, <2>2
<1>9. CASE stops # {} /\ Put(chosen, R + Min(stops))
  <2>1. Min(stops) \in Slot BY <1>3, <1>5, <1>9
  <2> QED BY <1>2, <1>9, <2>1
<1>10. CASE stops = {} /\ chosen[Slots - 1] = NULL /\ Put([chosen EXCEPT ![Min(free)] = m], at)
  <2>1. Slots - 1 \in free BY <1>10, SlotFacts
  <2>2. Min(free) \in Slot /\ chosen[Min(free)] = NULL BY <1>6, <2>1
  <2>3. ASSUME NEW i \in Slot, i < Min(free) PROVE chosen[i] # NULL
    <3>1. i \in Nat /\ Min(free) \in Nat BY <1>4, <2>2
    <3>2. i \notin free BY <1>6, <2>1, <2>3, <3>1
    <3> QED BY <3>2
  <2>4. ASSUME ~holed, NEW i \in Slot PROVE chosen[i] # m
    <3>1. ~Hole(chosen) BY <2>4 DEF EditorInv
    <3>2. CASE chosen[i] = NULL BY <1>2, <3>2, MoveEditorAssumption
    <3>3. CASE chosen[i] # NULL
      <4>1. \A j \in 0 .. i : j \in Slot /\ (j = i \/ j < i) BY <2>4, SlotFacts
      <4>2. \A j \in 0 .. i : chosen[j] # NULL BY <3>1, <3>3, <4>1 DEF Hole
      <4>3. i \in Compared(chosen) BY <1>10, <4>2 DEF Compared
      <4> QED BY <1>10, <4>3
    <3> QED BY <3>2, <3>3
  <2> HIDE DEF free, stops, m
  <2>5. \E k \in Slot :
          /\ chosen[k] = NULL /\ \A i \in Slot : i < k => chosen[i] # NULL
          /\ ~holed => \A i \in Slot : chosen[i] # m
          /\ Put([chosen EXCEPT ![k] = m], at)
    BY <1>10, <2>2, <2>3, <2>4
  <2> QED BY <1>2, <2>5 DEF m
<1>11. CASE UNCHANGED editor BY <1>2, <1>11
<1> QED BY <1>8, <1>9, <1>10, <1>11 DEF Learn

(* Where the slots stay the cursor alone moves.                            *)
LEMMA CursorKeeps ==
  ASSUME EditorInv, Edits, NEW c \in Nat, Put(chosen, c) PROVE EditorInv'
BY PutKeeps, EditorTypes DEF EditorInv, WholeUntilAHole

LEMMA CursorCommands ==
  ASSUME EditorInv, Down \/ Up \/ ToChosen \/ \E x \in 0 .. 9 : Digit(x)
  PROVE  Edits /\ \E c \in Nat : Put(chosen, c)
<1>1. /\ editing => at \in Nat /\ R > 0
      /\ R \in Nat /\ Slots \in Nat
  BY EditorTypes
<1>2. CASE Down
  <2> DEFINE c == CASE at = R - 1 /\ chosen[0] # NULL -> R
                    [] OnSlot -> IF at < R + Slots - 1 THEN at + 1 ELSE 0
                    [] OTHER -> Ring(at + 1, R)
  <2>1. Edits /\ Put(chosen, c) BY <1>2 DEF Down
  <2>2. R \in Nat /\ at + 1 \in Nat /\ Ring(at + 1, R) \in Nat
    BY <1>1, <2>1 DEF Edits, Ring
  <2>3. c \in Nat BY <1>1, <2>2
  <2> HIDE DEF c
  <2> QED BY <2>1, <2>3
<1>3. CASE Up
  <2> DEFINE c == IF OnSlot THEN at - 1 ELSE IF at = 0 THEN R - 1 ELSE at - 1
  <2>1. Edits /\ Put(chosen, c) BY <1>3 DEF Up
  <2>2. c \in Nat BY <1>1, <2>1 DEF Edits, OnSlot
  <2> HIDE DEF c
  <2> QED BY <2>1, <2>2
<1>4. CASE ToChosen BY <1>1, <1>4 DEF ToChosen
<1>5. CASE \E x \in 0 .. 9 : Digit(x)
  <2>1. PICK x \in 0 .. 9 : Digit(x) BY <1>5
  <2>2. Edits /\ (Put(chosen, x) \/ Put(chosen, R + x)) BY <2>1 DEF Digit
  <2>3. x \in Nat /\ R + x \in Nat BY <1>1
  <2> QED BY <2>2, <2>3
<1> QED BY <1>2, <1>3, <1>4, <1>5

(* Raise and Lower exchange two slots; Lower may find the second empty.    *)
LEMMA RaiseCases ==
  ASSUME EditorInv, Raise
  PROVE  /\ Edits /\ at - R \in Slot /\ at - R - 1 \in Slot
         /\ chosen[at - R] # NULL
         /\ at - 1 \in Nat /\ Put(Exchanged(chosen, at - R, at - R - 1), at - 1)
<1>1. Edits /\ at > R /\ Put(Exchanged(chosen, at - R, at - R - 1), at - 1) BY DEF Raise
<1>2. /\ at \in Nat /\ R \in Nat /\ at - R \in Slot /\ chosen[at - R] # NULL
  BY <1>1, EditorTypes DEF Edits
<1>3. at - R - 1 \in Slot /\ at - 1 \in Nat BY <1>1, <1>2, SlotFacts
<1> QED BY <1>1, <1>2, <1>3

LEMMA ExchangeCases ==
  ASSUME EditorInv, Raise \/ Lower
  PROVE  /\ Edits
         /\ \E i, j \in Slot, c \in Nat : i # j /\ Put(Exchanged(chosen, i, j), c)
<1>1. CASE Raise
  <2>1. at - R \in Int /\ at - R - 1 # at - R BY <1>1, RaiseCases, SlotFacts
  <2> QED BY <1>1, <2>1, RaiseCases
<1>2. CASE Lower
  <2>1. /\ Edits /\ at >= R /\ at < R + Slots - 1
        /\ Put(Exchanged(chosen, at - R, at - R + 1), at + 1)
    BY <1>2 DEF Lower, OnSlot
  <2>2. at \in Nat /\ R \in Nat /\ at - R \in Slot BY <2>1, EditorTypes DEF Edits
  <2>3. at - R + 1 \in Slot /\ at + 1 \in Nat /\ at - R + 1 # at - R
    BY <2>1, <2>2, SlotFacts
  <2> QED BY <2>1, <2>2, <2>3
<1> QED BY <1>1, <1>2

LEMMA DeleteCases ==
  ASSUME EditorInv, Delete
  PROVE  /\ Edits /\ at - R \in Slot /\ chosen[at - R] # NULL
         /\ \E c \in Nat : Put(Deleted(chosen, at - R), c)
<1>1. Edits /\ at >= R BY EditorTypes DEF Delete, OnSlot
<1>2. /\ at \in Nat /\ R \in Nat /\ R > 0
      /\ at - R \in Slot /\ chosen[at - R] # NULL
  BY <1>1, EditorTypes DEF Edits
<1> DEFINE c == IF at = R + Slots - 1 \/ chosen[at - R + 1] = NULL THEN at - 1 ELSE at
<1>3. Put(Deleted(chosen, at - R), c) BY DEF Delete
<1>4. c \in Nat BY <1>1, <1>2
<1> HIDE DEF c
<1> QED BY <1>1, <1>2, <1>3, <1>4

LEMMA LearnKeeps == ASSUME EditorInv, Learn PROVE EditorInv'
<1> DEFINE m == Learned[at + 1][2]
<1>1. Edits /\ at \in Nat /\ chosen \in Choice /\ R \in Nat
  BY EditorTypes DEF Learn, Edits
<1>2. m \in Move BY LearnCases
<1>3. CASE holed /\ crashed' = TRUE /\ UNCHANGED <<level, moves, chosen, at, editing, holed>>
  <2>1. R' = R BY <1>3 DEF R
  <2>2. {editing, holed, crashed}' \subseteq BOOLEAN BY <1>3 DEF EditorInv, EditorTypeOK
  <2>3. EditorTypeOK' BY <1>3, <2>1, <2>2 DEF EditorInv, EditorTypeOK, OnSlot
  <2> QED BY <1>3, <2>1, <2>3 DEF EditorInv, WholeUntilAHole
<1>4. CASE \E j \in Slot : Put(chosen, R + j)
  <2>1. PICK j \in Slot : Put(chosen, R + j) BY <1>4
  <2>2. R + j \in Nat BY <1>1, SlotFacts
  <2> QED BY <1>1, <2>1, <2>2, CursorKeeps
<1>5. CASE \E k \in Slot :
             /\ ~holed => \A i \in Slot : chosen[i] # m
             /\ Put([chosen EXCEPT ![k] = m], at)
  <2> HIDE DEF m
  <2>1. PICK k \in Slot :
          /\ ~holed => \A i \in Slot : chosen[i] # m
          /\ Put([chosen EXCEPT ![k] = m], at)
    BY <1>5
  <2> DEFINE s == [chosen EXCEPT ![k] = m]
  <2>2. s \in Choice BY <1>1, <1>2 DEF Choice
  <2>3. ~holed => ~Twice(s)
    <3>1. ~holed => ~Twice(chosen) BY DEF EditorInv, WholeUntilAHole
    <3> QED BY <1>1, <2>1, <3>1 DEF Twice, Choice
  <2> HIDE DEF s
  <2>4. Put(s, at) BY <2>1 DEF s
  <2> QED BY <1>1, <2>2, <2>3, <2>4, PutKeeps
<1>6. CASE UNCHANGED editor
  BY <1>6
  DEF editor, EditorInv, EditorTypeOK, WholeUntilAHole, OnSlot, R, Twice, Hole
<1> QED BY <1>3, <1>4, <1>5, <1>6, LearnCases

LEMMA EditKeeps == ASSUME EditorInv, Edit PROVE EditorInv'
<1>1. chosen \in Choice /\ moves \in Choice BY EditorTypes
<1>2. CASE Down \/ Up \/ ToChosen \/ \E x \in 0 .. 9 : Digit(x)
  BY <1>2, CursorCommands, CursorKeeps
<1>3. CASE Learn BY <1>3, LearnKeeps
<1>4. CASE Accept \/ Cancel
  <2>1. /\ editing' = FALSE /\ chosen' = Empty /\ at' = 0 /\ level' = level
        /\ holed' = holed /\ crashed' = crashed /\ moves' \in {moves, chosen}
        /\ ~crashed
    BY <1>4 DEF Accept, Cancel, Leave, Edits
  <2>2. moves' \in Choice /\ chosen' \in Choice BY <1>1, <2>1, EmptyFacts
  <2>3. ~holed => ~Hole(moves') /\ ~Twice(moves')
    BY <2>1 DEF EditorInv, WholeUntilAHole
  <2>4. {editing, holed, crashed}' \subseteq BOOLEAN
    BY <2>1 DEF EditorInv, EditorTypeOK
  <2>5. EditorTypeOK' BY <2>1, <2>2, <2>4 DEF EditorInv, EditorTypeOK, Choice
  <2> QED BY <2>1, <2>3, <2>5, EmptyFacts DEF EditorInv, WholeUntilAHole
<1>5. CASE Raise \/ Lower
  <2>1. PICK i, j \in Slot, c \in Nat :
          i # j /\ Put(Exchanged(chosen, i, j), c) /\ Edits
    BY <1>5, ExchangeCases
  <2>2. Exchanged(chosen, i, j) \in Choice BY <1>1, ExchangedFields
  <2>3. ~holed => ~Twice(Exchanged(chosen, i, j))
    BY <1>1, <2>1, ExchangedTwice DEF EditorInv, WholeUntilAHole
  <2> QED BY <2>1, <2>2, <2>3, PutKeeps
<1>6. CASE Delete
  <2>1. PICK c \in Nat : Put(Deleted(chosen, at - R), c) BY <1>6, DeleteCases
  <2>2. Edits /\ at - R \in Slot /\ chosen[at - R] # NULL BY <1>6, DeleteCases
  <2>3. Deleted(chosen, at - R) \in Choice BY <1>1, <2>2, DeletedFields
  <2>4. ~holed => ~Twice(Deleted(chosen, at - R))
    BY <1>1, <2>2, DeletedTwice DEF EditorInv, WholeUntilAHole
  <2> QED BY <2>1, <2>2, <2>3, <2>4, PutKeeps
<1> QED BY <1>2, <1>3, <1>4, <1>5, <1>6 DEF Edit

LEMMA EditorStep ==
  ASSUME EditorInv, WriteMove \/ Rise \/ Reload \/ Edit \/ UNCHANGED editor
  PROVE  EditorInv'
<1>1. chosen \in Choice /\ moves \in Choice BY EditorTypes
<1>2. CASE WriteMove
  <2>1. /\ ~editing /\ R > 0 /\ editing' = TRUE /\ chosen' = moves
        /\ at' = IF moves[0] = NULL THEN 0 ELSE R
        /\ level' = level /\ moves' = moves /\ holed' = holed /\ crashed' = crashed
    BY <1>2 DEF WriteMove
  <2>2. R' = R BY <2>1 DEF R
  <2>3. R \in Nat /\ Slots \in Nat /\ Slots > 1 BY EditorTypes
  <2>4. at' \in 0 .. R + Slots - 1 /\ (at' >= R => moves[at' - R] # NULL)
    <3>1. CASE moves[0] = NULL BY <2>1, <2>3, <3>1
    <3>2. CASE moves[0] # NULL
      <4>1. at' = R /\ R - R = 0 BY <2>1, <2>3, <3>2
      <4> QED BY <2>3, <3>2, <4>1
    <3> QED BY <3>1, <3>2
  <2>5. {editing, holed, crashed}' \subseteq BOOLEAN
    BY <2>1 DEF EditorInv, EditorTypeOK
  <2>6. EditorTypeOK'
    BY <1>1, <2>1, <2>2, <2>4, <2>5 DEF EditorInv, EditorTypeOK, OnSlot, Choice
  <2> QED BY <2>1, <2>2, <2>6 DEF EditorInv, WholeUntilAHole
<1>3. CASE Rise
  <2>1. /\ ~editing /\ level < MaxLevel /\ level' = level + 1
        /\ moves' = moves /\ chosen' = chosen
        /\ editing' = editing /\ holed' = holed /\ crashed' = crashed
    BY <1>3 DEF Rise
  <2>2. level' \in 1 .. MaxLevel
    BY <2>1, MoveEditorAssumption DEF EditorInv, EditorTypeOK
  <2>3. {editing, holed, crashed}' \subseteq BOOLEAN
    BY <2>1 DEF EditorInv, EditorTypeOK
  <2>4. EditorTypeOK' BY <2>1, <2>2, <2>3 DEF EditorInv, EditorTypeOK
  <2> QED BY <2>1, <2>4 DEF EditorInv, WholeUntilAHole
<1>4. CASE Reload
  <2>1. /\ ~editing /\ moves' = Compacted(moves) /\ level' = level /\ chosen' = chosen
        /\ editing' = editing /\ holed' = holed /\ crashed' = crashed
    BY <1>4 DEF Reload
  <2>2. moves' \in Choice BY <1>1, <2>1, CompactedType
  <2>3. ~holed => moves' = moves BY <1>1, <2>1, CompactedWhole DEF EditorInv
  <2>4. {editing, holed, crashed}' \subseteq BOOLEAN
    BY <2>1 DEF EditorInv, EditorTypeOK
  <2>5. EditorTypeOK' BY <2>1, <2>2, <2>4 DEF EditorInv, EditorTypeOK, Choice
  <2> QED BY <2>1, <2>3, <2>5 DEF EditorInv, WholeUntilAHole
<1>5. CASE UNCHANGED editor
  BY <1>5
  DEF editor, EditorInv, EditorTypeOK, WholeUntilAHole, OnSlot, R, Twice, Hole
<1> QED BY <1>2, <1>3, <1>4, <1>5, EditKeeps

(* No command but Lower leaves a hole where there was none.                *)
LEMMA HolesStep ==
  ASSUME EditorInv, WriteMove \/ Rise \/ Reload \/ Edit, ~holed, holed' PROVE Lower
<1>1. chosen \in Choice /\ ~Hole(chosen) BY EditorTypes DEF EditorInv
<1>2. ASSUME NEW s, NEW c, Put(s, c) PROVE Hole(s)
  BY <1>2 DEF Put
<1>3. Edit
  BY DEF WriteMove, Rise, Reload
<1>4. ~(Down \/ Up \/ ToChosen \/ \E x \in 0 .. 9 : Digit(x))
  BY <1>1, <1>2, CursorCommands
<1>5. ~Learn
  <2> SUFFICES ASSUME Learn PROVE FALSE
    OBVIOUS
  <2> DEFINE m == Learned[at + 1][2]
  <2>1. PICK k \in Slot :
          /\ chosen[k] = NULL /\ \A i \in Slot : i < k => chosen[i] # NULL
          /\ Put([chosen EXCEPT ![k] = m], at)
    <3>1. ~\E j \in Slot : Put(chosen, R + j) BY <1>1, <1>2
    <3>2. ~UNCHANGED editor BY DEF editor
    <3> QED BY <3>1, <3>2, LearnCases
  <2>2. m \in Move BY LearnCases
  <2> HIDE DEF m
  <2>3. Hole([chosen EXCEPT ![k] = m]) BY <1>2, <2>1
  <2> DEFINE s == [chosen EXCEPT ![k] = m]
  <2>4. PICK i \in Slot, j \in Slot : i < j /\ s[i] = NULL /\ s[j] # NULL
    BY <2>3 DEF Hole
  <2>5. i # k /\ chosen[i] = NULL BY <1>1, <2>2, <2>4, MoveEditorAssumption DEF Choice
  <2>6. i \in Nat /\ j \in Nat /\ k \in Nat BY SlotFacts
  <2>7. k < i /\ k < j BY <2>1, <2>4, <2>5, <2>6
  <2>8. chosen[j] # NULL BY <1>1, <2>4, <2>6, <2>7 DEF Choice
  <2> QED BY <1>1, <2>4, <2>5, <2>8 DEF Hole
<1>6. ~(Accept \/ Cancel) BY DEF Accept, Cancel
<1>7. ~Delete BY <1>1, <1>2, DeleteCases, DeletedWhole
<1>8. ~Raise
  <2> SUFFICES ASSUME Raise PROVE FALSE
    OBVIOUS
  <2> DEFINE i == at - R
             j == at - R - 1
             d == Exchanged(chosen, i, j)
  <2>1. i \in Slot /\ j \in Slot /\ chosen[i] # NULL /\ Put(d, at - 1)
    BY RaiseCases
  <2>2. i \in Nat /\ j \in Nat /\ j = i - 1 BY <2>1, SlotFacts
  <2>3. Hole(d) BY <1>2, <2>1
  <2> HIDE DEF i, j
  <2>4. chosen[j] # NULL BY <1>1, <2>1, <2>2 DEF Hole
  <2>5. \A k \in Slot : d[k] = IF k = i THEN chosen[j] ELSE IF k = j THEN chosen[i] ELSE chosen[k]
    BY <1>1, <2>1, <2>2, ExchangedFields
  <2> HIDE DEF d
  <2>6. PICK x \in Slot, y \in Slot : x < y /\ d[x] = NULL /\ d[y] # NULL
    BY <2>3 DEF Hole
  <2>7. chosen[x] = NULL /\ chosen[y] # NULL BY <2>1, <2>4, <2>5, <2>6
  <2> QED BY <1>1, <2>6, <2>7 DEF Hole
<1> QED BY <1>3, <1>4, <1>5, <1>6, <1>7, <1>8 DEF Edit

(* A command adds the move under the cursor, or drops it, or neither.      *)
LEMMA SelectedStep ==
  ASSUME EditorInv, WriteMove \/ Rise \/ Reload \/ Edit, editing, editing', NEW m \in Move
  PROVE  \/ Times(chosen', m) = Times(chosen, m)
         \/ /\ ~OnSlot /\ m = Learned[at + 1][2]
            /\ Times(chosen', m) = Times(chosen, m) + 1
         \/ /\ OnSlot /\ m = chosen[at - R]
            /\ Times(chosen', m) = Times(chosen, m) - 1
<1>1. chosen \in Choice /\ at \in Nat /\ R \in Nat BY EditorTypes
<1>2. m # NULL BY MoveEditorAssumption
<1>3. \A s, c : Put(s, c) => chosen' = s BY DEF Put
<1>4. Edit BY DEF WriteMove, Rise, Reload
<1>5. CASE Down \/ Up \/ ToChosen \/ \E x \in 0 .. 9 : Digit(x)
  BY <1>3, <1>5, CursorCommands
<1>6. CASE Learn
  <2> DEFINE n == Learned[at + 1][2]
  <2>1. n \in Move /\ ~OnSlot BY <1>6, LearnCases DEF Learn
  <2>2. CASE \E k \in Slot : chosen[k] = NULL /\ Put([chosen EXCEPT ![k] = n], at)
    <3> HIDE DEF n
    <3>1. PICK k \in Slot : chosen[k] = NULL /\ Put([chosen EXCEPT ![k] = n], at)
      BY <2>2
    <3>2. chosen' = [chosen EXCEPT ![k] = n] BY <1>3, <3>1
    <3>3. CASE m = n
      <4>1. Times(chosen', m) = Times(chosen, m) + 1
        BY <1>1, <1>2, <3>1, <3>2, <3>3, OneMore
      <4> QED BY <2>1, <3>3, <4>1 DEF n
    <3>4. CASE m # n
      <4>1. Times(chosen', m) = Times(chosen, m)
        BY <1>1, <1>2, <3>1, <3>2, <3>4, OthersStay
      <4> QED BY <4>1
    <3> QED BY <3>3, <3>4
  <2>3. CASE chosen' = chosen BY <2>3
  <2> QED BY <1>3, <1>6, <2>2, <2>3, LearnCases DEF editor
<1>7. CASE Accept \/ Cancel BY <1>7 DEF Accept, Cancel, Leave
<1>8. CASE Raise \/ Lower
  <2>1. PICK i, j \in Slot, c \in Nat : i # j /\ Put(Exchanged(chosen, i, j), c)
    BY <1>8, ExchangeCases
  <2> QED BY <1>1, <1>3, <2>1, ExchangedTimes
<1>9. CASE Delete
  <2>1. at - R \in Slot /\ chosen[at - R] # NULL /\ OnSlot BY <1>9, DeleteCases DEF Delete
  <2>2. chosen' = Deleted(chosen, at - R) BY <1>3, <1>9, DeleteCases
  <2> QED BY <1>1, <1>2, <2>1, <2>2, DeletedTimes
<1> QED BY <1>4, <1>5, <1>6, <1>7, <1>8, <1>9 DEF Edit

-----------------------------------------------------------------------------
(* The menus.                                                              *)

Name == {"main", "list", "fun", "endless", "units", "storage", "item", "wp", "listmove",
         "move", "move_unit", "effect", "type", "tutorial", "show_tutorial", "msgbox",
         "giveitem"}

Loose   == {"show_tutorial", "msgbox", "giveitem"}   \* with no entries to be at
Counted == {"units", "storage", "item"}              \* whose tables change

(* Whose table may take up half of the screen.                             *)
Halved == {"storage", "item", "wp", "listmove", "move", "effect", "type"}

Submenu == {"units", "storage", "endless", "fun", "item", "list", "tutorial"}
Listed  == {"wp", "move", "type", "effect"}
CalledBy(m) == IF m = "main" THEN Submenu ELSE IF m = "list" THEN Listed ELSE {}

(* A record of Menu, field by field.                                       *)
Fields(m, part, calls, shows, returns) ==
  /\ Menu[m].part = part /\ Menu[m].calls = calls /\ Menu[m].shows = shows
  /\ Menu[m].returns = returns

LEMMA MenuFields ==
  /\ Fields("main", 0, mmop, "", FALSE)
  /\ Fields("list", 0, list_ops, "", FALSE)
  /\ Fields("fun", 0, fun_modes, "", FALSE)
  /\ Fields("endless", 0, <<"battle", "exit", "battle">>, "", FALSE)
  /\ Fields("units", 0, << >>, "", TRUE)
  /\ Fields("storage", 2, << >>, "", TRUE)
  /\ Fields("item", 2, << >>, "", TRUE)
  /\ Fields("wp", 2, << >>, "listmove", FALSE)
  /\ Fields("listmove", 2, << >>, "", TRUE)
  /\ Fields("move", 2, << >>, "move_unit", FALSE)
  /\ Fields("move_unit", 1, << >>, "", TRUE)
  /\ Fields("effect", 2, << >>, "", FALSE)
  /\ Fields("type", 2, << >>, "", FALSE)
  /\ Fields("tutorial", 0, << >>, "show_tutorial", FALSE)
  /\ Fields("show_tutorial", 0, << >>, "", FALSE)
  /\ Fields("msgbox", 0, << >>, "", FALSE)
  /\ Fields("giveitem", 0, << >>, "", FALSE)
<1>1. Fields("main", 0, mmop, "", FALSE)
  BY DEF Fields, Menu, main_menu, Plain
<1>2. Fields("list", 0, list_ops, "", FALSE)
  BY DEF Fields, Menu, list_menu, Plain
<1>3. Fields("fun", 0, fun_modes, "", FALSE)
  BY DEF Fields, Menu, fun_menu, Plain
<1>4. Fields("endless", 0, <<"battle", "exit", "battle">>, "", FALSE)
  BY DEF Fields, Menu, endless_menu, Plain
<1>5. Fields("units", 0, << >>, "", TRUE)
  BY DEF Fields, Menu, units_menu, Plain
<1>6. Fields("storage", 2, << >>, "", TRUE)
  BY DEF Fields, Menu, storage_menu, Plain
<1>7. Fields("item", 2, << >>, "", TRUE)
  BY DEF Fields, Menu, item_menu, Plain
<1>8. Fields("wp", 2, << >>, "listmove", FALSE)
  BY DEF Fields, Menu, wp_menu, Plain
<1>9. Fields("listmove", 2, << >>, "", TRUE)
  BY DEF Fields, Menu, listmove, Plain
<1>10. Fields("move", 2, << >>, "move_unit", FALSE)
  BY DEF Fields, Menu, move_menu, Plain
<1>11. Fields("move_unit", 1, << >>, "", TRUE)
  BY DEF Fields, Menu, move_unit_menu, Plain
<1>12. Fields("effect", 2, << >>, "", FALSE)
  BY DEF Fields, Menu, effect_menu, Plain
<1>13. Fields("type", 2, << >>, "", FALSE)
  BY DEF Fields, Menu, type_menu, Plain
<1>14. Fields("tutorial", 0, << >>, "show_tutorial", FALSE)
  BY DEF Fields, Menu, tutorial_menu, Plain
<1>15. Fields("show_tutorial", 0, << >>, "", FALSE)
  BY DEF Fields, Menu, show_tutorial, Plain
<1>16. Fields("msgbox", 0, << >>, "", FALSE)
  BY DEF Fields, Menu, msgbox, Plain
<1>17. Fields("giveitem", 0, << >>, "", FALSE)
  BY DEF Fields, Menu, giveitem, Plain
<1> QED
  BY <1>1, <1>2, <1>3, <1>4, <1>5, <1>6, <1>7, <1>8, <1>9, <1>10,
     <1>11, <1>12, <1>13, <1>14, <1>15, <1>16, <1>17

LEMMA MenuParts ==
  ASSUME NEW m \in Name
  PROVE  /\ Menu[m].part \in {0, 1, 2}
         /\ Menu[m].part > 0 => m \notin Loose
         /\ Menu[m].returns => m # "main"
         /\ Menu[m].shows # "" =>
              \/ m = "wp" /\ Menu[m].shows = "listmove"
              \/ m = "move" /\ Menu[m].shows = "move_unit"
              \/ m = "tutorial" /\ Menu[m].shows = "show_tutorial"
<1>1. Menu[m].part = IF m \in Halved THEN 2 ELSE IF m = "move_unit" THEN 1 ELSE 0
  <2>1. \A x \in Halved : Menu[x].part = 2
    <3>1. /\ Menu["storage"].part = 2 /\ Menu["item"].part = 2 /\ Menu["wp"].part = 2
          /\ Menu["listmove"].part = 2 /\ Menu["move"].part = 2
          /\ Menu["effect"].part = 2 /\ Menu["type"].part = 2
      BY MenuFields DEF Fields
    <3> QED BY <3>1 DEF Halved
  <2>2. Menu["move_unit"].part = 1 BY MenuFields DEF Fields
  <2>3. \A x \in {"main", "list", "fun", "endless", "units"} : Menu[x].part = 0
    <3>1. /\ Menu["main"].part = 0 /\ Menu["list"].part = 0 /\ Menu["fun"].part = 0
          /\ Menu["endless"].part = 0 /\ Menu["units"].part = 0
      BY MenuFields DEF Fields
    <3> QED BY <3>1
  <2>4. \A x \in {"tutorial", "show_tutorial", "msgbox", "giveitem"} : Menu[x].part = 0
    <3>1. /\ Menu["tutorial"].part = 0 /\ Menu["show_tutorial"].part = 0
          /\ Menu["msgbox"].part = 0 /\ Menu["giveitem"].part = 0
      BY MenuFields DEF Fields
    <3> QED BY <3>1
  <2>5. CASE m \in Halved BY <2>1, <2>5
  <2>6. CASE m = "move_unit" BY <2>2, <2>6 DEF Halved
  <2>7. CASE m \in {"main", "list", "fun", "endless", "units"} BY <2>3, <2>7 DEF Halved
  <2>8. CASE m \in {"tutorial", "show_tutorial", "msgbox", "giveitem"}
    BY <2>4, <2>8 DEF Halved
  <2> QED BY <2>5, <2>6, <2>7, <2>8 DEF Halved, Name
<1>2. m \in Loose => m \notin Halved /\ m # "move_unit" BY DEF Loose, Halved
<1>3. ~Menu["main"].returns BY MenuFields DEF Fields
<1>4. \/ m = "wp" /\ Menu[m].shows = "listmove"
      \/ m = "move" /\ Menu[m].shows = "move_unit"
      \/ m = "tutorial" /\ Menu[m].shows = "show_tutorial"
      \/ Menu[m].shows = ""
  <2>1. /\ Menu["wp"].shows = "listmove" /\ Menu["move"].shows = "move_unit"
        /\ Menu["tutorial"].shows = "show_tutorial"
    BY MenuFields DEF Fields
  <2>2. /\ Menu["main"].shows = "" /\ Menu["list"].shows = "" /\ Menu["fun"].shows = ""
        /\ Menu["endless"].shows = "" /\ Menu["units"].shows = ""
    BY MenuFields DEF Fields
  <2>3. /\ Menu["storage"].shows = "" /\ Menu["item"].shows = ""
        /\ Menu["listmove"].shows = "" /\ Menu["move_unit"].shows = ""
    BY MenuFields DEF Fields
  <2>4. /\ Menu["effect"].shows = "" /\ Menu["type"].shows = ""
        /\ Menu["show_tutorial"].shows = "" /\ Menu["msgbox"].shows = ""
        /\ Menu["giveitem"].shows = ""
    BY MenuFields DEF Fields
  <2>5. CASE m \in {"wp", "move", "tutorial"} BY <2>1, <2>5
  <2>6. CASE m \in {"main", "list", "fun", "endless", "units"} BY <2>2, <2>6
  <2>7. CASE m \in {"storage", "item", "listmove", "move_unit"} BY <2>3, <2>7
  <2>8. CASE m \in {"effect", "type", "show_tutorial", "msgbox", "giveitem"} BY <2>4, <2>8
  <2> QED BY <2>5, <2>6, <2>7, <2>8 DEF Name
<1>5. Menu[m].part \in {0, 1, 2} BY <1>1
<1>6. Menu[m].part > 0 => m \notin Loose BY <1>1, <1>2
<1>7. Menu[m].returns => m # "main" BY <1>3
<1> QED BY <1>4, <1>5, <1>6, <1>7, Zenon

LEMMA MenuCalls ==
  ASSUME NEW m \in Name, NEW calls, calls = Menu[m].calls
  PROVE  /\ Len(calls) \in Nat
         /\ calls # << >> <=> m \in {"main", "list", "fun", "endless"}
         /\ calls # << >> => Len(calls) > 0
         /\ \A i \in 1 .. Len(calls) : calls[i] \in CalledBy(m) \cup {"battle", "exit"}
<1>1. CASE m = "main"
  <2>1. Fields(m, 0, mmop, "", FALSE) BY <1>1, MenuFields, Zenon
  <2>2. calls = mmop BY <2>1 DEF Fields
  <2>3. Len(mmop) = 9 /\ mmop # << >> BY DEF mmop
  <2>4. \A i \in 1 .. 9 : mmop[i] \in Submenu \cup {"battle", "exit"} BY DEF mmop, Submenu
  <2>5. CalledBy(m) = Submenu BY <1>1 DEF CalledBy
  <2>6. Len(calls) = 9 /\ calls # << >> BY <2>2, <2>3
  <2>7. \A i \in 1 .. Len(calls) : calls[i] \in CalledBy(m) \cup {"battle", "exit"}
    BY <2>2, <2>4, <2>5, <2>6
  <2> QED BY <1>1, <2>6, <2>7
<1>2. CASE m = "list"
  <2>1. Fields(m, 0, list_ops, "", FALSE) BY <1>2, MenuFields, Zenon
  <2>2. calls = list_ops BY <2>1 DEF Fields
  <2>3. Len(list_ops) = 5 /\ list_ops # << >> BY DEF list_ops
  <2>4. \A i \in 1 .. 5 : list_ops[i] \in Listed \cup {"battle", "exit"}
    BY DEF list_ops, Listed
  <2>5. CalledBy(m) = Listed BY <1>2 DEF CalledBy
  <2>6. Len(calls) = 5 /\ calls # << >> BY <2>2, <2>3
  <2>7. \A i \in 1 .. Len(calls) : calls[i] \in CalledBy(m) \cup {"battle", "exit"}
    BY <2>2, <2>4, <2>5, <2>6
  <2> QED BY <1>2, <2>6, <2>7
<1>3. CASE m = "fun"
  <2>1. Fields(m, 0, fun_modes, "", FALSE) BY <1>3, MenuFields, Zenon
  <2>2. calls = fun_modes BY <2>1 DEF Fields
  <2>3. Len(calls) = 6 /\ calls # << >> BY <2>2 DEF fun_modes
  <2>4. \A i \in 1 .. 6 : calls[i] \in {"battle", "exit"} BY <2>2 DEF fun_modes
  <2>5. \A i \in 1 .. Len(calls) : calls[i] \in CalledBy(m) \cup {"battle", "exit"}
    BY <2>3, <2>4
  <2> QED BY <1>3, <2>3, <2>5
<1>4. CASE m = "endless"
  <2>1. Fields(m, 0, <<"battle", "exit", "battle">>, "", FALSE) BY <1>4, MenuFields, Zenon
  <2>2. calls = <<"battle", "exit", "battle">> BY <2>1 DEF Fields
  <2>3. Len(calls) = 3 /\ calls # << >> BY <2>2
  <2>4. \A i \in 1 .. 3 : calls[i] \in {"battle", "exit"} BY <2>2
  <2>5. \A i \in 1 .. Len(calls) : calls[i] \in CalledBy(m) \cup {"battle", "exit"}
    BY <2>3, <2>4
  <2> QED BY <1>4, <2>3, <2>5
<1>5. CASE m \notin {"main", "list", "fun", "endless"}
  <2>1. Menu[m].calls = << >> BY <1>5, MenuFields DEF Fields, Name
  <2> QED BY <1>5, <2>1
<1> QED BY <1>1, <1>2, <1>3, <1>4, <1>5

FrameSet == [menu : Name, of : Nat, cur : Int, shift : Nat]

(* What a frame was called for is there.                                   *)
Called(f) ==
  /\ f.menu = "listmove"      => f.of < Len(Below["wp"])
  /\ f.menu = "move_unit"     => f.of < Len(Below["move"])
  /\ f.menu = "show_tutorial" => f.of < Len(Below["tutorial"])

(* The main menu is the first, and only it calls those whose tables change.*)
Placed(fs) ==
  \A i \in 1 .. Len(fs) :
    /\ fs[i].menu = "main" <=> i = 1
    /\ fs[i].menu \in Counted => i = 2

InTable(f, s, c) == f.menu \notin Loose => f.cur \in 0 .. Table(f, s, c) - 1

Kept(fs, s, c) ==
  /\ fs \in Seq(FrameSet)
  /\ Placed(fs)
  /\ \A i \in 1 .. Len(fs) : Called(fs[i]) /\ InTable(fs[i], s, c)

(* The inductive invariant.                                                *)
MenusInv ==
  /\ EditorInv
  /\ lines \in Heights /\ stored \in 0 .. Units /\ creams \in 0 .. MaxCream
  /\ Deployed \in 0 .. Deployable
  /\ Kept(frames, stored, creams)
  /\ SelectedIsShown
  /\ editing => frames # << >> /\ Top.menu = "units"

LEMMA TableType ==
  ASSUME NEW f \in FrameSet, Called(f), NEW s \in 0 .. Units, NEW c
  PROVE  Table(f, s, c) \in Nat
<1>1. f.menu \in Name /\ f.of \in Nat BY DEF FrameSet
<1>2. \A t \in {"wp", "move", "tutorial"} : Below[t] \in Seq(Nat) BY MenusAssumption
<1>3. \A t \in {"wp", "move", "tutorial"} : f.of < Len(Below[t]) => Below[t][f.of + 1] \in Nat
  <2> SUFFICES ASSUME NEW t \in {"wp", "move", "tutorial"}, f.of < Len(Below[t])
               PROVE  Below[t][f.of + 1] \in Nat
    OBVIOUS
  <2>1. Below[t] \in Seq(Nat) BY <1>2
  <2>2. f.of + 1 \in 1 .. Len(Below[t]) BY <1>1, <2>1
  <2> QED BY <2>1, <2>2
<1>4. Len(Below["tutorial"]) \in Nat BY <1>2
<1>5. Len(Menu[f.menu].calls) \in Nat BY <1>1, MenuCalls
<1>6. \A t \in DOMAIN Size : Size[t] \in Nat BY MenusAssumption
<1>7. Units - s \in Nat /\ s \in Nat BY MenusAssumption
<1> QED BY <1>1, <1>3, <1>4, <1>5, <1>6, <1>7 DEF Called, Table

LEMMA TableStays ==
  ASSUME NEW f, f.menu \notin Counted, NEW s, NEW c, NEW t, NEW d
  PROVE  Table(f, s, c) = Table(f, t, d)
BY DEF Table, Counted

LEMMA RowsFacts ==
  ASSUME NEW f \in FrameSet, Menu[f.menu].part > 0, NEW l \in Heights
  PROVE  Rows(f, l) \in Nat /\ Rows(f, l) > 0
<1>1. Menu[f.menu].part \in {1, 2}
  <2>1. f.menu \in Name BY DEF FrameSet
  <2>2. Menu[f.menu].part \in {0, 1, 2} BY <2>1, MenuParts
  <2> QED BY <2>2
<1>2. l \in Nat /\ l >= 2
  <2>1. Heights \subseteq Nat \ {0, 1} BY MenusAssumption
  <2> QED BY <2>1
<1>3. l \div 1 = l /\ l \div 2 \in Nat /\ l \div 2 > 0 BY <1>2
<1> QED BY <1>1, <1>2, <1>3 DEF Rows

LEMMA ScrolledFacts ==
  ASSUME NEW f \in FrameSet, f.cur \in Nat, NEW n \in Nat, n > 0, NEW g, g = Scrolled(f, n)
  PROVE  /\ g \in FrameSet /\ g.menu = f.menu /\ g.of = f.of /\ g.cur = f.cur
         /\ g.cur \in g.shift .. g.shift + n - 1
<1> DEFINE sh == IF f.cur < f.shift THEN f.cur
                 ELSE IF f.cur > f.shift + (n - 1) THEN f.cur - (n - 1) ELSE f.shift
<1>1. g = [f EXCEPT !.shift = sh] BY DEF Scrolled
<1>2. f.shift \in Nat BY DEF FrameSet
<1>3. sh \in Nat /\ f.cur \in sh .. sh + n - 1 BY <1>2
<1> HIDE DEF sh
<1> QED BY <1>1, <1>3 DEF FrameSet

(* A sequence of frames and what is left of it when a menu returns.        *)
LEMMA FrontFacts ==
  ASSUME NEW fs \in Seq(FrameSet), Len(fs) > 1, NEW g, g = Front(fs)
  PROVE  /\ g \in Seq(FrameSet) /\ Len(g) = Len(fs) - 1 /\ g # << >>
         /\ \A i \in 1 .. Len(g) : g[i] = fs[i] /\ i \in 1 .. Len(fs)
<1>1. Len(fs) \in Nat /\ g = SubSeq(fs, 1, Len(fs) - 1) BY DEF Front
<1>2. g \in Seq(FrameSet) /\ Len(g) = Len(fs) - 1 BY <1>1
<1>3. \A i \in 1 .. Len(g) : g[i] = fs[i] /\ i \in 1 .. Len(fs) BY <1>1, <1>2
<1>4. Len(g) > 0 BY <1>1, <1>2
<1>5. g # << >> BY <1>4
<1> QED BY <1>2, <1>3, <1>5

(* The last of the frames with another cursor or another part shown.       *)
LastChanged(g, fs, f) ==
  /\ g \in Seq(FrameSet) /\ Len(g) = Len(fs) /\ g[Len(g)] = f
  /\ \A i \in 1 .. Len(g) : i # Len(g) => g[i] = fs[i]

LEMMA LastReplaced ==
  ASSUME NEW fs \in Seq(FrameSet), fs # << >>, NEW f \in FrameSet
  PROVE  LastChanged(Front(fs) \o <<f>>, fs, f)
<1> DEFINE h == SubSeq(fs, 1, Len(fs) - 1)
<1>1. Len(fs) \in Nat /\ Len(fs) > 0 OBVIOUS
<1>2. /\ h \in Seq(FrameSet) /\ Len(h) = Len(fs) - 1
      /\ \A i \in 1 .. Len(fs) - 1 : h[i] = fs[i]
  <2> DEFINE n == Len(fs) - 1
  <2>1. n \in Int /\ n >= 0 /\ \A i \in 1 .. n : fs[i] \in FrameSet BY <1>1
  <2>2. /\ h \in Seq(FrameSet) /\ Len(h) = IF 1 <= n THEN n - 1 + 1 ELSE 0
        /\ \A i \in 1 .. n - 1 + 1 : h[i] = fs[1 + i - 1]
    BY <2>1, SubSeqProperties
  <2> HIDE DEF n, h
  <2>3. Len(h) = n BY <2>1, <2>2
  <2>4. \A i \in 1 .. n : h[i] = fs[i]
    <3> SUFFICES ASSUME NEW i \in 1 .. n PROVE h[i] = fs[i]
      OBVIOUS
    <3>1. i \in 1 .. n - 1 + 1 /\ 1 + i - 1 = i BY <2>1
    <3> QED BY <2>2, <3>1
  <2> QED BY <2>2, <2>3, <2>4 DEF n
<1>4. Front(fs) = h BY DEF Front
<1> HIDE DEF h
<1> QED BY <1>1, <1>2, <1>4 DEF LastChanged

LEMMA LastSet ==
  ASSUME NEW fs \in Seq(FrameSet), fs # << >>, NEW f \in FrameSet
  PROVE  LastChanged([fs EXCEPT ![Len(fs)] = f], fs, f)
<1>1. Len(fs) \in Nat /\ Len(fs) > 0 OBVIOUS
<1> QED BY <1>1 DEF LastChanged

(* Frames of which at most the innermost has lost its last entry.          *)
Drawable(fs, s, c) ==
  /\ fs \in Seq(FrameSet) /\ fs # << >>
  /\ Placed(fs)
  /\ \A i \in 1 .. Len(fs) : Called(fs[i])
  /\ \A i \in 1 .. Len(fs) - 1 : InTable(fs[i], s, c)
  /\ InTable(Last(fs), s, c) \/ Returns(Last(fs), s, c)

(* Drawing a menu keeps the invariant.                                     *)
LEMMA DrawKeeps ==
  ASSUME NEW fs, NEW l \in Heights, NEW s \in 0 .. Units, Units - s \in 0 .. Deployable,
         NEW c \in 0 .. MaxCream, Drawable(fs, s, c), EditorInv, Here, Draw(fs, l, s, c)
  PROVE  MenusInv'
<1> DEFINE kept == IF Returns(Last(fs), s, c) THEN Front(fs) ELSE fs
           top  == Last(kept)
<1>1. /\ fs \in Seq(FrameSet) /\ Len(fs) \in Nat /\ Len(fs) > 0 /\ Last(fs) = fs[Len(fs)]
      /\ \A i \in 1 .. Len(fs) : Called(fs[i])
      /\ \A i \in 1 .. Len(fs) - 1 : InTable(fs[i], s, c)
  BY DEF Last, Drawable
<1>2. /\ kept \in Seq(FrameSet) /\ kept # << >> /\ Len(kept) \in Nat /\ Len(kept) > 0
      /\ \A i \in 1 .. Len(kept) : i \in 1 .. Len(fs) /\ kept[i] = fs[i]
      /\ \A i \in 1 .. Len(kept) : InTable(kept[i], s, c)
  <2>1. CASE Returns(Last(fs), s, c)
    <3>1. Last(fs) \in FrameSet BY <1>1
    <3>2. Last(fs).menu \in Name /\ Menu[Last(fs).menu].returns
      BY <2>1, <3>1 DEF Returns, FrameSet
    <3>3. Last(fs).menu # "main" BY <3>2, MenuParts
    <3>4. Len(fs) # 1 BY <1>1, <3>3 DEF Placed, Drawable
    <3>6. kept = Front(fs) BY <2>1
    <3>5. Len(fs) > 1
      <4>1. PICK n \in Nat : n = Len(fs) /\ n > 0 BY <1>1
      <4>2. n # 1 BY <3>4, <4>1
      <4>3. n > 1 BY <4>1, <4>2
      <4> QED BY <4>1, <4>3
    <3> HIDE DEF kept
    <3>7. /\ kept \in Seq(FrameSet) /\ Len(kept) = Len(fs) - 1 /\ kept # << >>
          /\ \A i \in 1 .. Len(kept) : kept[i] = fs[i] /\ i \in 1 .. Len(fs)
      BY <1>1, <3>5, <3>6, FrontFacts
    <3>8. \A i \in 1 .. Len(kept) : InTable(kept[i], s, c) BY <1>1, <3>7
    <3> QED BY <1>1, <3>5, <3>7, <3>8
  <2>2. CASE ~Returns(Last(fs), s, c)
    <3>1. kept = fs BY <2>2
    <3> HIDE DEF kept
    <3>2. InTable(fs[Len(fs)], s, c) BY <1>1, <2>2 DEF Drawable
    <3>3. \A i \in 1 .. Len(fs) : i = Len(fs) \/ i \in 1 .. Len(fs) - 1 BY <1>1
    <3>4. \A i \in 1 .. Len(fs) : InTable(fs[i], s, c) BY <1>1, <3>2, <3>3
    <3>5. fs # << >> BY DEF Drawable
    <3> QED BY <1>1, <3>1, <3>4, <3>5
  <2> QED BY <2>1, <2>2
<1>3. /\ frames' = IF Menu[top.menu].part > 0
                   THEN Front(kept) \o <<Scrolled(top, Rows(top, l))>> ELSE kept
      /\ lines' = l /\ stored' = s /\ creams' = c
  BY DEF Draw
<1> HIDE DEF kept
<1>4. top = kept[Len(kept)] /\ top \in FrameSet /\ top.menu \in Name
  <2>1. top = kept[Len(kept)] /\ top \in FrameSet BY <1>2 DEF Last
  <2> QED BY <2>1 DEF FrameSet
<1>5. Placed(kept) /\ \A i \in 1 .. Len(kept) : Called(kept[i])
  <2>1. Placed(kept) BY <1>2 DEF Placed, Drawable
  <2> QED BY <1>1, <1>2, <2>1
<1>6. /\ frames' \in Seq(FrameSet) /\ Len(frames') = Len(kept)
      /\ \A i \in 1 .. Len(kept) : /\ frames'[i].menu = kept[i].menu
                                   /\ frames'[i].of = kept[i].of
                                   /\ frames'[i].cur = kept[i].cur
      /\ Menu[top.menu].part > 0 =>
           /\ frames'[Len(kept)].cur \in frames'[Len(kept)].shift ..
                 frames'[Len(kept)].shift + Rows(top, l) - 1
  <2>1. CASE Menu[top.menu].part > 0
    <3> DEFINE g == Scrolled(top, Rows(top, l))
    <3>1. top.menu \notin Loose BY <1>4, <2>1, MenuParts
    <3>2. Table(top, s, c) \in Nat BY <1>2, <1>4, <1>5, TableType
    <3>3. InTable(top, s, c) BY <1>2, <1>4
    <3>4. top.cur \in Nat BY <3>1, <3>2, <3>3 DEF InTable
    <3>5. Rows(top, l) \in Nat /\ Rows(top, l) > 0 BY <1>4, <2>1, RowsFacts
    <3>6. /\ g \in FrameSet /\ g.menu = top.menu /\ g.of = top.of /\ g.cur = top.cur
          /\ g.cur \in g.shift .. g.shift + Rows(top, l) - 1
      BY <1>4, <3>4, <3>5, ScrolledFacts
    <3>7. frames' = Front(kept) \o <<g>> BY <1>3, <2>1
    <3> HIDE DEF g
    <3>8. /\ frames' \in Seq(FrameSet) /\ Len(frames') = Len(kept)
          /\ frames'[Len(frames')] = g
          /\ \A i \in 1 .. Len(frames') : i # Len(frames') => frames'[i] = kept[i]
          /\ \A i \in 1 .. Len(frames') : frames'[i].menu = kept[i].menu /\ frames'[i].of = kept[i].of
      <4>1. kept \in Seq(FrameSet) /\ kept # << >> BY <1>2
      <4>2. LastChanged(frames', kept, g) BY <3>6, <3>7, <4>1, LastReplaced
      <4> QED BY <1>4, <3>6, <4>2 DEF LastChanged
    <3>9. \A i \in 1 .. Len(kept) : frames'[i].cur = kept[i].cur BY <1>4, <3>6, <3>8
    <3> QED BY <3>6, <3>8, <3>9
  <2>2. CASE ~(Menu[top.menu].part > 0)
    <3>1. frames' = kept BY <1>3, <2>2
    <3> QED BY <1>2, <2>2, <3>1
  <2> QED BY <2>1, <2>2
<1>7. Kept(frames', s, c)
  <2>1. Placed(frames') BY <1>5, <1>6 DEF Placed
  <2>2. \A i \in 1 .. Len(kept) : Called(frames'[i])
    BY <1>5, <1>6 DEF Called
  <2>3. \A i \in 1 .. Len(kept) : Table(frames'[i], s, c) = Table(kept[i], s, c)
    <3> SUFFICES ASSUME NEW i \in 1 .. Len(kept)
                 PROVE  Table(frames'[i], s, c) = Table(kept[i], s, c)
      OBVIOUS
    <3>1. frames'[i].menu = kept[i].menu /\ frames'[i].of = kept[i].of BY <1>6
    <3> QED BY <3>1 DEF Table
  <2>4. \A i \in 1 .. Len(kept) : InTable(frames'[i], s, c)
    BY <1>2, <1>6, <2>3 DEF InTable
  <2> QED BY <1>6, <2>1, <2>2, <2>4 DEF Kept
<1>8. SelectedIsShown'
  <2>1. Last(frames') = frames'[Len(kept)] /\ Last(frames').menu = top.menu
    BY <1>2, <1>4, <1>6 DEF Last
  <2>2. Rows(Last(frames'), l) = Rows(top, l) BY <2>1 DEF Rows
  <2> QED BY <1>3, <1>6, <2>1, <2>2 DEF SelectedIsShown, Top
<1>9. EditorInv' BY EditorStep DEF Here
<1>10. ~editing' BY DEF Here, editor
<1>11. Deployed' \in 0 .. Deployable BY <1>3 DEF Deployed
<1> QED BY <1>3, <1>7, <1>8, <1>9, <1>10, <1>11 DEF MenusInv

LEMMA TopFacts ==
  ASSUME MenusInv, frames # << >>
  PROVE  /\ frames \in Seq(FrameSet) /\ Len(frames) \in Nat /\ Len(frames) > 0
         /\ Top = frames[Len(frames)] /\ Top \in FrameSet /\ Top.menu \in Name
         /\ Called(Top) /\ InTable(Top, stored, creams) /\ Entries \in Nat
         /\ Top.menu = "main" <=> Len(frames) = 1
         /\ Top.menu \in Counted => Len(frames) = 2
         /\ Top.menu \notin Loose => Top.cur \in Nat /\ Top.cur < Entries
<1>1. frames \in Seq(FrameSet) /\ Len(frames) \in Nat /\ Len(frames) > 0
  BY DEF MenusInv, Kept
<1>2. Top = frames[Len(frames)] /\ Top \in FrameSet BY <1>1 DEF Top, Last
<1>3. Called(Top) /\ InTable(Top, stored, creams) BY <1>1, <1>2 DEF MenusInv, Kept
<1>4. stored \in 0 .. Units BY DEF MenusInv
<1>5. Entries \in Nat BY <1>2, <1>3, <1>4, TableType DEF Entries
<1>6. Placed(frames) BY DEF MenusInv, Kept
<1>7. Top.menu = "main" <=> Len(frames) = 1
  <2>1. Len(frames) \in 1 .. Len(frames) BY <1>1
  <2>2. frames[Len(frames)].menu = "main" <=> Len(frames) = 1 BY <1>6, <2>1 DEF Placed
  <2> QED BY <1>2, <2>2
<1>8. Top.menu \in Counted => Len(frames) = 2
  <2>1. Len(frames) \in 1 .. Len(frames) BY <1>1
  <2>2. frames[Len(frames)].menu \in Counted => Len(frames) = 2 BY <1>6, <2>1 DEF Placed
  <2> QED BY <1>2, <2>2
<1>9. Top.menu \in Name BY <1>2 DEF FrameSet
<1>10. Top.menu \notin Loose => Top.cur \in Nat /\ Top.cur < Entries
  BY <1>3, <1>5 DEF InTable, Entries
<1> QED BY <1>1, <1>2, <1>3, <1>5, <1>7, <1>8, <1>9, <1>10

LEMMA AtFacts ==
  ASSUME MenusInv, frames # << >>, NEW c \in Int, NEW g, g = [Top EXCEPT !.cur = c]
  PROVE  /\ g \in FrameSet /\ g.menu = Top.menu /\ g.of = Top.of /\ g.cur = c
         /\ LastChanged(At(c), frames, g)
<1>1. Top \in FrameSet /\ Top = frames[Len(frames)] /\ frames \in Seq(FrameSet) BY TopFacts
<1>2. g \in FrameSet /\ g.menu = Top.menu /\ g.of = Top.of /\ g.cur = c
  BY <1>1 DEF FrameSet
<1>3. At(c) = [frames EXCEPT ![Len(frames)] = g] BY <1>1 DEF At
<1>4. LastChanged([frames EXCEPT ![Len(frames)] = g], frames, g) BY <1>1, <1>2, LastSet
<1> QED BY <1>2, <1>3, <1>4

(* The tables of the menus below change only for those below the main one. *)
LEMMA OthersInTable ==
  ASSUME MenusInv, frames # << >>, NEW s, NEW c,
         Top.menu \in Counted \cup {"main"} \/ (s = stored /\ c = creams)
  PROVE  \A i \in 1 .. Len(frames) - 1 : InTable(frames[i], s, c)
<1>1. \A i \in 1 .. Len(frames) : InTable(frames[i], stored, creams)
  BY DEF MenusInv, Kept
<1>2. Len(frames) \in Nat BY TopFacts
<1>3. CASE s = stored /\ c = creams BY <1>1, <1>2, <1>3
<1>4. CASE Top.menu \in Counted \cup {"main"}
  <2> SUFFICES ASSUME NEW i \in 1 .. Len(frames) - 1 PROVE InTable(frames[i], s, c)
    OBVIOUS
  <2>1. Len(frames) = 1 \/ Len(frames) = 2 BY <1>4, TopFacts
  <2>2. i = 1 /\ i \in 1 .. Len(frames)
    <3>1. PICK n \in Nat : n = Len(frames) BY <1>2
    <3>2. n = 1 \/ n = 2 BY <2>1, <3>1
    <3>3. i \in 1 .. n - 1 BY <3>1
    <3>4. i = 1 /\ i \in 1 .. n BY <3>2, <3>3
    <3> QED BY <3>1, <3>4
  <2>3. frames[i].menu = "main" BY <2>2 DEF MenusInv, Kept, Placed
  <2>4. Table(frames[i], s, c) = Table(frames[i], stored, creams)
    BY <2>3, TableStays DEF Counted
  <2> QED BY <1>1, <2>2, <2>4 DEF InTable
<1> QED BY <1>3, <1>4

LEMMA ChangedDrawable ==
  ASSUME MenusInv, frames # << >>, NEW s, NEW c,
         Top.menu \in Counted \cup {"main"} \/ (s = stored /\ c = creams),
         NEW g \in FrameSet, g.menu = Top.menu, g.of = Top.of,
         InTable(g, s, c) \/ Returns(g, s, c),
         NEW fs, LastChanged(fs, frames, g)
  PROVE  Drawable(fs, s, c)
<1>1. /\ frames \in Seq(FrameSet) /\ Len(frames) \in Nat /\ Len(frames) > 0
      /\ Top = frames[Len(frames)] /\ Called(Top)
  BY TopFacts
<1>2. /\ fs \in Seq(FrameSet) /\ Len(fs) = Len(frames) /\ fs[Len(fs)] = g
      /\ \A i \in 1 .. Len(fs) : i # Len(fs) => fs[i] = frames[i]
  BY DEF LastChanged
<1>3. \A i \in 1 .. Len(fs) : fs[i].menu = frames[i].menu /\ fs[i].of = frames[i].of
  BY <1>1, <1>2
<1>4. Placed(frames) /\ \A i \in 1 .. Len(fs) : Called(frames[i])
  BY <1>2 DEF MenusInv, Kept
<1>5. Placed(fs) BY <1>2, <1>3, <1>4 DEF Placed
<1>6. \A i \in 1 .. Len(fs) : Called(fs[i]) BY <1>3, <1>4 DEF Called
<1>7. \A i \in 1 .. Len(frames) - 1 : InTable(frames[i], s, c) BY OthersInTable
<1>8. \A i \in 1 .. Len(fs) - 1 : InTable(fs[i], s, c) BY <1>1, <1>2, <1>7
<1>9. fs # << >> /\ Last(fs) = g BY <1>1, <1>2 DEF Last
<1> QED BY <1>2, <1>5, <1>6, <1>8, <1>9 DEF Drawable

(* A menu that is called has entries, or returns.                          *)
LEMMA FreshFacts ==
  ASSUME NEW f \in FrameSet, Called(f), f.cur = 0, NEW s \in 0 .. Units, NEW c
  PROVE  InTable(f, s, c) \/ Returns(f, s, c)
<1>1. f.menu \in Name /\ Table(f, s, c) \in Nat BY TableType DEF FrameSet
<1>2. CASE f.menu \in {"listmove", "move_unit", "units", "storage", "item"}
  <2>1. Menu[f.menu].returns BY <1>2, MenuFields DEF Fields
  <2> QED BY <1>1, <2>1 DEF InTable, Returns
<1>3. CASE f.menu \in {"main", "list", "fun", "endless"}
  <2>1. Table(f, s, c) = Len(Menu[f.menu].calls)
    BY <1>3, MenusAssumption DEF Table
  <2>2. Table(f, s, c) > 0 BY <1>1, <1>3, <2>1, MenuCalls
  <2> QED BY <1>1, <2>2 DEF InTable
<1>4. CASE f.menu \in DOMAIN Size
  <2>0. DOMAIN Size = {"wp", "move", "effect", "type"} BY MenusAssumption
  <2>1. Table(f, s, c) = Size[f.menu] BY <1>4, <2>0 DEF Table
  <2>2. Size[f.menu] \in Nat \ {0} BY <1>4, MenusAssumption
  <2> QED BY <2>1, <2>2 DEF InTable
<1>5. CASE f.menu = "tutorial"
  <2>1. Table(f, s, c) = Len(Below["tutorial"]) BY <1>5, MenusAssumption DEF Table
  <2>2. Below["tutorial"] \in Seq(Nat) /\ Below["tutorial"] # << >> BY MenusAssumption
  <2>3. Len(Below["tutorial"]) > 0 BY <2>2
  <2> QED BY <1>1, <2>1, <2>3 DEF InTable
<1>6. CASE f.menu \in Loose BY <1>6 DEF InTable
<1>7. DOMAIN Size = {"wp", "move", "effect", "type"} BY MenusAssumption
<1> QED BY <1>1, <1>2, <1>3, <1>4, <1>5, <1>6, <1>7 DEF Name, Loose

LEMMA CalledDrawable ==
  ASSUME MenusInv, frames # << >>, NEW s \in 0 .. Units, NEW c,
         Top.menu \in Counted \cup {"main"} \/ (s = stored /\ c = creams),
         InTable(Top, s, c),
         NEW m \in Name, m # "main", m \in Counted => Len(frames) = 1,
         NEW of \in Nat, NEW f, f = Frame(m, of), Called(f)
  PROVE  Drawable(Append(frames, f), s, c)
<1>1. /\ frames \in Seq(FrameSet) /\ Len(frames) \in Nat /\ Len(frames) > 0
      /\ Top = frames[Len(frames)]
  BY TopFacts
<1>2. f \in FrameSet /\ f.menu = m /\ f.cur = 0 BY DEF Frame, FrameSet
<1>3. InTable(f, s, c) \/ Returns(f, s, c) BY <1>2, FreshFacts
<1>4. PICK fs : fs = Append(frames, f) OBVIOUS
<1>5. /\ fs \in Seq(FrameSet) /\ Len(fs) = Len(frames) + 1 /\ fs[Len(fs)] = f
      /\ \A i \in 1 .. Len(frames) : fs[i] = frames[i]
  BY <1>1, <1>2, <1>4
<1>6. \A i \in 1 .. Len(fs) : i \in 1 .. Len(frames) \/ (i = Len(fs) /\ i # 1) BY <1>1, <1>5
<1>7. Placed(frames) /\ \A i \in 1 .. Len(frames) : Called(frames[i])
  BY DEF MenusInv, Kept
<1>8. Placed(fs)
  <2> SUFFICES ASSUME NEW i \in 1 .. Len(fs)
               PROVE  /\ fs[i].menu = "main" <=> i = 1
                      /\ fs[i].menu \in Counted => i = 2
    BY DEF Placed
  <2>1. CASE i \in 1 .. Len(frames) BY <1>5, <1>7, <2>1 DEF Placed
  <2>2. CASE i = Len(fs) /\ i # 1 BY <1>1, <1>2, <1>5, <2>2
  <2> QED BY <1>6, <2>1, <2>2
<1>9. \A i \in 1 .. Len(fs) : Called(fs[i]) BY <1>5, <1>6, <1>7
<1>10. \A i \in 1 .. Len(frames) - 1 : InTable(frames[i], s, c) BY OthersInTable
<1>11. \A i \in 1 .. Len(frames) : i \in 1 .. Len(frames) - 1 \/ i = Len(frames) BY <1>1
<1>12. \A i \in 1 .. Len(frames) : InTable(fs[i], s, c) BY <1>1, <1>5, <1>10, <1>11
<1>13. fs # << >> /\ Last(fs) = f /\ Len(fs) - 1 = Len(frames) BY <1>1, <1>5 DEF Last
<1> QED BY <1>3, <1>4, <1>5, <1>8, <1>9, <1>12, <1>13 DEF Drawable

-----------------------------------------------------------------------------
(* The keys.                                                               *)

(* Drawing the frames that there are on the same tables.                   *)
LEMMA SameDrawn ==
  ASSUME MenusInv, Here, NEW l \in Heights, Draw(frames, l, stored, creams)
  PROVE  MenusInv'
<1>1. frames # << >> BY DEF Here
<1>2. /\ frames \in Seq(FrameSet) /\ Placed(frames)
      /\ \A i \in 1 .. Len(frames) : Called(frames[i])
  BY DEF MenusInv, Kept
<1>3. \A i \in 1 .. Len(frames) - 1 : InTable(frames[i], stored, creams)
  BY <1>1, OthersInTable
<1>4. InTable(Last(frames), stored, creams) BY <1>1, TopFacts DEF Top
<1>5. Drawable(frames, stored, creams) BY <1>1, <1>2, <1>3, <1>4 DEF Drawable
<1>6. /\ EditorInv /\ stored \in 0 .. Units /\ creams \in 0 .. MaxCream
      /\ Units - stored \in 0 .. Deployable
  BY DEF MenusInv, Deployed
<1> QED BY <1>5, <1>6, DrawKeeps

LEMMA StepKeeps ==
  ASSUME MenusInv, NEW d \in {1, -1}, Step(d) PROVE MenusInv'
<1> DEFINE to == Ring(Top.cur + d, Entries)
           c  == IF Top.menu = "item" /\ to = Entries - 1 THEN Ring(to + d, Entries) ELSE to
           g  == [Top EXCEPT !.cur = c]
<1>1. Here /\ frames # << >> /\ Shown(At(c)) BY DEF Step, Here
<1>2. Top \in FrameSet /\ Top.cur \in Int /\ Entries \in Nat /\ d \in Int
  BY <1>1, TopFacts DEF FrameSet
<1>3. \A x \in Int : /\ Ring(x, Entries) \in Int
                     /\ Entries > 0 => Ring(x, Entries) \in 0 .. Entries - 1
  BY <1>2 DEF Ring
<1>4. to \in Int /\ (Entries > 0 => to \in 0 .. Entries - 1)
  <2>1. Top.cur + d \in Int BY <1>2
  <2> QED BY <1>3, <2>1
<1> HIDE DEF to
<1>5. c \in Int /\ (Entries > 0 => c \in 0 .. Entries - 1)
  <2>1. to + d \in Int BY <1>2, <1>4
  <2>2. Ring(to + d, Entries) \in Int /\ (Entries > 0 => Ring(to + d, Entries) \in 0 .. Entries - 1)
    BY <1>3, <2>1
  <2> QED BY <1>4, <2>2
<1> HIDE DEF c
<1>6. /\ g \in FrameSet /\ g.menu = Top.menu /\ g.of = Top.of /\ g.cur = c
      /\ LastChanged(At(c), frames, g)
  BY <1>1, <1>5, AtFacts
<1> HIDE DEF g
<1>7. InTable(g, stored, creams)
  <2>1. Top.menu \notin Loose => Entries > 0 BY <1>1, <1>2, TopFacts
  <2>2. Table(g, stored, creams) = Entries BY <1>6 DEF Table, Entries
  <2> QED BY <1>5, <1>6, <2>1, <2>2 DEF InTable
<1>8. Drawable(At(c), stored, creams) BY <1>1, <1>6, <1>7, ChangedDrawable
<1>9. /\ EditorInv /\ stored \in 0 .. Units /\ creams \in 0 .. MaxCream
      /\ Units - stored \in 0 .. Deployable /\ lines \in Heights
  BY DEF MenusInv, Deployed
<1> QED BY <1>1, <1>8, <1>9, DrawKeeps DEF Shown

(* Calling a menu that shows what is at the cursor.                        *)
LEMMA IntoKeeps ==
  ASSUME MenusInv, Here, NEW m \in Name, m # "main", m \in Counted => Len(frames) = 1,
         Top.menu \notin Loose, Called(Frame(m, Top.cur)), Into(m)
  PROVE  MenusInv'
<1>1. frames # << >> BY DEF Here
<1>2. Top.cur \in Nat /\ InTable(Top, stored, creams) BY <1>1, TopFacts
<1>3. /\ EditorInv /\ stored \in 0 .. Units /\ creams \in 0 .. MaxCream
      /\ Units - stored \in 0 .. Deployable /\ lines \in Heights
  BY DEF MenusInv, Deployed
<1>4. Drawable(Append(frames, Frame(m, Top.cur)), stored, creams)
  BY <1>1, <1>2, <1>3, CalledDrawable
<1> QED BY <1>3, <1>4, DrawKeeps DEF Into, Shown

LEMMA OpenKeeps == ASSUME MenusInv, Open PROVE MenusInv'
<1>1. Here /\ frames # << >> BY DEF Open, Here
<1>2. Top.menu \in Name /\ (Top.menu = "main" <=> Len(frames) = 1) BY <1>1, TopFacts
<1>3. CASE Call \notin {"", "battle", "exit"} /\ Into(Call)
  <2> DEFINE calls == Menu[Top.menu].calls
  <2>1. calls # << >> /\ Call = calls[Top.cur + 1] BY <1>3 DEF Call
  <2>2. Top.menu \in {"main", "list", "fun", "endless"} BY <1>2, <2>1, MenuCalls
  <2>3. Top.menu \notin Loose BY <2>2 DEF Loose
  <2>4. Entries = Len(calls) BY <2>2, MenusAssumption DEF Entries, Table
  <2>5. Top.cur + 1 \in 1 .. Len(calls) BY <1>1, <2>3, <2>4, TopFacts
  <2> HIDE DEF calls
  <2>6. Call \in CalledBy(Top.menu) \cup {"battle", "exit"}
    BY <1>2, <2>1, <2>5, MenuCalls DEF calls
  <2>7. Call \in CalledBy(Top.menu) BY <1>3, <2>6
  <2>8. \/ Top.menu = "main" /\ Call \in Submenu
        \/ Call \in Listed
    BY <2>7 DEF CalledBy
  <2>9. Call \in Name /\ Call # "main" BY <2>8 DEF Submenu, Listed, Name
  <2>10. Call \in Counted => Len(frames) = 1 BY <1>2, <2>8 DEF Listed, Counted
  <2>11. Called(Frame(Call, Top.cur)) BY <2>8 DEF Called, Frame, Submenu, Listed
  <2> QED BY <1>1, <1>3, <2>3, <2>9, <2>10, <2>11, IntoKeeps
<1>4. CASE Menu[Top.menu].shows # "" /\ Into(Menu[Top.menu].shows)
  <2> DEFINE m == Menu[Top.menu].shows
  <2>1. \/ Top.menu = "wp" /\ m = "listmove"
        \/ Top.menu = "move" /\ m = "move_unit"
        \/ Top.menu = "tutorial" /\ m = "show_tutorial"
    BY <1>2, <1>4, MenuParts
  <2>2. Into(m) BY <1>4
  <2> HIDE DEF m
  <2>3. m \in Name /\ m # "main" /\ m \notin Counted BY <2>1 DEF Name, Counted
  <2>4. Top.menu \notin Loose BY <2>1 DEF Loose
  <2>5. Top.cur < Entries BY <1>1, <2>4, TopFacts
  <2>6. Entries = Len(Below[Top.menu])
    <3>1. DOMAIN Size = {"wp", "move", "effect", "type"} BY MenusAssumption
    <3>2. Size["wp"] = Len(Below["wp"]) /\ Size["move"] = Len(Below["move"])
      BY MenusAssumption
    <3>3. CASE Top.menu = "wp" BY <3>1, <3>2, <3>3 DEF Entries, Table
    <3>4. CASE Top.menu = "move" BY <3>1, <3>2, <3>4 DEF Entries, Table
    <3>5. CASE Top.menu = "tutorial" BY <3>1, <3>5 DEF Entries, Table
    <3> QED BY <2>1, <3>3, <3>4, <3>5
  <2>7. Called(Frame(m, Top.cur)) BY <2>1, <2>5, <2>6 DEF Called, Frame
  <2> QED BY <1>1, <2>2, <2>3, <2>4, <2>7, IntoKeeps
<1> QED BY <1>3, <1>4 DEF Open

(* A menu that is left: the one below it has its table as it was.          *)
LEMMA BackKeeps == ASSUME MenusInv, Back PROVE MenusInv'
<1>1. Here /\ frames # << >> /\ Len(frames) > 1 /\ Shown(Front(frames)) BY DEF Back, Here
<1>2. /\ frames \in Seq(FrameSet) /\ Placed(frames) /\ Len(frames) \in Nat
      /\ \A i \in 1 .. Len(frames) :
           Called(frames[i]) /\ InTable(frames[i], stored, creams)
  BY DEF MenusInv, Kept
<1>3. PICK fs : fs = Front(frames) OBVIOUS
<1>4. /\ fs \in Seq(FrameSet) /\ Len(fs) = Len(frames) - 1 /\ fs # << >>
      /\ \A i \in 1 .. Len(fs) : fs[i] = frames[i] /\ i \in 1 .. Len(frames)
  BY <1>1, <1>2, <1>3, FrontFacts
<1>5. \A i \in 1 .. Len(fs) : Called(fs[i]) /\ InTable(fs[i], stored, creams)
  BY <1>2, <1>4
<1>6. Placed(fs) BY <1>2, <1>4 DEF Placed
<1>7. Len(fs) \in 1 .. Len(fs) /\ Last(fs) = fs[Len(fs)] BY <1>4 DEF Last
<1>8. \A i \in 1 .. Len(fs) - 1 : i \in 1 .. Len(fs) BY <1>7
<1>9. Drawable(fs, stored, creams) BY <1>4, <1>5, <1>6, <1>7, <1>8 DEF Drawable
<1>10. /\ EditorInv /\ stored \in 0 .. Units /\ creams \in 0 .. MaxCream
       /\ Units - stored \in 0 .. Deployable /\ lines \in Heights
  BY DEF MenusInv, Deployed
<1> QED BY <1>1, <1>3, <1>9, <1>10, DrawKeeps DEF Shown

LEMMA QuitKeeps == ASSUME MenusInv, Quit PROVE MenusInv'
<1>1. /\ frames' = << >> /\ lines' = lines /\ stored' = stored /\ creams' = creams
      /\ ~editing /\ UNCHANGED editor
  BY DEF Quit, Here
<1>2. EditorInv' /\ ~editing' BY <1>1, EditorStep DEF MenusInv, editor
<1>3. Kept(<< >>, stored, creams) BY DEF Kept, Placed
<1>4. /\ lines' \in Heights /\ stored' \in 0 .. Units /\ creams' \in 0 .. MaxCream
      /\ Deployed' \in 0 .. Deployable
  BY <1>1 DEF MenusInv, Deployed
<1>5. SelectedIsShown' BY <1>1 DEF SelectedIsShown
<1>6. Kept(frames, stored, creams)' BY <1>1, <1>3 DEF Kept, InTable, Table
<1> QED BY <1>2, <1>4, <1>5, <1>6 DEF MenusInv

(* The innermost menu is drawn with another cursor on a table that changed.*)
LEMMA AtKeeps ==
  ASSUME MenusInv, Here, Top.menu \in Counted, NEW to \in Int,
         NEW s \in 0 .. Units, Units - s \in 0 .. Deployable, NEW c \in 0 .. MaxCream,
         \/ to \in 0 .. Table(Top, s, c) - 1
         \/ Menu[Top.menu].returns /\ Table(Top, s, c) = 0,
         Draw(At(to), lines, s, c)
  PROVE  MenusInv'
<1> DEFINE g == [Top EXCEPT !.cur = to]
<1>1. frames # << >> BY DEF Here
<1>2. /\ g \in FrameSet /\ g.menu = Top.menu /\ g.of = Top.of /\ g.cur = to
      /\ LastChanged(At(to), frames, g)
  BY <1>1, AtFacts
<1> HIDE DEF g
<1>3. Table(g, s, c) = Table(Top, s, c) BY <1>2 DEF Table
<1>4. InTable(g, s, c) \/ Returns(g, s, c) BY <1>2, <1>3 DEF InTable, Returns
<1>5. Drawable(At(to), s, c) BY <1>1, <1>2, <1>4, ChangedDrawable
<1>6. EditorInv /\ lines \in Heights BY DEF MenusInv
<1> QED BY <1>5, <1>6, DrawKeeps

LEMMA BattleKeeps == ASSUME MenusInv, Battle PROVE MenusInv'
<1>1. Here /\ frames # << >> BY DEF Battle, Here
<1>2. lines \in Heights BY DEF MenusInv
<1>3. CASE Shown(frames) BY <1>1, <1>2, <1>3, SameDrawn DEF Shown
<1>4. CASE /\ Top.menu = "main" /\ Deployed > 0 /\ creams < MaxCream
           /\ Draw(Append(frames, Frame("giveitem", 0)), lines, stored, creams + 1)
  <2>1. /\ EditorInv /\ stored \in 0 .. Units /\ creams + 1 \in 0 .. MaxCream
        /\ Units - stored \in 0 .. Deployable
    BY <1>4, MenusAssumption DEF MenusInv, Deployed
  <2>2. InTable(Top, stored, creams) BY <1>1, TopFacts
  <2>3. InTable(Top, stored, creams + 1)
    BY <1>4, <2>2, TableStays DEF InTable, Counted
  <2>4. "giveitem" \in Name /\ "giveitem" \notin Counted /\ Called(Frame("giveitem", 0))
    BY DEF Name, Counted, Called, Frame
  <2>5. Drawable(Append(frames, Frame("giveitem", 0)), stored, creams + 1)
    BY <1>1, <1>4, <2>1, <2>3, <2>4, CalledDrawable
  <2> QED BY <1>1, <1>2, <1>4, <2>1, <2>5, DrawKeeps
<1> QED BY <1>3, <1>4 DEF Battle

LEMMA DeployKeeps == ASSUME MenusInv, Deploy PROVE MenusInv'
<1>1. Here /\ frames # << >> /\ Top.menu = "storage" BY DEF Deploy, Here
<1>2. Top.menu \in Counted /\ Top.menu \notin Loose BY <1>1 DEF Counted, Loose
<1>3. \A s, c : Table(Top, s, c) = s BY <1>1, MenusAssumption DEF Table
<1>4. Top.cur \in Nat /\ Top.cur < stored BY <1>1, <1>2, <1>3, TopFacts DEF Entries
<1>5. /\ Units \in Nat /\ Deployable \in Nat /\ stored \in 0 .. Units
      /\ Units - stored \in 0 .. Deployable /\ creams \in 0 .. MaxCream
  BY MenusAssumption DEF MenusInv, Deployed
<1>6. CASE Deployed = Deployable
  <2>1. Into("msgbox") BY <1>6 DEF Deploy
  <2>2. /\ "msgbox" \in Name /\ "msgbox" \notin Counted
        /\ Called(Frame("msgbox", Top.cur))
    BY DEF Name, Counted, Called, Frame
  <2> QED BY <1>1, <1>2, <2>1, <2>2, IntoKeeps
<1>7. CASE Deployed # Deployable
  <2> DEFINE to == Limit(Top.cur, stored - 2)
  <2>1. Draw(At(to), lines, stored - 1, creams) BY <1>7 DEF Deploy
  <2>2. stored - 1 \in 0 .. Units /\ Units - (stored - 1) \in 0 .. Deployable
    BY <1>4, <1>5, <1>7 DEF Deployed
  <2>3. to \in Int /\ (stored - 1 > 0 => to \in 0 .. stored - 1 - 1)
    BY <1>4, <1>5 DEF Limit
  <2> HIDE DEF to
  <2>4. Menu[Top.menu].returns BY <1>1, MenuFields DEF Fields
  <2>5. \/ to \in 0 .. Table(Top, stored - 1, creams) - 1
        \/ Menu[Top.menu].returns /\ Table(Top, stored - 1, creams) = 0
    BY <1>3, <2>2, <2>3, <2>4
  <2> QED BY <1>1, <1>2, <1>5, <2>1, <2>2, <2>3, <2>5, AtKeeps
<1> QED BY <1>6, <1>7

LEMMA StoreKeeps == ASSUME MenusInv, Store PROVE MenusInv'
<1> DEFINE to == Limit(Top.cur, Deployed - 2)
<1>1. /\ Here /\ frames # << >> /\ Top.menu = "units"
      /\ Draw(At(to), lines, stored + 1, creams)
  BY DEF Store, Here
<1>2. Top.menu \in Counted /\ Top.menu \notin Loose BY <1>1 DEF Counted, Loose
<1>3. \A s, c : Table(Top, s, c) = Units - s BY <1>1, MenusAssumption DEF Table
<1>4. Top.cur \in Nat /\ Top.cur < Units - stored
  BY <1>1, <1>2, <1>3, TopFacts DEF Entries
<1>5. /\ Units \in Nat /\ Deployable \in Nat /\ stored \in 0 .. Units
      /\ Units - stored \in 0 .. Deployable /\ creams \in 0 .. MaxCream
  BY MenusAssumption DEF MenusInv, Deployed
<1>6. stored + 1 \in 0 .. Units /\ Units - (stored + 1) \in 0 .. Deployable
  BY <1>4, <1>5
<1>7. to \in Int /\ (Units - (stored + 1) > 0 => to \in 0 .. Units - (stored + 1) - 1)
  BY <1>4, <1>5 DEF Limit, Deployed
<1> HIDE DEF to
<1>8. Menu[Top.menu].returns BY <1>1, MenuFields DEF Fields
<1>9. \/ to \in 0 .. Table(Top, stored + 1, creams) - 1
      \/ Menu[Top.menu].returns /\ Table(Top, stored + 1, creams) = 0
  BY <1>3, <1>6, <1>7, <1>8
<1> QED BY <1>1, <1>2, <1>5, <1>6, <1>7, <1>9, AtKeeps

LEMMA UseItemKeeps == ASSUME MenusInv, UseItem PROVE MenusInv'
<1>1. /\ Here /\ frames # << >> /\ Top.menu = "item"
      /\ Draw(frames, lines, stored, creams - 1)
  BY DEF UseItem, Here
<1>2. Top.menu \in Counted /\ Top.menu \notin Loose BY <1>1 DEF Counted, Loose
<1>3. \A s, c : Table(Top, s, c) = IF c > 0 THEN 2 ELSE 0
  BY <1>1, MenusAssumption DEF Table
<1>4. Top.cur \in Nat /\ Top.cur < Table(Top, stored, creams)
  BY <1>1, <1>2, TopFacts DEF Entries
<1>5. /\ stored \in 0 .. Units /\ Units - stored \in 0 .. Deployable
      /\ MaxCream \in Nat /\ creams \in 0 .. MaxCream /\ EditorInv /\ lines \in Heights
  BY MenusAssumption DEF MenusInv, Deployed
<1>6. creams > 0 /\ Top.cur < 2 /\ creams - 1 \in 0 .. MaxCream BY <1>3, <1>4, <1>5
<1>7. Menu[Top.menu].returns BY <1>1, MenuFields DEF Fields
<1>8. InTable(Top, stored, creams - 1) \/ Returns(Top, stored, creams - 1)
  <2>1. Table(Top, stored, creams - 1) = 2 \/ Table(Top, stored, creams - 1) = 0
    BY <1>3
  <2>2. CASE Table(Top, stored, creams - 1) = 2
    BY <1>4, <1>6, <2>2 DEF InTable
  <2>3. CASE Table(Top, stored, creams - 1) = 0 BY <1>7, <2>3 DEF Returns
  <2> QED BY <2>1, <2>2, <2>3
<1>9. Top \in FrameSet /\ LastChanged(frames, frames, Top)
  BY <1>1, TopFacts DEF LastChanged
<1>10. Drawable(frames, stored, creams - 1)
  BY <1>1, <1>2, <1>8, <1>9, ChangedDrawable
<1> QED BY <1>1, <1>5, <1>6, <1>10, DrawKeeps

LEMMA MovesKeep == ASSUME MenusInv, Moves PROVE MenusInv'
<1>1. /\ frames # << >> /\ Top.menu = "units"
      /\ frames' = frames /\ lines' = lines /\ stored' = stored /\ creams' = creams
      /\ WriteMove \/ Rise \/ Reload \/ Edit
  BY DEF Moves, menus
<1>2. EditorInv' BY <1>1, EditorStep DEF MenusInv
<1>3. Kept(frames, stored, creams)' BY <1>1 DEF MenusInv, Kept, InTable, Table
<1>4. SelectedIsShown' BY <1>1 DEF MenusInv, SelectedIsShown, Top, Rows
<1> QED BY <1>1, <1>2, <1>3, <1>4 DEF MenusInv, Deployed, Top

LEMMA MenusStep == ASSUME MenusInv, [Next]_vars PROVE MenusInv'
<1>1. CASE Step(1) \/ Step(-1) BY <1>1, StepKeeps
<1>2. CASE Resize
  <2>1. Here /\ \E l \in Heights : Draw(frames, l, stored, creams) BY <1>2 DEF Resize
  <2> QED BY <2>1, SameDrawn
<1>3. CASE Exit \/ Escape BY <1>3, BackKeeps, QuitKeeps DEF Exit, Escape
<1>4. CASE UNCHANGED vars
  <2>1. EditorInv' BY <1>4, EditorStep DEF MenusInv, vars
  <2>2. frames' = frames /\ lines' = lines /\ stored' = stored /\ creams' = creams
    BY <1>4 DEF vars, menus
  <2>3. Kept(frames, stored, creams)' BY <2>2 DEF MenusInv, Kept, InTable, Table
  <2>4. SelectedIsShown' BY <2>2 DEF MenusInv, SelectedIsShown, Top, Rows
  <2>5. editing' = editing BY <1>4 DEF vars, editor
  <2> QED BY <2>1, <2>2, <2>3, <2>4, <2>5 DEF MenusInv, Deployed, Top
<1> QED
  BY <1>1, <1>2, <1>3, <1>4, OpenKeeps, BattleKeeps, DeployKeeps, StoreKeeps,
     UseItemKeeps, MovesKeep
  DEF Next

LEMMA MenusInitInv == Init => MenusInv
<1> SUFFICES ASSUME Init PROVE MenusInv
  OBVIOUS
<1> DEFINE f == Frame("main", 0)
<1>1. /\ frames = <<f>> /\ lines \in Heights /\ stored \in 0 .. Units
      /\ Deployed <= Deployable /\ creams = 0
  BY DEF Init
<1>2. f \in FrameSet /\ f.menu = "main" /\ f.cur = 0 BY DEF Frame, FrameSet, Name
<1> HIDE DEF f
<1>3. Called(f) BY <1>2 DEF Called
<1>4. ~Menu["main"].returns /\ Menu["main"].part = 0 BY MenuFields DEF Fields
<1>5. InTable(f, stored, creams) BY <1>1, <1>2, <1>3, <1>4, FreshFacts DEF Returns
<1>6. Placed(frames) BY <1>1, <1>2 DEF Placed, Counted
<1>7. /\ frames \in Seq(FrameSet) /\ Len(frames) = 1 /\ frames[1] = f
  BY <1>1, <1>2
<1>8. Kept(frames, stored, creams) BY <1>3, <1>5, <1>6, <1>7 DEF Kept
<1>9. SelectedIsShown
  <2>1. Top = f BY <1>7 DEF Top, Last
  <2> QED BY <1>2, <1>4, <2>1 DEF SelectedIsShown
<1>10. EditorInv /\ ~editing BY EditorInitInv DEF Init, EditorInit
<1>11. Deployed \in 0 .. Deployable /\ creams \in 0 .. MaxCream
  BY <1>1, MenusAssumption DEF Deployed
<1> QED BY <1>1, <1>8, <1>9, <1>10, <1>11 DEF MenusInv

-----------------------------------------------------------------------------
(* The properties of the menus.                                            *)

(* Whatever keys are pressed, however the screen is resized and whatever   *)
(* the menus do to their tables, the calls, the tables and what is edited  *)
(* fit together.                                                           *)
THEOREM MenusInvariant == Spec => []MenusInv
BY MenusInitInv, MenusStep, PTL DEF Spec

(* The entry that a menu of menu.c or fun.c takes from its table is in the *)
(* table and among those that are drawn, for tables, screens and numbers   *)
(* of units of any size.                                                   *)
THEOREM EntryIsShown == Spec => []CursorIsShown
<1>1. MenusInv => CursorIsShown
  <2> SUFFICES ASSUME MenusInv PROVE CursorIsShown
    OBVIOUS
  <2>1. /\ frames \in Seq(FrameSet)
        /\ \A i \in 1 .. Len(frames) : InTable(frames[i], stored, creams)
    BY DEF MenusInv, Kept
  <2>2. DOMAIN frames = 1 .. Len(frames) /\ \A i \in 1 .. Len(frames) : frames[i] \in FrameSet
    BY <2>1
  <2>3. \A i \in DOMAIN frames : frames[i].cur \in Int /\ frames[i].shift \in Nat
    BY <2>2 DEF FrameSet
  <2>4. TypeOK BY <2>3 DEF MenusInv, EditorInv, TypeOK
  <2>5. CursorInTable BY <2>1, <2>2 DEF CursorInTable, InTable, Loose
  <2>6. SelectedIsShown BY DEF MenusInv
  <2> QED BY <2>4, <2>5, <2>6 DEF CursorIsShown
<1> QED BY <1>1, MenusInvariant, PTL

(* Of the steps of the menus only those of writemove() and of the units    *)
(* change what is edited.                                                  *)
LEMMA EditorMoves ==
  ASSUME [Next]_vars PROVE WriteMove \/ Rise \/ Reload \/ Edit \/ UNCHANGED editor
BY DEF Next, vars, Step, Resize, Open, Battle, Exit, Escape, Quit, Back, Deploy, Store,
       UseItem, Moves, Here

(* Until the last of the moves is lowered writemove() chooses no move      *)
(* twice, compares no empty slot and leaves no hole, for any number of     *)
(* slots and any moves that the species learns.                            *)
THEOREM HolesHarm == Spec => HolesAreTheOnlyHarm
<1>1. MenusInv => WholeUntilAHole BY DEF MenusInv, EditorInv
<1>2. MenusInv /\ [Next]_vars => [~holed /\ holed' => Lower]_editor
  <2> SUFFICES ASSUME MenusInv, [Next]_vars, ~UNCHANGED editor, ~holed, holed' PROVE Lower
    OBVIOUS
  <2> QED BY EditorMoves, HolesStep DEF MenusInv
<1> QED BY <1>1, <1>2, MenusInvariant, PTL DEF Spec, HolesAreTheOnlyHarm, HolesByLowering

(* A command of writemove() adds the move under the cursor once, or drops  *)
(* it once, or only reorders the moves.                                    *)
THEOREM SelectedChanges == Spec => OnlyTheSelectedChanges
<1> DEFINE A == editing /\ editing' =>
       \A m \in Move :
         \/ Times(chosen', m) = Times(chosen, m)
         \/ /\ ~OnSlot /\ m = Learned[at + 1][2]
            /\ Times(chosen', m) = Times(chosen, m) + 1
         \/ /\ OnSlot /\ m = chosen[at - R]
            /\ Times(chosen', m) = Times(chosen, m) - 1
<1>1. MenusInv /\ [Next]_vars => [A]_editor
  <2> SUFFICES ASSUME MenusInv, [Next]_vars, ~UNCHANGED editor, editing, editing',
                      NEW m \in Move
               PROVE  \/ Times(chosen', m) = Times(chosen, m)
                      \/ /\ ~OnSlot /\ m = Learned[at + 1][2]
                         /\ Times(chosen', m) = Times(chosen, m) + 1
                      \/ /\ OnSlot /\ m = chosen[at - R]
                         /\ Times(chosen', m) = Times(chosen, m) - 1
    OBVIOUS
  <2> QED BY EditorMoves, SelectedStep DEF MenusInv
<1>2. []MenusInv /\ [][Next]_vars => [][A]_editor BY <1>1, PTL
<1> QED BY <1>2, MenusInvariant DEF Spec, OnlyTheSelectedChanges
=============================================================================
