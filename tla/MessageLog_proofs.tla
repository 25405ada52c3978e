-------------------------- MODULE MessageLog_proofs --------------------------
(***************************************************************************)
(* The searches in the record of messages, for a record of any length with *)
(* any nesting of moves, events and hooks: they never leave the record,    *)
(* and without moon_elf_shield they find what ran and what it caused.      *)
(***************************************************************************)
EXTENDS MessageLog, NaturalSets, SequenceTheorems, TLAPS

-----------------------------------------------------------------------------
(* Beginnings and ends in a record.                                        *)

LEMMA CountType ==
  ASSUME NEW s, NEW t, NEW a \in Nat, NEW z \in Nat
  PROVE  Count(s, t, a, z) \in Nat /\ (a > z => Count(s, t, a, z) = 0)
<1>1. IsFiniteSet(a .. z) BY FS_Interval
<1>2. IsFiniteSet({k \in a .. z : s[k].type = t}) BY <1>1, FS_Subset
<1>3. a > z => {k \in a .. z : s[k].type = t} = {} OBVIOUS
<1> QED BY <1>2, <1>3, FS_CardinalityType, FS_EmptySet DEF Count

LEMMA CountFirst ==
  ASSUME NEW s, NEW t, NEW a \in Nat, NEW z \in Nat, a <= z
  PROVE  Count(s, t, a, z) = Count(s, t, a + 1, z) + (IF s[a].type = t THEN 1 ELSE 0)
<1> DEFINE S == {k \in a + 1 .. z : s[k].type = t}
           T == {k \in a .. z : s[k].type = t}
<1>1. IsFiniteSet(S)
  <2>1. IsFiniteSet(a + 1 .. z) BY FS_Interval
  <2> QED BY <2>1, FS_Subset
<1>2. a \notin S OBVIOUS
<1>3. T = IF s[a].type = t THEN S \cup {a} ELSE S
  <2>1. \A k \in a .. z : k = a \/ k \in a + 1 .. z OBVIOUS
  <2>2. a + 1 .. z \subseteq a .. z /\ a \in a .. z OBVIOUS
  <2> QED BY <2>1, <2>2
<1>4. Cardinality(S \cup {a}) = Cardinality(S) + 1
  BY <1>1, <1>2, FS_AddElement
<1>5. Cardinality(S) \in Nat BY <1>1, FS_CardinalityType
<1>6. Count(s, t, a, z) = Cardinality(T) /\ Count(s, t, a + 1, z) = Cardinality(S)
  BY DEF Count
<1> HIDE DEF S, T
<1> QED BY <1>3, <1>4, <1>5, <1>6

LEMMA CountLast ==
  ASSUME NEW s, NEW t, NEW a \in Nat, NEW z \in Nat, a <= z + 1
  PROVE  Count(s, t, a, z + 1) = Count(s, t, a, z) + (IF s[z + 1].type = t THEN 1 ELSE 0)
<1> DEFINE S == {k \in a .. z : s[k].type = t}
           T == {k \in a .. z + 1 : s[k].type = t}
<1>1. IsFiniteSet(S)
  <2>1. IsFiniteSet(a .. z) BY FS_Interval
  <2> QED BY <2>1, FS_Subset
<1>2. z + 1 \notin S OBVIOUS
<1>3. T = IF s[z + 1].type = t THEN S \cup {z + 1} ELSE S
  <2>1. \A k \in a .. z + 1 : k = z + 1 \/ k \in a .. z OBVIOUS
  <2>2. a .. z \subseteq a .. z + 1 /\ z + 1 \in a .. z + 1 OBVIOUS
  <2> QED BY <2>1, <2>2
<1>4. Cardinality(S \cup {z + 1}) = Cardinality(S) + 1
  BY <1>1, <1>2, FS_AddElement
<1>5. Cardinality(S) \in Nat BY <1>1, FS_CardinalityType
<1>6. Count(s, t, a, z + 1) = Cardinality(T) /\ Count(s, t, a, z) = Cardinality(S)
  BY DEF Count
<1> HIDE DEF S, T
<1> QED BY <1>3, <1>4, <1>5, <1>6

LEMMA CountSame ==
  ASSUME NEW s, NEW u, NEW t, NEW a \in Nat, NEW z \in Nat, \A k \in a .. z : s[k] = u[k]
  PROVE  Count(s, t, a, z) = Count(u, t, a, z)
<1>1. {k \in a .. z : s[k].type = t} = {k \in a .. z : u[k].type = t} OBVIOUS
<1> QED BY <1>1 DEF Count

(* How many more begin than end from k to z.                               *)
Depth(s, k, z) == Count(s, "begin", k, z) - Count(s, "end", k, z)
Turn(t) == IF t = "begin" THEN 1 ELSE IF t = "end" THEN -1 ELSE 0

LEMMA DepthFacts ==
  ASSUME NEW s, NEW k \in Nat, NEW z \in Nat
  PROVE  /\ Depth(s, k, z) \in Int
         /\ k > z => Depth(s, k, z) = 0
         /\ k <= z => Depth(s, k, z) = Depth(s, k + 1, z) + Turn(s[k].type)
         /\ k <= z + 1 => Depth(s, k, z + 1) = Depth(s, k, z) + Turn(s[z + 1].type)
<1> DEFINE B(a, b) == Count(s, "begin", a, b)
           E(a, b) == Count(s, "end", a, b)
<1>1. B(k, z) \in Nat /\ E(k, z) \in Nat BY CountType
<1>2. k > z => B(k, z) = 0 /\ E(k, z) = 0 BY CountType
<1>3. k + 1 \in Nat /\ z + 1 \in Nat OBVIOUS
<1>4. B(k + 1, z) \in Nat /\ E(k + 1, z) \in Nat /\ B(k, z + 1) \in Nat /\ E(k, z + 1) \in Nat
  BY <1>3, CountType
<1>5. k <= z => /\ B(k, z) = B(k + 1, z) + (IF s[k].type = "begin" THEN 1 ELSE 0)
                /\ E(k, z) = E(k + 1, z) + (IF s[k].type = "end" THEN 1 ELSE 0)
  BY CountFirst
<1>6. k <= z + 1 =>
        /\ B(k, z + 1) = B(k, z) + (IF s[z + 1].type = "begin" THEN 1 ELSE 0)
        /\ E(k, z + 1) = E(k, z) + (IF s[z + 1].type = "end" THEN 1 ELSE 0)
  BY CountLast
<1>7. /\ Depth(s, k, z) = B(k, z) - E(k, z)
      /\ Depth(s, k + 1, z) = B(k + 1, z) - E(k + 1, z)
      /\ Depth(s, k, z + 1) = B(k, z + 1) - E(k, z + 1)
  BY DEF Depth
<1> HIDE DEF B, E
<1>8. Depth(s, k, z) \in Int BY <1>1, <1>7
<1>9. k > z => Depth(s, k, z) = 0 BY <1>2, <1>7
<1>10. k <= z => Depth(s, k, z) = Depth(s, k + 1, z) + Turn(s[k].type)
  BY <1>1, <1>4, <1>5, <1>7 DEF Turn
<1>11. k <= z + 1 => Depth(s, k, z + 1) = Depth(s, k, z) + Turn(s[z + 1].type)
  BY <1>1, <1>4, <1>6, <1>7 DEF Turn
<1> QED BY <1>8, <1>9, <1>10, <1>11

LEMMA DepthSame ==
  ASSUME NEW s, NEW u, NEW k \in Nat, NEW z \in Nat, \A i \in k .. z : s[i] = u[i]
  PROVE  Depth(s, k, z) = Depth(u, k, z)
BY CountSame DEF Depth

SameSpan(s, u, k, z) == z \in Nat /\ \A i \in k .. z : s[i] = u[i]

LEMMA SpanDepth ==
  ASSUME NEW s, NEW u, NEW k \in Nat, NEW z, SameSpan(s, u, k, z)
  PROVE  Depth(s, k, z) = Depth(u, k, z)
<1>1. z \in Nat /\ \A i \in k .. z : s[i] = u[i] BY DEF SameSpan
<1> QED BY <1>1, DepthSame

(* Where at least one more has begun than ended, one has that did not.     *)
LEMMA OpenOne ==
  ASSUME NEW s, NEW k \in Nat, NEW z \in Nat, k <= z, Depth(s, k, z) >= 1
  PROVE  \E m \in k .. z : Depth(s, m, z) = 1
<1> DEFINE T == {m \in k .. z : Depth(s, m, z) >= 1}
<1>1. k \in T OBVIOUS
<1>2. T \in SUBSET (0 .. z) /\ T # {} BY <1>1
<1> DEFINE m == Max(T)
<1>3. m \in T /\ \A n \in T : n <= m
  <2> HIDE DEF T
  <2> QED BY <1>2, MaxOf
<1> HIDE DEF m
<1>4. m \in k .. z /\ m \in Nat /\ m + 1 \in Nat /\ Depth(s, m, z) >= 1 BY <1>3
<1>5. Depth(s, m + 1, z) <= 0
  <2>1. CASE m = z
    <3>1. m + 1 > z BY <1>4, <2>1
    <3>2. Depth(s, m + 1, z) = 0 BY <1>4, <3>1, DepthFacts
    <3> QED BY <3>2
  <2>2. CASE m # z
    <3>1. m + 1 \in k .. z /\ ~(m + 1 <= m) BY <1>4, <2>2
    <3>2. m + 1 \notin T BY <1>3, <3>1
    <3>3. Depth(s, m + 1, z) \in Int BY <1>4, DepthFacts
    <3> QED BY <3>1, <3>2, <3>3
  <2> QED BY <2>1, <2>2
<1>6. Depth(s, m, z) = Depth(s, m + 1, z) + Turn(s[m].type)
  BY <1>4, DepthFacts
<1>7. Depth(s, m + 1, z) \in Int /\ Depth(s, m, z) \in Int BY <1>4, DepthFacts
<1>8. Turn(s[m].type) \in {-1, 0, 1} BY DEF Turn
<1>9. Depth(s, m, z) = 1 BY <1>4, <1>5, <1>6, <1>7, <1>8
<1> QED BY <1>4, <1>9

(* What BeforeBegin finds from the end i.                                  *)
LEMMA BeforeBeginFacts ==
  ASSUME NEW s, NEW i \in Nat, i > 0
  PROVE  /\ BeforeBegin(s, i) \in 0 .. i - 1
         /\ \A k \in 2 .. i - 1 : Depth(s, k, i - 1) = 1 => BeforeBegin(s, i) > 0
         /\ \A k \in 1 .. i - 1 :
              /\ Depth(s, k, i - 1) = 1
              /\ \A m \in k + 1 .. i - 1 : Depth(s, m, i - 1) # 1
              => BeforeBegin(s, i) = k - 1
<1> DEFINE T == {k \in 1 .. i - 1 : Count(s, "begin", k, i - 1) = Count(s, "end", k, i - 1) + 1}
<1>1. \A k \in 1 .. i - 1 : k \in T <=> Depth(s, k, i - 1) = 1
  <2> SUFFICES ASSUME NEW k \in 1 .. i - 1 PROVE k \in T <=> Depth(s, k, i - 1) = 1
    OBVIOUS
  <2>1. i - 1 \in Nat /\ k \in Nat OBVIOUS
  <2>2. Count(s, "begin", k, i - 1) \in Nat /\ Count(s, "end", k, i - 1) \in Nat
    BY <2>1, CountType
  <2> QED BY <2>2 DEF Depth
<1>2. BeforeBegin(s, i) = IF T = {} THEN 0 ELSE Max(T) - 1 BY DEF BeforeBegin
<1>3. T \subseteq 1 .. i - 1 /\ T \in SUBSET (0 .. i - 1) /\ i - 1 \in Nat OBVIOUS
<1> HIDE DEF T
<1>4. T # {} => Max(T) \in T /\ \A n \in T : n <= Max(T) BY <1>3, MaxOf
<1>5. BeforeBegin(s, i) \in 0 .. i - 1
  <2>1. CASE T = {} BY <1>2, <2>1
  <2>2. CASE T # {}
    <3>1. Max(T) \in 1 .. i - 1 BY <1>3, <1>4, <2>2
    <3> QED BY <1>2, <2>2, <3>1
  <2> QED BY <2>1, <2>2
<1>6. ASSUME NEW k \in 2 .. i - 1, Depth(s, k, i - 1) = 1 PROVE BeforeBegin(s, i) > 0
  <2>1. k \in T BY <1>1, <1>6
  <2>2. T # {} /\ k <= Max(T) BY <1>4, <2>1
  <2>3. Max(T) \in 1 .. i - 1 BY <1>3, <1>4, <2>1
  <2> QED BY <1>2, <2>2, <2>3
<1>7. ASSUME NEW k \in 1 .. i - 1, Depth(s, k, i - 1) = 1,
             \A m \in k + 1 .. i - 1 : Depth(s, m, i - 1) # 1
      PROVE  BeforeBegin(s, i) = k - 1
  <2>1. k \in T BY <1>1, <1>7
  <2>2. Max(T) \in 1 .. i - 1 /\ k <= Max(T) /\ T # {} /\ Depth(s, Max(T), i - 1) = 1
    BY <1>1, <1>3, <1>4, <2>1
  <2>3. Max(T) \notin k + 1 .. i - 1 BY <1>7, <2>2
  <2>4. Max(T) = k BY <2>2, <2>3
  <2> QED BY <1>2, <2>2, <2>4
<1> QED BY <1>5, <1>6, <1>7

-----------------------------------------------------------------------------
(* The searches.                                                           *)

(* The answer at a message needs those before it only.                     *)
LEMMA AnswerSame ==
  ASSUME NEW s, NEW types, NEW r, NEW k \in Nat, NEW f, NEW g,
         \A j \in 0 .. k - 1 : f[j] = g[j]
  PROVE  Answer(s, types, r, k, f) = Answer(s, types, r, k, g)
<1>1. CASE k = 0 BY <1>1 DEF Answer
<1>2. CASE k > 0
  <2>1. BeforeBegin(s, k) \in 0 .. k - 1 BY <1>2, BeforeBeginFacts
  <2>2. k - 1 \in 0 .. k - 1 BY <1>2
  <2>3. f[k - 1] = g[k - 1] /\ f[BeforeBegin(s, k)] = g[BeforeBegin(s, k)]
    BY <2>1, <2>2
  <2> QED BY <2>3 DEF Answer
<1> QED BY <1>1, <1>2

Answers(s, types, r, i, f) == f = [k \in 0 .. i |-> Answer(s, types, r, k, f)]

LEMMA AnswersExist ==
  ASSUME NEW s, NEW types, NEW r, NEW i \in Nat
  PROVE  \E f : Answers(s, types, r, i, f)
<1> DEFINE T == {n \in Nat : ~\E f : Answers(s, types, r, n, f)}
<1>1. SUFFICES ASSUME T # {} PROVE FALSE
  OBVIOUS
<1>2. T \in SUBSET Nat OBVIOUS
<1>3. PICK n \in T : \A m \in T : n <= m
  <2> HIDE DEF T
  <2> QED BY <1>1, <1>2, LeastNat
<1>4. n \in Nat OBVIOUS
<1>5. n # 0
  <2> DEFINE f == [k \in 0 .. 0 |-> None]
  <2>1. \A k \in 0 .. 0 : Answer(s, types, r, k, f) = None BY DEF Answer
  <2>2. f = [k \in 0 .. 0 |-> Answer(s, types, r, k, f)] BY <2>1
  <2> QED BY <2>2 DEF Answers
<1>6. n - 1 \in Nat /\ n - 1 \notin T BY <1>3, <1>4, <1>5
<1>7. PICK f : Answers(s, types, r, n - 1, f) BY <1>6
<1> DEFINE g == [k \in 0 .. n |-> IF k < n THEN f[k] ELSE Answer(s, types, r, n, f)]
<1>8. \A k \in 0 .. n : g[k] = Answer(s, types, r, k, g)
  <2> SUFFICES ASSUME NEW k \in 0 .. n PROVE g[k] = Answer(s, types, r, k, g)
    OBVIOUS
  <2>1. \A j \in 0 .. k - 1 : f[j] = g[j] BY <1>4
  <2>2. k \in Nat OBVIOUS
  <2>3. Answer(s, types, r, k, g) = Answer(s, types, r, k, f)
    <3> HIDE DEF g
    <3> QED BY <2>1, <2>2, AnswerSame
  <2>4. CASE k < n
    <3>1. k \in 0 .. n - 1 BY <1>4, <2>4
    <3>2. f[k] = Answer(s, types, r, k, f) BY <1>7, <3>1 DEF Answers
    <3>3. g[k] = f[k] BY <2>4
    <3> QED BY <2>3, <3>2, <3>3
  <2>5. CASE k = n BY <1>4, <2>3, <2>5
  <2> QED BY <1>4, <2>4, <2>5
<1>9. Answers(s, types, r, n, g)
  <2>1. g = [k \in 0 .. n |-> g[k]] OBVIOUS
  <2>2. [k \in 0 .. n |-> g[k]] = [k \in 0 .. n |-> Answer(s, types, r, k, g)]
    <3> HIDE DEF g
    <3> QED BY <1>8
  <2> HIDE DEF g
  <2> QED BY <2>1, <2>2 DEF Answers
<1>10. \E h : Answers(s, types, r, n, h) BY <1>9
<1> QED BY <1>10

LEMMA SearchChoice ==
  ASSUME NEW s, NEW types, NEW r, NEW i \in Nat
  PROVE  \E f : Answers(s, types, r, i, f) /\ Search(s, types, i, r) = f[i]
<1> DEFINE f == CHOOSE f : Answers(s, types, r, i, f)
<1>1. Answers(s, types, r, i, f) BY AnswersExist
<1>2. Search(s, types, i, r)
        = (CHOOSE g : g = [k \in 0 .. i |-> Answer(s, types, r, k, g)])[i]
  BY DEF Search
<1>3. Search(s, types, i, r) = f[i] BY <1>2 DEF Answers
<1> QED BY <1>1, <1>3

Alike(s, u, n) == \A k \in 1 .. n : s[k] = u[k]

(* Two searches that agree on the messages agree on the answers.           *)
LEMMA AnswersAgree ==
  ASSUME NEW s, NEW u, NEW types, NEW r, NEW i \in Nat, NEW j \in Nat,
         NEW n \in Nat, n <= i, n <= j, Alike(s, u, n),
         NEW f, Answers(s, types, r, i, f), NEW g, Answers(u, types, r, j, g)
  PROVE  \A k \in 0 .. n : f[k] = g[k]
<1> DEFINE T == {k \in 0 .. n : f[k] # g[k]}
<1>1. SUFFICES ASSUME T # {} PROVE FALSE
  OBVIOUS
<1>2. T \in SUBSET Nat OBVIOUS
<1>3. PICK k \in T : \A m \in T : k <= m
  <2> HIDE DEF T
  <2> QED BY <1>1, <1>2, LeastNat
<1>4. k \in Nat /\ k <= n /\ k \in 0 .. i /\ k \in 0 .. j BY <1>3
<1>5. f[k] = Answer(s, types, r, k, f) /\ g[k] = Answer(u, types, r, k, g)
  BY <1>4 DEF Answers
<1> USE DEF Alike
<1>6. \A m \in 0 .. k - 1 : f[m] = g[m]
  <2> SUFFICES ASSUME NEW m \in 0 .. k - 1 PROVE f[m] = g[m]
    OBVIOUS
  <2>1. m \in 0 .. n /\ ~(k <= m) BY <1>4
  <2>2. m \notin T BY <1>3, <2>1
  <2> QED BY <2>1, <2>2
<1>7. Answer(u, types, r, k, g) = Answer(u, types, r, k, f) BY <1>4, <1>6, AnswerSame
<1>8. Answer(s, types, r, k, f) = Answer(u, types, r, k, f)
  <2>1. CASE k = 0 BY <2>1 DEF Answer
  <2>2. CASE k > 0
    <3>1. s[k] = u[k] BY <1>4, <2>2
    <3>2. BeforeBegin(s, k) = BeforeBegin(u, k)
      <4>1. \A a \in 1 .. k - 1 : Count(s, "begin", a, k - 1) = Count(u, "begin", a, k - 1)
        BY <1>4, <2>2, CountSame
      <4>2. \A a \in 1 .. k - 1 : Count(s, "end", a, k - 1) = Count(u, "end", a, k - 1)
        BY <1>4, <2>2, CountSame
      <4>3. {a \in 1 .. k - 1 : Count(s, "begin", a, k - 1) = Count(s, "end", a, k - 1) + 1}
              = {a \in 1 .. k - 1 : Count(u, "begin", a, k - 1) = Count(u, "end", a, k - 1) + 1}
        BY <4>1, <4>2
      <4> QED BY <4>3 DEF BeforeBegin
    <3> QED BY <3>1, <3>2 DEF Answer
  <2> QED BY <1>4, <2>1, <2>2
<1>9. f[k] = g[k] BY <1>5, <1>7, <1>8
<1> QED BY <1>3, <1>9

(* A search in a record and in one that begins like it.                    *)
LEMMA SearchSame ==
  ASSUME NEW s, NEW u, NEW types, NEW r, NEW i \in Nat, \A k \in 1 .. i : s[k] = u[k]
  PROVE  Search(s, types, i, r) = Search(u, types, i, r)
<1>1. PICK f : Answers(s, types, r, i, f) /\ Search(s, types, i, r) = f[i]
  BY SearchChoice
<1>2. PICK g : Answers(u, types, r, i, g) /\ Search(u, types, i, r) = g[i]
  BY SearchChoice
<1>3. Answers(s, types, r, i, f) /\ Answers(u, types, r, i, g) BY <1>1, <1>2
<1>4. PICK n \in Nat : n = i OBVIOUS
<1>5. n <= i /\ Alike(s, u, n) BY <1>4 DEF Alike
<1>6. \A k \in 0 .. n : f[k] = g[k] BY <1>3, <1>5, AnswersAgree
<1> QED BY <1>1, <1>2, <1>4, <1>6

(* What a search answers, by the searches from before.                     *)
LEMMA SearchFacts ==
  ASSUME NEW s, NEW types, NEW r, NEW i \in Nat
  PROVE  /\ i = 0 => Search(s, types, i, r) = None
         /\ i > 0 /\ s[i].round # r => Search(s, types, i, r) = None
         /\ i > 0 /\ s[i].round = r /\ s[i].type \in types => Search(s, types, i, r) = i
         /\ i > 0 /\ s[i].round = r /\ s[i].type \notin types /\ s[i].type # "end"
              => Search(s, types, i, r) = Search(s, types, i - 1, r)
         /\ i > 0 /\ s[i].round = r /\ s[i].type \notin types /\ s[i].type = "end"
              => Search(s, types, i, r) = IF BeforeBegin(s, i) = 0 THEN Outside
                                          ELSE Search(s, types, BeforeBegin(s, i), r)
<1>1. PICK f : Answers(s, types, r, i, f) /\ Search(s, types, i, r) = f[i]
  BY SearchChoice
<1>2. \A k \in 0 .. i : f[k] = Search(s, types, k, r)
  <2> SUFFICES ASSUME NEW k \in 0 .. i PROVE f[k] = Search(s, types, k, r)
    OBVIOUS
  <2>1. k \in Nat /\ k <= i OBVIOUS
  <2>2. PICK g : Answers(s, types, r, k, g) /\ Search(s, types, k, r) = g[k]
    BY <2>1, SearchChoice
  <2>3. Alike(s, s, k) BY DEF Alike
  <2>4. \A m \in 0 .. k : f[m] = g[m] BY <1>1, <2>1, <2>2, <2>3, AnswersAgree
  <2> QED BY <2>1, <2>2, <2>4
<1>3. f[i] = Answer(s, types, r, i, f) BY <1>1 DEF Answers
<1>4. i > 0 => /\ f[i - 1] = Search(s, types, i - 1, r)
               /\ f[BeforeBegin(s, i)] = Search(s, types, BeforeBegin(s, i), r)
  <2> SUFFICES ASSUME i > 0
               PROVE  /\ f[i - 1] = Search(s, types, i - 1, r)
                      /\ f[BeforeBegin(s, i)] = Search(s, types, BeforeBegin(s, i), r)
    OBVIOUS
  <2>1. BeforeBegin(s, i) \in 0 .. i - 1 BY BeforeBeginFacts
  <2>2. BeforeBegin(s, i) \in 0 .. i /\ i - 1 \in 0 .. i BY <2>1
  <2> QED BY <1>2, <2>2
<1> QED BY <1>1, <1>3, <1>4 DEF Answer

-----------------------------------------------------------------------------
(* A record in which nothing ends that has not begun, and what runs has    *)
(* begun and not ended.                                                    *)

Message(r) == [type : Type, round : 0 .. r, src : Nat]

HasBegun(s, i) == \E k \in 2 .. i - 1 : Depth(s, k, i - 1) = 1

Whole(s, c) ==
  /\ \A i \in 1 .. Len(s) : s[i].src < i
  /\ \A i \in 1 .. Len(s) : s[i].type = "end" => HasBegun(s, i)
  /\ c \in Seq(2 .. Len(s))
  /\ \A j \in 1 .. Len(c) : Depth(s, c[j], Len(s)) >= Len(c) - j + 1

LEMMA Appended ==
  ASSUME NEW r \in Nat, NEW s \in Seq(Message(r)), NEW m \in Message(r)
  PROVE  /\ Append(s, m) \in Seq(Message(r))
         /\ Len(s) \in Nat /\ Len(Append(s, m)) = Len(s) + 1
         /\ Append(s, m)[Len(s) + 1] = m
         /\ \A i \in 1 .. Len(s) : Append(s, m)[i] = s[i] /\ s[i] \in Message(r)
BY AppendProperties, LenProperties

LEMMA AppendedDepth ==
  ASSUME NEW r \in Nat, NEW s \in Seq(Message(r)), NEW m \in Message(r), NEW k \in Nat, k > 0
  PROVE  /\ \A z \in 0 .. Len(s) : Depth(Append(s, m), k, z) = Depth(s, k, z)
         /\ k <= Len(s) + 1 =>
              Depth(Append(s, m), k, Len(s) + 1) = Depth(s, k, Len(s)) + Turn(m.type)
<1> DEFINE u == Append(s, m)
<1>1. /\ Len(s) \in Nat /\ u[Len(s) + 1] = m
      /\ \A i \in 1 .. Len(s) : u[i] = s[i]
  BY Appended
<1> HIDE DEF u
<1>2. ASSUME NEW z \in 0 .. Len(s) PROVE Depth(u, k, z) = Depth(s, k, z)
  <2>1. PICK n \in Nat : n = Len(s) BY <1>1
  <2>2. z \in Nat /\ z <= n BY <2>1
  <2>3. ASSUME NEW i \in k .. z PROVE u[i] = s[i]
    <3>1. i \in 1 .. n BY <2>2
    <3> QED BY <1>1, <2>1, <3>1
  <2>4. SameSpan(u, s, k, z) BY <2>2, <2>3 DEF SameSpan
  <2> QED BY <2>4, SpanDepth
<1>3. Depth(u, k, Len(s)) = Depth(s, k, Len(s)) BY <1>1, <1>2
<1>4. k <= Len(s) + 1 => Depth(u, k, Len(s) + 1) = Depth(u, k, Len(s)) + Turn(m.type)
  <2>1. PICK z \in Nat : z = Len(s) BY <1>1
  <2>2. k <= z + 1 => Depth(u, k, z + 1) = Depth(u, k, z) + Turn(u[z + 1].type)
    BY DepthFacts
  <2> QED BY <1>1, <2>1, <2>2
<1> QED BY <1>2, <1>3, <1>4 DEF u

(* What does not depend on what the message is.                            *)
LEMMA WholeBefore ==
  ASSUME NEW r \in Nat, NEW s \in Seq(Message(r)), NEW m \in Message(r), NEW c,
         Whole(s, c), m.src <= Len(s), m.type = "end" => HasBegun(Append(s, m), Len(s) + 1)
  PROVE  /\ \A i \in 1 .. Len(s) + 1 : Append(s, m)[i].src < i
         /\ \A i \in 1 .. Len(s) + 1 :
              Append(s, m)[i].type = "end" => HasBegun(Append(s, m), i)
<1> DEFINE u == Append(s, m)
<1>1. /\ Len(s) \in Nat /\ u[Len(s) + 1] = m
      /\ \A i \in 1 .. Len(s) : u[i] = s[i]
  BY Appended
<1>2. m.src \in Nat /\ \A k \in Nat : k > 0 =>
        \A z \in 0 .. Len(s) : Depth(u, k, z) = Depth(s, k, z)
  BY AppendedDepth DEF Message
<1> HIDE DEF u
<1>3. \A i \in 1 .. Len(s) + 1 : i = Len(s) + 1 \/ i \in 1 .. Len(s) BY <1>1
<1>4. \A i \in 1 .. Len(s) : u[i].src < i BY <1>1 DEF Whole
<1>5. m.src < Len(s) + 1 BY <1>1, <1>2
<1>6. ASSUME NEW i \in 1 .. Len(s), u[i].type = "end" PROVE HasBegun(u, i)
  <2>1. HasBegun(s, i) BY <1>1, <1>6 DEF Whole
  <2>2. PICK k \in 2 .. i - 1 : Depth(s, k, i - 1) = 1 BY <2>1 DEF HasBegun
  <2>3. k \in Nat /\ k > 0 /\ i - 1 \in 0 .. Len(s) BY <1>1
  <2>4. Depth(u, k, i - 1) = 1 BY <1>2, <2>2, <2>3
  <2> QED BY <2>4 DEF HasBegun
<1>7. \A i \in 1 .. Len(s) + 1 : u[i].src < i BY <1>1, <1>3, <1>4, <1>5
<1>8. u[Len(s) + 1].type = "end" => HasBegun(u, Len(s) + 1) BY <1>1 DEF u
<1>9. \A i \in 1 .. Len(s) + 1 : u[i].type = "end" => HasBegun(u, i)
  BY <1>3, <1>6, <1>8
<1> QED BY <1>7, <1>9 DEF u

LEMMA WholeReport ==
  ASSUME NEW r \in Nat, NEW s \in Seq(Message(r)), NEW m \in Message(r), NEW c,
         Whole(s, c), m.src <= Len(s), m.type # "end"
  PROVE  Whole(Append(s, m), c)
<1> DEFINE u == Append(s, m)
<1>1. /\ \A i \in 1 .. Len(s) + 1 : u[i].src < i
      /\ \A i \in 1 .. Len(s) + 1 : u[i].type = "end" => HasBegun(u, i)
  BY WholeBefore
<1>2. Len(u) = Len(s) + 1 /\ Len(s) \in Nat BY Appended
<1>3. \A k \in Nat : k > 0 /\ k <= Len(s) + 1 =>
        Depth(u, k, Len(s) + 1) = Depth(s, k, Len(s)) + Turn(m.type)
  BY AppendedDepth
<1> HIDE DEF u
<1>4. c \in Seq(2 .. Len(s)) BY DEF Whole
<1>5. c \in Seq(2 .. Len(s) + 1) /\ Len(c) \in Nat /\ \A j \in 1 .. Len(c) : c[j] \in 2 .. Len(s)
  BY <1>2, <1>4
<1>6. Turn(m.type) \in {0, 1} BY DEF Turn
<1>7. ASSUME NEW j \in 1 .. Len(c)
      PROVE  Depth(u, c[j], Len(s) + 1) >= Len(c) - j + 1
  <2>1. c[j] \in Nat /\ c[j] > 0 /\ c[j] <= Len(s) + 1 BY <1>2, <1>5
  <2>2. Depth(s, c[j], Len(s)) \in Int BY <1>2, <2>1, DepthFacts
  <2>3. Depth(s, c[j], Len(s)) >= Len(c) - j + 1 BY DEF Whole
  <2> QED BY <1>3, <1>5, <1>6, <2>1, <2>2, <2>3
<1>8. Whole(u, c) BY <1>1, <1>2, <1>5, <1>7 DEF Whole
<1> QED BY <1>8 DEF u

LEMMA WholeBegin ==
  ASSUME NEW r \in Nat, NEW s \in Seq(Message(r)), NEW m \in Message(r), NEW c,
         Whole(s, c), m.src <= Len(s), m.type = "begin", Len(s) > 0
  PROVE  Whole(Append(s, m), Append(c, Len(s) + 1))
<1> DEFINE u == Append(s, m)
           d == Append(c, Len(s) + 1)
<1>1. Whole(u, c) BY WholeReport
<1>2. Len(u) = Len(s) + 1 /\ Len(s) \in Nat BY Appended
<1>3. \A k \in Nat : k > 0 /\ k <= Len(s) + 1 =>
        Depth(u, k, Len(s) + 1) = Depth(s, k, Len(s)) + Turn(m.type)
  BY AppendedDepth
<1>4. c \in Seq(2 .. Len(s)) BY DEF Whole
<1>5. c \in Seq(2 .. Len(s) + 1) /\ Len(c) \in Nat /\ \A j \in 1 .. Len(c) : c[j] \in 2 .. Len(s)
  BY <1>2, <1>4
<1>6. Len(s) + 1 \in 2 .. Len(s) + 1 BY <1>2
<1>7. /\ d \in Seq(2 .. Len(s) + 1) /\ Len(d) = Len(c) + 1
      /\ d[Len(c) + 1] = Len(s) + 1 /\ \A j \in 1 .. Len(c) : d[j] = c[j]
  BY <1>5, <1>6, AppendProperties
<1> HIDE DEF u, d
<1>8. Turn(m.type) = 1 BY DEF Turn
<1>9. ASSUME NEW j \in 1 .. Len(c)
      PROVE  Depth(u, c[j], Len(s) + 1) >= Len(c) + 1 - j + 1
  <2>1. c[j] \in Nat /\ c[j] > 0 /\ c[j] <= Len(s) + 1 BY <1>2, <1>5
  <2>2. Depth(s, c[j], Len(s)) \in Int BY <1>2, <2>1, DepthFacts
  <2>3. Depth(s, c[j], Len(s)) >= Len(c) - j + 1 BY DEF Whole
  <2> QED BY <1>3, <1>5, <1>8, <2>1, <2>2, <2>3
<1>10. Depth(u, Len(s) + 1, Len(s) + 1) = 1
  <2>1. Len(s) + 1 \in Nat /\ Len(s) + 1 > Len(s) BY <1>2
  <2>2. Depth(s, Len(s) + 1, Len(s)) = 0 BY <1>2, <2>1, DepthFacts
  <2> QED BY <1>2, <1>3, <1>8, <2>1, <2>2
<1>11. \A j \in 1 .. Len(d) : j = Len(c) + 1 \/ j \in 1 .. Len(c) BY <1>5, <1>7
<1>12. ASSUME NEW j \in 1 .. Len(d)
       PROVE  Depth(u, d[j], Len(u)) >= Len(d) - j + 1
  <2>1. CASE j \in 1 .. Len(c) BY <1>2, <1>7, <1>9, <2>1
  <2>2. CASE j = Len(c) + 1
    <3>1. Depth(u, d[j], Len(u)) = 1 BY <1>2, <1>7, <1>10, <2>2
    <3>2. Len(d) - j + 1 = 1 BY <1>5, <1>7, <2>2
    <3> QED BY <3>1, <3>2
  <2> QED BY <1>11, <2>1, <2>2
<1>13. Whole(u, d) BY <1>1, <1>2, <1>7, <1>12 DEF Whole
<1> QED BY <1>13 DEF u, d

Popped(c) == SubSeq(c, 1, Len(c) - 1)

LEMMA PoppedFacts ==
  ASSUME NEW S, NEW c \in Seq(S), c # << >>
  PROVE  /\ Popped(c) \in Seq(S) /\ Len(c) \in Nat \ {0} /\ Len(Popped(c)) = Len(c) - 1
         /\ \A j \in 1 .. Len(c) - 1 : Popped(c)[j] = c[j]
<1>1. Len(c) \in Nat \ {0} BY EmptySeq
<1>2. PICK n \in Nat : n = Len(c) - 1 BY <1>1
<1>3. \A j \in 1 .. n : c[j] \in S BY <1>1, <1>2
<1> DEFINE p == SubSeq(c, 1, n)
<1>4. 1 \in Int /\ n \in Int OBVIOUS
<1>5. /\ p \in Seq(S) /\ Len(p) = IF 1 <= n THEN n - 1 + 1 ELSE 0
      /\ \A j \in 1 .. n - 1 + 1 : p[j] = c[1 + j - 1]
  BY <1>3, <1>4, SubSeqProperties
<1>6. Popped(c) = p BY <1>2 DEF Popped
<1> HIDE DEF p
<1>7. Len(p) = n BY <1>5
<1>8. \A j \in 1 .. n : p[j] = c[j] BY <1>5
<1> QED BY <1>1, <1>2, <1>5, <1>6, <1>7, <1>8

LEMMA WholeEnd ==
  ASSUME NEW r \in Nat, NEW s \in Seq(Message(r)), NEW m \in Message(r), NEW c,
         Whole(s, c), m.src <= Len(s), m.type = "end", c # << >>
  PROVE  Whole(Append(s, m), Popped(c))
<1> DEFINE u == Append(s, m)
           d == Popped(c)
<1>1. Len(u) = Len(s) + 1 /\ Len(s) \in Nat BY Appended
<1>2. \A k \in Nat : k > 0 =>
        /\ \A z \in 0 .. Len(s) : Depth(u, k, z) = Depth(s, k, z)
        /\ k <= Len(s) + 1 => Depth(u, k, Len(s) + 1) = Depth(s, k, Len(s)) + Turn(m.type)
  BY AppendedDepth
<1>3. c \in Seq(2 .. Len(s)) BY DEF Whole
<1>4. c \in Seq(2 .. Len(s) + 1) /\ Len(c) \in Nat /\ \A j \in 1 .. Len(c) : c[j] \in 2 .. Len(s)
  BY <1>1, <1>3
<1>5. /\ d \in Seq(2 .. Len(s) + 1) /\ Len(c) > 0 /\ Len(d) = Len(c) - 1
      /\ \A j \in 1 .. Len(d) : d[j] = c[j]
  BY <1>4, PoppedFacts
<1> HIDE DEF u, d
<1>6. PICK a \in 2 .. Len(s) : a = c[Len(c)] /\ Depth(s, a, Len(s)) >= 1
  <2>1. Len(c) \in 1 .. Len(c) BY <1>4, <1>5
  <2>2. Depth(s, c[Len(c)], Len(s)) >= 1 BY <1>4, <2>1 DEF Whole
  <2> QED BY <1>4, <2>1, <2>2
<1>7. HasBegun(u, Len(s) + 1)
  <2>1. a \in Nat /\ a <= Len(s) BY <1>1
  <2>2. PICK k \in a .. Len(s) : Depth(s, k, Len(s)) = 1 BY <1>1, <1>6, <2>1, OpenOne
  <2>3. k \in 2 .. Len(s) + 1 - 1 /\ k \in Nat /\ k > 0 /\ Len(s) + 1 - 1 = Len(s)
    BY <1>1
  <2>4. Depth(u, k, Len(s)) = 1 BY <1>1, <1>2, <2>2, <2>3
  <2> QED BY <2>3, <2>4 DEF HasBegun
<1>8. /\ \A i \in 1 .. Len(s) + 1 : u[i].src < i
      /\ \A i \in 1 .. Len(s) + 1 : u[i].type = "end" => HasBegun(u, i)
  BY <1>7, WholeBefore DEF u
<1>9. Turn(m.type) = -1 BY DEF Turn
<1>10. ASSUME NEW j \in 1 .. Len(d)
       PROVE  Depth(u, d[j], Len(u)) >= Len(d) - j + 1
  <2>1. j \in 1 .. Len(c) /\ d[j] = c[j]
    <3>1. PICK n \in Nat : n = Len(c) /\ Len(d) = n - 1 BY <1>4, <1>5
    <3>2. j \in 1 .. n - 1 BY <3>1
    <3>3. j \in 1 .. n BY <3>2
    <3> QED BY <1>5, <3>1, <3>3
  <2>2. c[j] \in Nat /\ c[j] > 0 /\ c[j] <= Len(s) + 1 BY <1>1, <1>4, <2>1
  <2>3. Depth(s, c[j], Len(s)) \in Int BY <1>1, <2>2, DepthFacts
  <2>4. Depth(s, c[j], Len(s)) >= Len(c) - j + 1 BY <2>1 DEF Whole
  <2>5. Depth(u, c[j], Len(u)) = Depth(s, c[j], Len(s)) - 1 BY <1>1, <1>2, <1>9, <2>2, <2>3
  <2> QED BY <1>4, <1>5, <2>1, <2>3, <2>4, <2>5
<1>11. Whole(u, d) BY <1>1, <1>5, <1>8, <1>10 DEF Whole
<1> QED BY <1>11 DEF u, d

-----------------------------------------------------------------------------
(* What the searches find in such a record.                                *)

(* No search reads in front of the record.                                 *)
LEMMA StaysInside ==
  ASSUME NEW s, NEW n \in Nat, \A i \in 1 .. n : s[i].type = "end" => HasBegun(s, i),
         NEW types, NEW r
  PROVE  \A i \in 0 .. n : Search(s, types, i, r) # Outside
<1> DEFINE T == {i \in 0 .. n : Search(s, types, i, r) = Outside}
<1>1. SUFFICES ASSUME T # {} PROVE FALSE
  OBVIOUS
<1>2. T \in SUBSET Nat OBVIOUS
<1>3. PICK i \in T : \A m \in T : i <= m
  <2> HIDE DEF T
  <2> QED BY <1>1, <1>2, LeastNat
<1>4. i \in Nat /\ i <= n /\ Search(s, types, i, r) = Outside BY <1>3
<1>5. \A m \in 0 .. i - 1 : Search(s, types, m, r) # Outside
  <2> SUFFICES ASSUME NEW m \in 0 .. i - 1 PROVE Search(s, types, m, r) # Outside
    OBVIOUS
  <2>1. m \in 0 .. n /\ ~(i <= m) BY <1>4
  <2>2. m \notin T BY <1>3, <2>1
  <2> QED BY <2>1, <2>2
<1>6. None # Outside /\ i # Outside BY <1>4 DEF None, Outside
<1>7. i > 0 BY <1>4, <1>6, SearchFacts
<1>8. BeforeBegin(s, i) \in 0 .. i - 1 BY <1>4, <1>7, BeforeBeginFacts
<1>9. s[i].type = "end" => BeforeBegin(s, i) > 0
  <2> SUFFICES ASSUME s[i].type = "end" PROVE BeforeBegin(s, i) > 0
    OBVIOUS
  <2>1. i \in 1 .. n BY <1>4, <1>7
  <2>2. PICK k \in 2 .. i - 1 : Depth(s, k, i - 1) = 1 BY <2>1 DEF HasBegun
  <2> QED BY <1>4, <1>7, <2>2, BeforeBeginFacts
<1>10. i - 1 \in 0 .. i - 1 BY <1>4, <1>7
<1> HIDE DEF T
<1>11. CASE s[i].round # r BY <1>4, <1>6, <1>7, <1>11, SearchFacts
<1>12. CASE s[i].round = r /\ s[i].type \in types
  BY <1>4, <1>6, <1>7, <1>12, SearchFacts
<1>13. CASE s[i].round = r /\ s[i].type \notin types /\ s[i].type # "end"
  BY <1>4, <1>5, <1>7, <1>10, <1>13, SearchFacts
<1>14. CASE s[i].round = r /\ s[i].type \notin types /\ s[i].type = "end"
  <2>1. Search(s, types, i, r) = Search(s, types, BeforeBegin(s, i), r)
    BY <1>4, <1>7, <1>9, <1>14, SearchFacts
  <2> QED BY <1>4, <1>5, <1>8, <2>1
<1> QED BY <1>11, <1>12, <1>13, <1>14

Latest(T) == IF T = {} THEN None ELSE Max(T)

(* The damage of round r up to z that a member of A caused, or nothing.    *)
Caused(s, r, z, A) ==
  {i \in 1 .. z : s[i].round = r /\ s[i].type = "damage" /\ s[i].src \in {0} \cup A}

(* Searching back from z in round r finds a, and what A caused.            *)
Finds(s, r, z, a, A) ==
  /\ Search(s, {"begin"}, z, r) = IF a = 0 THEN None ELSE a
  /\ Search(s, {"damage"}, z, r) = Latest(Caused(s, r, z, A))

LEMMA FindsSame ==
  ASSUME NEW r \in Nat, NEW s \in Seq(Message(r)), NEW m \in Message(r),
         NEW q, NEW z \in 0 .. Len(s), NEW a, NEW A, Finds(s, q, z, a, A)
  PROVE  Finds(Append(s, m), q, z, a, A)
<1> DEFINE u == Append(s, m)
<1>1. Len(s) \in Nat /\ \A i \in 1 .. Len(s) : u[i] = s[i] BY Appended
<1> HIDE DEF u
<1>2. z \in Nat /\ \A i \in 1 .. z : u[i] = s[i] BY <1>1
<1>3. Search(u, {"begin"}, z, q) = Search(s, {"begin"}, z, q) BY <1>2, SearchSame
<1>4. Search(u, {"damage"}, z, q) = Search(s, {"damage"}, z, q) BY <1>2, SearchSame
<1>5. Caused(u, q, z, A) = Caused(s, q, z, A) BY <1>2 DEF Caused
<1>6. Finds(u, q, z, a, A) BY <1>3, <1>4, <1>5 DEF Finds
<1> QED BY <1>6 DEF u

(* The greatest of a set to which a greater number is added                *)
LEMMA LatestAdded ==
  ASSUME NEW n \in Nat, NEW T \in SUBSET (1 .. n)
  PROVE  Latest(T \cup {n + 1}) = n + 1
<1>1. \A x \in T \cup {n + 1} : n + 1 >= x OBVIOUS
<1>2. T \cup {n + 1} \in SUBSET (0 .. n + 1) /\ T \cup {n + 1} # {} OBVIOUS
<1>3. Max(T \cup {n + 1}) \in T \cup {n + 1} /\ \A x \in T \cup {n + 1} : x <= Max(T \cup {n + 1})
  <2>1. n + 1 \in Nat OBVIOUS
  <2> QED BY <1>2, <2>1, MaxOf
<1>4. Max(T \cup {n + 1}) = n + 1
  <2> DEFINE x == Max(T \cup {n + 1})
  <2>0. x \in T \cup {n + 1} /\ \A y \in T \cup {n + 1} : y <= x BY <1>3
  <2> HIDE DEF x
  <2>1. x \in Nat /\ n + 1 >= x /\ n + 1 <= x BY <1>1, <1>2, <2>0
  <2>2. x = n + 1 BY <2>1
  <2> QED BY <2>2 DEF x
<1> QED BY <1>2, <1>4 DEF Latest

LEMMA FindsReport ==
  ASSUME NEW r \in Nat, NEW s \in Seq(Message(r)), NEW m \in Message(r), NEW a, NEW A,
         Finds(s, r, Len(s), a, A), m.type \in {"damage", "effect"}, m.round = r,
         m.src \in {0} \cup A
  PROVE  Finds(Append(s, m), r, Len(s) + 1, a, A)
<1> DEFINE u == Append(s, m)
<1>1. Len(s) \in Nat /\ u[Len(s) + 1] = m /\ \A i \in 1 .. Len(s) : u[i] = s[i]
  BY Appended
<1>2. Finds(u, r, Len(s), a, A) BY <1>1, FindsSame
<1> HIDE DEF u
<1>3. PICK n \in Nat : n = Len(s) BY <1>1
<1>4. n + 1 \in Nat /\ n + 1 > 0 /\ n + 1 - 1 = n BY <1>3
<1>5. u[n + 1].round = r /\ u[n + 1].type # "begin" /\ u[n + 1].type # "end"
  BY <1>1, <1>3
<1>6. Search(u, {"begin"}, n + 1, r) = Search(u, {"begin"}, n, r)
  BY <1>4, <1>5, SearchFacts
<1>7. \A i \in 1 .. n + 1 : i = n + 1 \/ i \in 1 .. n BY <1>3
<1>8. 1 .. n \subseteq 1 .. n + 1 /\ n + 1 \in 1 .. n + 1 BY <1>3
<1>9. CASE m.type = "effect"
  <2>1. Search(u, {"damage"}, n + 1, r) = Search(u, {"damage"}, n, r)
    BY <1>1, <1>3, <1>4, <1>5, <1>9, SearchFacts
  <2>2. Caused(u, r, n + 1, A) = Caused(u, r, n, A)
    <3>1. u[n + 1].type # "damage" BY <1>1, <1>3, <1>9
    <3> QED BY <1>7, <1>8, <3>1 DEF Caused
  <2> QED BY <1>2, <1>3, <1>6, <2>1, <2>2 DEF Finds, u
<1>10. CASE m.type = "damage"
  <2>1. u[n + 1].type = "damage" /\ u[n + 1].src \in {0} \cup A BY <1>1, <1>3, <1>10
  <2>2. Search(u, {"damage"}, n + 1, r) = n + 1
    BY <1>4, <1>5, <2>1, SearchFacts
  <2>3. Caused(u, r, n + 1, A) = Caused(u, r, n, A) \cup {n + 1}
    BY <1>5, <1>7, <1>8, <2>1 DEF Caused
  <2>4. Caused(u, r, n, A) \in SUBSET (1 .. n) BY DEF Caused
  <2>5. Latest(Caused(u, r, n + 1, A)) = n + 1 BY <2>3, <2>4, LatestAdded
  <2> QED BY <1>2, <1>3, <1>6, <2>2, <2>5 DEF Finds, u
<1> QED BY <1>9, <1>10

LEMMA FindsBegin ==
  ASSUME NEW r \in Nat, NEW s \in Seq(Message(r)), NEW m \in Message(r), NEW a, NEW A,
         Finds(s, r, Len(s), a, A), m.type = "begin", m.round = r,
         \A i \in 1 .. Len(s) : s[i].src < i
  PROVE  Finds(Append(s, m), r, Len(s) + 1, Len(s) + 1, A \cup {Len(s) + 1})
<1> DEFINE u == Append(s, m)
<1>1. Len(s) \in Nat /\ u[Len(s) + 1] = m /\ \A i \in 1 .. Len(s) : u[i] = s[i]
  BY Appended
<1>2. Finds(u, r, Len(s), a, A) BY <1>1, FindsSame
<1>3. \A i \in 1 .. Len(s) : u[i].src \in Nat
  <2>1. \A i \in 1 .. Len(s) : s[i] \in Message(r) BY Appended
  <2> QED BY <1>1, <2>1 DEF Message
<1> HIDE DEF u
<1>4. PICK n \in Nat : n = Len(s) BY <1>1
<1>5. n + 1 \in Nat /\ n + 1 > 0 /\ n + 1 - 1 = n /\ n + 1 # 0 BY <1>4
<1>6. u[n + 1].round = r /\ u[n + 1].type = "begin" BY <1>1, <1>4
<1>7. Search(u, {"begin"}, n + 1, r) = n + 1 BY <1>5, <1>6, SearchFacts
<1>8. Search(u, {"damage"}, n + 1, r) = Search(u, {"damage"}, n, r)
  BY <1>5, <1>6, SearchFacts
<1>9. Caused(u, r, n + 1, A \cup {n + 1}) = Caused(u, r, n, A)
  <2>1. \A i \in 1 .. n + 1 : i = n + 1 \/ i \in 1 .. n BY <1>4
  <2>2. 1 .. n \subseteq 1 .. n + 1 BY <1>4
  <2>3. \A i \in 1 .. n : u[i].src # n + 1
    <3> SUFFICES ASSUME NEW i \in 1 .. n PROVE u[i].src # n + 1
      OBVIOUS
    <3>1. u[i].src \in Nat /\ u[i].src < i BY <1>1, <1>3, <1>4
    <3> QED BY <3>1
  <2>4. u[n + 1].type # "damage" BY <1>6
  <2> QED BY <2>1, <2>2, <2>3, <2>4 DEF Caused
<1>10. Finds(u, r, n + 1, n + 1, A \cup {n + 1})
  BY <1>2, <1>4, <1>5, <1>7, <1>8, <1>9 DEF Finds
<1> QED BY <1>4, <1>10 DEF u

(* The end of what began at b: what was found before b is found again.     *)
LEMMA FindsEnd ==
  ASSUME NEW r \in Nat, NEW s \in Seq(Message(r)), NEW m \in Message(r), NEW a, NEW A,
         NEW b \in 2 .. Len(s), Finds(s, r, b - 1, a, A), m.type = "end", m.round = r,
         BeforeBegin(Append(s, m), Len(s) + 1) = b - 1,
         \A i \in b .. Len(s) : s[i].type = "damage" => s[i].src \notin {0} \cup A
  PROVE  Finds(Append(s, m), r, Len(s) + 1, a, A)
<1> DEFINE u == Append(s, m)
<1>1. Len(s) \in Nat /\ u[Len(s) + 1] = m /\ \A i \in 1 .. Len(s) : u[i] = s[i]
  BY Appended
<1>2. b - 1 \in 0 .. Len(s) /\ b - 1 # 0 BY <1>1
<1>3. Finds(u, r, b - 1, a, A) BY <1>2, FindsSame
<1>4. BeforeBegin(u, Len(s) + 1) = b - 1 OBVIOUS
<1> HIDE DEF u
<1>5. PICK n \in Nat : n = Len(s) BY <1>1
<1>6. n + 1 \in Nat /\ n + 1 > 0 BY <1>5
<1>7. /\ u[n + 1].round = r /\ u[n + 1].type = "end"
      /\ u[n + 1].type \notin {"begin"} /\ u[n + 1].type \notin {"damage"}
  BY <1>1, <1>5
<1>8. BeforeBegin(u, n + 1) # 0 BY <1>2, <1>4, <1>5
<1>9. Search(u, {"begin"}, n + 1, r) = Search(u, {"begin"}, b - 1, r)
  BY <1>4, <1>5, <1>6, <1>7, <1>8, SearchFacts
<1>10. Search(u, {"damage"}, n + 1, r) = Search(u, {"damage"}, b - 1, r)
  BY <1>4, <1>5, <1>6, <1>7, <1>8, SearchFacts
<1>11. Caused(u, r, n + 1, A) = Caused(u, r, b - 1, A)
  <2>1. \A i \in 1 .. n + 1 : i = n + 1 \/ i \in b .. n \/ i \in 1 .. b - 1 BY <1>5
  <2>2. 1 .. b - 1 \subseteq 1 .. n + 1 BY <1>5
  <2>3. \A i \in b .. n : u[i].type = "damage" => u[i].src \notin {0} \cup A
    <3>1. \A i \in b .. n : i \in 1 .. n BY <1>5
    <3> QED BY <1>1, <1>5, <3>1
  <2> QED BY <1>7, <2>1, <2>2, <2>3 DEF Caused
<1>12. Finds(u, r, n + 1, a, A) BY <1>3, <1>9, <1>10, <1>11 DEF Finds
<1> QED BY <1>5, <1>12 DEF u

(* At the message that begins a round nothing of the round is found yet.   *)
LEMMA FindsRound ==
  ASSUME NEW r \in Nat, NEW s \in Seq(Message(r)), NEW m \in Message(r),
         m.type = "round", m.round = r, \A i \in 1 .. Len(s) : s[i].round # r
  PROVE  Finds(Append(s, m), r, Len(s) + 1, 0, {})
<1> DEFINE u == Append(s, m)
<1>1. Len(s) \in Nat /\ u[Len(s) + 1] = m /\ \A i \in 1 .. Len(s) : u[i] = s[i]
  BY Appended
<1> HIDE DEF u
<1>2. PICK n \in Nat : n = Len(s) BY <1>1
<1>3. n + 1 \in Nat /\ n + 1 > 0 /\ n + 1 - 1 = n BY <1>2
<1>4. u[n + 1].round = r /\ u[n + 1].type = "round" BY <1>1, <1>2
<1>5. \A types : Search(u, types, n, r) = None
  <2>1. CASE n = 0 BY <2>1, SearchFacts
  <2>2. CASE n > 0
    <3>1. n \in 1 .. n BY <2>2
    <3>2. u[n].round # r BY <1>1, <1>2, <3>1
    <3> QED BY <2>2, <3>2, SearchFacts
  <2> QED BY <2>1, <2>2
<1>6. /\ Search(u, {"begin"}, n + 1, r) = None
      /\ Search(u, {"damage"}, n + 1, r) = None
  <2>1. Search(u, {"begin"}, n + 1, r) = Search(u, {"begin"}, n, r)
    BY <1>3, <1>4, SearchFacts
  <2>2. Search(u, {"damage"}, n + 1, r) = Search(u, {"damage"}, n, r)
    BY <1>3, <1>4, SearchFacts
  <2> QED BY <1>5, <2>1, <2>2
<1>7. Caused(u, r, n + 1, {}) = {}
  <2>1. \A i \in 1 .. n + 1 : i = n + 1 \/ i \in 1 .. n BY <1>2
  <2>2. \A i \in 1 .. n : u[i].round # r BY <1>1, <1>2
  <2> QED BY <1>4, <2>1, <2>2 DEF Caused
<1>8. Finds(u, r, n + 1, 0, {}) BY <1>6, <1>7 DEF Finds, Latest
<1> QED BY <1>2, <1>8 DEF u

-----------------------------------------------------------------------------
(* Without the shield: what runs is nested, and up to each beginning the   *)
(* searches find what it runs in.                                          *)

(* What began at a is open with d others in it, and all since is its.      *)
OpenAt(s, a, d) ==
  /\ s[a].type = "begin"
  /\ Depth(s, a, Len(s)) = d + 1
  /\ \A k \in a + 1 .. Len(s) : Depth(s, k, Len(s)) <= d /\ s[k].src >= a

Limit(s, c, j) == IF j = Len(c) THEN Len(s) ELSE c[j + 1] - 1
LastOf(c, j) == IF j = 0 THEN 0 ELSE c[j]
Around(c, j) == {c[k] : k \in 1 .. j}

Tidy(s, r, c) ==
  /\ \A j, k \in 1 .. Len(c) : j < k => c[j] < c[k]
  /\ \A j \in 1 .. Len(c) : OpenAt(s, c[j], Len(c) - j)
  /\ \A j \in 0 .. Len(c) : Finds(s, r, Limit(s, c, j), LastOf(c, j), Around(c, j))

LEMMA OpenStep ==
  ASSUME NEW r \in Nat, NEW s \in Seq(Message(r)), NEW m \in Message(r),
         NEW a \in 1 .. Len(s), NEW d \in Nat, OpenAt(s, a, d), m.src >= a
  PROVE  OpenAt(Append(s, m), a, d + Turn(m.type))
<1> DEFINE u == Append(s, m)
<1>1. /\ Len(s) \in Nat /\ Len(u) = Len(s) + 1 /\ u[Len(s) + 1] = m
      /\ \A i \in 1 .. Len(s) : u[i] = s[i]
  BY Appended
<1>2. \A k \in Nat : k > 0 /\ k <= Len(s) + 1 =>
        Depth(u, k, Len(s) + 1) = Depth(s, k, Len(s)) + Turn(m.type)
  BY AppendedDepth
<1> HIDE DEF u
<1>3. Turn(m.type) \in {-1, 0, 1} BY DEF Turn
<1>4. a \in Nat /\ a > 0 /\ a <= Len(s) BY <1>1
<1>5. Depth(u, a, Len(u)) = d + Turn(m.type) + 1
  <2>1. Depth(s, a, Len(s)) = d + 1 BY DEF OpenAt
  <2>2. Depth(u, a, Len(s) + 1) = Depth(s, a, Len(s)) + Turn(m.type)
    BY <1>1, <1>2, <1>4
  <2> QED BY <1>1, <1>3, <2>1, <2>2
<1>6. ASSUME NEW k \in a + 1 .. Len(u)
      PROVE  Depth(u, k, Len(u)) <= d + Turn(m.type) /\ u[k].src >= a
  <2>1. k \in Nat /\ k > 0 /\ k <= Len(s) + 1 BY <1>1, <1>4
  <2>2. Depth(u, k, Len(u)) = Depth(s, k, Len(s)) + Turn(m.type) BY <1>1, <1>2, <2>1
  <2>3. Depth(s, k, Len(s)) \in Int /\ (k > Len(s) => Depth(s, k, Len(s)) = 0)
    BY <1>1, <2>1, DepthFacts
  <2>4. CASE k = Len(s) + 1
    <3>1. Depth(s, k, Len(s)) = 0 BY <1>1, <2>3, <2>4
    <3> QED BY <1>1, <1>3, <2>2, <2>4, <3>1
  <2>5. CASE k # Len(s) + 1
    <3>1. k \in a + 1 .. Len(s) BY <1>1, <1>4, <2>1, <2>5
    <3>2. Depth(s, k, Len(s)) <= d /\ s[k].src >= a BY <3>1 DEF OpenAt
    <3>3. u[k] = s[k] BY <1>1, <1>4, <2>1, <2>5
    <3> QED BY <1>3, <2>2, <2>3, <3>2, <3>3
  <2> QED BY <2>4, <2>5
<1>7. u[a].type = "begin" BY <1>1 DEF OpenAt
<1>8. OpenAt(u, a, d + Turn(m.type)) BY <1>5, <1>6, <1>7 DEF OpenAt
<1> QED BY <1>8 DEF u

(* What is known of the positions in c.                                    *)
LEMMA CallFacts ==
  ASSUME NEW r \in Nat, NEW s \in Seq(Message(r)), NEW c, Whole(s, c)
  PROVE  /\ Len(s) \in Nat /\ Len(c) \in Nat
         /\ c = << >> <=> Len(c) = 0
         /\ Running(c) = LastOf(c, Len(c))
         /\ LastOf(c, Len(c)) \in {0} \cup Around(c, Len(c))
         /\ \A j \in 1 .. Len(c) : c[j] \in 2 .. Len(s) /\ c[j] \in Nat
         /\ \A j \in 0 .. Len(c) : Limit(s, c, j) \in 0 .. Len(s)
<1>1. c \in Seq(2 .. Len(s)) BY DEF Whole
<1>2. Len(s) \in Nat /\ Len(c) \in Nat BY <1>1, LenProperties
<1>3. \A j \in 1 .. Len(c) : c[j] \in 2 .. Len(s) /\ c[j] \in Nat BY <1>1, <1>2
<1>4. c = << >> <=> Len(c) = 0 BY <1>1, EmptySeq
<1>5. Running(c) = LastOf(c, Len(c)) BY <1>4 DEF Running, LastOf
<1>6. LastOf(c, Len(c)) \in {0} \cup Around(c, Len(c)) BY <1>2 DEF LastOf, Around
<1>7. ASSUME NEW j \in 0 .. Len(c) PROVE Limit(s, c, j) \in 0 .. Len(s)
  <2>1. CASE j = Len(c) BY <1>2, <2>1 DEF Limit
  <2>2. CASE j # Len(c)
    <3>1. j + 1 \in 1 .. Len(c) BY <1>2, <2>2
    <3>2. c[j + 1] \in 2 .. Len(s) BY <1>3, <3>1
    <3> QED BY <1>2, <2>2, <3>2 DEF Limit
  <2> QED BY <2>1, <2>2
<1> QED BY <1>2, <1>3, <1>4, <1>5, <1>6, <1>7

LEMMA TidyReport ==
  ASSUME NEW r \in Nat, NEW s \in Seq(Message(r)), NEW m \in Message(r), NEW c,
         Whole(s, c), Tidy(s, r, c), m.type \in {"damage", "effect"}, m.round = r,
         m.src = Running(c)
  PROVE  Tidy(Append(s, m), r, c)
<1> DEFINE u == Append(s, m)
<1>1. /\ Len(s) \in Nat /\ Len(c) \in Nat
      /\ m.src = LastOf(c, Len(c)) /\ m.src \in {0} \cup Around(c, Len(c))
      /\ \A j \in 1 .. Len(c) : c[j] \in 2 .. Len(s) /\ c[j] \in Nat
      /\ \A j \in 0 .. Len(c) : Limit(s, c, j) \in 0 .. Len(s)
  BY CallFacts
<1>2. Len(u) = Len(s) + 1 BY Appended
<1>3. Turn(m.type) = 0 BY DEF Turn
<1>4. \A j, k \in 1 .. Len(c) : j < k => c[j] < c[k] BY DEF Tidy
<1>5. ASSUME NEW j \in 1 .. Len(c) PROVE OpenAt(u, c[j], Len(c) - j)
  <2>1. c[j] \in 1 .. Len(s) /\ Len(c) - j \in Nat BY <1>1
  <2>2. m.src >= c[j]
    <3>1. m.src = c[Len(c)] /\ Len(c) \in 1 .. Len(c) BY <1>1 DEF LastOf
    <3>2. CASE j = Len(c) BY <1>1, <3>1, <3>2
    <3>3. CASE j < Len(c)
      <4>1. c[j] < c[Len(c)] BY <1>4, <3>1, <3>3
      <4> QED BY <1>1, <3>1, <4>1
    <3> QED BY <1>1, <3>2, <3>3
  <2>3. OpenAt(s, c[j], Len(c) - j) BY DEF Tidy
  <2>4. OpenAt(u, c[j], Len(c) - j + Turn(m.type)) BY <2>1, <2>2, <2>3, OpenStep
  <2>5. Len(c) - j + Turn(m.type) = Len(c) - j BY <1>1, <1>3
  <2> QED BY <2>4, <2>5
<1>6. ASSUME NEW j \in 0 .. Len(c)
      PROVE  Finds(u, r, Limit(u, c, j), LastOf(c, j), Around(c, j))
  <2>1. Finds(s, r, Limit(s, c, j), LastOf(c, j), Around(c, j)) BY DEF Tidy
  <2>2. CASE j = Len(c)
    <3>1. Finds(s, r, Len(s), LastOf(c, j), Around(c, j)) BY <2>1, <2>2 DEF Limit
    <3>2. m.src \in {0} \cup Around(c, j) BY <1>1, <2>2
    <3>3. Finds(u, r, Len(s) + 1, LastOf(c, j), Around(c, j)) BY <3>1, <3>2, FindsReport
    <3> QED BY <1>2, <2>2, <3>3 DEF Limit
  <2>3. CASE j # Len(c)
    <3>1. Limit(u, c, j) = Limit(s, c, j) BY <2>3 DEF Limit
    <3>2. Limit(s, c, j) \in 0 .. Len(s) BY <1>1
    <3>3. Finds(u, r, Limit(s, c, j), LastOf(c, j), Around(c, j))
      BY <2>1, <3>2, FindsSame
    <3> QED BY <3>1, <3>3
  <2> QED BY <2>2, <2>3
<1> HIDE DEF u
<1>7. Tidy(u, r, c) BY <1>4, <1>5, <1>6 DEF Tidy
<1> QED BY <1>7 DEF u

LEMMA TidyBegin ==
  ASSUME NEW r \in Nat, NEW s \in Seq(Message(r)), NEW m \in Message(r), NEW c,
         Whole(s, c), Tidy(s, r, c), m.type = "begin", m.round = r, m.src = Running(c),
         Len(s) > 0
  PROVE  Tidy(Append(s, m), r, Append(c, Len(s) + 1))
<1> DEFINE u == Append(s, m)
           d == Append(c, Len(s) + 1)
<1>1. /\ Len(s) \in Nat /\ Len(c) \in Nat
      /\ m.src = LastOf(c, Len(c)) /\ m.src \in {0} \cup Around(c, Len(c))
      /\ \A j \in 1 .. Len(c) : c[j] \in 2 .. Len(s) /\ c[j] \in Nat
      /\ \A j \in 0 .. Len(c) : Limit(s, c, j) \in 0 .. Len(s)
  BY CallFacts
<1>2. Len(u) = Len(s) + 1 /\ u[Len(s) + 1] = m BY Appended
<1>3. Turn(m.type) = 1 BY DEF Turn
<1>4. \A j, k \in 1 .. Len(c) : j < k => c[j] < c[k] BY DEF Tidy
<1>5. /\ Len(d) = Len(c) + 1 /\ d[Len(c) + 1] = Len(s) + 1
      /\ \A j \in 1 .. Len(c) : d[j] = c[j]
  <2>1. c \in Seq(2 .. Len(s)) BY DEF Whole
  <2>2. c \in Seq(Nat) BY <2>1
  <2> QED BY <1>1, <2>2, AppendProperties
<1>6. \A j \in 1 .. Len(d) : j \in 1 .. Len(c) \/ j = Len(c) + 1 BY <1>1, <1>5
<1>7. \A i \in 1 .. Len(s) : s[i].src < i BY DEF Whole
<1>8. \A k \in Nat : k > 0 /\ k <= Len(s) + 1 =>
        Depth(u, k, Len(s) + 1) = Depth(s, k, Len(s)) + Turn(m.type)
  BY AppendedDepth
<1>9. ASSUME NEW j \in 1 .. Len(c) PROVE OpenAt(u, c[j], Len(c) + 1 - j)
  <2>1. c[j] \in 1 .. Len(s) /\ Len(c) - j \in Nat BY <1>1
  <2>2. m.src >= c[j]
    <3>1. m.src = c[Len(c)] /\ Len(c) \in 1 .. Len(c) BY <1>1 DEF LastOf
    <3>2. CASE j = Len(c) BY <1>1, <3>1, <3>2
    <3>3. CASE j < Len(c)
      <4>1. c[j] < c[Len(c)] BY <1>4, <3>1, <3>3
      <4> QED BY <1>1, <3>1, <4>1
    <3> QED BY <1>1, <3>2, <3>3
  <2>3. OpenAt(s, c[j], Len(c) - j) BY DEF Tidy
  <2>4. OpenAt(u, c[j], Len(c) - j + Turn(m.type)) BY <2>1, <2>2, <2>3, OpenStep
  <2>5. Len(c) - j + Turn(m.type) = Len(c) + 1 - j BY <1>1, <1>3
  <2> QED BY <2>4, <2>5
<1>10. ASSUME NEW j \in 0 .. Len(c)
       PROVE  Finds(u, r, Limit(u, d, j), LastOf(d, j), Around(d, j))
  <2>1. Finds(s, r, Limit(s, c, j), LastOf(c, j), Around(c, j)) BY DEF Tidy
  <2>2. LastOf(d, j) = LastOf(c, j) BY <1>1, <1>5 DEF LastOf
  <2>3. Around(d, j) = Around(c, j)
    <3>1. \A k \in 1 .. j : d[k] = c[k] BY <1>1, <1>5
    <3> QED BY <3>1 DEF Around
  <2>4. Limit(u, d, j) = Limit(s, c, j)
    <3>1. j # Len(d) BY <1>1, <1>5
    <3>2. CASE j = Len(c) BY <1>1, <1>5, <3>1, <3>2 DEF Limit
    <3>3. CASE j # Len(c)
      <4>1. j + 1 \in 1 .. Len(c) BY <1>1, <3>3
      <4> QED BY <1>5, <3>1, <3>3, <4>1 DEF Limit
    <3> QED BY <3>2, <3>3
  <2>5. Limit(s, c, j) \in 0 .. Len(s) BY <1>1
  <2>6. Finds(u, r, Limit(s, c, j), LastOf(c, j), Around(c, j))
    BY <2>1, <2>5, FindsSame
  <2> QED BY <2>2, <2>3, <2>4, <2>6
<1>11. Finds(u, r, Limit(u, d, Len(c) + 1), LastOf(d, Len(c) + 1), Around(d, Len(c) + 1))
  <2>1. Len(c) \in 0 .. Len(c) BY <1>1
  <2>2. Finds(s, r, Len(s), LastOf(c, Len(c)), Around(c, Len(c)))
    BY <2>1 DEF Tidy, Limit
  <2>3. Finds(u, r, Len(s) + 1, Len(s) + 1, Around(c, Len(c)) \cup {Len(s) + 1})
    BY <1>7, <2>2, FindsBegin
  <2>4. Limit(u, d, Len(c) + 1) = Len(s) + 1 BY <1>2, <1>5 DEF Limit
  <2>5. LastOf(d, Len(c) + 1) = Len(s) + 1 BY <1>1, <1>5 DEF LastOf
  <2>6. Around(d, Len(c) + 1) = Around(c, Len(c)) \cup {Len(s) + 1}
    <3>1. PICK n \in Nat : n = Len(c) BY <1>1
    <3>2. \A k \in 1 .. n + 1 : k \in 1 .. n \/ k = n + 1 BY <3>1
    <3>3. 1 .. n \subseteq 1 .. n + 1 /\ n + 1 \in 1 .. n + 1 BY <3>1
    <3> HIDE DEF d
    <3>4. d[n + 1] = Len(s) + 1 /\ \A k \in 1 .. n : d[k] = c[k] BY <1>5, <3>1
    <3>5. {d[k] : k \in 1 .. n + 1} = {c[k] : k \in 1 .. n} \cup {Len(s) + 1}
      BY <3>2, <3>3, <3>4
    <3> QED BY <3>1, <3>5 DEF Around
  <2> QED BY <2>3, <2>4, <2>5, <2>6
<1>12. OpenAt(u, Len(s) + 1, 0)
  <2>1. Len(s) + 1 \in Nat /\ Len(s) + 1 > Len(s) /\ Len(s) + 1 > 0 BY <1>1
  <2>2. Depth(s, Len(s) + 1, Len(s)) = 0 BY <1>1, <2>1, DepthFacts
  <2>3. Depth(u, Len(s) + 1, Len(s) + 1) = 1 BY <1>1, <1>3, <1>8, <2>1, <2>2
  <2>4. Len(s) + 1 + 1 .. Len(u) = {} BY <1>1, <1>2
  <2> QED BY <1>1, <1>2, <2>3, <2>4 DEF OpenAt
<1> HIDE DEF u, d
<1>13. ASSUME NEW j \in 1 .. Len(d), NEW k \in 1 .. Len(d), j < k PROVE d[j] < d[k]
  <2>1. j \in 1 .. Len(c) BY <1>1, <1>5, <1>13
  <2>2. CASE k \in 1 .. Len(c) BY <1>4, <1>5, <1>13, <2>1, <2>2
  <2>3. CASE k = Len(c) + 1
    <3>1. d[j] \in 2 .. Len(s) BY <1>1, <1>5, <2>1
    <3> QED BY <1>1, <1>5, <2>3, <3>1
  <2> QED BY <1>6, <2>2, <2>3
<1>14. ASSUME NEW j \in 1 .. Len(d) PROVE OpenAt(u, d[j], Len(d) - j)
  <2>1. CASE j \in 1 .. Len(c) BY <1>5, <1>9, <2>1
  <2>2. CASE j = Len(c) + 1
    <3>1. Len(d) - j = 0 BY <1>1, <1>5, <2>2
    <3> QED BY <1>5, <1>12, <2>2, <3>1
  <2> QED BY <1>6, <2>1, <2>2
<1>15. ASSUME NEW j \in 0 .. Len(d)
       PROVE  Finds(u, r, Limit(u, d, j), LastOf(d, j), Around(d, j))
  <2>1. j \in 0 .. Len(c) \/ j = Len(c) + 1 BY <1>1, <1>5
  <2> QED BY <1>10, <1>11, <2>1
<1>16. Tidy(u, r, d) BY <1>13, <1>14, <1>15 DEF Tidy
<1> QED BY <1>16 DEF u, d

LEMMA TidyEnd ==
  ASSUME NEW r \in Nat, NEW s \in Seq(Message(r)), NEW m \in Message(r), NEW c,
         Whole(s, c), Tidy(s, r, c), m.type = "end", m.round = r, c # << >>,
         m.src = Running(Popped(c))
  PROVE  Tidy(Append(s, m), r, Popped(c))
<1> DEFINE u == Append(s, m)
           d == Popped(c)
<1>1. /\ Len(s) \in Nat /\ Len(c) \in Nat /\ Len(c) # 0
      /\ \A j \in 1 .. Len(c) : c[j] \in 2 .. Len(s) /\ c[j] \in Nat
      /\ \A j \in 0 .. Len(c) : Limit(s, c, j) \in 0 .. Len(s)
  BY CallFacts
<1>2. Len(u) = Len(s) + 1 /\ u[Len(s) + 1] = m BY Appended
<1>3. Turn(m.type) = -1 BY DEF Turn
<1>4. \A j, k \in 1 .. Len(c) : j < k => c[j] < c[k] BY DEF Tidy
<1>5. /\ Len(d) = Len(c) - 1 /\ \A j \in 1 .. Len(d) : d[j] = c[j]
      /\ d = << >> <=> Len(d) = 0
  <2>1. c \in Seq(2 .. Len(s)) BY DEF Whole
  <2> QED BY <2>1, PoppedFacts, EmptySeq
<1>6. \A j \in 1 .. Len(d) : j \in 1 .. Len(c) /\ j < Len(c) BY <1>1, <1>5
<1>7. m.src = LastOf(d, Len(d)) BY <1>5 DEF Running, LastOf
<1>8. PICK b \in 2 .. Len(s) : b = c[Len(c)] /\ OpenAt(s, b, 0)
  <2>1. Len(c) \in 1 .. Len(c) /\ Len(c) - Len(c) = 0 BY <1>1
  <2>2. OpenAt(s, c[Len(c)], Len(c) - Len(c)) BY <2>1 DEF Tidy
  <2> QED BY <1>1, <2>1, <2>2
<1> HIDE DEF d
<1>9. ASSUME NEW j \in 1 .. Len(d) PROVE OpenAt(u, d[j], Len(d) - j)
  <2>1. c[j] \in 1 .. Len(s) /\ Len(c) - j \in Nat BY <1>1, <1>6
  <2>2. m.src >= c[j]
    <3>1. Len(d) # 0 /\ Len(d) \in 1 .. Len(d) BY <1>1, <1>5
    <3>2. m.src = c[Len(d)] BY <1>5, <1>7, <3>1 DEF LastOf
    <3>3. Len(d) \in 1 .. Len(c) /\ j \in 1 .. Len(c) BY <1>6, <3>1
    <3>4. CASE j = Len(d) BY <1>1, <3>2, <3>3, <3>4
    <3>5. CASE j < Len(d)
      <4>1. c[j] < c[Len(d)] BY <1>4, <3>3, <3>5
      <4> QED BY <1>1, <3>2, <3>3, <4>1
    <3> QED BY <1>1, <1>5, <3>4, <3>5
  <2>3. OpenAt(s, c[j], Len(c) - j) BY <1>6 DEF Tidy
  <2>4. OpenAt(u, c[j], Len(c) - j + Turn(m.type)) BY <2>1, <2>2, <2>3, OpenStep
  <2>5. Len(c) - j + Turn(m.type) = Len(d) - j BY <1>1, <1>3, <1>5
  <2> QED BY <1>5, <2>4, <2>5
<1>10. Around(d, Len(d)) = {c[k] : k \in 1 .. Len(d)} BY <1>5 DEF Around
<1>11. \A i \in b .. Len(s) : s[i].type = "damage" => s[i].src \notin {0} \cup Around(d, Len(d))
  <2> SUFFICES ASSUME NEW i \in b .. Len(s), s[i].type = "damage"
               PROVE  s[i].src \notin {0} \cup Around(d, Len(d))
    OBVIOUS
  <2>1. i # b BY <1>8 DEF OpenAt
  <2>2. i \in b + 1 .. Len(s) BY <1>1, <2>1
  <2>3. s[i].src >= b BY <1>8, <2>2 DEF OpenAt
  <2>4. s[i].src \in Nat
    <3>1. i \in 1 .. Len(s) BY <1>1
    <3>2. s[i] \in Message(r) BY <3>1, Appended
    <3> QED BY <3>2 DEF Message
  <2>5. \A k \in 1 .. Len(d) : c[k] < b
    <3>1. Len(c) \in 1 .. Len(c) BY <1>1
    <3> QED BY <1>4, <1>6, <1>8, <3>1
  <2>6. \A k \in 1 .. Len(d) : c[k] \in Nat BY <1>1, <1>6
  <2> QED BY <1>10, <2>3, <2>4, <2>5, <2>6
<1>12. BeforeBegin(u, Len(s) + 1) = b - 1
  <2>1. PICK n \in Nat : n = Len(s) BY <1>1
  <2>2. n + 1 \in Nat /\ n + 1 > 0 /\ n + 1 - 1 = n /\ b \in 1 .. n + 1 - 1 BY <2>1
  <2>3. \A k \in Nat : k > 0 => Depth(u, k, n) = Depth(s, k, n)
    <3>1. n \in 0 .. Len(s) BY <2>1
    <3> QED BY <3>1, AppendedDepth
  <2>4. Depth(u, b, n) = 1 BY <1>8, <2>1, <2>3 DEF OpenAt
  <2>5. \A k \in b + 1 .. n : Depth(u, k, n) # 1
    <3> SUFFICES ASSUME NEW k \in b + 1 .. n PROVE Depth(u, k, n) # 1
      OBVIOUS
    <3>1. k \in Nat /\ k > 0 BY <2>2
    <3>2. Depth(s, k, n) <= 0 BY <1>8, <2>1 DEF OpenAt
    <3>3. Depth(u, k, n) = Depth(s, k, n) /\ Depth(s, k, n) \in Int BY <2>3, <3>1, DepthFacts
    <3> QED BY <3>2, <3>3
  <2> HIDE DEF u
  <2>6. BeforeBegin(u, n + 1) = b - 1 BY <2>2, <2>4, <2>5, BeforeBeginFacts
  <2> QED BY <2>1, <2>6
<1>13. ASSUME NEW j \in 0 .. Len(d)
       PROVE  Finds(u, r, Limit(u, d, j), LastOf(d, j), Around(d, j))
  <2>1. j \in 0 .. Len(c) /\ j # Len(c) BY <1>1, <1>5
  <2>2. Finds(s, r, Limit(s, c, j), LastOf(c, j), Around(c, j)) BY <2>1 DEF Tidy
  <2>3. LastOf(d, j) = LastOf(c, j) BY <1>1, <1>5 DEF LastOf
  <2>4. Around(d, j) = Around(c, j)
    <3>1. \A k \in 1 .. j : d[k] = c[k] BY <1>1, <1>5
    <3> QED BY <3>1 DEF Around
  <2>5. Finds(s, r, c[j + 1] - 1, LastOf(d, j), Around(d, j))
    BY <2>1, <2>2, <2>3, <2>4 DEF Limit
  <2>6. CASE j = Len(d)
    <3>1. c[j + 1] = b BY <1>1, <1>5, <1>8, <2>6
    <3>2. Finds(s, r, b - 1, LastOf(d, j), Around(d, j)) BY <2>5, <3>1
    <3>3. Finds(u, r, Len(s) + 1, LastOf(d, j), Around(d, j))
      BY <1>11, <1>12, <2>6, <3>2, FindsEnd
    <3> QED BY <1>2, <2>6, <3>3 DEF Limit
  <2>7. CASE j # Len(d)
    <3>1. j + 1 \in 1 .. Len(d) BY <1>1, <1>5, <2>7
    <3>2. Limit(u, d, j) = c[j + 1] - 1 BY <1>5, <2>7, <3>1 DEF Limit
    <3>3. c[j + 1] - 1 \in 0 .. Len(s) BY <1>1, <2>1 DEF Limit
    <3>4. Finds(u, r, c[j + 1] - 1, LastOf(d, j), Around(d, j))
      BY <2>5, <3>3, FindsSame
    <3> QED BY <3>2, <3>4
  <2> QED BY <2>6, <2>7
<1> HIDE DEF u
<1>14. \A j, k \in 1 .. Len(d) : j < k => d[j] < d[k] BY <1>4, <1>5, <1>6
<1>15. Tidy(u, r, d) BY <1>9, <1>13, <1>14 DEF Tidy
<1> QED BY <1>15 DEF u, d

LEMMA TidyRound ==
  ASSUME NEW r \in Nat, NEW s \in Seq(Message(r)), NEW m \in Message(r),
         m.type = "round", m.round = r, \A i \in 1 .. Len(s) : s[i].round # r
  PROVE  Tidy(Append(s, m), r, << >>)
<1> DEFINE u == Append(s, m)
           c == << >>
<1>1. Len(u) = Len(s) + 1 /\ Len(c) = 0 BY Appended
<1>2. Finds(u, r, Len(s) + 1, 0, {}) BY FindsRound
<1> HIDE DEF u, c
<1>3. ASSUME NEW j \in 0 .. Len(c)
      PROVE  Finds(u, r, Limit(u, c, j), LastOf(c, j), Around(c, j))
  <2>1. j = 0 BY <1>1
  <2>2. Around(c, j) = {} BY <2>1 DEF Around
  <2> QED BY <1>1, <1>2, <2>1, <2>2 DEF Limit, LastOf
<1>4. Tidy(u, r, c) BY <1>1, <1>3 DEF Tidy
<1> QED BY <1>4 DEF u, c

(* At the end of the record the searches find what runs now and its own.   *)
LEMMA TidyNow ==
  ASSUME NEW r \in Nat, NEW s \in Seq(Message(r)), NEW c, Whole(s, c), Tidy(s, r, c)
  PROVE  Finds(s, r, Len(s), Running(c), Range(c))
<1>1. Len(c) \in Nat /\ Running(c) = LastOf(c, Len(c)) BY CallFacts
<1>2. Len(c) \in 0 .. Len(c) BY <1>1
<1>3. Finds(s, r, Limit(s, c, Len(c)), LastOf(c, Len(c)), Around(c, Len(c)))
  BY <1>2 DEF Tidy
<1>4. Limit(s, c, Len(c)) = Len(s) BY DEF Limit
<1>5. Around(c, Len(c)) = Range(c)
  <2>1. c \in Seq(2 .. Len(s)) BY DEF Whole
  <2>2. DOMAIN c = 1 .. Len(c) BY <2>1, LenProperties
  <2> QED BY <2>2 DEF Around, Range
<1> QED BY <1>1, <1>3, <1>4, <1>5

(* message_findsource() at every message, as SourceIsWhatRan has it        *)
Sources(s) ==
  \A i \in 1 .. Len(s) :
    Search(s, {"begin"}, i, s[i].round)
      = IF s[i].type = "begin" THEN i ELSE IF s[i].src = 0 THEN None ELSE s[i].src

LEMMA SourcesStep ==
  ASSUME NEW r \in Nat, NEW s \in Seq(Message(r)), NEW m \in Message(r), NEW a, NEW A,
         Sources(s), Finds(Append(s, m), m.round, Len(s) + 1, a, A),
         m.type = "begin" => a = Len(s) + 1, m.type # "begin" => a = m.src
  PROVE  Sources(Append(s, m))
<1> DEFINE u == Append(s, m)
<1>1. /\ Len(s) \in Nat /\ Len(u) = Len(s) + 1 /\ u[Len(s) + 1] = m
      /\ \A i \in 1 .. Len(s) : u[i] = s[i]
  BY Appended
<1>2. Finds(u, m.round, Len(s) + 1, a, A) OBVIOUS
<1> HIDE DEF u
<1>3. ASSUME NEW i \in 1 .. Len(u)
      PROVE  Search(u, {"begin"}, i, u[i].round)
               = IF u[i].type = "begin" THEN i ELSE IF u[i].src = 0 THEN None ELSE u[i].src
  <2>1. CASE i = Len(s) + 1
    <3>1. Search(u, {"begin"}, i, m.round) = IF a = 0 THEN None ELSE a
      BY <1>2, <2>1 DEF Finds
    <3> QED BY <1>1, <2>1, <3>1
  <2>2. CASE i # Len(s) + 1
    <3>1. i \in Nat /\ i \in 1 .. Len(s) /\ \A k \in 1 .. i : u[k] = s[k] BY <1>1, <2>2
    <3>2. Search(u, {"begin"}, i, s[i].round) = Search(s, {"begin"}, i, s[i].round)
      BY <3>1, SearchSame
    <3> QED BY <1>1, <3>1, <3>2 DEF Sources
  <2> QED BY <2>1, <2>2
<1>4. Sources(u) BY <1>3 DEF Sources
<1> QED BY <1>4 DEF u

-----------------------------------------------------------------------------
(* The reports of the shield.                                              *)

Logs(r) == [rec : Seq(Message(r)), shielded : BOOLEAN, inevent : Nat,
            control : BOOLEAN, cooldown : BOOLEAN]

Sound(l, c, k) == l \in Logs(round) /\ Whole(l.rec, c) /\ l.inevent >= k

LEMMA ReportSound ==
  ASSUME round \in Nat, NEW l, NEW c, NEW k \in Nat, Sound(l, c, k),
         NEW t \in Type, t # "end"
  PROVE  /\ Sound(Report(l, t, c), c, k)
         /\ Report(l, t, c) = [l EXCEPT !.rec = Report(l, t, c).rec]
         /\ Report(l, t, c).rec
              = Append(l.rec, [type |-> t, round |-> round, src |-> Running(c)])
         /\ [type |-> t, round |-> round, src |-> Running(c)] \in Message(round)
         /\ Len(Report(l, t, c).rec) = Len(l.rec) + 1
         /\ Len(l.rec) \in Nat
         /\ Running(c) <= Len(l.rec)
<1> DEFINE m == [type |-> t, round |-> round, src |-> Running(c)]
<1>1. l \in Logs(round) /\ Whole(l.rec, c) /\ l.inevent >= k BY DEF Sound
<1>2. l.rec \in Seq(Message(round)) BY <1>1 DEF Logs
<1>3. /\ Len(l.rec) \in Nat /\ Len(c) \in Nat /\ Running(c) = LastOf(c, Len(c))
      /\ \A j \in 1 .. Len(c) : c[j] \in 2 .. Len(l.rec)
  BY <1>1, <1>2, CallFacts
<1>4. Running(c) \in Nat /\ Running(c) <= Len(l.rec)
  <2>1. CASE Len(c) = 0 BY <1>3, <2>1 DEF LastOf
  <2>2. CASE Len(c) # 0
    <3>1. Len(c) \in 1 .. Len(c) BY <1>3, <2>2
    <3>2. Running(c) \in 2 .. Len(l.rec) BY <1>3, <2>2, <3>1 DEF LastOf
    <3> QED BY <1>3, <3>2
  <2> QED BY <2>1, <2>2
<1>5. m \in Message(round) BY <1>4 DEF Message
<1>6. Report(l, t, c) = [l EXCEPT !.rec = Append(l.rec, m)] BY DEF Report
<1>7. /\ Append(l.rec, m) \in Seq(Message(round))
      /\ Len(Append(l.rec, m)) = Len(l.rec) + 1
  BY <1>2, <1>5, Appended
<1>8. m.src = Running(c) /\ m.type = t OBVIOUS
<1> HIDE DEF m
<1>9. Whole(Append(l.rec, m), c) BY <1>1, <1>2, <1>4, <1>5, <1>8, WholeReport
<1>10. /\ Report(l, t, c) \in Logs(round) /\ Report(l, t, c).rec = Append(l.rec, m)
       /\ Report(l, t, c).inevent = l.inevent
       /\ Report(l, t, c) = [l EXCEPT !.rec = Report(l, t, c).rec]
  BY <1>1, <1>6, <1>7 DEF Logs
<1>11. Sound(Report(l, t, c), c, k) BY <1>1, <1>9, <1>10 DEF Sound
<1> QED BY <1>3, <1>4, <1>5, <1>7, <1>10, <1>11 DEF m

LEMMA ReportShielded ==
  ASSUME round \in Nat, NEW l, NEW c, NEW k \in Nat, Sound(l, c, k)
  PROVE  /\ Sound(Report(l, "effect", c), c, k)
         /\ Report(l, "effect", c).shielded = l.shielded
<1> DEFINE n == Report(l, "effect", c)
<1>1. Sound(n, c, k) /\ n = [l EXCEPT !.rec = n.rec] BY ReportSound DEF Type
<1> HIDE DEF n
<1>2. n.shielded = l.shielded BY <1>1 DEF Sound, Logs
<1> QED BY <1>1, <1>2 DEF n

LEMMA EffectEventSound ==
  ASSUME round \in Nat, NEW l, NEW c, NEW k \in Nat, Sound(l, c, k)
  PROVE  /\ Sound(EffectEvent(l, c), c, k + 1)
         /\ EffectEvent(l, c).shielded = l.shielded
         /\ Len(l.rec) > 0 => Sound(EffectEvent(l, c), Inner(EffectEvent(l, c), c), k + 1)
<1> DEFINE m == [type |-> "begin", round |-> round, src |-> Running(c)]
           n == Report(l, "begin", c)
<1>1. /\ Sound(n, c, k) /\ n.rec = Append(l.rec, m) /\ m \in Message(round)
      /\ Len(n.rec) = Len(l.rec) + 1 /\ Running(c) <= Len(l.rec)
  BY ReportSound DEF Type
<1>2. m.type = "begin" /\ m.src = Running(c) OBVIOUS
<1>3. EffectEvent(l, c) = [n EXCEPT !.inevent = @ + 1] /\ n = [l EXCEPT !.rec = n.rec]
  BY ReportSound DEF EffectEvent, Type
<1> HIDE DEF m, n
<1>4. /\ Sound(EffectEvent(l, c), c, k + 1) /\ EffectEvent(l, c).rec = n.rec
      /\ EffectEvent(l, c).shielded = l.shielded
  <2>1. n \in Logs(round) /\ Whole(n.rec, c) /\ n.inevent >= k BY <1>1 DEF Sound
  <2>2. n.inevent \in Nat BY <2>1 DEF Logs
  <2>3. PICK a \in Nat : a = n.inevent + 1 /\ a >= k + 1 BY <2>1, <2>2
  <2>4. EffectEvent(l, c) = [n EXCEPT !.inevent = a] BY <1>3, <2>3
  <2>5. /\ EffectEvent(l, c) \in Logs(round) /\ EffectEvent(l, c).rec = n.rec
        /\ EffectEvent(l, c).inevent = a /\ EffectEvent(l, c).shielded = n.shielded
    BY <2>1, <2>4 DEF Logs
  <2>6. n.shielded = l.shielded BY <1>3 DEF Sound, Logs
  <2> QED BY <2>1, <2>3, <2>5, <2>6 DEF Sound
<1>6. ASSUME Len(l.rec) > 0 PROVE Sound(EffectEvent(l, c), Inner(EffectEvent(l, c), c), k + 1)
  <2>1. l.rec \in Seq(Message(round)) /\ Whole(l.rec, c) BY DEF Sound, Logs
  <2>2. Whole(Append(l.rec, m), Append(c, Len(l.rec) + 1))
    BY <1>1, <1>2, <1>6, <2>1, WholeBegin
  <2>3. Inner(EffectEvent(l, c), c) = Append(c, Len(l.rec) + 1) BY <1>1, <1>4 DEF Inner
  <2> QED BY <1>1, <1>4, <2>2, <2>3 DEF Sound
<1> QED BY <1>4, <1>6

LEMMA EffectEventEndSound ==
  ASSUME round \in Nat, NEW l, NEW S, NEW c \in Seq(S), NEW x \in S, NEW k \in Nat,
         Sound(l, Append(c, x), k + 1), Running(c) \in Nat, Running(c) <= Len(l.rec)
  PROVE  Sound(EffectEventEnd(l, c), c, k) /\ EffectEventEnd(l, c).shielded = l.shielded
<1> DEFINE m == [type |-> "end", round |-> round, src |-> Running(c)]
           n == Report(l, "end", c)
<1>1. /\ l \in Logs(round) /\ l.rec \in Seq(Message(round)) /\ Whole(l.rec, Append(c, x))
      /\ l.inevent \in Nat /\ l.inevent >= k + 1
  BY DEF Sound, Logs
<1>2. m \in Message(round) BY DEF Message, Type
<1>3. m.type = "end" /\ m.src = Running(c) OBVIOUS
<1>4. n = [l EXCEPT !.rec = Append(l.rec, m)] BY DEF Report
<1>5. Append(l.rec, m) \in Seq(Message(round)) BY <1>1, <1>2, Appended
<1>6. EffectEventEnd(l, c) = [n EXCEPT !.inevent = @ - 1] BY DEF EffectEventEnd
<1>7. Append(c, x) # << >> /\ Popped(Append(c, x)) = c
  <2>1. /\ Append(c, x) \in Seq(S) /\ Len(Append(c, x)) = Len(c) + 1 /\ Len(c) \in Nat
        /\ \A i \in 1 .. Len(c) : Append(c, x)[i] = c[i]
    BY AppendProperties, LenProperties
  <2> DEFINE d == Append(c, x)
  <2> HIDE DEF d
  <2>2. d \in Seq(S) /\ Len(d) = Len(c) + 1 /\ \A i \in 1 .. Len(c) : d[i] = c[i]
    BY <2>1 DEF d
  <2>3. d # << >> BY <2>1, <2>2, EmptySeq
  <2>4. /\ Popped(d) \in Seq(S) /\ Len(Popped(d)) = Len(d) - 1
        /\ \A i \in 1 .. Len(d) - 1 : Popped(d)[i] = d[i]
    BY <2>2, <2>3, PoppedFacts
  <2>5. Len(Popped(d)) = Len(c) BY <2>1, <2>2, <2>4
  <2>6. \A i \in 1 .. Len(c) : Popped(d)[i] = c[i] BY <2>1, <2>2, <2>4
  <2>7. Popped(d) = c BY <2>4, <2>5, <2>6, SeqEqual
  <2> QED BY <2>3, <2>7 DEF d
<1> HIDE DEF m, n
<1>8. Whole(Append(l.rec, m), Popped(Append(c, x)))
  BY <1>1, <1>2, <1>3, <1>7, WholeEnd
<1>9. /\ n \in Logs(round) /\ n.rec = Append(l.rec, m) /\ n.inevent = l.inevent
      /\ n.shielded = l.shielded
  BY <1>1, <1>4, <1>5 DEF Logs
<1>10. PICK a \in Nat : a = n.inevent - 1 /\ a >= k BY <1>1, <1>9
<1>11. EffectEventEnd(l, c) = [n EXCEPT !.inevent = a] BY <1>6, <1>10
<1>12. /\ EffectEventEnd(l, c) \in Logs(round)
       /\ EffectEventEnd(l, c).rec = Append(l.rec, m)
       /\ EffectEventEnd(l, c).inevent = a /\ EffectEventEnd(l, c).shielded = n.shielded
  BY <1>9, <1>11 DEF Logs
<1> QED BY <1>7, <1>8, <1>9, <1>10, <1>12 DEF Sound

LEMMA TriggerSound ==
  ASSUME round \in Nat, NEW l, NEW c, NEW k \in Nat, Sound(l, c, k)
  PROVE  Sound(Trigger(l, c), c, k) /\ Trigger(l, c).shielded = l.shielded
<1> DEFINE m == Report(l, "effect", c)
           purified == [m EXCEPT !.control = FALSE]
           n == Report(purified, "effect", c)
           reinit == Reinit(purified, c)
           q == Report(reinit, "effect", c)
<1>1. Sound(m, c, k) /\ m.shielded = l.shielded BY ReportShielded
<1>2. Sound(purified, c, k) /\ purified.shielded = l.shielded
  <2>1. m \in Logs(round) /\ Whole(m.rec, c) /\ m.inevent >= k BY <1>1 DEF Sound
  <2> HIDE DEF m
  <2>2. /\ purified \in Logs(round) /\ purified.rec = m.rec /\ purified.inevent = m.inevent
        /\ purified.shielded = m.shielded
    BY <2>1 DEF Logs
  <2> QED BY <1>1, <2>1, <2>2 DEF Sound
<1> HIDE DEF m, purified
<1>3. Sound(n, c, k) /\ n.shielded = l.shielded BY <1>2, ReportShielded
<1>4. Sound(EffectEvent(n, c), c, k) /\ EffectEvent(n, c).shielded = l.shielded
  <2> HIDE DEF n
  <2>1. Sound(EffectEvent(n, c), c, k + 1) /\ EffectEvent(n, c).shielded = n.shielded
    BY <1>3, EffectEventSound
  <2>2. EffectEvent(n, c).inevent \in Nat BY <2>1 DEF Sound, Logs
  <2> QED BY <1>3, <2>1, <2>2 DEF Sound
<1>5. Sound(reinit, c, k) /\ reinit.shielded = l.shielded BY <1>3, <1>4 DEF Reinit
<1> HIDE DEF n, reinit
<1>6. Sound(q, c, k) /\ q.shielded = l.shielded BY <1>5, ReportShielded
<1>7. Trigger(l, c) = [q EXCEPT !.cooldown = TRUE]
  BY DEF Trigger, m, purified, reinit
<1> HIDE DEF q
<1>8. q \in Logs(round) /\ Whole(q.rec, c) /\ q.inevent >= k BY <1>6 DEF Sound
<1>9. /\ Trigger(l, c) \in Logs(round) /\ Trigger(l, c).rec = q.rec
      /\ Trigger(l, c).inevent = q.inevent /\ Trigger(l, c).shielded = q.shielded
  BY <1>7, <1>8 DEF Logs
<1> QED BY <1>6, <1>8, <1>9 DEF Sound

LEMMA ShieldEffectEndSound ==
  ASSUME round \in Nat, NEW l, NEW c, NEW k \in Nat, Sound(l, c, k), Len(l.rec) > 0
  PROVE  Sound(ShieldEffectEnd(l, c), c, k) /\ ShieldEffectEnd(l, c).shielded = l.shielded
<1> DEFINE m == EffectEvent(l, c)
           t == Trigger(m, Inner(m, c))
<1>1. Sound(m, c, k + 1) /\ Sound(m, Inner(m, c), k + 1) /\ m.shielded = l.shielded
  BY EffectEventSound
<1>2. Sound(m, c, k)
  <2> HIDE DEF m
  <2>1. m.inevent \in Nat BY <1>1 DEF Sound, Logs
  <2> QED BY <1>1, <2>1 DEF Sound
<1>3. k + 1 \in Nat OBVIOUS
<1>4. Sound(EffectEventEnd(t, c), c, k) /\ EffectEventEnd(t, c).shielded = l.shielded
  <2> HIDE DEF m
  <2>1. Sound(t, Inner(m, c), k + 1) /\ t.shielded = m.shielded BY <1>1, <1>3, TriggerSound
  <2> HIDE DEF t
  <2>2. /\ m.rec \in Seq(Message(round)) /\ Whole(m.rec, c)
        /\ t.rec \in Seq(Message(round)) /\ Whole(t.rec, Inner(m, c))
    BY <1>1, <2>1 DEF Sound, Logs
  <2>3. PICK x \in Nat : x = Len(m.rec) BY <2>2
  <2>4. c \in Seq(Nat) BY <2>2 DEF Whole
  <2>5. Inner(m, c) = Append(c, x) BY <2>3 DEF Inner
  <2>6. Running(c) \in Nat /\ Running(c) <= Len(t.rec)
    <3>1. /\ Len(c) \in Nat /\ (c = << >> <=> Len(c) = 0)
          /\ \A j \in 1 .. Len(c) : Append(c, x)[j] = c[j] /\ j \in 1 .. Len(Append(c, x))
      BY <2>3, <2>4, AppendProperties, EmptySeq
    <3>2. /\ Len(t.rec) \in Nat
          /\ \A j \in 1 .. Len(Append(c, x)) : Append(c, x)[j] \in 2 .. Len(t.rec)
      BY <2>2, <2>5, CallFacts
    <3>3. CASE c = << >> BY <3>2, <3>3 DEF Running
    <3>4. CASE c # << >>
      <4>1. Len(c) \in 1 .. Len(c) BY <3>1, <3>4
      <4>2. c[Len(c)] \in 2 .. Len(t.rec) BY <3>1, <3>2, <4>1
      <4> QED BY <3>2, <3>4, <4>2 DEF Running
    <3> QED BY <3>3, <3>4
  <2>7. Sound(t, Append(c, x), k + 1) BY <2>1, <2>5
  <2>8. Sound(EffectEventEnd(t, c), c, k) /\ EffectEventEnd(t, c).shielded = t.shielded
    BY <2>3, <2>4, <2>6, <2>7, EffectEventEndSound
  <2> QED BY <1>1, <2>1, <2>8
<1> QED BY <1>1, <1>2, <1>4 DEF ShieldEffectEnd

LEMMA PutOnSound ==
  ASSUME round \in Nat, NEW l, NEW c, Sound(l, c, 0)
  PROVE  Sound(PutOn(l, c), c, 0) /\ PutOn(l, c).shielded = l.shielded
<1> DEFINE m == Report(l, "effect", c)
<1>1. Sound(m, c, 0) /\ Len(m.rec) = Len(l.rec) + 1 /\ Len(l.rec) \in Nat
  BY ReportSound DEF Type
<1>3. m.shielded = l.shielded BY ReportShielded
<1> HIDE DEF m
<1>2. Sound(ShieldEffectEnd(m, c), c, 0) /\ ShieldEffectEnd(m, c).shielded = m.shielded
  <2>1. Len(m.rec) > 0 BY <1>1
  <2> QED BY <1>1, <2>1, ShieldEffectEndSound
<1> QED BY <1>1, <1>2, <1>3 DEF PutOn, m

-----------------------------------------------------------------------------
(* The invariant.                                                          *)

IInv ==
  /\ round \in 0 .. RoundMax
  /\ Fits(log)
  /\ Sound(log, calls, 0)
  /\ ~log.shielded => /\ ~log.cooldown
                      /\ Tidy(rec, round, calls)
                      /\ Sources(rec)

LEMMA IInvInit == Init => IInv
<1> SUFFICES ASSUME Init PROVE IInv
  OBVIOUS
<1>1. /\ log \in Logs(round) /\ rec = << >> /\ log.inevent = 0 /\ ~log.cooldown
      /\ round = 0 /\ calls = << >>
  <2>1. log \in [rec : {<< >>}, shielded : BOOLEAN, inevent : {0}, control : {FALSE},
                 cooldown : {FALSE}]
    BY DEF Init
  <2>2. PICK b \in BOOLEAN : log = [rec |-> << >>, shielded |-> b, inevent |-> 0,
                                   control |-> FALSE, cooldown |-> FALSE]
    BY <2>1
  <2>3. << >> \in Seq(Message(round)) OBVIOUS
  <2>4. log \in Logs(round) BY <2>2, <2>3 DEF Logs
  <2> QED BY <2>2, <2>4 DEF Init, rec
<1>2. Len(rec) = 0 /\ Len(calls) = 0 BY <1>1
<1>3. Whole(rec, calls) BY <1>1, <1>2 DEF Whole
<1>4. round \in 0 .. RoundMax BY <1>1, MessageLogAssumption
<1>5. Fits(log) BY <1>2, MessageLogAssumption DEF Fits, rec
<1>6. Finds(rec, round, 0, 0, {})
  <2>1. \A types : Search(rec, types, 0, round) = None BY SearchFacts
  <2>2. Caused(rec, round, 0, {}) = {} BY DEF Caused
  <2> QED BY <2>1, <2>2 DEF Finds, Latest
<1>7. Tidy(rec, round, calls)
  <2>1. ASSUME NEW j \in 0 .. Len(calls)
        PROVE  Finds(rec, round, Limit(rec, calls, j), LastOf(calls, j), Around(calls, j))
    <3>1. j = 0 BY <1>2
    <3>2. Around(calls, j) = {} BY <3>1 DEF Around
    <3> QED BY <1>2, <1>6, <3>1, <3>2 DEF Limit, LastOf
  <2> QED BY <1>2, <2>1 DEF Tidy
<1>8. Sources(rec) BY <1>2 DEF Sources
<1>9. Sound(log, calls, 0) BY <1>1, <1>3 DEF Sound, rec
<1> QED BY <1>1, <1>4, <1>5, <1>7, <1>8, <1>9 DEF IInv

LEMMA SameRound ==
  ASSUME IInv, round' = round, Fits(log'), Sound(log', calls', 0),
         ~log'.shielded => /\ ~log'.cooldown
                           /\ Tidy(log'.rec, round, calls')
                           /\ Sources(log'.rec)
  PROVE  IInv'
BY DEF IInv, Sound, rec

(* Damage and effects without the shield                                   *)
LEMMA ReportTidy ==
  ASSUME round \in Nat, NEW l, NEW c, Sound(l, c, 0), NEW t \in {"damage", "effect"},
         Tidy(l.rec, round, c), Sources(l.rec)
  PROVE  Tidy(Report(l, t, c).rec, round, c) /\ Sources(Report(l, t, c).rec)
<1> DEFINE m == [type |-> t, round |-> round, src |-> Running(c)]
           u == Append(l.rec, m)
<1>1. t \in Type /\ t # "end" BY DEF Type
<1>2. /\ Report(l, t, c).rec = u /\ m \in Message(round) /\ Sound(Report(l, t, c), c, 0)
      /\ Len(u) = Len(l.rec) + 1
  <2>1. /\ Report(l, t, c).rec
             = Append(l.rec, [type |-> t, round |-> round, src |-> Running(c)])
        /\ [type |-> t, round |-> round, src |-> Running(c)] \in Message(round)
        /\ Sound(Report(l, t, c), c, 0) /\ Len(Report(l, t, c).rec) = Len(l.rec) + 1
    BY <1>1, ReportSound
  <2> QED BY <2>1
<1>3. l.rec \in Seq(Message(round)) /\ Whole(l.rec, c) BY DEF Sound, Logs
<1>4. m.type = t /\ m.round = round /\ m.src = Running(c) OBVIOUS
<1> HIDE DEF m
<1>5. Tidy(u, round, c) BY <1>2, <1>3, <1>4, TidyReport
<1>6. u \in Seq(Message(round)) /\ Whole(u, c) BY <1>2 DEF Sound, Logs
<1> HIDE DEF u
<1>7. Finds(u, round, Len(u), Running(c), Range(c)) BY <1>5, <1>6, TidyNow
<1>8. m.type # "begin" BY <1>4
<1>9. Finds(Append(l.rec, m), m.round, Len(l.rec) + 1, m.src, Range(c))
  BY <1>2, <1>4, <1>7 DEF u
<1>10. Sources(Append(l.rec, m)) BY <1>2, <1>3, <1>8, <1>9, SourcesStep
<1> QED BY <1>2, <1>5, <1>10 DEF u

LEMMA HurtStep == IInv /\ Hurt => IInv'
<1> SUFFICES ASSUME IInv, Hurt PROVE IInv'
  OBVIOUS
<1>1. /\ round \in Nat /\ Sound(log, calls, 0)
      /\ log' = Report(log, "damage", calls) /\ Fits(log')
      /\ round' = round /\ calls' = calls
  BY DEF IInv, Hurt
<1>2. /\ Sound(Report(log, "damage", calls), calls, 0)
      /\ Report(log, "damage", calls) = [log EXCEPT !.rec = Report(log, "damage", calls).rec]
  BY <1>1, ReportSound DEF Type
<1>3. log'.shielded = log.shielded /\ log'.cooldown = log.cooldown
  BY <1>1, <1>2 DEF Sound, Logs
<1>4. ASSUME ~log'.shielded
      PROVE  ~log'.cooldown /\ Tidy(log'.rec, round, calls') /\ Sources(log'.rec)
  <2>1. ~log.cooldown /\ Tidy(log.rec, round, calls) /\ Sources(log.rec)
    BY <1>3, <1>4 DEF IInv, rec
  <2>2. /\ Tidy(Report(log, "damage", calls).rec, round, calls)
        /\ Sources(Report(log, "damage", calls).rec)
    BY <1>1, <2>1, ReportTidy
  <2> QED BY <1>1, <1>3, <2>1, <2>2
<1> QED BY <1>1, <1>2, <1>4, SameRound

LEMMA EffectStep == ASSUME NEW control \in BOOLEAN PROVE IInv /\ Effect(control) => IInv'
<1> SUFFICES ASSUME IInv, Effect(control) PROVE IInv'
  OBVIOUS
<1> DEFINE l == [log EXCEPT !.control = @ \/ control]
<1>1. /\ round \in Nat /\ log \in Logs(round) /\ Sound(log, calls, 0)
      /\ log' = PutOn(l, calls) /\ Fits(log')
      /\ round' = round /\ calls' = calls
  BY DEF IInv, Effect, Sound
<1>2. /\ l \in Logs(round) /\ l.rec = log.rec /\ l.shielded = log.shielded
      /\ l.cooldown = log.cooldown /\ l.inevent = log.inevent
  <2>1. PICK b \in BOOLEAN : b = (log.control \/ control) OBVIOUS
  <2>2. l = [log EXCEPT !.control = b] BY <2>1
  <2> QED BY <1>1, <2>2 DEF Logs
<1> HIDE DEF l
<1>3. Sound(l, calls, 0) BY <1>1, <1>2 DEF Sound
<1>4. Sound(PutOn(l, calls), calls, 0) BY <1>1, <1>3, PutOnSound
<1>5. /\ Sound(Report(l, "effect", calls), calls, 0)
      /\ Report(l, "effect", calls) = [l EXCEPT !.rec = Report(l, "effect", calls).rec]
  BY <1>1, <1>3, ReportSound DEF Type
<1>6. /\ Report(l, "effect", calls).shielded = log.shielded
      /\ Report(l, "effect", calls).cooldown = log.cooldown
  BY <1>2, <1>5 DEF Sound, Logs
<1>7. ASSUME ~log.shielded
      PROVE  /\ log' = Report(l, "effect", calls)
             /\ ~log'.cooldown /\ Tidy(log'.rec, round, calls') /\ Sources(log'.rec)
  <2>1. ~log.cooldown /\ Tidy(l.rec, round, calls) /\ Sources(l.rec)
    BY <1>2, <1>7 DEF IInv, rec
  <2>2. /\ Tidy(Report(l, "effect", calls).rec, round, calls)
        /\ Sources(Report(l, "effect", calls).rec)
    BY <1>1, <1>3, <2>1, ReportTidy
  <2>3. log' = Report(l, "effect", calls) BY <1>1, <1>6, <1>7 DEF PutOn
  <2> QED BY <1>1, <1>6, <2>1, <2>2, <2>3
<1>8. log'.shielded = log.shielded BY <1>1, <1>2, <1>3, PutOnSound
<1> QED BY <1>1, <1>4, <1>7, <1>8, SameRound

LEMMA BeginStep == IInv /\ Begin => IInv'
<1> SUFFICES ASSUME IInv, Begin PROVE IInv'
  OBVIOUS
<1> DEFINE m == [type |-> "begin", round |-> round, src |-> Running(calls)]
           u == Append(rec, m)
           d == Append(calls, Len(rec) + 1)
<1>1. /\ round \in Nat /\ Sound(log, calls, 0) /\ rec # << >>
      /\ log' = Report(log, "begin", calls) /\ Fits(log')
      /\ round' = round /\ calls' = Inner(log', calls)
  BY DEF IInv, Begin, rec
<1>2. /\ Sound(log', calls, 0) /\ log' = [log EXCEPT !.rec = log'.rec]
      /\ log'.rec = u /\ m \in Message(round) /\ Running(calls) <= Len(rec)
      /\ Len(u) = Len(rec) + 1
  <2>1. PICK n : n = Report(log, "begin", calls) OBVIOUS
  <2>2. /\ Sound(n, calls, 0) /\ n = [log EXCEPT !.rec = n.rec]
        /\ n.rec = Append(log.rec, m) /\ m \in Message(round)
        /\ Running(calls) <= Len(log.rec) /\ Len(n.rec) = Len(log.rec) + 1
    <3>1. "begin" \in Type BY DEF Type
    <3>2. /\ Sound(log, calls, 0) /\ round \in Nat BY <1>1
    <3> QED BY <2>1, <3>1, <3>2, ReportSound
  <2>3. log' = n BY <1>1, <2>1
  <2> QED BY <2>2, <2>3 DEF rec
<1>3. rec \in Seq(Message(round)) /\ Whole(rec, calls) BY <1>1 DEF Sound, Logs, rec
<1>4. Len(rec) > 0 BY <1>1, <1>3, EmptySeq
<1>5. calls' = d BY <1>1, <1>2 DEF Inner
<1>6. m.type = "begin" /\ m.round = round /\ m.src = Running(calls) OBVIOUS
<1> HIDE DEF m
<1>7. Whole(u, d) BY <1>1, <1>2, <1>3, <1>4, <1>6, WholeBegin
<1>8. Sound(log', calls', 0) BY <1>2, <1>5, <1>7 DEF Sound
<1>9. log'.shielded = log.shielded /\ log'.cooldown = log.cooldown
  BY <1>1, <1>2 DEF Sound, Logs
<1>10. ASSUME ~log.shielded
       PROVE  ~log'.cooldown /\ Tidy(u, round, d) /\ Sources(u)
  <2>1. ~log.cooldown /\ Tidy(rec, round, calls) /\ Sources(rec) BY <1>10 DEF IInv
  <2>2. Tidy(u, round, d) BY <1>1, <1>2, <1>3, <1>4, <1>6, <2>1, TidyBegin
  <2>3. u \in Seq(Message(round)) BY <1>2 DEF Sound, Logs
  <2>4. Running(d) = Len(rec) + 1
    <3>1. calls \in Seq(Nat) /\ Len(rec) \in Nat BY <1>3 DEF Whole
    <3>2. /\ Len(d) = Len(calls) + 1 /\ Len(calls) \in Nat
          /\ d[Len(calls) + 1] = Len(rec) + 1 /\ d \in Seq(Nat)
      BY <3>1, AppendProperties, LenProperties
    <3> HIDE DEF d
    <3>3. d # << >> BY <3>2, EmptySeq
    <3> QED BY <3>2, <3>3 DEF Running
  <2> HIDE DEF u, d
  <2>5. Finds(u, round, Len(u), Running(d), Range(d)) BY <1>1, <1>7, <2>2, <2>3, TidyNow
  <2>6. Finds(Append(rec, m), m.round, Len(rec) + 1, Len(rec) + 1, Range(d))
    BY <1>2, <1>6, <2>4, <2>5 DEF u
  <2>7. Sources(Append(rec, m)) BY <1>1, <1>2, <1>3, <1>6, <2>1, <2>6, SourcesStep
  <2> QED BY <1>9, <2>1, <2>2, <2>7 DEF u
<1> QED BY <1>1, <1>2, <1>5, <1>8, <1>9, <1>10, SameRound

LEMMA EndStep == IInv /\ End => IInv'
<1> SUFFICES ASSUME IInv, End PROVE IInv'
  OBVIOUS
<1> DEFINE d == Popped(calls)
           m == [type |-> "end", round |-> round, src |-> Running(d)]
           u == Append(rec, m)
<1>1. /\ round \in Nat /\ log \in Logs(round) /\ Whole(rec, calls) /\ log.inevent >= 0
      /\ rec \in Seq(Message(round)) /\ calls # << >>
      /\ log' = [log EXCEPT !.rec = u] /\ Fits(log')
      /\ round' = round /\ calls' = d
  BY DEF IInv, End, Sound, Logs, rec, Report, Pop, Popped
<1>2. Running(d) \in Nat /\ Running(d) <= Len(rec)
  <2>1. calls \in Seq(2 .. Len(rec)) /\ Len(rec) \in Nat BY <1>1 DEF Whole
  <2>2. d \in Seq(2 .. Len(rec)) BY <1>1, <2>1, PoppedFacts
  <2> HIDE DEF d
  <2>3. Len(d) \in Nat /\ (d = << >> <=> Len(d) = 0) BY <2>2, EmptySeq
  <2>4. CASE d = << >> BY <2>1, <2>4 DEF Running
  <2>5. CASE d # << >>
    <3>1. Len(d) \in 1 .. Len(d) BY <2>3, <2>5
    <3>2. d[Len(d)] \in 2 .. Len(rec) BY <2>2, <3>1
    <3> QED BY <2>1, <2>5, <3>2 DEF Running
  <2> QED BY <2>4, <2>5
<1>3. m \in Message(round) BY <1>1, <1>2 DEF Message, Type
<1>4. m.type = "end" /\ m.round = round /\ m.src = Running(d) OBVIOUS
<1>5. u \in Seq(Message(round)) /\ Len(u) = Len(rec) + 1 BY <1>1, <1>3, Appended
<1> HIDE DEF m
<1>6. Whole(u, d) BY <1>1, <1>2, <1>3, <1>4, WholeEnd
<1> HIDE DEF u, d
<1>7. /\ log' \in Logs(round) /\ log'.rec = u /\ log'.inevent = log.inevent
      /\ log'.shielded = log.shielded /\ log'.cooldown = log.cooldown
  BY <1>1, <1>5 DEF Logs
<1>8. Sound(log', calls', 0) BY <1>1, <1>6, <1>7 DEF Sound
<1>9. ASSUME ~log.shielded
      PROVE  ~log'.cooldown /\ Tidy(u, round, d) /\ Sources(u)
  <2>1. ~log.cooldown /\ Tidy(rec, round, calls) /\ Sources(rec) BY <1>9 DEF IInv
  <2>2. Tidy(u, round, d) BY <1>1, <1>3, <1>4, <2>1, TidyEnd DEF u, d
  <2>3. Finds(u, round, Len(u), Running(d), Range(d)) BY <1>1, <1>5, <1>6, <2>2, TidyNow
  <2>4. Finds(Append(rec, m), m.round, Len(rec) + 1, m.src, Range(d))
    BY <1>4, <1>5, <2>3 DEF u
  <2>5. m.type # "begin" BY <1>4
  <2>6. Sources(Append(rec, m)) BY <1>1, <1>3, <2>1, <2>4, <2>5, SourcesStep
  <2> QED BY <1>7, <2>1, <2>2, <2>6 DEF u
<1> QED BY <1>1, <1>7, <1>8, <1>9, SameRound

LEMMA CooldownEndStep == IInv /\ CooldownEnd => IInv'
<1> SUFFICES ASSUME IInv, CooldownEnd PROVE IInv'
  OBVIOUS
<1> DEFINE m == Report(log, "effect", calls)
           l == [m EXCEPT !.cooldown = FALSE]
<1>1. /\ round \in Nat /\ log \in Logs(round) /\ Sound(log, calls, 0) /\ log.cooldown
      /\ log' = ShieldEffectEnd(l, calls) /\ Fits(log')
      /\ round' = round /\ calls' = calls
  BY DEF IInv, CooldownEnd, Sound
<1>2. /\ Sound(m, calls, 0) /\ m.shielded = log.shielded
      /\ Len(m.rec) = Len(log.rec) + 1 /\ Len(log.rec) \in Nat
  BY <1>1, ReportSound, ReportShielded DEF Type
<1> HIDE DEF m
<1>3. Sound(l, calls, 0) /\ l.shielded = m.shielded /\ l.rec = m.rec
  <2>1. m \in Logs(round) /\ Whole(m.rec, calls) /\ m.inevent >= 0 BY <1>2 DEF Sound
  <2>2. /\ l \in Logs(round) /\ l.rec = m.rec /\ l.inevent = m.inevent
        /\ l.shielded = m.shielded
    BY <2>1 DEF Logs
  <2> QED BY <2>1, <2>2 DEF Sound
<1> HIDE DEF l
<1>4. Len(l.rec) > 0 BY <1>2, <1>3
<1>5. Sound(log', calls, 0) /\ log'.shielded = l.shielded
  BY <1>1, <1>3, <1>4, ShieldEffectEndSound
<1>6. log.shielded BY <1>1 DEF IInv
<1> QED BY <1>1, <1>2, <1>3, <1>5, <1>6, SameRound

LEMMA RoundStartStep == IInv /\ RoundStart => IInv'
<1> SUFFICES ASSUME IInv, RoundStart PROVE IInv'
  OBVIOUS
<1> DEFINE m == [type |-> "round", round |-> round', src |-> 0]
           u == Append(rec, m)
<1>1. /\ round \in 0 .. RoundMax /\ RoundMax \in Nat
      /\ log \in Logs(round) /\ Whole(rec, calls) /\ log.inevent >= 0
      /\ calls = << >> /\ (rec # << >> => round < RoundMax)
      /\ round' = IF rec = << >> THEN 0 ELSE round + 1
      /\ log' = [log EXCEPT !.rec = u] /\ Fits(log') /\ calls' = calls
  BY MessageLogAssumption DEF IInv, RoundStart, Sound, rec
<1>2. round' \in 0 .. RoundMax /\ round' \in Nat BY <1>1
<1>3. rec \in Seq(Message(round)) /\ Len(rec) \in Nat BY <1>1 DEF Logs, rec
<1>4. \A i \in 1 .. Len(rec) : rec[i] \in Message(round) BY <1>3
<1>5. rec = << >> <=> Len(rec) = 0 BY <1>3, EmptySeq
<1>6. rec \in Seq(Message(round'))
  <2>1. CASE rec = << >> BY <2>1
  <2>2. CASE rec # << >>
    <3>1. Message(round) \subseteq Message(round') BY <1>1, <2>2 DEF Message
    <3> QED BY <1>3, <3>1
  <2> QED BY <2>1, <2>2
<1>7. m \in Message(round') BY <1>2 DEF Message, Type
<1>8. m.type = "round" /\ m.round = round' /\ m.src = 0 OBVIOUS
<1> HIDE DEF m
<1>9. u \in Seq(Message(round')) /\ Len(u) = Len(rec) + 1 BY <1>2, <1>6, <1>7, Appended
<1>10. \A i \in 1 .. Len(rec) : rec[i].round # round'
  <2> SUFFICES ASSUME NEW i \in 1 .. Len(rec) PROVE rec[i].round # round'
    OBVIOUS
  <2>1. rec # << >> BY <1>5
  <2>2. rec[i].round \in 0 .. round BY <1>4 DEF Message
  <2> QED BY <1>1, <2>1, <2>2
<1>11. Whole(u, calls)
  <2>1. m.src <= Len(rec) /\ m.type # "end" BY <1>3, <1>8
  <2> QED BY <1>1, <1>2, <1>6, <1>7, <2>1, WholeReport
<1>12. Tidy(u, round', calls)
  <2>1. Tidy(u, round', << >>) BY <1>2, <1>6, <1>7, <1>8, <1>10, TidyRound
  <2> QED BY <1>1, <2>1
<1> HIDE DEF u
<1>13. /\ log' \in Logs(round') /\ log'.rec = u /\ log'.inevent = log.inevent
       /\ log'.shielded = log.shielded /\ log'.cooldown = log.cooldown
  BY <1>1, <1>9 DEF Logs
<1>14. ASSUME ~log.shielded PROVE ~log'.cooldown /\ Sources(u)
  <2>1. ~log.cooldown /\ Sources(rec) BY <1>14 DEF IInv
  <2>2. Running(calls) = 0 BY <1>1 DEF Running
  <2>3. Finds(u, round', Len(u), 0, Range(calls))
    BY <1>2, <1>9, <1>11, <1>12, <2>2, TidyNow
  <2>4. Finds(Append(rec, m), m.round, Len(rec) + 1, m.src, Range(calls))
    BY <1>8, <1>9, <2>3 DEF u
  <2>5. m.type # "begin" BY <1>8
  <2>6. Sources(Append(rec, m)) BY <1>2, <1>6, <1>7, <2>1, <2>4, <2>5, SourcesStep
  <2> QED BY <1>13, <2>1, <2>6 DEF u
<1>15. log' \in Logs(round') /\ Whole(log'.rec, calls') /\ log'.inevent >= 0
  BY <1>1, <1>11, <1>13
<1> QED BY <1>1, <1>2, <1>12, <1>13, <1>14, <1>15 DEF IInv, Sound, rec

LEMMA IInvStep == IInv /\ [Next]_vars => IInv'
<1> SUFFICES ASSUME IInv, [Next]_vars PROVE IInv'
  OBVIOUS
<1>1. CASE UNCHANGED vars BY <1>1 DEF IInv, Sound, Fits, vars, rec
<1>2. CASE Next
  BY <1>2, RoundStartStep, BeginStep, EndStep, HurtStep, CooldownEndStep, EffectStep
  DEF Next
<1> QED BY <1>1, <1>2

LEMMA IInvAlways == Spec => []IInv
<1> QED BY IInvInit, IInvStep, PTL DEF Spec

-----------------------------------------------------------------------------
(* What follows from it.                                                   *)

LEMMA IInvTypeOK == IInv => TypeOK
<1> SUFFICES ASSUME IInv PROVE TypeOK
  OBVIOUS
<1>1. /\ round \in 0 .. RoundMax /\ RoundMax \in Nat /\ Fits(log) /\ log \in Logs(round)
      /\ rec \in Seq(Message(round)) /\ Whole(rec, calls)
  BY MessageLogAssumption DEF IInv, Sound, Logs, rec
<1>2. Len(rec) \in Nat /\ Len(rec) <= MaxLen + ShieldLen /\ MaxLen + ShieldLen \in Nat
  BY <1>1, MessageLogAssumption DEF Fits, rec
<1>3. rec \in Seq([type : Type, round : 0 .. RoundMax, src : 0 .. MaxLen + ShieldLen])
  <2>1. ASSUME NEW i \in 1 .. Len(rec)
        PROVE  rec[i] \in [type : Type, round : 0 .. RoundMax, src : 0 .. MaxLen + ShieldLen]
    <3>1. rec[i] \in Message(round) /\ i \in Nat BY <1>1, <1>2
    <3>2. rec[i].src < i /\ rec[i].src \in Nat BY <1>1, <3>1 DEF Whole, Message
    <3>3. rec[i].src \in 0 .. MaxLen + ShieldLen BY <1>2, <3>1, <3>2
    <3>4. 0 .. round \subseteq 0 .. RoundMax BY <1>1
    <3> QED BY <3>1, <3>3, <3>4 DEF Message
  <2> DEFINE S == [type : Type, round : 0 .. RoundMax, src : 0 .. MaxLen + ShieldLen]
  <2>2. rec \in [1 .. Len(rec) -> Message(round)] BY <1>1, LenProperties
  <2>3. \A i \in 1 .. Len(rec) : rec[i] \in S BY <2>1
  <2> HIDE DEF S
  <2>4. rec \in [1 .. Len(rec) -> S] BY <2>2, <2>3
  <2>5. rec \in Seq(S) BY <1>2, <2>4, SeqDef
  <2> QED BY <2>5 DEF S
<1>4. calls \in Seq(DOMAIN rec)
  <2>1. calls \in Seq(2 .. Len(rec)) BY <1>1 DEF Whole
  <2>2. 2 .. Len(rec) \subseteq DOMAIN rec BY <1>1, <1>2
  <2> QED BY <2>1, <2>2
<1> QED BY <1>1, <1>3, <1>4 DEF TypeOK, Logs

(* Without moon_elf_shield, message_findsource() answers with what was     *)
(* running when the message was reported, however moves, events and hooks  *)
(* ran in one another.                                                     *)
THEOREM SourcesFound == Spec => []SourceIsWhatRan
<1>1. IInv => SourceIsWhatRan
  <2> SUFFICES ASSUME IInv, ~log.shielded, NEW i \in DOMAIN rec
               PROVE  MessageFindSource(i) = IF rec[i].type = "begin" THEN i
                                             ELSE IF rec[i].src = 0 THEN None ELSE rec[i].src
    BY DEF SourceIsWhatRan
  <2>1. rec \in Seq(Message(round)) /\ Sources(rec) BY DEF IInv, Sound, Logs, rec
  <2>2. i \in 1 .. Len(rec) BY <2>1
  <2> QED BY <2>1, <2>2 DEF Sources, MessageFindSource
<1> QED BY <1>1, IInvAlways, PTL

(* No search ever reads in front of the record, with the shield as         *)
(* without; and without it message_find() answers with the last damage of  *)
(* this round that what runs now caused, and with no other.                *)
THEOREM SearchesStayRight == Spec => []SearchesAreRight
<1>1. ASSUME IInv PROVE InsideRecord
  <2>1. rec \in Seq(Message(round)) /\ Whole(rec, calls) /\ Len(rec) \in Nat
    BY <1>1 DEF IInv, Sound, Logs, rec
  <2>2. \A i \in 1 .. Len(rec) : rec[i].type = "end" => HasBegun(rec, i) BY <2>1 DEF Whole
  <2>3. \A types, r : \A i \in 0 .. Len(rec) : Search(rec, types, i, r) # Outside
    BY <2>1, <2>2, StaysInside
  <2>4. DOMAIN rec \subseteq 0 .. Len(rec) /\ Len(rec) \in 0 .. Len(rec) BY <2>1
  <2> QED BY <2>3, <2>4 DEF InsideRecord, MessageFind, MessageFindSource
<1>2. ASSUME IInv PROVE FindsOwnMessages
  <2> SUFFICES ASSUME ~log.shielded PROVE FindsOwnMessages
    BY DEF FindsOwnMessages
  <2>1. /\ round \in Nat /\ rec \in Seq(Message(round)) /\ Whole(rec, calls)
        /\ Tidy(rec, round, calls)
    BY <1>2 DEF IInv, Sound, Logs, rec
  <2>2. Finds(rec, round, Len(rec), Running(calls), Range(calls)) BY <2>1, TidyNow
  <2>3. Caused(rec, round, Len(rec), Range(calls))
          = {i \in DOMAIN rec : /\ rec[i].round = round
                                /\ rec[i].type = "damage"
                                /\ rec[i].src \in {0} \cup Range(calls)}
    BY <2>1 DEF Caused
  <2> QED BY <2>2, <2>3 DEF FindsOwnMessages, MessageFind, Finds, Latest
<1>3. IInv => SearchesAreRight BY <1>1, <1>2, IInvTypeOK DEF SearchesAreRight
<1> QED BY <1>3, IInvAlways, PTL

=============================================================================
