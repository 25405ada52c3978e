-------------------------- MODULE EffectList_proofs --------------------------
(***************************************************************************)
(* The list of effects, its record and the trash, for any kinds of effects *)
(* and any hooks, with any number of effects and any depth of calls: no    *)
(* effect is lost, walks that keep their place are complete, and the list  *)
(* implements EffectOrder.                                                 *)
(***************************************************************************)
EXTENDS EffectList, NaturalSets, SequenceTheorems

-----------------------------------------------------------------------------
(* Lists: from h on, the next pointers lead through S, the prev pointers   *)
(* lead back, and rank r grows along the way.                              *)

Ptr == {Null} \cup Node

Pointers == [next : [Node -> Ptr], prev : [Node -> Ptr],
             head : Ptr, hist : Ptr, trash : Ptr, intrash : SUBSET Node]

IsList(g, h, S, r) ==
  /\ S \subseteq Node /\ r \in [Node -> Nat]
  /\ IF S = {} THEN h = Null ELSE h \in S
  /\ \A n \in S : IF n = h THEN g.prev[n] = Null
                  ELSE g.prev[n] \in S /\ g.next[g.prev[n]] = n
  /\ \A n \in S : \/ g.next[n] = Null
                  \/ g.next[n] \in S /\ g.prev[g.next[n]] = n /\ r[n] < r[g.next[n]]

LEMMA NodeFacts == Node \subseteq Nat /\ Null \notin Node /\ MaxNode \in Nat
BY EffectListAssumption DEF Node, Null

(* The first n nodes that the macro would come to                          *)
Steps(g, h, n, at) ==
  at = [k \in 1 .. n |-> IF k = 1 THEN h
                         ELSE IF at[k - 1] = Null THEN Null ELSE g.next[at[k - 1]]]

LEMMA StepsExist ==
  ASSUME NEW g, NEW h, NEW n \in Nat
  PROVE  \E at : Steps(g, h, n, at)
<1> DEFINE T == {k \in Nat : ~\E at : Steps(g, h, k, at)}
<1>1. SUFFICES ASSUME T # {} PROVE FALSE
  OBVIOUS
<1>2. T \in SUBSET Nat OBVIOUS
<1>3. PICK k \in T : \A m \in T : k <= m
  <2> HIDE DEF T
  <2> QED BY <1>1, <1>2, LeastNat
<1>4. k \in Nat OBVIOUS
<1>5. k # 0
  <2> DEFINE at == [i \in 1 .. 0 |-> h]
  <2>1. at = [i \in 1 .. 0 |-> IF i = 1 THEN h
                               ELSE IF at[i - 1] = Null THEN Null ELSE g.next[at[i - 1]]]
    OBVIOUS
  <2> QED BY <2>1 DEF Steps
<1>6. k - 1 \in Nat /\ k - 1 \notin T BY <1>3, <1>4, <1>5
<1>7. PICK at : Steps(g, h, k - 1, at) BY <1>6
<1> DEFINE last == IF k = 1 THEN h ELSE IF at[k - 1] = Null THEN Null ELSE g.next[at[k - 1]]
           a == [i \in 1 .. k |-> IF i < k THEN at[i] ELSE last]
<1>8. \A i \in 1 .. k : a[i] = IF i = 1 THEN h
                               ELSE IF a[i - 1] = Null THEN Null ELSE g.next[a[i - 1]]
  <2> SUFFICES ASSUME NEW i \in 1 .. k
               PROVE  a[i] = IF i = 1 THEN h
                             ELSE IF a[i - 1] = Null THEN Null ELSE g.next[a[i - 1]]
    OBVIOUS
  <2>1. i # 1 => i - 1 \in 1 .. k /\ a[i - 1] = at[i - 1] BY <1>4
  <2>2. CASE i < k
    <3>1. i \in 1 .. k - 1 BY <1>4, <2>2
    <3>2. at[i] = IF i = 1 THEN h
                  ELSE IF at[i - 1] = Null THEN Null ELSE g.next[at[i - 1]]
      BY <1>7, <3>1 DEF Steps
    <3> QED BY <2>1, <2>2, <3>2
  <2>3. CASE i = k BY <1>4, <2>1, <2>3
  <2>4. i < k \/ i = k BY <1>4
  <2> QED BY <2>2, <2>3, <2>4
<1>9. Steps(g, h, k, a)
  <2>1. a = [i \in 1 .. k |-> a[i]] OBVIOUS
  <2> HIDE DEF a
  <2>2. [i \in 1 .. k |-> a[i]]
          = [i \in 1 .. k |-> IF i = 1 THEN h
                              ELSE IF a[i - 1] = Null THEN Null ELSE g.next[a[i - 1]]]
    BY <1>8
  <2> QED BY <2>1, <2>2 DEF Steps
<1>10. \E b : Steps(g, h, k, b) BY <1>9
<1> QED BY <1>10

(* s is the list: its nodes in their order                                 *)
Goes(g, h, S, r, s) ==
  /\ s \in Seq(Node)
  /\ S = {s[i] : i \in 1 .. Len(s)}
  /\ s = << >> => h = Null
  /\ s # << >> => h = s[1] /\ g.next[s[Len(s)]] = Null
  /\ \A i \in 1 .. Len(s) - 1 : g.next[s[i]] = s[i + 1]
  /\ \A i, j \in 1 .. Len(s) : i < j => r[s[i]] < r[s[j]]

LEMMA ChainGoes ==
  ASSUME NEW g, NEW h, NEW S, NEW r, IsList(g, h, S, r)
  PROVE  Goes(g, h, S, r, Chain(g, h))
<1> DEFINE N == MaxNode + 1
<1>1. /\ MaxNode \in Nat /\ N \in Nat /\ N >= 1 /\ Node \subseteq Nat /\ Null \notin Node
      /\ Null \notin S
  <2>1. S \subseteq Node BY DEF IsList
  <2>2. MaxNode \in Nat /\ Node \subseteq Nat /\ Null \notin Node BY NodeFacts
  <2>3. N \in Nat /\ N >= 1 BY <2>2
  <2>4. Null \notin S BY <2>1, <2>2
  <2> QED BY <2>2, <2>3, <2>4
<1> DEFINE at == CHOOSE a : Steps(g, h, N, a)
<1>2. Steps(g, h, N, at) BY <1>1, StepsExist
<1>3. Chain(g, h) = [k \in 1 .. Cardinality({i \in DOMAIN at : at[i] # Null}) |-> at[k]]
  BY DEF Chain, Steps
<1> HIDE DEF at
<1>4. /\ DOMAIN at = 1 .. N /\ at[1] = h
      /\ \A k \in 2 .. N : at[k] = IF at[k - 1] = Null THEN Null ELSE g.next[at[k - 1]]
  <2>1. /\ DOMAIN at = 1 .. N
        /\ \A k \in 1 .. N : at[k] = IF k = 1 THEN h
                        ELSE IF at[k - 1] = Null THEN Null ELSE g.next[at[k - 1]]
    BY <1>2 DEF Steps
  <2> QED BY <1>1, <2>1
<1> HIDE DEF N
<1>5. \A k \in 1 .. N : at[k] \in S \cup {Null}
  <2> DEFINE T == {k \in 1 .. N : at[k] \notin S \cup {Null}}
  <2>1. SUFFICES ASSUME T # {} PROVE FALSE
    OBVIOUS
  <2>2. T \in SUBSET Nat OBVIOUS
  <2>3. PICK k \in T : \A m \in T : k <= m
    <3> HIDE DEF T
    <3> QED BY <2>1, <2>2, LeastNat
  <2>4. CASE k = 1 BY <1>4, <2>4 DEF IsList
  <2>5. CASE k # 1
    <3>1. k \in 2 .. N /\ k - 1 \in 1 .. N /\ ~(k <= k - 1) BY <1>1, <2>3, <2>5
    <3>2. at[k - 1] \in S \cup {Null} BY <2>3, <3>1
    <3>3. at[k] \in S \cup {Null} BY <1>4, <3>1, <3>2 DEF IsList
    <3> QED BY <3>3
  <2> QED BY <2>4, <2>5
<1>6. \A j \in 1 .. N : \A i \in 1 .. j - 1 :
        at[j] # Null => at[i] # Null /\ r[at[i]] < r[at[j]]
  <2> DEFINE T == {j \in 1 .. N : ~\A i \in 1 .. j - 1 :
                     at[j] # Null => at[i] # Null /\ r[at[i]] < r[at[j]]}
  <2>1. SUFFICES ASSUME T # {} PROVE FALSE
    OBVIOUS
  <2>2. T \in SUBSET Nat OBVIOUS
  <2>3. PICK j \in T : \A m \in T : j <= m
    <3> HIDE DEF T
    <3> QED BY <2>1, <2>2, LeastNat
  <2>4. PICK i \in 1 .. j - 1 : at[j] # Null /\ ~(at[i] # Null /\ r[at[i]] < r[at[j]])
    BY <2>3
  <2>5. j \in 2 .. N /\ j - 1 \in 1 .. N /\ j \in Nat BY <1>1, <2>4
  <2>6. at[j - 1] # Null /\ at[j] = g.next[at[j - 1]] BY <1>4, <2>4, <2>5
  <2>7. at[j - 1] \in S /\ at[j] \in S BY <1>5, <2>4, <2>5, <2>6
  <2>8. r[at[j - 1]] < r[at[j]] BY <2>4, <2>6, <2>7 DEF IsList
  <2>9. CASE i = j - 1 BY <2>4, <2>6, <2>8, <2>9
  <2>10. CASE i # j - 1
    <3>1. j - 1 \notin T BY <2>3, <2>5
    <3>2. i \in 1 .. j - 1 - 1 /\ i \in 1 .. N BY <1>1, <2>5, <2>10
    <3>3. at[i] # Null /\ r[at[i]] < r[at[j - 1]]
      <4> HIDE DEF T
      <4>1. \A m \in 1 .. j - 1 - 1 :
              at[j - 1] # Null => at[m] # Null /\ r[at[m]] < r[at[j - 1]]
        BY <2>5, <3>1 DEF T
      <4> QED BY <2>6, <3>2, <4>1
    <3>4. at[i] \in S BY <1>5, <3>2, <3>3
    <3>5. r[at[i]] \in Nat /\ r[at[j - 1]] \in Nat /\ r[at[j]] \in Nat
      BY <2>7, <3>4 DEF IsList
    <3>6. r[at[i]] < r[at[j]] BY <2>8, <3>3, <3>5
    <3> QED BY <2>4, <3>3, <3>6
  <2> QED BY <2>9, <2>10
<1>7. \E k \in 1 .. N : at[k] = Null
  <2> SUFFICES ASSUME \A k \in 1 .. N : at[k] # Null PROVE FALSE
    OBVIOUS
  <2>1. \A k \in 1 .. N : at[k] \in Node BY <1>5 DEF IsList
  <2>2. at \in [1 .. N -> Node]
    <3>1. at = [k \in 1 .. N |-> at[k]] BY <1>2, <1>4 DEF Steps
    <3> QED BY <2>1, <3>1
  <2>3. IsFiniteSet(1 .. N) /\ Cardinality(1 .. N) = N
    <3>1. 1 \in Int /\ N \in Int BY <1>1
    <3>2. IsFiniteSet(1 .. N) /\ Cardinality(1 .. N) = IF 1 > N THEN 0 ELSE N - 1 + 1
      BY <3>1, FS_Interval
    <3> QED BY <1>1, <3>2
  <2>4. IsFiniteSet(Node) /\ Cardinality(Node) = MaxNode
    <3>1. 1 \in Int /\ MaxNode \in Int BY <1>1
    <3>2. /\ IsFiniteSet(1 .. MaxNode)
          /\ Cardinality(1 .. MaxNode) = IF 1 > MaxNode THEN 0 ELSE MaxNode - 1 + 1
      BY <3>1, FS_Interval
    <3> QED BY <1>1, <3>2 DEF Node
  <2>5. Cardinality(Node) < Cardinality(1 .. N) BY <1>1, <2>3, <2>4 DEF N
  <2>6. PICK x \in 1 .. N, y \in 1 .. N : x # y /\ at[x] = at[y]
    BY <2>2, <2>3, <2>4, <2>5, FS_PigeonHole
  <2>7. x \in Nat /\ y \in Nat /\ (x < y \/ y < x) BY <2>6
  <2>8. r[at[x]] \in Nat /\ r[at[y]] \in Nat BY <1>5, <2>1 DEF IsList
  <2>9. CASE x < y
    <3>1. x \in 1 .. y - 1 BY <2>7, <2>9
    <3>2. r[at[x]] < r[at[y]] BY <1>6, <3>1
    <3> QED BY <2>6, <2>8, <3>2
  <2>10. CASE y < x
    <3>1. y \in 1 .. x - 1 BY <2>7, <2>10
    <3>2. r[at[y]] < r[at[x]] BY <1>6, <3>1
    <3> QED BY <2>6, <2>8, <3>2
  <2> QED BY <2>7, <2>9, <2>10
<1>8. PICK c \in Nat : /\ c < N /\ at[c + 1] = Null
                       /\ \A k \in 1 .. c : at[k] # Null
  <2> DEFINE T == {k \in 1 .. N : at[k] = Null}
  <2>1. T # {} /\ T \in SUBSET Nat BY <1>7
  <2>2. PICK k \in T : \A m \in T : k <= m
    <3> HIDE DEF T
    <3> QED BY <2>1, LeastNat
  <2>3. k - 1 \in Nat /\ k - 1 < N /\ (k - 1) + 1 = k BY <1>1
  <2>4. \A m \in 1 .. k - 1 : at[m] # Null
    <3> SUFFICES ASSUME NEW m \in 1 .. k - 1 PROVE at[m] # Null
      OBVIOUS
    <3>1. m \in 1 .. N /\ ~(k <= m) BY <1>1
    <3>2. m \notin T BY <2>2, <3>1
    <3> QED BY <3>1, <3>2
  <2> QED BY <2>2, <2>3, <2>4
<1>9. {i \in DOMAIN at : at[i] # Null} = 1 .. c
  <2>1. ASSUME NEW i \in 1 .. N, at[i] # Null PROVE i \in 1 .. c
    <3>1. CASE i > c + 1
      <4>1. c + 1 \in 1 .. i - 1 BY <3>1
      <4> QED BY <1>6, <1>8, <2>1, <4>1
    <3>2. CASE i = c + 1 BY <1>8, <2>1, <3>2
    <3> QED BY <3>1, <3>2
  <2>2. 1 .. c \subseteq 1 .. N BY <1>1, <1>8
  <2> QED BY <1>4, <1>8, <2>1, <2>2
<1>10. Cardinality(1 .. c) = c
  <2>1. 1 \in Int /\ c \in Int OBVIOUS
  <2>2. Cardinality(1 .. c) = IF 1 > c THEN 0 ELSE c - 1 + 1 BY <2>1, FS_Interval
  <2> QED BY <2>2
<1> DEFINE s == [k \in 1 .. c |-> at[k]]
<1>11. Chain(g, h) = s BY <1>3, <1>9, <1>10
<1>12. \A k \in 1 .. c : at[k] \in S /\ k \in 1 .. N /\ s[k] = at[k] BY <1>1, <1>5, <1>8
<1>13. s \in Seq(Node) /\ Len(s) = c
  <2>1. s \in [1 .. c -> Node] BY <1>12 DEF IsList
  <2> HIDE DEF s
  <2>2. s \in Seq(Node) BY <2>1, SeqDef
  <2>3. Len(s) \in Nat /\ DOMAIN s = 1 .. Len(s) BY <2>2, LenProperties
  <2>4. PICK d \in Nat : d = Len(s) BY <2>3
  <2>5. 1 .. d = 1 .. c BY <2>1, <2>3, <2>4
  <2>6. d = c
    <3>1. CASE d < c
      <4>1. c \in 1 .. c /\ c \notin 1 .. d BY <2>4, <3>1
      <4> QED BY <2>5, <4>1
    <3>2. CASE c < d
      <4>1. d \in 1 .. d /\ d \notin 1 .. c BY <2>4, <3>2
      <4> QED BY <2>5, <4>1
    <3> QED BY <2>4, <3>1, <3>2
  <2> QED BY <2>2, <2>4, <2>6
<1> HIDE DEF s
<1>14. S \subseteq {s[i] : i \in 1 .. c}
  <2> DEFINE B == {n \in S : \A i \in 1 .. c : s[i] # n}
             T == {r[n] : n \in B}
  <2>1. SUFFICES ASSUME B # {} PROVE FALSE
    OBVIOUS
  <2>2. T # {} /\ T \in SUBSET Nat BY <2>1 DEF IsList
  <2>3. PICK x \in T : \A y \in T : x <= y
    <3> HIDE DEF T
    <3> QED BY <2>2, LeastNat
  <2>4. PICK n \in B : r[n] = x OBVIOUS
  <2>5. n \in S /\ h \in S BY DEF IsList
  <2>6. h # Null BY <1>1, <2>5
  <2>7. c # 0
    <3>1. CASE c = 0 BY <1>4, <1>8, <2>6, <3>1
    <3> QED BY <3>1
  <2>8. n # h
    <3>1. 1 \in 1 .. c BY <2>7
    <3> QED BY <1>4, <1>12, <3>1
  <2>9. g.prev[n] \in S /\ g.next[g.prev[n]] = n BY <2>5, <2>8 DEF IsList
  <2>10. r[g.prev[n]] < r[n] /\ r[g.prev[n]] \in Nat /\ r[n] \in Nat
    <3>1. PICK p \in S : p = g.prev[n] /\ g.next[p] = n BY <2>9
    <3>2. n # Null BY <1>1, <2>5
    <3>3. r[p] < r[n] BY <3>1, <3>2 DEF IsList
    <3>4. r[p] \in Nat /\ r[n] \in Nat BY <2>5, <3>1 DEF IsList
    <3> QED BY <3>1, <3>3, <3>4
  <2>11. g.prev[n] \notin B
    <3>1. CASE g.prev[n] \in B
      <4>1. r[g.prev[n]] \in T BY <3>1
      <4>2. x <= r[g.prev[n]] BY <2>3, <4>1
      <4> QED BY <2>4, <2>10, <4>2
    <3> QED BY <3>1
  <2>12. PICK i \in 1 .. c : s[i] = g.prev[n] BY <2>9, <2>11
  <2>13. i + 1 \in 2 .. N /\ i + 1 \in Nat /\ (i + 1) - 1 = i BY <1>1, <1>8
  <2>14. at[i + 1] = n BY <1>1, <1>4, <1>12, <2>9, <2>12, <2>13
  <2>15. i + 1 \in 1 .. c
    <3>1. i + 1 # c + 1 BY <1>1, <1>8, <2>5, <2>14
    <3> QED BY <3>1
  <2>16. s[i + 1] = n BY <1>12, <2>14, <2>15
  <2> QED BY <2>15, <2>16
<1>15. S = {s[i] : i \in 1 .. c} BY <1>12, <1>14
<1>16. s = << >> <=> c = 0 BY <1>13, EmptySeq
<1>17. c = 0 => h = Null BY <1>4, <1>8
<1>18. c # 0 => h = s[1] /\ g.next[s[c]] = Null
  <2> SUFFICES ASSUME c # 0 PROVE h = s[1] /\ g.next[s[c]] = Null
    OBVIOUS
  <2>1. 1 \in 1 .. c /\ c \in 1 .. c OBVIOUS
  <2>2. c + 1 \in 2 .. N /\ (c + 1) - 1 = c BY <1>1, <1>8
  <2>3. at[c] # Null BY <1>8, <2>1
  <2>4. g.next[at[c]] = Null BY <1>4, <1>8, <2>2, <2>3
  <2> QED BY <1>4, <1>12, <2>1, <2>4
<1>19. \A i \in 1 .. c - 1 : g.next[s[i]] = s[i + 1]
  <2> SUFFICES ASSUME NEW i \in 1 .. c - 1 PROVE g.next[s[i]] = s[i + 1]
    OBVIOUS
  <2>1. i \in 1 .. c /\ i + 1 \in 1 .. c /\ i + 1 \in 2 .. N /\ (i + 1) - 1 = i BY <1>1, <1>8
  <2> QED BY <1>4, <1>8, <1>12, <2>1
<1>20. \A i, j \in 1 .. c : i < j => r[s[i]] < r[s[j]]
  <2> SUFFICES ASSUME NEW i \in 1 .. c, NEW j \in 1 .. c, i < j PROVE r[s[i]] < r[s[j]]
    OBVIOUS
  <2>1. i \in 1 .. j - 1 /\ j \in 1 .. N BY <1>12
  <2> QED BY <1>6, <1>8, <1>12, <2>1
<1>21. Goes(g, h, S, r, s)
  BY <1>13, <1>15, <1>16, <1>17, <1>18, <1>19, <1>20 DEF Goes
<1> QED BY <1>11, <1>21

(* Nothing is before the first node.                                       *)
LEMMA HeadLeast ==
  ASSUME NEW g, NEW h, NEW S, NEW r, IsList(g, h, S, r), NEW x \in S
  PROVE  h \in S /\ r[h] <= r[x] /\ (x # h => r[h] < r[x])
<1> DEFINE s == Chain(g, h)
<1>1. Goes(g, h, S, r, s) BY ChainGoes
<1> HIDE DEF s
<1>2. PICK c \in Nat : c = Len(s) BY <1>1, LenProperties DEF Goes
<1>3. PICK i \in 1 .. c : x = s[i] BY <1>1, <1>2 DEF Goes
<1>4. s # << >> BY <1>1, <1>2, <1>3, EmptySeq DEF Goes
<1>5. h = s[1] BY <1>1, <1>4 DEF Goes
<1>6. 1 \in 1 .. c /\ (i # 1 => 1 < i) BY <1>3
<1>7. i # 1 => r[h] < r[x] BY <1>1, <1>2, <1>3, <1>5, <1>6 DEF Goes
<1>8. h \in S BY DEF IsList
<1>9. r[h] \in Nat /\ r[x] \in Nat BY <1>8 DEF IsList
<1> QED BY <1>3, <1>5, <1>7, <1>8, <1>9

(* Nothing is between a node and the next one.                             *)
LEMMA NextLeast ==
  ASSUME NEW g, NEW h, NEW S, NEW r, IsList(g, h, S, r), NEW c \in S, NEW x \in S, r[c] < r[x]
  PROVE  g.next[c] \in S /\ r[g.next[c]] <= r[x]
<1> DEFINE s == Chain(g, h)
<1>1. Goes(g, h, S, r, s) BY ChainGoes
<1> HIDE DEF s
<1>2. PICK k \in Nat : k = Len(s) BY <1>1, LenProperties DEF Goes
<1>3. PICK i \in 1 .. k : c = s[i] BY <1>1, <1>2 DEF Goes
<1>4. PICK j \in 1 .. k : x = s[j] BY <1>1, <1>2 DEF Goes
<1>5. r[c] \in Nat /\ r[x] \in Nat BY DEF IsList
<1>6. i < j
  <2>1. j < i => r[x] < r[c] BY <1>1, <1>2, <1>3, <1>4 DEF Goes
  <2> QED BY <1>3, <1>4, <1>5, <2>1
<1>7. i \in 1 .. k - 1 /\ i + 1 \in 1 .. k BY <1>6
<1>8. g.next[c] = s[i + 1] BY <1>1, <1>2, <1>3, <1>7 DEF Goes
<1>9. s[i + 1] \in S BY <1>1, <1>2, <1>7 DEF Goes
<1>10. i + 1 = j \/ i + 1 < j BY <1>6
<1>11. i + 1 < j => r[s[i + 1]] < r[s[j]] BY <1>1, <1>2, <1>7 DEF Goes
<1>12. r[s[i + 1]] \in Nat BY <1>9 DEF IsList
<1> QED BY <1>4, <1>5, <1>8, <1>9, <1>10, <1>11, <1>12

(* The lists share the pointers but not the nodes: D are the nodes         *)
(* allocated, E those on the field, H those in the record, and T the trash.*)
SameOrder(r, t, S) == \A x, y \in S : r[x] < r[y] <=> t[x] < t[y]
Untouched(g, a, S) == \A m \in S : a.next[m] = g.next[m] /\ a.prev[m] = g.prev[m]
Unused(g, S) == \A m \in S : g.next[m] = Null /\ g.prev[m] = Null

Laid(g, D, E, H, T, r) ==
  /\ g \in Pointers /\ r \in [Node -> Nat] /\ D \subseteq Node
  /\ IsList(g, g.head, E, r) /\ IsList(g, g.hist, H, r) /\ IsList(g, g.trash, T, r)
  /\ E \subseteq D /\ H \subseteq D /\ T \subseteq D
  /\ E \cap H = {} /\ E \cap T = {} /\ H \cap T = {}
  /\ g.intrash = T
  /\ Unused(g, Node \ D)

LEMMA StaysList ==
  ASSUME NEW g, NEW h, NEW S, NEW r, IsList(g, h, S, r), NEW a, Untouched(g, a, S),
         NEW t \in [Node -> Nat], SameOrder(r, t, S)
  PROVE  IsList(a, h, S, t)
<1>1. ASSUME NEW n \in S
      PROVE  IF n = h THEN a.prev[n] = Null ELSE a.prev[n] \in S /\ a.next[a.prev[n]] = n
  BY <1>1 DEF IsList, Untouched
<1>2. ASSUME NEW n \in S
      PROVE  \/ a.next[n] = Null
             \/ a.next[n] \in S /\ a.prev[a.next[n]] = n /\ t[n] < t[a.next[n]]
  BY <1>2 DEF IsList, Untouched, SameOrder
<1> QED BY <1>1, <1>2 DEF IsList

(* In a, n has left the list that started at h in g and starts at k now.   *)
Unlinks(g, n, a, h, k) ==
  /\ a.next = Unlinked(g, n).next /\ a.prev = Unlinked(g, n).prev
  /\ k = IF g.prev[n] = Null THEN g.next[n] ELSE h

LEMMA UnlinkedFacts ==
  ASSUME NEW g \in Pointers, NEW h, NEW S, NEW r, IsList(g, h, S, r), NEW n \in S,
         NEW a, NEW k, Unlinks(g, n, a, h, k)
  PROVE  /\ IsList(a, k, S \ {n}, r)
         /\ Untouched(g, a, Node \ S)
         /\ a.next \in [Node -> Ptr] /\ a.prev \in [Node -> Ptr]
<1> DEFINE U == S \ {n}
<1>1. /\ \A m \in Node : a.next[m] = IF m = g.prev[n] THEN g.next[n] ELSE g.next[m]
      /\ \A m \in Node : a.prev[m] = IF m = g.next[n] THEN g.prev[n] ELSE g.prev[m]
      /\ a.next \in [Node -> Ptr] /\ a.prev \in [Node -> Ptr]
  <2>1. /\ g.next \in [Node -> Ptr] /\ g.prev \in [Node -> Ptr]
        /\ g.next[n] \in Ptr /\ g.prev[n] \in Ptr
    BY DEF Pointers, IsList
  <2>2. /\ a.next = [m \in Node |-> IF m = g.prev[n] THEN g.next[n] ELSE g.next[m]]
        /\ a.prev = [m \in Node |-> IF m = g.next[n] THEN g.prev[n] ELSE g.prev[m]]
    BY DEF Unlinks, Unlinked, Pointers
  <2> QED BY <2>1, <2>2
<1>k. k = IF g.prev[n] = Null THEN g.next[n] ELSE h BY DEF Unlinks
<1>2. /\ S \subseteq Node /\ Null \notin Node /\ r \in [Node -> Nat] /\ h \in S
      /\ \A m \in S : r[m] \in Nat
  BY NodeFacts DEF IsList
<1>3. \A m \in S : IF m = h THEN g.prev[m] = Null
                   ELSE /\ g.prev[m] \in S /\ g.next[g.prev[m]] = m
                        /\ g.prev[m] # Null /\ g.prev[m] # m
  BY <1>2 DEF IsList
<1>4. \A m \in S : \/ g.next[m] = Null
                   \/ /\ g.next[m] \in S /\ g.prev[g.next[m]] = m /\ r[m] < r[g.next[m]]
                      /\ g.next[m] # m
  BY <1>2 DEF IsList
<1>5. ASSUME NEW m \in U
      PROVE  IF m = k THEN a.prev[m] = Null ELSE a.prev[m] \in U /\ a.next[a.prev[m]] = m
  <2>1. m \in S /\ m # n /\ m \in Node BY <1>2, <1>5
  <2>2. CASE m = k
    <3>1. CASE g.prev[n] = Null BY <1>1, <1>k, <2>1, <2>2, <3>1
    <3>2. CASE g.prev[n] # Null
      <4>1. m = h /\ g.prev[m] = Null BY <1>3, <1>k, <2>1, <2>2, <3>2
      <4>2. m # g.next[n] BY <1>2, <1>4, <2>1, <4>1
      <4> QED BY <1>1, <2>1, <2>2, <4>1, <4>2
    <3> QED BY <3>1, <3>2
  <2>3. CASE m # k /\ m = g.next[n]
    <3>1. g.prev[n] # Null BY <1>k, <2>3
    <3>2. g.prev[n] \in S /\ g.prev[n] # n BY <1>3, <3>1
    <3>3. a.prev[m] = g.prev[n] BY <1>1, <2>1, <2>3
    <3>4. a.next[g.prev[n]] = g.next[n] BY <1>1, <1>2, <3>2
    <3> QED BY <2>3, <3>2, <3>3, <3>4
  <2>4. CASE m # k /\ m # g.next[n]
    <3>1. m # h BY <1>3, <1>k, <2>1, <2>4
    <3>2. g.prev[m] \in S /\ g.next[g.prev[m]] = m BY <1>3, <2>1, <3>1
    <3>3. g.prev[m] # n BY <2>4, <3>2
    <3>4. g.prev[m] # g.prev[n] BY <1>3, <2>1, <3>2
    <3>5. a.prev[m] = g.prev[m] BY <1>1, <2>1, <2>4
    <3>6. a.next[g.prev[m]] = m BY <1>1, <1>2, <3>2, <3>4
    <3> QED BY <2>4, <3>2, <3>3, <3>5, <3>6
  <2> QED BY <2>2, <2>3, <2>4
<1>6. ASSUME NEW m \in U
      PROVE  \/ a.next[m] = Null
             \/ a.next[m] \in U /\ a.prev[a.next[m]] = m /\ r[m] < r[a.next[m]]
  <2>1. m \in S /\ m # n /\ m \in Node BY <1>2, <1>6
  <2>2. CASE m = g.prev[n]
    <3>1. a.next[m] = g.next[n] BY <1>1, <2>1, <2>2
    <3>2. n # h /\ g.next[m] = n BY <1>2, <1>3, <2>1, <2>2
    <3>3. r[m] < r[n] BY <1>2, <1>4, <2>1, <3>2
    <3>4. CASE g.next[n] # Null
      <4>1. g.next[n] \in S /\ g.next[n] # n /\ r[n] < r[g.next[n]] BY <1>4, <3>4
      <4>2. a.prev[g.next[n]] = m BY <1>1, <1>2, <2>2, <4>1
      <4>3. r[m] < r[g.next[n]] BY <1>2, <2>1, <3>3, <4>1
      <4> QED BY <3>1, <4>1, <4>2, <4>3
    <3> QED BY <3>1, <3>4
  <2>3. CASE m # g.prev[n]
    <3>1. a.next[m] = g.next[m] BY <1>1, <2>1, <2>3
    <3>2. CASE g.next[m] # Null
      <4>1. g.next[m] \in S /\ g.prev[g.next[m]] = m /\ r[m] < r[g.next[m]]
        BY <1>4, <2>1, <3>2
      <4>2. g.next[m] # n BY <2>3, <4>1
      <4>3. g.next[m] # g.next[n] BY <1>4, <2>1, <3>2, <4>1
      <4>4. a.prev[g.next[m]] = m BY <1>1, <1>2, <4>1, <4>3
      <4> QED BY <3>1, <4>1, <4>2, <4>4
    <3> QED BY <3>1, <3>2
  <2> QED BY <2>2, <2>3
<1>7. IF U = {} THEN k = Null ELSE k \in U
  <2>1. CASE n = h
    <3>1. k = g.next[n] BY <1>3, <1>k, <2>1
    <3>2. CASE U = {} BY <1>4, <3>1, <3>2
    <3>3. CASE U # {}
      <4>1. PICK x \in U : TRUE BY <3>3
      <4>2. r[h] < r[x] BY <2>1, <4>1, HeadLeast
      <4>3. g.next[h] \in S BY <1>2, <4>1, <4>2, NextLeast
      <4> QED BY <1>2, <1>4, <2>1, <3>1, <4>3
    <3> QED BY <3>2, <3>3
  <2>2. CASE n # h BY <1>2, <1>3, <1>k, <2>2
  <2> QED BY <2>1, <2>2
<1>8. Untouched(g, a, Node \ S)
  <2>1. ASSUME NEW m \in Node \ S PROVE m # g.prev[n] /\ m # g.next[n]
    BY <1>2, <1>3, <1>4, <2>1
  <2> QED BY <1>1, <2>1 DEF Untouched
<1>9. IsList(a, k, U, r) BY <1>2, <1>5, <1>6, <1>7 DEF IsList
<1> QED BY <1>1, <1>8, <1>9

(* A node put before a list, or after one of its nodes                     *)
First(r, n) == [m \in Node |-> IF m = n THEN 0 ELSE r[m] + 1]
After(r, e, n) == [m \in Node |-> IF m = n THEN 2 * r[e] + 1 ELSE 2 * r[m]]

LEMMA FirstFacts ==
  ASSUME NEW r \in [Node -> Nat], NEW n
  PROVE  First(r, n) \in [Node -> Nat] /\ SameOrder(r, First(r, n), Node \ {n})
BY DEF First, SameOrder

LEMMA AfterFacts ==
  ASSUME NEW r \in [Node -> Nat], NEW e \in Node, NEW n
  PROVE  After(r, e, n) \in [Node -> Nat] /\ SameOrder(r, After(r, e, n), Node \ {n})
BY DEF After, SameOrder

Fronted(g, a, h, n) ==
  /\ \A m \in Node : a.next[m] = IF m = n THEN h ELSE g.next[m]
  /\ \A m \in Node : a.prev[m] = IF m = n THEN Null ELSE IF m = h THEN n ELSE g.prev[m]

LEMMA PutFirst ==
  ASSUME NEW g \in Pointers, NEW h, NEW S, NEW r, IsList(g, h, S, r), NEW n \in Node \ S,
         NEW a, Fronted(g, a, h, n)
  PROVE  /\ IsList(a, n, S \cup {n}, First(r, n))
         /\ Untouched(g, a, Node \ (S \cup {n}))
<1> DEFINE t == First(r, n)
           U == S \cup {n}
<1> USE DEF Fronted
<1>1. /\ S \subseteq Node /\ Null \notin Node /\ r \in [Node -> Nat]
      /\ \A m \in S : r[m] \in Nat /\ m # n /\ m \in Node
  BY NodeFacts DEF IsList
<1>2. t \in [Node -> Nat] /\ \A m \in Node : t[m] = IF m = n THEN 0 ELSE r[m] + 1
  BY <1>1, FirstFacts DEF First
<1> HIDE DEF t
<1>3. ASSUME NEW m \in U
      PROVE  IF m = n THEN a.prev[m] = Null ELSE a.prev[m] \in U /\ a.next[a.prev[m]] = m
  <2>1. CASE m = n BY <2>1
  <2>2. CASE m # n /\ m = h BY <1>1, <2>2
  <2>3. CASE m # n /\ m # h
    <3>1. m \in S /\ g.prev[m] \in S /\ g.next[g.prev[m]] = m BY <1>3, <2>3 DEF IsList
    <3>2. g.prev[m] # n /\ a.prev[m] = g.prev[m] BY <1>1, <2>3, <3>1
    <3> QED BY <1>1, <2>3, <3>1, <3>2
  <2> QED BY <2>1, <2>2, <2>3
<1>4. ASSUME NEW m \in U
      PROVE  \/ a.next[m] = Null
             \/ a.next[m] \in U /\ a.prev[a.next[m]] = m /\ t[m] < t[a.next[m]]
  <2>1. CASE m = n
    <3>1. a.next[m] = h BY <2>1
    <3>2. CASE S # {}
      <4>1. h \in S BY <3>2 DEF IsList
      <4>2. a.prev[h] = n BY <1>1, <4>1
      <4>3. t[m] < t[h] BY <1>1, <1>2, <2>1, <4>1
      <4> QED BY <2>1, <3>1, <4>1, <4>2, <4>3
    <3>3. CASE S = {} BY <3>1, <3>3 DEF IsList
    <3> QED BY <3>2, <3>3
  <2>2. CASE m # n
    <3>1. m \in S /\ a.next[m] = g.next[m] BY <1>1, <1>4, <2>2
    <3>2. CASE g.next[m] # Null
      <4>1. g.next[m] \in S /\ g.prev[g.next[m]] = m /\ r[m] < r[g.next[m]]
        BY <3>1, <3>2 DEF IsList
      <4>2. g.next[m] # h
        <5>1. m \in Node /\ m # Null BY <1>1, <3>1
        <5>2. g.prev[g.next[m]] # Null BY <4>1, <5>1
        <5> QED BY <4>1, <5>2 DEF IsList
      <4>3. a.prev[g.next[m]] = m BY <1>1, <4>1, <4>2
      <4>4. t[m] < t[g.next[m]] BY <1>1, <1>2, <3>1, <4>1
      <4> QED BY <3>1, <4>1, <4>3, <4>4
    <3> QED BY <3>1, <3>2
  <2> QED BY <2>1, <2>2
<1>5. IsList(a, n, U, t)
  <2>1. U \subseteq Node /\ U # {} /\ n \in U BY <1>1
  <2> HIDE DEF U
  <2> QED BY <1>2, <1>3, <1>4, <2>1 DEF IsList
<1>6. Untouched(g, a, Node \ (S \cup {n}))
  <2>1. h \in S \cup {Null} BY DEF IsList
  <2> QED BY <1>1, <2>1 DEF Untouched
<1> QED BY <1>5, <1>6 DEF t

LEMMA PutAfter ==
  ASSUME NEW g \in Pointers, NEW h, NEW S, NEW r, IsList(g, h, S, r), NEW e \in S,
         NEW n \in Node \ S
  PROVE  LET a == Between(g, n, e)
         IN  /\ IsList(a, h, S \cup {n}, After(r, e, n))
             /\ Untouched(g, a, Node \ (S \cup {n}))
             /\ a = [g EXCEPT !.next = a.next, !.prev = a.prev]
             /\ a \in Pointers
<1> DEFINE a == Between(g, n, e)
           t == After(r, e, n)
           U == S \cup {n}
<1>1. /\ S \subseteq Node /\ Null \notin Node /\ r \in [Node -> Nat] /\ h \in S
      /\ \A m \in S : r[m] \in Nat /\ m # n /\ m \in Node
  BY NodeFacts DEF IsList
<1>2. g.next \in [Node -> Ptr] /\ g.prev \in [Node -> Ptr] /\ g.next[e] \in Ptr
  BY <1>1 DEF Pointers
<1>3. /\ a.next = [g.next EXCEPT ![n] = g.next[e], ![e] = n]
      /\ a.prev = [m \in Node |-> IF m = n THEN e ELSE IF m = g.next[e] THEN n ELSE g.prev[m]]
      /\ a = [g EXCEPT !.next = a.next, !.prev = a.prev]
  BY DEF Between, Pointers
<1>4. a.next \in [Node -> Ptr] /\ a.prev \in [Node -> Ptr]
  BY <1>1, <1>2, <1>3 DEF Ptr
<1>5. a \in Pointers BY <1>3, <1>4 DEF Pointers
<1>6. /\ \A m \in Node : a.next[m] = IF m = e THEN n ELSE IF m = n THEN g.next[e] ELSE g.next[m]
      /\ \A m \in Node : a.prev[m] = IF m = n THEN e
                                     ELSE IF m = g.next[e] THEN n ELSE g.prev[m]
  BY <1>1, <1>2, <1>3
<1>7. t \in [Node -> Nat] /\ \A m \in Node : t[m] = IF m = n THEN 2 * r[e] + 1 ELSE 2 * r[m]
  BY <1>1, AfterFacts DEF After
<1> HIDE DEF t, a
<1>8. ASSUME NEW m \in U
      PROVE  IF m = h THEN a.prev[m] = Null ELSE a.prev[m] \in U /\ a.next[a.prev[m]] = m
  <2>1. CASE m = n BY <1>1, <1>6, <2>1
  <2>2. CASE m # n /\ m = g.next[e]
    <3>1. m # h
      <4>1. m \in S /\ g.prev[m] = e /\ e # Null BY <1>1, <1>8, <2>2 DEF IsList
      <4> QED BY <4>1 DEF IsList
    <3> QED BY <1>1, <1>6, <1>8, <2>2, <3>1
  <2>3. CASE m # n /\ m # g.next[e] /\ m = h BY <1>1, <1>6, <2>3 DEF IsList
  <2>4. CASE m # n /\ m # g.next[e] /\ m # h
    <3>1. m \in S /\ g.prev[m] \in S /\ g.next[g.prev[m]] = m BY <1>8, <2>4 DEF IsList
    <3>2. g.prev[m] # n /\ g.prev[m] # e /\ a.prev[m] = g.prev[m] BY <1>1, <1>6, <2>4, <3>1
    <3> QED BY <1>1, <1>6, <2>4, <3>1, <3>2
  <2> QED BY <2>1, <2>2, <2>3, <2>4
<1>9. ASSUME NEW m \in U
      PROVE  \/ a.next[m] = Null
             \/ a.next[m] \in U /\ a.prev[a.next[m]] = m /\ t[m] < t[a.next[m]]
  <2>1. CASE m = e
    <3>1. t[e] < t[n] BY <1>1, <1>7
    <3> QED BY <1>1, <1>6, <2>1, <3>1
  <2>2. CASE m = n
    <3>1. a.next[m] = g.next[e] BY <1>1, <1>6, <2>2
    <3>2. CASE g.next[e] # Null
      <4>1. g.next[e] \in S /\ r[e] < r[g.next[e]] BY <3>2 DEF IsList
      <4>2. a.prev[g.next[e]] = n BY <1>1, <1>6, <4>1
      <4>3. t[n] < t[g.next[e]] BY <1>1, <1>7, <4>1
      <4> QED BY <2>2, <3>1, <4>1, <4>2, <4>3
    <3> QED BY <3>1, <3>2
  <2>3. CASE m # e /\ m # n
    <3>1. m \in S /\ a.next[m] = g.next[m] BY <1>1, <1>6, <1>9, <2>3
    <3>2. CASE g.next[m] # Null
      <4>1. g.next[m] \in S /\ g.prev[g.next[m]] = m /\ r[m] < r[g.next[m]]
        BY <3>1, <3>2 DEF IsList
      <4>2. g.next[m] # g.next[e]
        <5>1. CASE g.next[e] = Null BY <3>2, <5>1
        <5>2. CASE g.next[e] # Null
          <6>1. g.prev[g.next[e]] = e BY <5>2 DEF IsList
          <6> QED BY <2>3, <4>1, <6>1
        <5> QED BY <5>1, <5>2
      <4>3. a.prev[g.next[m]] = m BY <1>1, <1>6, <4>1, <4>2
      <4>4. t[m] < t[g.next[m]] BY <1>1, <1>7, <3>1, <4>1
      <4> QED BY <3>1, <4>1, <4>3, <4>4
    <3> QED BY <3>1, <3>2
  <2> QED BY <2>1, <2>2, <2>3
<1>10. IsList(a, h, U, t)
  <2>1. U \subseteq Node /\ U # {} /\ h \in U BY <1>1
  <2> HIDE DEF U
  <2> QED BY <1>7, <1>8, <1>9, <2>1 DEF IsList
<1>11. Untouched(g, a, Node \ (S \cup {n}))
  <2>1. g.next[e] \in S \cup {Null} BY DEF IsList
  <2> QED BY <1>1, <1>6, <2>1 DEF Untouched
<1> QED BY <1>3, <1>5, <1>10, <1>11 DEF a, t

-----------------------------------------------------------------------------
(* What the operations do to the lists.                                    *)

LEMMA SameOrderSub ==
  ASSUME NEW r, NEW t, NEW S, SameOrder(r, t, S), NEW U \in SUBSET S
  PROVE  SameOrder(r, t, U)
BY DEF SameOrder

LEMMA UntouchedSub ==
  ASSUME NEW g, NEW a, NEW S, Untouched(g, a, S), NEW U \in SUBSET S
  PROVE  Untouched(g, a, U)
BY DEF Untouched

LEMMA LaidFacts ==
  ASSUME NEW g, NEW D, NEW E, NEW H, NEW T, NEW r, Laid(g, D, E, H, T, r)
  PROVE  /\ D \subseteq Node /\ E \subseteq D /\ H \subseteq D /\ T \subseteq D
         /\ E \cap H = {} /\ E \cap T = {} /\ H \cap T = {} /\ Null \notin D
         /\ r \in [Node -> Nat] /\ g \in Pointers /\ g.intrash = T
         /\ SameOrder(r, r, Node)
BY NodeFacts DEF Laid, SameOrder

LEMMA RemoveLaid ==
  ASSUME NEW g, NEW D, NEW E, NEW H, NEW T, NEW r, Laid(g, D, E, H, T, r), NEW n \in E
  PROVE  /\ Laid(EffectRemove(g, n), D, E \ {n}, H, T, r)
         /\ Untouched(g, EffectRemove(g, n), Node \ E)
<1> DEFINE a == EffectRemove(g, n)
           u == Unlinked(g, n)
           h == IF g.prev[n] = Null THEN g.next[n] ELSE g.head
<1>1. /\ g \in Pointers /\ IsList(g, g.head, E, r) /\ n \in Node /\ g.next[n] \in Ptr
      /\ g.head \in Ptr /\ D \subseteq Node /\ r \in [Node -> Nat]
  BY DEF Laid, Pointers
<1>2. /\ a.next = u.next /\ a.prev = u.prev /\ a.head = h
      /\ a.hist = g.hist /\ a.trash = g.trash /\ a.intrash = g.intrash
      /\ a = [next |-> a.next, prev |-> a.prev, head |-> a.head, hist |-> a.hist,
              trash |-> a.trash, intrash |-> a.intrash]
  <2>1. /\ u.head = g.head /\ u.hist = g.hist /\ u.trash = g.trash /\ u.intrash = g.intrash
        /\ u = [next |-> u.next, prev |-> u.prev, head |-> u.head, hist |-> u.hist,
                trash |-> u.trash, intrash |-> u.intrash]
    <3>1. u = [g EXCEPT
                 !.next = [m \in Node |-> IF m = g.prev[n] THEN g.next[n] ELSE g.next[m]],
                 !.prev = [m \in Node |-> IF m = g.next[n] THEN g.prev[n] ELSE g.prev[m]]]
      BY DEF Unlinked
    <3> DEFINE x == [m \in Node |-> IF m = g.prev[n] THEN g.next[n] ELSE g.next[m]]
               y == [m \in Node |-> IF m = g.next[n] THEN g.prev[n] ELSE g.prev[m]]
    <3>2. u = [g EXCEPT !.next = x, !.prev = y] BY <3>1
    <3> HIDE DEF u, x, y
    <3> QED BY <1>1, <3>2 DEF Pointers
  <2>2. a = [u EXCEPT !.head = h]
    <3>1. u.head = g.head BY <2>1
    <3> QED BY <3>1 DEF EffectRemove
  <2> HIDE DEF a, u, h
  <2> QED BY <2>1, <2>2
<1> HIDE DEF a
<1>u. u.next = Unlinked(g, n).next /\ u.prev = Unlinked(g, n).prev OBVIOUS
<1>h. h = IF g.prev[n] = Null THEN g.next[n] ELSE g.head OBVIOUS
<1> HIDE DEF u, h
<1>3. /\ IsList(a, h, E \ {n}, r) /\ Untouched(g, a, Node \ E)
      /\ a.next \in [Node -> Ptr] /\ a.prev \in [Node -> Ptr]
  <2>1. a.next = Unlinked(g, n).next /\ a.prev = Unlinked(g, n).prev BY <1>2, <1>u
  <2>2. Unlinks(g, n, a, g.head, h) BY <1>h, <2>1 DEF Unlinks
  <2> QED BY <1>1, <2>2, UnlinkedFacts
<1>4. h \in Ptr BY <1>1, <1>h
<1>5. a \in Pointers BY <1>1, <1>2, <1>3, <1>4 DEF Pointers
<1>6. Untouched(g, a, H) /\ Untouched(g, a, T) /\ Untouched(g, a, Node \ D)
  <2>1. /\ H \in SUBSET (Node \ E) /\ T \in SUBSET (Node \ E)
        /\ Node \ D \in SUBSET (Node \ E)
    BY LaidFacts
  <2> QED BY <1>3, <2>1, UntouchedSub
<1>7. SameOrder(r, r, H) /\ SameOrder(r, r, T) BY DEF SameOrder
<1>8. IsList(a, g.hist, H, r) /\ IsList(a, g.trash, T, r)
  BY <1>1, <1>6, <1>7, StaysList DEF Laid
<1>9. Unused(a, Node \ D) BY <1>6 DEF Unused, Untouched, Laid
<1>10. Laid(a, D, E \ {n}, H, T, r)
  <2> QED BY <1>2, <1>3, <1>5, <1>8, <1>9 DEF Laid
<1> QED BY <1>3, <1>10 DEF a

LEMMA RecordRemoveLaid ==
  ASSUME NEW g, NEW D, NEW E, NEW H, NEW T, NEW r, Laid(g, D, E, H, T, r), NEW n \in H
  PROVE  /\ Laid(RecordRemove(g, n), D, E, H \ {n}, T, r)
         /\ Untouched(g, RecordRemove(g, n), Node \ H)
<1> DEFINE a == RecordRemove(g, n)
           u == Unlinked(g, n)
           h == IF g.prev[n] = Null THEN g.next[n] ELSE g.hist
<1>1. /\ g \in Pointers /\ IsList(g, g.hist, H, r) /\ n \in Node /\ g.next[n] \in Ptr
      /\ g.hist \in Ptr /\ D \subseteq Node /\ r \in [Node -> Nat]
  BY DEF Laid, Pointers
<1>2. /\ a.next = u.next /\ a.prev = u.prev /\ a.hist = h
      /\ a.head = g.head /\ a.trash = g.trash /\ a.intrash = g.intrash
      /\ a = [next |-> a.next, prev |-> a.prev, head |-> a.head, hist |-> a.hist,
              trash |-> a.trash, intrash |-> a.intrash]
  <2>1. /\ u.head = g.head /\ u.hist = g.hist /\ u.trash = g.trash /\ u.intrash = g.intrash
        /\ u = [next |-> u.next, prev |-> u.prev, head |-> u.head, hist |-> u.hist,
                trash |-> u.trash, intrash |-> u.intrash]
    <3>1. u = [g EXCEPT
                 !.next = [m \in Node |-> IF m = g.prev[n] THEN g.next[n] ELSE g.next[m]],
                 !.prev = [m \in Node |-> IF m = g.next[n] THEN g.prev[n] ELSE g.prev[m]]]
      BY DEF Unlinked
    <3> DEFINE x == [m \in Node |-> IF m = g.prev[n] THEN g.next[n] ELSE g.next[m]]
               y == [m \in Node |-> IF m = g.next[n] THEN g.prev[n] ELSE g.prev[m]]
    <3>2. u = [g EXCEPT !.next = x, !.prev = y] BY <3>1
    <3> HIDE DEF u, x, y
    <3> QED BY <1>1, <3>2 DEF Pointers
  <2>2. a = [u EXCEPT !.hist = h]
    <3>1. u.hist = g.hist BY <2>1
    <3> QED BY <3>1 DEF RecordRemove
  <2> HIDE DEF a, u, h
  <2> QED BY <2>1, <2>2
<1> HIDE DEF a
<1>u. u.next = Unlinked(g, n).next /\ u.prev = Unlinked(g, n).prev OBVIOUS
<1>h. h = IF g.prev[n] = Null THEN g.next[n] ELSE g.hist OBVIOUS
<1> HIDE DEF u, h
<1>3. /\ IsList(a, h, H \ {n}, r) /\ Untouched(g, a, Node \ H)
      /\ a.next \in [Node -> Ptr] /\ a.prev \in [Node -> Ptr]
  <2>1. a.next = Unlinked(g, n).next /\ a.prev = Unlinked(g, n).prev BY <1>2, <1>u
  <2>2. Unlinks(g, n, a, g.hist, h) BY <1>h, <2>1 DEF Unlinks
  <2> QED BY <1>1, <2>2, UnlinkedFacts
<1>4. h \in Ptr BY <1>1, <1>h
<1>5. a \in Pointers BY <1>1, <1>2, <1>3, <1>4 DEF Pointers
<1>6. Untouched(g, a, E) /\ Untouched(g, a, T) /\ Untouched(g, a, Node \ D)
  <2>1. /\ E \in SUBSET (Node \ H) /\ T \in SUBSET (Node \ H)
        /\ Node \ D \in SUBSET (Node \ H)
    BY LaidFacts
  <2> QED BY <1>3, <2>1, UntouchedSub
<1>7. SameOrder(r, r, E) /\ SameOrder(r, r, T) BY DEF SameOrder
<1>8. IsList(a, g.head, E, r) /\ IsList(a, g.trash, T, r)
  BY <1>1, <1>6, <1>7, StaysList DEF Laid
<1>9. Unused(a, Node \ D) BY <1>6 DEF Unused, Untouched, Laid
<1>10. Laid(a, D, E, H \ {n}, T, r)
  <2> QED BY <1>2, <1>3, <1>5, <1>8, <1>9 DEF Laid
<1> QED BY <1>3, <1>10 DEF a

(* n is in none of the lists of g.                                         *)
InNoList(g, D, E, H, T, r, n) ==
  Laid(g, D, E, H, T, r) /\ n \in D \ (E \cup H \cup T)

LEMMA FreeLaid ==
  ASSUME NEW g, NEW D, NEW E, NEW H, NEW T, NEW r, NEW n, InNoList(g, D, E, H, T, r, n)
  PROVE  /\ Laid(EffectFree(g, n), D, E, H, T \cup {n}, First(r, n))
         /\ Untouched(g, EffectFree(g, n), Node \ (T \cup {n}))
         /\ SameOrder(r, First(r, n), Node \ {n})
         /\ EffectFree(g, n).head = g.head /\ EffectFree(g, n).hist = g.hist
<1> Laid(g, D, E, H, T, r) /\ n \in D \ (E \cup H \cup T) BY DEF InNoList
<1> DEFINE a == EffectFree(g, n)
           t == First(r, n)
<1>1. /\ g \in Pointers /\ IsList(g, g.trash, T, r) /\ n \in Node \ T /\ n \notin g.intrash
      /\ g.head \in Ptr /\ g.hist \in Ptr /\ g.trash \in Ptr /\ g.intrash \in SUBSET Node
      /\ g.next \in [Node -> Ptr] /\ g.prev \in [Node -> Ptr]
      /\ D \subseteq Node /\ r \in [Node -> Nat]
  BY DEF Laid, Pointers
<1>2. /\ a.next = [g.next EXCEPT ![n] = g.trash]
      /\ a.prev = [m \in Node |-> IF m = n THEN Null
                                  ELSE IF m = g.trash THEN n ELSE g.prev[m]]
      /\ a.trash = n /\ a.head = g.head /\ a.hist = g.hist
      /\ a.intrash = g.intrash \cup {n}
      /\ a = [next |-> a.next, prev |-> a.prev, head |-> a.head, hist |-> a.hist,
              trash |-> a.trash, intrash |-> a.intrash]
  BY <1>1 DEF EffectFree, Pointers
<1> HIDE DEF a
<1>3. a \in Pointers
  <2>1. a.next \in [Node -> Ptr] BY <1>1, <1>2
  <2>2. a.prev \in [Node -> Ptr] BY <1>1, <1>2 DEF Ptr
  <2> QED BY <1>1, <1>2, <2>1, <2>2 DEF Pointers, Ptr
<1>4. /\ \A m \in Node : a.next[m] = IF m = n THEN g.trash ELSE g.next[m]
      /\ \A m \in Node : a.prev[m] = IF m = n THEN Null
                                     ELSE IF m = g.trash THEN n ELSE g.prev[m]
  BY <1>1, <1>2
<1>5. IsList(a, n, T \cup {n}, t) /\ Untouched(g, a, Node \ (T \cup {n}))
  BY <1>1, <1>4, PutFirst DEF Fronted
<1>6. t \in [Node -> Nat] /\ SameOrder(r, t, Node \ {n}) BY <1>1, FirstFacts
<1> HIDE DEF t
<1>7. /\ E \in SUBSET (Node \ (T \cup {n})) /\ H \in SUBSET (Node \ (T \cup {n}))
      /\ Node \ D \in SUBSET (Node \ (T \cup {n}))
      /\ E \in SUBSET (Node \ {n}) /\ H \in SUBSET (Node \ {n})
  BY LaidFacts
<1>8. Untouched(g, a, E) /\ Untouched(g, a, H) /\ Untouched(g, a, Node \ D)
  BY <1>5, <1>7, UntouchedSub
<1>9. SameOrder(r, t, E) /\ SameOrder(r, t, H) BY <1>6, <1>7, SameOrderSub
<1>10. IsList(a, g.head, E, t) /\ IsList(a, g.hist, H, t)
  BY <1>6, <1>8, <1>9, StaysList DEF Laid
<1>11. Unused(a, Node \ D) BY <1>8 DEF Unused, Untouched, Laid
<1>12. Laid(a, D, E, H, T \cup {n}, t)
  BY <1>2, <1>3, <1>5, <1>6, <1>10, <1>11 DEF Laid
<1> QED BY <1>2, <1>5, <1>6, <1>12 DEF a, t

LEMMA FinalLaid ==
  ASSUME NEW g, NEW D, NEW E, NEW H, NEW T, NEW r, Laid(g, D, E, H, T, r), NEW n \in E
  PROVE  /\ Laid(EffectFinal(g, n), D, E \ {n}, H, T \cup {n}, First(r, n))
         /\ Untouched(g, EffectFinal(g, n), Node \ (E \cup T))
         /\ SameOrder(r, First(r, n), Node \ {n})
<1> DEFINE a == EffectRemove(g, n)
           c == EffectFree(a, n)
<1>1. Laid(a, D, E \ {n}, H, T, r) /\ Untouched(g, a, Node \ E) BY RemoveLaid
<1>2. n \in D \ ((E \ {n}) \cup H \cup T) /\ n \notin g.intrash BY LaidFacts
<1> HIDE DEF a
<1>3. /\ Laid(c, D, E \ {n}, H, T \cup {n}, First(r, n))
      /\ Untouched(a, c, Node \ (T \cup {n}))
      /\ SameOrder(r, First(r, n), Node \ {n})
  <2>1. InNoList(a, D, E \ {n}, H, T, r, n) BY <1>1, <1>2 DEF InNoList
  <2> QED BY <2>1, FreeLaid
<1>4. EffectFinal(g, n) = c BY <1>2 DEF EffectFinal, a
<1> HIDE DEF c
<1>5. Untouched(g, c, Node \ (E \cup T)) BY <1>1, <1>3 DEF Untouched
<1> QED BY <1>3, <1>4, <1>5

LEMMA StrikeLaid ==
  ASSUME NEW g, NEW D, NEW E, NEW H, NEW T, NEW r, Laid(g, D, E, H, T, r), NEW n \in H
  PROVE  /\ Laid(Strike(g, n), D, E, H \ {n}, T \cup {n}, First(r, n))
         /\ SameOrder(r, First(r, n), Node \ {n})
<1> DEFINE a == RecordRemove(g, n)
<1>1. Laid(a, D, E, H \ {n}, T, r) BY RecordRemoveLaid
<1>2. n \in D \ (E \cup (H \ {n}) \cup T) BY LaidFacts
<1> HIDE DEF a
<1>3. PICK G : G = H \ {n} OBVIOUS
<1>4. InNoList(a, D, E, G, T, r, n) BY <1>1, <1>2, <1>3 DEF InNoList
<1>5. /\ Laid(EffectFree(a, n), D, E, G, T \cup {n}, First(r, n))
      /\ Untouched(a, EffectFree(a, n), Node \ (T \cup {n}))
      /\ SameOrder(r, First(r, n), Node \ {n})
  BY <1>4, FreeLaid
<1> QED BY <1>3, <1>5 DEF a, Strike

(* n joins the field.                                                      *)
Joined(g, a, n, r, t, E) ==
  /\ a \in Pointers /\ t \in [Node -> Nat] /\ IsList(a, a.head, E \cup {n}, t)
  /\ a.hist = g.hist /\ a.trash = g.trash /\ a.intrash = g.intrash
  /\ Untouched(g, a, Node \ (E \cup {n})) /\ SameOrder(r, t, Node \ {n})

LEMMA JoinedLaid ==
  ASSUME NEW g, NEW D, NEW E, NEW H, NEW T, NEW r, Laid(g, D, E, H, T, r), NEW n \in Node \ D,
         NEW a, NEW t, Joined(g, a, n, r, t, E)
  PROVE  Laid(a, D \cup {n}, E \cup {n}, H, T, t)
<1>1. /\ H \in SUBSET (Node \ (E \cup {n})) /\ T \in SUBSET (Node \ (E \cup {n}))
      /\ H \in SUBSET (Node \ {n}) /\ T \in SUBSET (Node \ {n})
      /\ Node \ (D \cup {n}) \in SUBSET (Node \ (E \cup {n}))
  BY LaidFacts
<1>2. /\ Untouched(g, a, H) /\ Untouched(g, a, T) /\ Untouched(g, a, Node \ (D \cup {n}))
      /\ SameOrder(r, t, H) /\ SameOrder(r, t, T)
  BY <1>1, UntouchedSub, SameOrderSub DEF Joined
<1>3. IsList(a, g.hist, H, t) /\ IsList(a, g.trash, T, t)
  BY <1>2, StaysList DEF Laid, Joined
<1>4. Unused(a, Node \ (D \cup {n})) BY <1>2 DEF Unused, Untouched, Laid
<1>5. /\ D \cup {n} \subseteq Node /\ E \cup {n} \subseteq D \cup {n}
      /\ H \subseteq D \cup {n} /\ T \subseteq D \cup {n}
      /\ (E \cup {n}) \cap H = {} /\ (E \cup {n}) \cap T = {} /\ H \cap T = {}
      /\ g.intrash = T
  BY LaidFacts
<1> QED BY <1>3, <1>4, <1>5 DEF Laid, Joined

LEMMA FrontJoined ==
  ASSUME NEW g, NEW D, NEW E, NEW H, NEW T, NEW r, Laid(g, D, E, H, T, r), NEW n \in Node \ D
  PROVE  Joined(g, AtFront(g, n), n, r, First(r, n), E)
<1> DEFINE a == AtFront(g, n)
           h == g.head
<1>1. /\ g \in Pointers /\ IsList(g, h, E, r) /\ n \in Node \ E /\ r \in [Node -> Nat]
      /\ g.head \in Ptr /\ g.next \in [Node -> Ptr] /\ g.prev \in [Node -> Ptr]
      /\ g.next[n] = Null /\ g.prev[n] = Null /\ Null \notin Node /\ h # n
  <2>1. h \in E \cup {Null} BY DEF Laid, IsList
  <2> QED BY <2>1, NodeFacts DEF Laid, Unused, Pointers
<1>2. /\ a.head = n /\ a.hist = g.hist /\ a.trash = g.trash /\ a.intrash = g.intrash
      /\ a \in Pointers
      /\ \A m \in Node : a.next[m] = IF m = n THEN h ELSE g.next[m]
      /\ \A m \in Node : a.prev[m] = IF m = n THEN Null ELSE IF m = h THEN n ELSE g.prev[m]
  <2>1. CASE h = Null
    <3>1. a = [g EXCEPT !.head = n] BY <2>1 DEF AtFront
    <3>2. a \in Pointers /\ a.next = g.next /\ a.prev = g.prev
      BY <1>1, <3>1 DEF Pointers, Ptr
    <3> QED BY <1>1, <2>1, <3>1, <3>2 DEF Pointers
  <2>2. CASE h # Null
    <3>1. a = [g EXCEPT !.next[n] = h, !.prev[h] = n, !.head = n] BY <2>2 DEF AtFront
    <3>2. h \in Node BY <1>1, <2>2 DEF Ptr
    <3>3. /\ a.next = [g.next EXCEPT ![n] = h] /\ a.prev = [g.prev EXCEPT ![h] = n]
          /\ a.head = n /\ a.hist = g.hist /\ a.trash = g.trash /\ a.intrash = g.intrash
          /\ a = [next |-> a.next, prev |-> a.prev, head |-> a.head, hist |-> a.hist,
                  trash |-> a.trash, intrash |-> a.intrash]
      BY <1>1, <3>1 DEF Pointers
    <3> HIDE DEF a
    <3>4. a.next \in [Node -> Ptr] /\ a.prev \in [Node -> Ptr] BY <1>1, <3>2, <3>3 DEF Ptr
    <3>5. a \in Pointers BY <1>1, <3>3, <3>4 DEF Pointers, Ptr
    <3> QED BY <1>1, <3>2, <3>3, <3>5
  <2> QED BY <2>1, <2>2
<1> HIDE DEF a, h
<1>3. IsList(a, n, E \cup {n}, First(r, n)) /\ Untouched(g, a, Node \ (E \cup {n}))
  <2>1. Fronted(g, a, h, n) BY <1>2 DEF Fronted
  <2> QED BY <1>1, <2>1, PutFirst
<1>4. First(r, n) \in [Node -> Nat] /\ SameOrder(r, First(r, n), Node \ {n})
  BY <1>1, FirstFacts
<1> QED BY <1>2, <1>3, <1>4 DEF Joined, a

LEMMA BetweenJoined ==
  ASSUME NEW g, NEW D, NEW E, NEW H, NEW T, NEW r, Laid(g, D, E, H, T, r), NEW n \in Node \ D,
         NEW e \in E
  PROVE  Joined(g, Between(g, n, e), n, r, After(r, e, n), E)
<1> DEFINE a == Between(g, n, e)
<1>1. g \in Pointers /\ IsList(g, g.head, E, r) /\ n \in Node \ E /\ r \in [Node -> Nat]
      /\ e \in Node
  BY DEF Laid
<1>2. /\ IsList(a, g.head, E \cup {n}, After(r, e, n))
      /\ Untouched(g, a, Node \ (E \cup {n}))
      /\ a = [g EXCEPT !.next = a.next, !.prev = a.prev]
      /\ a \in Pointers
  BY <1>1, PutAfter
<1> HIDE DEF a
<1>3. a.head = g.head /\ a.hist = g.hist /\ a.trash = g.trash /\ a.intrash = g.intrash
  BY <1>1, <1>2 DEF Pointers
<1>4. After(r, e, n) \in [Node -> Nat] /\ SameOrder(r, After(r, e, n), Node \ {n})
  BY <1>1, AfterFacts
<1> QED BY <1>2, <1>3, <1>4 DEF Joined, a

(* Where the list falls by priority p, n comes after those of its priority *)
(* or a higher one.                                                        *)
Falls(E, r, p) == \A x, y \in E : r[x] < r[y] => p[x] >= p[y]
Belongs(E, n, t, p) == \A x \in E : t[x] < t[n] <=> p[x] >= p[n]
Placed(E, n, r, t, p) ==
  (\A x \in E \cup {n} : p[x] \in Int) /\ Falls(E, r, p) => Belongs(E, n, t, p)

LEMMA InsertLaid ==
  ASSUME NEW g, NEW D, NEW E, NEW H, NEW T, NEW r, Laid(g, D, E, H, T, r), NEW n \in Node \ D,
         NEW p
  PROVE  \E t : /\ Laid(EffectInsert(g, n, p), D \cup {n}, E \cup {n}, H, T, t)
                /\ SameOrder(r, t, Node \ {n}) /\ Placed(E, n, r, t, p)
<1> DEFINE list == Chain(g, g.head)
           lower == {i \in DOMAIN list : p[list[i]] < p[n]}
<1>1. Goes(g, g.head, E, r, list) BY ChainGoes DEF Laid
<1> HIDE DEF list
<1>2. /\ list \in Seq(Node) /\ Len(list) \in Nat /\ DOMAIN list = 1 .. Len(list)
      /\ E = {list[i] : i \in 1 .. Len(list)}
  BY <1>1, LenProperties DEF Goes
<1>3. PICK c \in Nat : c = Len(list) BY <1>2
<1>4. lower \in SUBSET Nat /\ lower \subseteq 1 .. c BY <1>2, <1>3
<1>5. lower # {} => Min(lower) \in lower
  <2> HIDE DEF lower
  <2> QED BY <1>4, MinOf
<1>6. EffectInsert(g, n, p) =
        IF lower = {} /\ list # << >> THEN Between(g, n, Last(list))
        ELSE IF lower = {} \/ 1 \in lower THEN AtFront(g, n)
        ELSE Between(g, n, list[Min(lower) - 1])
  BY DEF EffectInsert, list
<1> HIDE DEF lower
<1>d. lower = {i \in 1 .. c : p[list[i]] < p[n]} BY <1>2, <1>3 DEF lower
<1>e. /\ \A i \in 1 .. c : list[i] \in E /\ list[i] \in Node /\ r[list[i]] \in Nat
      /\ \A x \in E : \E i \in 1 .. c : list[i] = x
      /\ \A i, j \in 1 .. c : i < j => r[list[i]] < r[list[j]]
      /\ n \in Node /\ n \notin E
  <2>1. \A i \in 1 .. c : list[i] \in E BY <1>2, <1>3
  <2>2. E \subseteq Node /\ r \in [Node -> Nat] /\ n \notin E BY LaidFacts
  <2> QED BY <1>1, <1>2, <1>3, <2>1, <2>2 DEF Goes
<1>7. \E t : Joined(g, EffectInsert(g, n, p), n, r, t, E) /\ Placed(E, n, r, t, p)
  <2>1. CASE lower = {} /\ list # << >>
    <3>1. c # 0 BY <1>2, <1>3, <2>1, EmptySeq
    <3>2. Last(list) = list[c] BY <1>3 DEF Last
    <3>3. Last(list) \in E BY <1>2, <1>3, <3>1, <3>2
    <3>4. EffectInsert(g, n, p) = Between(g, n, Last(list)) BY <1>6, <2>1
    <3>5. c \in 1 .. c /\ \A i \in 1 .. c : i = c \/ i < c BY <3>1
    <3>6. Placed(E, n, r, After(r, Last(list), n), p)
      <4> SUFFICES ASSUME \A x \in E \cup {n} : p[x] \in Int, NEW x \in E
                   PROVE  After(r, Last(list), n)[x] < After(r, Last(list), n)[n]
                            <=> p[x] >= p[n]
        BY DEF Placed, Belongs
      <4>1. PICK i \in 1 .. c : list[i] = x BY <1>e
      <4>2. p[x] >= p[n]
        <5>1. ~(p[x] < p[n]) BY <1>d, <2>1, <4>1
        <5> QED BY <5>1
      <4>3. r[x] <= r[list[c]] BY <1>e, <3>5, <4>1
      <4>4. After(r, list[c], n)[x] < After(r, list[c], n)[n] BY <1>e, <3>5, <4>1, <4>3 DEF After
      <4> QED BY <3>2, <4>2, <4>4
    <3> QED BY <3>3, <3>4, <3>6, BetweenJoined
  <2>2. CASE ~(lower = {} /\ list # << >>) /\ (lower = {} \/ 1 \in lower)
    <3>1. EffectInsert(g, n, p) = AtFront(g, n) BY <1>6, <2>2
    <3>2. Placed(E, n, r, First(r, n), p)
      <4> SUFFICES ASSUME \A x \in E \cup {n} : p[x] \in Int, Falls(E, r, p), NEW x \in E
                   PROVE  First(r, n)[x] < First(r, n)[n] <=> p[x] >= p[n]
        BY DEF Placed, Belongs
      <4>1. PICK i \in 1 .. c : list[i] = x BY <1>e
      <4>2. list # << >> BY <1>2, <1>3, <4>1, EmptySeq
      <4>3. 1 \in lower /\ 1 \in 1 .. c BY <2>2, <4>1, <4>2
      <4>4. p[list[1]] < p[n] /\ list[1] \in E BY <1>d, <1>e, <4>3
      <4>5. i = 1 \/ 1 < i OBVIOUS
      <4>6. p[list[1]] >= p[x]
        <5>1. CASE i = 1 BY <4>1, <4>4, <5>1
        <5>2. CASE 1 < i
          <6>1. r[list[1]] < r[x] BY <1>e, <4>1, <4>3, <5>2
          <6> QED BY <4>4, <6>1 DEF Falls
        <5> QED BY <4>5, <5>1, <5>2
      <4>7. ~(p[x] >= p[n]) BY <4>4, <4>6
      <4>8. First(r, n)[n] = 0 /\ First(r, n)[x] = r[x] + 1 /\ r[x] \in Nat
        BY <1>e, <4>1 DEF First
      <4> QED BY <4>7, <4>8
    <3> QED BY <3>1, <3>2, FrontJoined
  <2>3. CASE lower # {} /\ 1 \notin lower
    <3>1. EffectInsert(g, n, p) = Between(g, n, list[Min(lower) - 1]) BY <1>6, <2>3
    <3>2. Min(lower) \in 1 .. c /\ Min(lower) # 1 BY <1>4, <1>5, <2>3
    <3>3. Min(lower) - 1 \in 1 .. c BY <3>2
    <3>4. list[Min(lower) - 1] \in E BY <1>2, <1>3, <3>3
    <3>5. PICK m \in 1 .. c : m = Min(lower) - 1 BY <3>3
    <3>6. m + 1 \in lower /\ \A i \in lower : m + 1 <= i
      <4>1. Min(lower) \in lower /\ \A i \in lower : Min(lower) <= i BY <1>4, <2>3, MinOf
      <4>2. Min(lower) = m + 1 BY <3>2, <3>5
      <4> QED BY <4>1, <4>2
    <3>7. PICK e : e = list[m] OBVIOUS
    <3>8. Placed(E, n, r, After(r, e, n), p)
      <4> SUFFICES ASSUME \A x \in E \cup {n} : p[x] \in Int, Falls(E, r, p), NEW x \in E
                   PROVE  After(r, e, n)[x] < After(r, e, n)[n] <=> p[x] >= p[n]
        BY DEF Placed, Belongs
      <4>1. PICK i \in 1 .. c : list[i] = x BY <1>e
      <4>2. /\ After(r, e, n)[x] = 2 * r[x] /\ After(r, e, n)[n] = 2 * r[e] + 1
            /\ r[x] \in Nat /\ r[e] \in Nat
        BY <1>e, <3>7, <4>1 DEF After
      <4>3. CASE i <= m
        <5>1. i \notin lower BY <3>6, <4>3
        <5>2. ~(p[x] < p[n]) BY <1>d, <4>1, <5>1
        <5>3. p[x] >= p[n] BY <5>2
        <5>4. i = m \/ i < m BY <4>3
        <5>5. r[x] <= r[e]
          <6>1. CASE i = m BY <3>7, <4>1, <4>2, <6>1
          <6>2. CASE i < m
            <7>1. r[x] < r[e] BY <1>e, <3>7, <4>1, <6>2
            <7> QED BY <4>2, <7>1
          <6> QED BY <5>4, <6>1, <6>2
        <5>6. 2 * r[x] < 2 * r[e] + 1 BY <4>2, <5>5
        <5> QED BY <4>2, <5>3, <5>6
      <4>4. CASE ~(i <= m)
        <5>1. r[e] < r[x]
          <6>1. m < i BY <4>4
          <6> QED BY <1>e, <3>7, <4>1, <6>1
        <5>2. ~(2 * r[x] < 2 * r[e] + 1) BY <4>2, <5>1
        <5>3. m + 1 \in 1 .. c /\ p[list[m + 1]] < p[n] /\ list[m + 1] \in E
          BY <1>d, <1>e, <3>6
        <5>4. i = m + 1 \/ m + 1 < i BY <4>4
        <5>5. p[list[m + 1]] >= p[x]
          <6>1. CASE i = m + 1 BY <4>1, <5>3, <6>1
          <6>2. CASE m + 1 < i
            <7>1. r[list[m + 1]] < r[x] BY <1>e, <4>1, <5>3, <6>2
            <7> QED BY <5>3, <7>1 DEF Falls
          <6> QED BY <5>4, <6>1, <6>2
        <5>6. ~(p[x] >= p[n]) BY <5>3, <5>5
        <5> QED BY <4>2, <5>2, <5>6
      <4> QED BY <4>3, <4>4
    <3>9. e \in E /\ EffectInsert(g, n, p) = Between(g, n, e) BY <3>1, <3>4, <3>5, <3>7
    <3> QED BY <3>8, <3>9, BetweenJoined
  <2> QED BY <2>1, <2>2, <2>3
<1>8. PICK t : Joined(g, EffectInsert(g, n, p), n, r, t, E) /\ Placed(E, n, r, t, p) BY <1>7
<1>9. Laid(EffectInsert(g, n, p), D \cup {n}, E \cup {n}, H, T, t) BY <1>8, JoinedLaid
<1> QED BY <1>8, <1>9 DEF Joined

(* What is left after each node of the list, on the field ...              *)
FinalSteps(g, list, N, n, a) ==
  a = [i \in 0 .. n |-> IF i = 0 THEN g
                       ELSE IF list[i] \in N THEN EffectFinal(a[i - 1], list[i])
                       ELSE a[i - 1]]

LEMMA FinalStepsExist ==
  ASSUME NEW g, NEW list, NEW N, NEW k \in Nat
  PROVE  \E a : FinalSteps(g, list, N, k, a)
<1> DEFINE Z == {n \in Nat : ~\E a : FinalSteps(g, list, N, n, a)}
<1>1. SUFFICES ASSUME Z # {} PROVE FALSE
  OBVIOUS
<1>2. Z \in SUBSET Nat OBVIOUS
<1>3. PICK n \in Z : \A m \in Z : n <= m
  <2> HIDE DEF Z
  <2> QED BY <1>1, <1>2, LeastNat
<1>4. n \in Nat OBVIOUS
<1>5. n # 0
  <2> DEFINE a == [i \in 0 .. 0 |-> g]
  <2>1. FinalSteps(g, list, N, 0, a)
    <3>1. a = [i \in 0 .. 0 |-> IF i = 0 THEN g
                               ELSE IF list[i] \in N THEN EffectFinal(a[i - 1], list[i])
                               ELSE a[i - 1]]
      OBVIOUS
    <3> HIDE DEF a
    <3> QED BY <3>1 DEF FinalSteps
  <2>2. \E b : FinalSteps(g, list, N, 0, b) BY <2>1
  <2> QED BY <2>2
<1>6. n - 1 \in Nat /\ n - 1 \notin Z BY <1>3, <1>4, <1>5
<1>7. PICK b : FinalSteps(g, list, N, n - 1, b) BY <1>6
<1> DEFINE last == IF list[n] \in N THEN EffectFinal(b[n - 1], list[n]) ELSE b[n - 1]
           a == [i \in 0 .. n |-> IF i < n THEN b[i] ELSE last]
<1>8. \A i \in 0 .. n : a[i] = IF i = 0 THEN g
                               ELSE IF list[i] \in N THEN EffectFinal(a[i - 1], list[i])
                               ELSE a[i - 1]
  <2> SUFFICES ASSUME NEW i \in 0 .. n
               PROVE  a[i] = IF i = 0 THEN g
                             ELSE IF list[i] \in N THEN EffectFinal(a[i - 1], list[i])
                             ELSE a[i - 1]
    OBVIOUS
  <2>1. i # 0 => i - 1 \in 0 .. n /\ a[i - 1] = b[i - 1] BY <1>4
  <2>2. CASE i < n
    <3>1. i \in 0 .. n - 1 BY <1>4, <2>2
    <3>2. b[i] = IF i = 0 THEN g
                 ELSE IF list[i] \in N THEN EffectFinal(b[i - 1], list[i])
                 ELSE b[i - 1]
      BY <1>7, <3>1 DEF FinalSteps
    <3>3. a[i] = b[i] BY <2>2
    <3> HIDE DEF a
    <3> QED BY <2>1, <3>2, <3>3
  <2>3. CASE i = n
    <3>1. a[i] = last BY <2>3
    <3> HIDE DEF a
    <3> QED BY <1>4, <1>5, <2>1, <2>3, <3>1
  <2> QED BY <1>4, <2>2, <2>3
<1>9. FinalSteps(g, list, N, n, a)
  <2>1. a = [i \in 0 .. n |-> a[i]] OBVIOUS
  <2> HIDE DEF a
  <2>2. [i \in 0 .. n |-> a[i]]
          = [i \in 0 .. n |-> IF i = 0 THEN g
                             ELSE IF list[i] \in N THEN EffectFinal(a[i - 1], list[i])
                             ELSE a[i - 1]]
    BY <1>8
  <2> QED BY <2>1, <2>2 DEF FinalSteps
<1>10. \E c : FinalSteps(g, list, N, n, c) BY <1>9
<1> QED BY <1>10

FinalsPass(g, list, N, k, a) ==
  /\ Finals(g, list, N) = a[k] /\ a[0] = g
  /\ \A i \in 1 .. k :
       a[i] = IF list[i] \in N THEN EffectFinal(a[i - 1], list[i]) ELSE a[i - 1]

LEMMA FinalsRun ==
  ASSUME NEW g, NEW list, NEW N, NEW k \in Nat, k = Len(list)
  PROVE  \E a : FinalsPass(g, list, N, k, a)
<1> DEFINE a == CHOOSE b : FinalSteps(g, list, N, k, b)
<1>1. FinalSteps(g, list, N, k, a) BY FinalStepsExist
<1>2. Finals(g, list, N) = a[k] BY DEF Finals, FinalSteps
<1> HIDE DEF a
<1>3. a[0] = g /\ \A i \in 1 .. k :
                    a[i] = IF list[i] \in N THEN EffectFinal(a[i - 1], list[i]) ELSE a[i - 1]
  <2>1. \A i \in 0 .. k : a[i] = IF i = 0 THEN g
                                 ELSE IF list[i] \in N THEN EffectFinal(a[i - 1], list[i])
                                 ELSE a[i - 1]
    BY <1>1 DEF FinalSteps
  <2>2. 0 \in 0 .. k /\ \A i \in 1 .. k : i \in 0 .. k /\ i # 0 OBVIOUS
  <2> QED BY <2>1, <2>2
<1> QED BY <1>2, <1>3 DEF FinalsPass

(* ... and in the record                                                   *)
StruckSteps(g, list, N, n, a) ==
  a = [i \in 0 .. n |->
         IF i = 0 THEN g
         ELSE IF list[i] \in N THEN Strike(a[i - 1], list[i])
         ELSE a[i - 1]]

LEMMA StruckStepsExist ==
  ASSUME NEW g, NEW list, NEW N, NEW k \in Nat
  PROVE  \E a : StruckSteps(g, list, N, k, a)
<1> DEFINE Z == {n \in Nat : ~\E a : StruckSteps(g, list, N, n, a)}
<1>1. SUFFICES ASSUME Z # {} PROVE FALSE
  OBVIOUS
<1>2. Z \in SUBSET Nat OBVIOUS
<1>3. PICK n \in Z : \A m \in Z : n <= m
  <2> HIDE DEF Z
  <2> QED BY <1>1, <1>2, LeastNat
<1>4. n \in Nat OBVIOUS
<1>5. n # 0
  <2> DEFINE a == [i \in 0 .. 0 |-> g]
  <2>1. StruckSteps(g, list, N, 0, a)
    <3>1. a = [i \in 0 .. 0 |-> IF i = 0 THEN g
                               ELSE IF list[i] \in N THEN Strike(a[i - 1], list[i])
                               ELSE a[i - 1]]
      OBVIOUS
    <3> HIDE DEF a
    <3> QED BY <3>1 DEF StruckSteps
  <2>2. \E b : StruckSteps(g, list, N, 0, b) BY <2>1
  <2> QED BY <2>2
<1>6. n - 1 \in Nat /\ n - 1 \notin Z BY <1>3, <1>4, <1>5
<1>7. PICK b : StruckSteps(g, list, N, n - 1, b) BY <1>6
<1> DEFINE last == IF list[n] \in N THEN Strike(b[n - 1], list[n]) ELSE b[n - 1]
           a == [i \in 0 .. n |-> IF i < n THEN b[i] ELSE last]
<1>8. \A i \in 0 .. n : a[i] = IF i = 0 THEN g
                               ELSE IF list[i] \in N THEN Strike(a[i - 1], list[i])
                               ELSE a[i - 1]
  <2> SUFFICES ASSUME NEW i \in 0 .. n
               PROVE  a[i] = IF i = 0 THEN g
                             ELSE IF list[i] \in N THEN Strike(a[i - 1], list[i])
                             ELSE a[i - 1]
    OBVIOUS
  <2>1. i # 0 => i - 1 \in 0 .. n /\ a[i - 1] = b[i - 1] BY <1>4
  <2>2. CASE i < n
    <3>1. i \in 0 .. n - 1 BY <1>4, <2>2
    <3>2. b[i] = IF i = 0 THEN g
                 ELSE IF list[i] \in N THEN Strike(b[i - 1], list[i])
                 ELSE b[i - 1]
      BY <1>7, <3>1 DEF StruckSteps
    <3>3. a[i] = b[i] BY <2>2
    <3> HIDE DEF a
    <3> QED BY <2>1, <3>2, <3>3
  <2>3. CASE i = n
    <3>1. a[i] = last BY <2>3
    <3> HIDE DEF a
    <3> QED BY <1>4, <1>5, <2>1, <2>3, <3>1
  <2> QED BY <1>4, <2>2, <2>3
<1>9. StruckSteps(g, list, N, n, a)
  <2>1. a = [i \in 0 .. n |-> a[i]] OBVIOUS
  <2> HIDE DEF a
  <2>2. [i \in 0 .. n |-> a[i]]
          = [i \in 0 .. n |-> IF i = 0 THEN g
                             ELSE IF list[i] \in N THEN Strike(a[i - 1], list[i])
                             ELSE a[i - 1]]
    BY <1>8
  <2> QED BY <2>1, <2>2 DEF StruckSteps
<1>10. \E c : StruckSteps(g, list, N, n, c) BY <1>9
<1> QED BY <1>10

StruckPass(g, list, N, k, a) ==
  /\ Struck(g, list, N) = a[k] /\ a[0] = g
  /\ \A i \in 1 .. k :
       a[i] = IF list[i] \in N THEN Strike(a[i - 1], list[i])
              ELSE a[i - 1]

LEMMA StruckRun ==
  ASSUME NEW g, NEW list, NEW N, NEW k \in Nat, k = Len(list)
  PROVE  \E a : StruckPass(g, list, N, k, a)
<1> DEFINE a == CHOOSE b : StruckSteps(g, list, N, k, b)
<1>1. StruckSteps(g, list, N, k, a) BY StruckStepsExist
<1>2. Struck(g, list, N) = a[k] BY DEF Struck, StruckSteps
<1> HIDE DEF a
<1>3. a[0] = g /\ \A i \in 1 .. k :
                    a[i] = IF list[i] \in N THEN Strike(a[i - 1], list[i])
                           ELSE a[i - 1]
  <2>1. \A i \in 0 .. k : a[i] = IF i = 0 THEN g
                                 ELSE IF list[i] \in N THEN Strike(a[i - 1], list[i])
                                 ELSE a[i - 1]
    BY <1>1 DEF StruckSteps
  <2>2. 0 \in 0 .. k /\ \A i \in 1 .. k : i \in 0 .. k /\ i # 0 OBVIOUS
  <2> QED BY <2>1, <2>2
<1> QED BY <1>2, <1>3 DEF StruckPass

(* The list gives each node of S once.                                     *)
Orders(list, S) ==
  /\ list \in Seq(Node) /\ S = {list[i] : i \in 1 .. Len(list)}
  /\ \A i, j \in 1 .. Len(list) : i # j => list[i] # list[j]

LEMMA FinalsLaid ==
  ASSUME NEW g, NEW D, NEW E, NEW H, NEW T, NEW r, Laid(g, D, E, H, T, r),
         NEW list, Orders(list, E), NEW N
  PROVE  \E t : /\ Laid(Finals(g, list, N), D, E \ N, H, T \cup (E \cap N), t)
                /\ Untouched(g, Finals(g, list, N), Node \ (E \cup T))
                /\ SameOrder(r, t, Node \ (E \cap N))
<1> DEFINE G(i) == {list[k] : k \in 1 .. i} \cap N
<1>1. PICK c \in Nat : c = Len(list) BY LenProperties DEF Orders
<1>p. PICK a : FinalsPass(g, list, N, c, a) BY <1>1, FinalsRun
<1>2. /\ Finals(g, list, N) = a[c] /\ a[0] = g
      /\ \A i \in 1 .. c :
           a[i] = IF list[i] \in N THEN EffectFinal(a[i - 1], list[i]) ELSE a[i - 1]
  BY <1>p DEF FinalsPass
<1> DEFINE P(i) == \E t : /\ Laid(a[i], D, E \ G(i), H, T \cup G(i), t)
                         /\ Untouched(g, a[i], Node \ (E \cup T))
                         /\ SameOrder(r, t, Node \ G(i))
           Z == {i \in 0 .. c : ~P(i)}
<1>3. P(0)
  <2>1. G(0) = {} OBVIOUS
  <2>2. E \ {} = E /\ T \cup {} = T /\ Node \ {} = Node OBVIOUS
  <2>3. Untouched(g, g, Node \ (E \cup T)) BY DEF Untouched
  <2>4. SameOrder(r, r, Node) BY DEF SameOrder
  <2> HIDE DEF G
  <2> QED BY <1>2, <2>1, <2>2, <2>3, <2>4
<1>4. ASSUME NEW i \in 1 .. c, P(i - 1) PROVE P(i)
  <2>1. PICK t : /\ Laid(a[i - 1], D, E \ G(i - 1), H, T \cup G(i - 1), t)
                 /\ Untouched(g, a[i - 1], Node \ (E \cup T))
                 /\ SameOrder(r, t, Node \ G(i - 1))
    BY <1>4
  <2>2. i - 1 \in Nat /\ 1 .. i = (1 .. i - 1) \cup {i} OBVIOUS
  <2>3. list[i] \in E BY <1>1 DEF Orders
  <2>4. list[i] \notin G(i - 1)
    <3>1. \A k \in 1 .. i - 1 : k \in 1 .. c /\ k # i BY <1>1
    <3> QED BY <1>1, <3>1 DEF Orders
  <2>5. G(i) = IF list[i] \in N THEN G(i - 1) \cup {list[i]} ELSE G(i - 1) BY <2>2
  <2>6. a[i] = IF list[i] \in N THEN EffectFinal(a[i - 1], list[i]) ELSE a[i - 1] BY <1>2
  <2>7. PICK K : K = G(i - 1) OBVIOUS
  <2>8. K \subseteq E
    <3>1. \A k \in 1 .. i - 1 : k \in 1 .. c BY <1>1
    <3> QED BY <1>1, <2>7, <3>1 DEF Orders
  <2> HIDE DEF G
  <2>9. CASE list[i] \notin N BY <2>1, <2>5, <2>6, <2>9
  <2>10. CASE list[i] \in N
    <3>1. PICK n : n = list[i] OBVIOUS
    <3>2. PICK b : b = a[i - 1] OBVIOUS
    <3>3. n \in E \ K /\ Laid(b, D, E \ K, H, T \cup K, t) BY <2>1, <2>3, <2>4, <2>7, <3>1, <3>2
    <3>4. /\ Laid(EffectFinal(b, n), D, (E \ K) \ {n}, H, (T \cup K) \cup {n}, First(t, n))
          /\ Untouched(b, EffectFinal(b, n), Node \ ((E \ K) \cup (T \cup K)))
          /\ SameOrder(t, First(t, n), Node \ {n})
      BY <3>3, FinalLaid
    <3>5. /\ G(i) = K \cup {n} /\ a[i] = EffectFinal(b, n)
          /\ (E \ K) \ {n} = E \ G(i) /\ (T \cup K) \cup {n} = T \cup G(i)
      BY <2>5, <2>6, <2>7, <2>10, <3>1, <3>2
    <3>6. Untouched(g, a[i], Node \ (E \cup T))
      BY <2>1, <2>8, <3>2, <3>4, <3>5 DEF Untouched
    <3>7. SameOrder(r, First(t, n), Node \ G(i))
      BY <2>1, <2>7, <3>4, <3>5 DEF SameOrder
    <3>8. Laid(a[i], D, E \ G(i), H, T \cup G(i), First(t, n)) BY <3>4, <3>5
    <3> QED BY <3>6, <3>7, <3>8
  <2> QED BY <2>9, <2>10
<1>5. P(c)
  <2>1. SUFFICES ASSUME ~P(c) PROVE FALSE
    <3> HIDE DEF P
    <3> QED OBVIOUS
  <2>2. Z \in SUBSET Nat /\ Z # {}
    <3> HIDE DEF P
    <3>1. c \in Z BY <1>1, <2>1
    <3> QED BY <3>1
  <2>3. PICK i \in Z : \A m \in Z : i <= m
    <3> HIDE DEF Z
    <3> QED BY <2>2, LeastNat
  <2>4. i \in 0 .. c /\ ~P(i)
    <3> HIDE DEF P
    <3> QED OBVIOUS
  <2>5. i # 0
    <3> HIDE DEF P
    <3> QED BY <1>3, <2>4
  <2>6. i \in 1 .. c /\ i - 1 \in 0 .. c /\ ~(i <= i - 1) BY <1>1, <2>4, <2>5
  <2>7. i - 1 \notin Z
    <3> HIDE DEF Z
    <3> QED BY <2>3, <2>6
  <2>8. P(i - 1)
    <3> HIDE DEF P
    <3> QED BY <2>6, <2>7
  <2> HIDE DEF P
  <2> QED BY <1>4, <2>4, <2>6, <2>8
<1>6. G(c) = E \cap N BY <1>1 DEF Orders
<1>7. E \ G(c) = E \ N BY <1>6
<1> HIDE DEF G
<1> QED BY <1>2, <1>5, <1>6, <1>7

LEMMA StruckLaid ==
  ASSUME NEW g, NEW D, NEW E, NEW H, NEW T, NEW r, Laid(g, D, E, H, T, r),
         NEW list, Orders(list, H), NEW N
  PROVE  \E t : /\ Laid(Struck(g, list, N), D, E, H \ N, T \cup (H \cap N), t)
                /\ SameOrder(r, t, Node \ (H \cap N))
<1> DEFINE G(i) == {list[k] : k \in 1 .. i} \cap N
<1>1. PICK c \in Nat : c = Len(list) BY LenProperties DEF Orders
<1>p. PICK a : StruckPass(g, list, N, c, a) BY <1>1, StruckRun
<1>2. /\ Struck(g, list, N) = a[c] /\ a[0] = g
      /\ \A i \in 1 .. c :
           a[i] = IF list[i] \in N THEN Strike(a[i - 1], list[i])
                  ELSE a[i - 1]
  BY <1>p DEF StruckPass
<1> DEFINE P(i) == \E t : /\ Laid(a[i], D, E, H \ G(i), T \cup G(i), t)
                         /\ SameOrder(r, t, Node \ G(i))
           Z == {i \in 0 .. c : ~P(i)}
<1>3. P(0)
  <2>1. G(0) = {} OBVIOUS
  <2>2. H \ {} = H /\ T \cup {} = T /\ Node \ {} = Node OBVIOUS
  <2>4. SameOrder(r, r, Node) BY DEF SameOrder
  <2> HIDE DEF G
  <2> QED BY <1>2, <2>1, <2>2, <2>4
<1>4. ASSUME NEW i \in 1 .. c, P(i - 1) PROVE P(i)
  <2>1. PICK t : /\ Laid(a[i - 1], D, E, H \ G(i - 1), T \cup G(i - 1), t)
                 /\ SameOrder(r, t, Node \ G(i - 1))
    BY <1>4
  <2>2. i - 1 \in Nat /\ 1 .. i = (1 .. i - 1) \cup {i} OBVIOUS
  <2>3. list[i] \in H BY <1>1 DEF Orders
  <2>4. list[i] \notin G(i - 1)
    <3>1. \A k \in 1 .. i - 1 : k \in 1 .. c /\ k # i BY <1>1
    <3> QED BY <1>1, <3>1 DEF Orders
  <2>5. G(i) = IF list[i] \in N THEN G(i - 1) \cup {list[i]} ELSE G(i - 1) BY <2>2
  <2>6. a[i] = IF list[i] \in N THEN Strike(a[i - 1], list[i])
                           ELSE a[i - 1] BY <1>2
  <2>7. PICK K : K = G(i - 1) OBVIOUS
  <2>8. K \subseteq H
    <3>1. \A k \in 1 .. i - 1 : k \in 1 .. c BY <1>1
    <3> QED BY <1>1, <2>7, <3>1 DEF Orders
  <2> HIDE DEF G
  <2>9. CASE list[i] \notin N BY <2>1, <2>5, <2>6, <2>9
  <2>10. CASE list[i] \in N
    <3>1. PICK n : n = list[i] OBVIOUS
    <3>2. PICK b : b = a[i - 1] OBVIOUS
    <3>3. n \in H \ K /\ Laid(b, D, E, H \ K, T \cup K, t) BY <2>1, <2>3, <2>4, <2>7, <3>1, <3>2
    <3>4. /\ Laid(Strike(b, n), D, E, (H \ K) \ {n}, (T \cup K) \cup {n}, First(t, n))
          /\ SameOrder(t, First(t, n), Node \ {n})
      BY <3>3, StrikeLaid
    <3>5. /\ G(i) = K \cup {n} /\ a[i] = Strike(b, n)
          /\ (H \ K) \ {n} = H \ G(i) /\ (T \cup K) \cup {n} = T \cup G(i)
      BY <2>5, <2>6, <2>7, <2>10, <3>1, <3>2
    <3>7. SameOrder(r, First(t, n), Node \ G(i))
      BY <2>1, <2>7, <3>4, <3>5 DEF SameOrder
    <3>8. Laid(a[i], D, E, H \ G(i), T \cup G(i), First(t, n)) BY <3>4, <3>5
    <3> QED BY <3>7, <3>8
  <2> QED BY <2>9, <2>10
<1>5. P(c)
  <2>1. SUFFICES ASSUME ~P(c) PROVE FALSE
    <3> HIDE DEF P
    <3> QED OBVIOUS
  <2>2. Z \in SUBSET Nat /\ Z # {}
    <3> HIDE DEF P
    <3>1. c \in Z BY <1>1, <2>1
    <3> QED BY <3>1
  <2>3. PICK i \in Z : \A m \in Z : i <= m
    <3> HIDE DEF Z
    <3> QED BY <2>2, LeastNat
  <2>4. i \in 0 .. c /\ ~P(i)
    <3> HIDE DEF P
    <3> QED OBVIOUS
  <2>5. i # 0
    <3> HIDE DEF P
    <3> QED BY <1>3, <2>4
  <2>6. i \in 1 .. c /\ i - 1 \in 0 .. c /\ ~(i <= i - 1) BY <1>1, <2>4, <2>5
  <2>7. i - 1 \notin Z
    <3> HIDE DEF Z
    <3> QED BY <2>3, <2>6
  <2>8. P(i - 1)
    <3> HIDE DEF P
    <3> QED BY <2>6, <2>7
  <2> HIDE DEF P
  <2> QED BY <1>4, <2>4, <2>6, <2>8
<1>6. G(c) = H \cap N BY <1>1 DEF Orders
<1>7. H \ G(c) = H \ N BY <1>6
<1> HIDE DEF G
<1> QED BY <1>2, <1>5, <1>6, <1>7

LEMMA ChainOrders ==
  ASSUME NEW g, NEW h, NEW S, NEW r, IsList(g, h, S, r)
  PROVE  /\ Orders(Chain(g, h), S) /\ ToSet(Chain(g, h)) = S
         /\ Chain(g, h) = << >> <=> h = Null
<1> DEFINE s == Chain(g, h)
<1>1. Goes(g, h, S, r, s) BY ChainGoes
<1> HIDE DEF s
<1>2. PICK c \in Nat : c = Len(s) BY <1>1, LenProperties DEF Goes
<1>3. /\ s \in Seq(Node) /\ S = {s[i] : i \in 1 .. c} /\ DOMAIN s = 1 .. c
      /\ \A i, j \in 1 .. c : i < j => r[s[i]] < r[s[j]]
  BY <1>1, <1>2, LenProperties DEF Goes
<1>4. \A i \in 1 .. c : s[i] \in Node /\ r[s[i]] \in Nat
  <2>1. \A i \in 1 .. c : s[i] \in S BY <1>3
  <2> QED BY <2>1 DEF IsList
<1>5. \A i, j \in 1 .. c : i # j => s[i] # s[j]
  <2> SUFFICES ASSUME NEW i \in 1 .. c, NEW j \in 1 .. c, i # j PROVE s[i] # s[j]
    OBVIOUS
  <2>1. i < j \/ j < i OBVIOUS
  <2> QED BY <1>3, <1>4, <2>1
<1>6. ToSet(s) = S BY <1>3 DEF ToSet
<1>7. Orders(s, S) BY <1>2, <1>3, <1>5 DEF Orders
<1>8. s = << >> <=> h = Null
  <2>1. s # << >> => h = s[1] /\ c # 0 BY <1>1, <1>2, EmptySeq DEF Goes
  <2>2. s # << >> => h \in Node
    <3>1. c # 0 => 1 \in 1 .. c OBVIOUS
    <3> QED BY <1>4, <2>1, <3>1
  <2> QED BY <1>1, <2>2, NodeFacts DEF Goes
<1> QED BY <1>6, <1>7, <1>8 DEF s

(* The copies of a list                                                    *)
Copied(b, k) == b + 1 .. b + k
Copies(r, b, k) == [m \in Node |-> IF m \in Copied(b, k) THEN m ELSE r[m]]

LEMMA CopyFacts ==
  ASSUME NEW g, NEW b \in Nat, b = Len(base), NEW E, NEW H, NEW T, NEW r,
         Laid(g, 1 .. b, E, H, T, r),
         NEW list \in Seq(Node), NEW k \in Nat, k = Len(list), b + k <= MaxNode
  PROVE  LET a == CopyAll(g, list)
             t == Copies(r, b, k)
         IN  /\ Laid(a, 1 .. b + k, E, H, T, t)
             /\ a.head = g.head /\ a.hist = g.hist /\ a.trash = g.trash
             /\ IsList(a, CopyHead(list), Copied(b, k), t)
             /\ SameOrder(r, t, Node \ Copied(b, k))
<1> DEFINE a == CopyAll(g, list)
           t == Copies(r, b, k)
           C == b + 1 .. b + k
<1>1. /\ g \in Pointers /\ g.next \in [Node -> Ptr] /\ g.prev \in [Node -> Ptr]
      /\ r \in [Node -> Nat] /\ MaxNode \in Nat /\ Null \notin Node /\ Node \subseteq Nat
  BY NodeFacts DEF Laid, Pointers
<1>2. C \subseteq Node /\ \A m \in C : m \in Nat /\ m # Null
  <2>1. PICK N \in Nat : N = MaxNode BY <1>1
  <2>2. b + k <= N BY <2>1
  <2>3. \A m \in C : m \in 1 .. N BY <2>2
  <2>4. \A m \in C : m \in Nat /\ m # 0 BY <2>3
  <2> QED BY <2>1, <2>3, <2>4 DEF Node, Null
<1>3. t \in [Node -> Nat] /\ \A m \in Node : t[m] = IF m \in C THEN m ELSE r[m]
  BY <1>1 DEF Copies, Copied
<1>4. /\ a.next = [n \in Node |-> IF n \in C THEN IF n = b + k THEN Null ELSE n + 1
                                  ELSE g.next[n]]
      /\ a.prev = [n \in Node |-> IF n \in C THEN IF n = b + 1 THEN Null ELSE n - 1
                                  ELSE g.prev[n]]
      /\ a.head = g.head /\ a.hist = g.hist /\ a.trash = g.trash /\ a.intrash = g.intrash
      /\ a = [next |-> a.next, prev |-> a.prev, head |-> a.head, hist |-> a.hist,
              trash |-> a.trash, intrash |-> a.intrash]
  <2> DEFINE x == [n \in Node |-> IF n \in C THEN IF n = b + k THEN Null ELSE n + 1
                                  ELSE g.next[n]]
             y == [n \in Node |-> IF n \in C THEN IF n = b + 1 THEN Null ELSE n - 1
                                  ELSE g.prev[n]]
  <2>1. a = [g EXCEPT !.next = x, !.prev = y] BY DEF CopyAll
  <2>2. PICK v : v = x OBVIOUS
  <2>3. PICK w : w = y OBVIOUS
  <2>4. a = [g EXCEPT !.next = v, !.prev = w] BY <2>1, <2>2, <2>3
  <2> HIDE DEF a, x, y
  <2>5. /\ a.next = v /\ a.prev = w /\ a.head = g.head /\ a.hist = g.hist
        /\ a.trash = g.trash /\ a.intrash = g.intrash
        /\ a = [next |-> a.next, prev |-> a.prev, head |-> a.head, hist |-> a.hist,
                trash |-> a.trash, intrash |-> a.intrash]
    BY <1>1, <2>4 DEF Pointers
  <2> QED BY <2>2, <2>3, <2>5 DEF x, y
<1> HIDE DEF a, t
<1>5. a.next \in [Node -> Ptr] /\ a.prev \in [Node -> Ptr]
  <2>1. \A n \in C : /\ n # b + k => n + 1 \in C
                     /\ n # b + 1 => n - 1 \in C
    OBVIOUS
  <2>2. \A n \in C : /\ n # b + k => n + 1 \in Ptr
                     /\ n # b + 1 => n - 1 \in Ptr
    BY <1>2, <2>1 DEF Ptr
  <2> QED BY <1>1, <1>4, <2>2 DEF Ptr
<1>6. a \in Pointers BY <1>1, <1>4, <1>5 DEF Pointers
<1>7. /\ \A m \in C : /\ a.next[m] = IF m = b + k THEN Null ELSE m + 1
                      /\ a.prev[m] = IF m = b + 1 THEN Null ELSE m - 1
      /\ \A m \in Node \ C : a.next[m] = g.next[m] /\ a.prev[m] = g.prev[m]
  BY <1>2, <1>4
<1>8. CopyHead(list) = IF k = 0 THEN Null ELSE b + 1
  <2>1. list = << >> <=> k = 0 BY EmptySeq
  <2> QED BY <2>1 DEF CopyHead
<1>9. IsList(a, CopyHead(list), C, t)
  <2>1. IF C = {} THEN CopyHead(list) = Null ELSE CopyHead(list) \in C
    <3>1. CASE k = 0 BY <1>8, <3>1
    <3>2. CASE k # 0
      <4>1. b + 1 \in C BY <3>2
      <4> QED BY <1>8, <3>2, <4>1
    <3> QED BY <3>1, <3>2
  <2>2. ASSUME NEW n \in C
        PROVE  IF n = CopyHead(list) THEN a.prev[n] = Null
               ELSE a.prev[n] \in C /\ a.next[a.prev[n]] = n
    <3>1. k # 0 /\ CopyHead(list) = b + 1 BY <1>8
    <3>2. n # b + 1 => n - 1 \in C /\ n - 1 # b + k /\ (n - 1) + 1 = n OBVIOUS
    <3> QED BY <1>7, <3>1, <3>2
  <2>3. ASSUME NEW n \in C
        PROVE  \/ a.next[n] = Null
               \/ a.next[n] \in C /\ a.prev[a.next[n]] = n /\ t[n] < t[a.next[n]]
    <3>1. n # b + k => /\ n + 1 \in C /\ n + 1 # b + 1 /\ (n + 1) - 1 = n /\ n < n + 1
      OBVIOUS
    <3>2. t[n] = n /\ (n # b + k => t[n + 1] = n + 1) BY <1>2, <1>3, <3>1
    <3> QED BY <1>7, <3>1, <3>2
  <2> HIDE DEF C
  <2> QED BY <1>2, <1>3, <2>1, <2>2, <2>3 DEF IsList
<1>10. SameOrder(r, t, Node \ C) BY <1>3 DEF SameOrder
<1>11. /\ 1 .. b \in SUBSET (Node \ C) /\ Node \ (1 .. b + k) \in SUBSET (Node \ C)
       /\ E \in SUBSET (Node \ C) /\ H \in SUBSET (Node \ C) /\ T \in SUBSET (Node \ C)
       /\ 1 .. b + k \subseteq Node
       /\ E \subseteq 1 .. b + k /\ H \subseteq 1 .. b + k /\ T \subseteq 1 .. b + k
       /\ Node \ (1 .. b + k) \subseteq Node \ (1 .. b)
  <2>1. 1 .. b \subseteq Node \ C BY <1>1 DEF Node
  <2>2. Node \ (1 .. b + k) \subseteq Node \ C BY <1>1
  <2>3. E \subseteq 1 .. b /\ H \subseteq 1 .. b /\ T \subseteq 1 .. b BY DEF Laid
  <2>4. 1 .. b + k \subseteq Node /\ 1 .. b \subseteq 1 .. b + k BY <1>1 DEF Node
  <2> HIDE DEF C
  <2> QED BY <2>1, <2>2, <2>3, <2>4
<1>12. Untouched(g, a, Node \ C) BY <1>7 DEF Untouched
<1>13. /\ Untouched(g, a, E) /\ Untouched(g, a, H) /\ Untouched(g, a, T)
       /\ SameOrder(r, t, E) /\ SameOrder(r, t, H) /\ SameOrder(r, t, T)
       /\ Untouched(g, a, Node \ (1 .. b + k))
  <2> HIDE DEF C
  <2> QED BY <1>10, <1>11, <1>12, UntouchedSub, SameOrderSub
<1>14. IsList(a, g.head, E, t) /\ IsList(a, g.hist, H, t) /\ IsList(a, g.trash, T, t)
  BY <1>3, <1>13, StaysList DEF Laid
<1>15. Unused(a, Node \ (1 .. b + k))
  <2>1. Unused(g, Node \ (1 .. b)) BY DEF Laid
  <2> QED BY <1>11, <1>13, <2>1 DEF Unused, Untouched
<1>16. Laid(a, 1 .. b + k, E, H, T, t)
  <2>1. E \cap H = {} /\ E \cap T = {} /\ H \cap T = {} /\ g.intrash = T BY LaidFacts
  <2> QED BY <1>3, <1>4, <1>6, <1>11, <1>14, <1>15, <2>1 DEF Laid
<1> QED BY <1>4, <1>9, <1>10, <1>16 DEF a, t, Copied

-----------------------------------------------------------------------------
(* The walks and calls under way.                                          *)

HookName == {"roundend", "hook", "statemod", "kill_end",
             "effect_end", "effect_end0", "effect_endt"}
WalkFrame == {w \in [op : {"walk"}, hooks : Seq(HookName) \ {<< >>}, cur : Ptr, nxt : Ptr,
                    body : BOOLEAN, seen : Seq(Node), stay : SUBSET Node, astray : BOOLEAN] :
                w.body => w.cur # Null}
Frame == WalkFrame \cup [op : {"inited", "end"}, node : Node]

LEMMA OneHook ==
  ASSUME NEW h \in HookName
  PROVE  <<h>> \in Seq(HookName) \ {<< >>}
<1>1. <<h>> \in [1 .. 1 -> HookName] OBVIOUS
<1>2. <<h>> \in Seq(HookName) BY <1>1, SeqDef
<1> QED BY <1>2

LEMMA TwoHooks ==
  ASSUME NEW h \in HookName, NEW k \in HookName
  PROVE  <<h, k>> \in Seq(HookName) \ {<< >>}
<1>1. <<h, k>> \in [1 .. 2 -> HookName] OBVIOUS
<1>2. <<h, k>> \in Seq(HookName) BY <1>1, SeqDef
<1> QED BY <1>2

(* The nodes that effect_end() has in hand in frames i to k of the stack   *)
InHand(st, i, k) == {st[j].node : j \in {l \in i .. k : st[l].op = "end"}}

(* Where a walk is, if it has not lost its place: it has visited the nodes *)
(* before p and has those from p on before it; or those up to p, and has   *)
(* those after p before it.                                                *)
Onto(w, p, E, r) ==
  /\ p = Null => w.stay \subseteq ToSet(w.seen)
  /\ p \in E => /\ \A x \in w.stay \ ToSet(w.seen) : r[p] <= r[x]
                /\ \A x \in ToSet(w.seen) \cap E : r[x] < r[p]
Beyond(w, p, E, r) ==
  p \in E => /\ \A x \in w.stay \ ToSet(w.seen) : r[p] < r[x]
             /\ \A x \in ToSet(w.seen) \cap E : r[x] <= r[p]

(* Its node may have ended or be about to, in a call above it, A being the *)
(* nodes of those.                                                         *)
Tracks(w, D, E, T, A, r) ==
  /\ w.stay \subseteq E
  /\ ToSet(w.seen) \subseteq D /\ IsInjective(w.seen)
  /\ w.cur \in {Null} \cup E \cup T \cup A
  /\ ~w.body => Onto(w, w.cur, E, r)
  /\ w.body => /\ w.cur # Null /\ Beyond(w, w.cur, E, r)
               /\ w.nxt \in {Null} \cup E \cup T \cup A /\ Onto(w, w.nxt, E, r)

Walks(st, D, E, T, r) ==
  \A i \in 1 .. Len(st) :
    st[i].op = "walk" /\ ~st[i].astray
      => Tracks(st[i], D, E, T, InHand(st, i + 1, Len(st)), r)

(* The same walk when those not in E have left the list                    *)
SameWalk(w, v, E) ==
  /\ v.cur = w.cur /\ v.nxt = w.nxt /\ v.body = w.body /\ v.seen = w.seen
  /\ v.astray = w.astray /\ v.stay = w.stay \cap E

(* The nodes A in hand and the trash T are still there, those of E too or  *)
(* in hand or in the trash, and only new ones have come.                   *)
Shifts(D, E, T, A, r, D1, E1, T1, A1, t) ==
  /\ r \in [Node -> Nat] /\ t \in [Node -> Nat]
  /\ D \subseteq Node /\ E \subseteq D /\ T \subseteq D /\ A \subseteq D /\ D \subseteq D1
  /\ E1 \subseteq Node /\ E1 \cap D \subseteq E /\ SameOrder(r, t, E \cap E1)
  /\ T \subseteq T1 \cup A1 /\ A \subseteq T1 \cup A1 /\ E \subseteq E1 \cup T1 \cup A1

LEMMA TracksKept ==
  ASSUME NEW w, NEW v, NEW D, NEW E, NEW T, NEW A, NEW r,
         NEW D1, NEW E1, NEW T1, NEW A1, NEW t,
         Tracks(w, D, E, T, A, r), SameWalk(w, v, E1), Shifts(D, E, T, A, r, D1, E1, T1, A1, t)
  PROVE  Tracks(v, D1, E1, T1, A1, t)
<1>1. /\ v.cur = w.cur /\ v.nxt = w.nxt /\ v.body = w.body /\ v.seen = w.seen
      /\ v.stay = w.stay \cap E1 /\ w.stay \subseteq E
      /\ ToSet(w.seen) \subseteq D /\ IsInjective(w.seen)
  BY DEF SameWalk, Tracks
<1>2. /\ E1 \cap D \subseteq E /\ D \subseteq D1 /\ E \subseteq Node
      /\ \A x \in Node : r[x] \in Nat /\ t[x] \in Nat
      /\ \A x, y \in E \cap E1 : r[x] < r[y] <=> t[x] < t[y]
  BY DEF Shifts, SameOrder
<1>3. \A x, y \in E \cap E1 : r[x] <= r[y] => t[x] <= t[y]
  <2> SUFFICES ASSUME NEW x \in E \cap E1, NEW y \in E \cap E1, r[x] <= r[y]
               PROVE  t[x] <= t[y]
    OBVIOUS
  <2>1. r[x] \in Nat /\ r[y] \in Nat /\ t[x] \in Nat /\ t[y] \in Nat BY <1>2
  <2>2. ~(r[y] < r[x]) BY <2>1
  <2>3. ~(t[y] < t[x]) BY <1>2, <2>2
  <2> QED BY <2>1, <2>3
<1>4. /\ v.stay \ ToSet(v.seen) \subseteq E \cap E1
      /\ v.stay \ ToSet(v.seen) \subseteq w.stay \ ToSet(w.seen)
      /\ ToSet(v.seen) \cap E1 \subseteq E \cap E1
  BY <1>1, <1>2
<1>5. ASSUME NEW p, p \in {Null} \cup E \cup T \cup A
      PROVE  /\ p \in {Null} \cup E1 \cup T1 \cup A1
             /\ p \in E1 => p \in E \cap E1
  <2>1. p \in {Null} \cup E1 \cup T1 \cup A1 BY <1>5 DEF Shifts
  <2>2. p \in E1 => p \in E \cap E1 BY <1>2, <1>5, NodeFacts DEF Shifts
  <2> QED BY <2>1, <2>2
<1>6. ASSUME NEW p \in {Null} \cup E \cup T \cup A, Onto(w, p, E, r)
      PROVE  Onto(v, p, E1, t)
  <2>1. p = Null => v.stay \subseteq ToSet(v.seen) BY <1>1, <1>6 DEF Onto
  <2>2. ASSUME p \in E1, NEW x \in v.stay \ ToSet(v.seen) PROVE t[p] <= t[x]
    BY <1>3, <1>4, <1>5, <1>6, <2>2 DEF Onto
  <2>3. ASSUME p \in E1, NEW x \in ToSet(v.seen) \cap E1 PROVE t[x] < t[p]
    BY <1>1, <1>2, <1>4, <1>5, <1>6, <2>3 DEF Onto
  <2> QED BY <2>1, <2>2, <2>3 DEF Onto
<1>7. ASSUME NEW p \in {Null} \cup E \cup T \cup A, Beyond(w, p, E, r)
      PROVE  Beyond(v, p, E1, t)
  <2>1. ASSUME p \in E1, NEW x \in v.stay \ ToSet(v.seen) PROVE t[p] < t[x]
    BY <1>2, <1>4, <1>5, <1>7, <2>1 DEF Beyond
  <2>2. ASSUME p \in E1, NEW x \in ToSet(v.seen) \cap E1 PROVE t[x] <= t[p]
    BY <1>1, <1>3, <1>4, <1>5, <1>7, <2>2 DEF Beyond
  <2> QED BY <2>1, <2>2 DEF Beyond
<1>8. v.cur \in {Null} \cup E1 \cup T1 \cup A1 /\ (~v.body => Onto(v, v.cur, E1, t))
  BY <1>1, <1>5, <1>6 DEF Tracks
<1>9. v.body => /\ v.cur # Null /\ Beyond(v, v.cur, E1, t)
                /\ v.nxt \in {Null} \cup E1 \cup T1 \cup A1 /\ Onto(v, v.nxt, E1, t)
  BY <1>1, <1>5, <1>6, <1>7 DEF Tracks
<1>10. v.stay \subseteq E1 /\ ToSet(v.seen) \subseteq D1 /\ IsInjective(v.seen)
  BY <1>1, <1>2
<1> QED BY <1>8, <1>9, <1>10 DEF Tracks

(* The frames up to m are those of before; what is above them is another   *)
(* frame or none.                                                          *)
Resumed(st, st1, m, E) ==
  /\ st \in Seq(Frame) /\ st1 \in Seq(Frame)
  /\ m \in Nat /\ m <= Len(st) /\ m <= Len(st1) /\ Len(st1) <= m + 1
  /\ \A i \in 1 .. m :
       /\ st1[i].op = st[i].op
       /\ IF st[i].op # "walk" THEN st1[i].node = st[i].node
          ELSE /\ st1[i].astray = st[i].astray
               /\ ~st[i].astray => SameWalk(st[i], st1[i], E)

(* ... A are the nodes in hand above m before, and N those after.          *)
Turns(st, st1, m, E, A, N) ==
  /\ Resumed(st, st1, m, E)
  /\ A = InHand(st, m + 1, Len(st)) /\ N = InHand(st1, m + 1, Len(st1))

(* Each node is in one place.                                              *)
Held(b, st, E, H, T) ==
  /\ InHand(st, 1, Len(st)) \cap (E \cup H \cup T) = {}
  /\ InHand(st, 1, Len(st)) \cup E \cup H \cup T = 1 .. Len(b)
  /\ \A i, j \in 1 .. Len(st) :
       st[i].op = "end" /\ st[j].op = "end" /\ st[i].node = st[j].node => i = j

(* ... and none is lost where the nodes A are in hand no more and N are.   *)
Keeps(D, E, H, T, A, D1, E1, H1, T1, N) ==
  /\ D \subseteq D1
  /\ N \cup E1 \cup H1 \cup T1 = (D1 \ D) \cup A \cup E \cup H \cup T
  /\ N \cap (E1 \cup H1 \cup T1) = {}

LEMMA HandSplits ==
  ASSUME NEW st, NEW i \in Nat, NEW m \in Nat, NEW k \in Nat, i <= m + 1, m <= k
  PROVE  InHand(st, i, k) = InHand(st, i, m) \cup InHand(st, m + 1, k)
<1>1. i .. k = (i .. m) \cup (m + 1 .. k) OBVIOUS
<1> QED BY <1>1 DEF InHand

LEMMA HandSame ==
  ASSUME NEW st, NEW st1, NEW m, NEW E, Resumed(st, st1, m, E), NEW i \in Nat, i >= 1
  PROVE  InHand(st1, i, m) = InHand(st, i, m)
<1>1. \A j \in i .. m : /\ st1[j].op = st[j].op
                        /\ st[j].op = "end" => st1[j].node = st[j].node
  <2> SUFFICES ASSUME NEW j \in i .. m
               PROVE  /\ st1[j].op = st[j].op
                      /\ st[j].op = "end" => st1[j].node = st[j].node
    OBVIOUS
  <2>1. m \in Nat BY DEF Resumed
  <2>2. j \in 1 .. m BY <2>1
  <2> QED BY <2>2 DEF Resumed
<1> QED BY <1>1 DEF InHand

LEMMA WalksKept ==
  ASSUME NEW st, NEW st1, NEW m, NEW D, NEW E, NEW T, NEW r, NEW A,
         NEW D1, NEW E1, NEW T1, NEW t, NEW N,
         Walks(st, D, E, T, r), Turns(st, st1, m, E1, A, N),
         InHand(st, 1, m) \subseteq D, Shifts(D, E, T, A, r, D1, E1, T1, N, t),
         NEW i \in 1 .. m, st1[i].op = "walk", ~st1[i].astray
  PROVE  Tracks(st1[i], D1, E1, T1, InHand(st1, i + 1, Len(st1)), t)
<1> DEFINE K == InHand(st, i + 1, m)
<1> USE DEF Turns
<1>1. PICK k \in Nat : k = Len(st) BY LenProperties DEF Resumed
<1>2. PICK l \in Nat : l = Len(st1) BY LenProperties DEF Resumed
<1>3. m \in Nat /\ m <= k /\ m <= l /\ i \in 1 .. k /\ i + 1 \in Nat /\ i + 1 <= m + 1
      /\ i + 1 >= 1
  BY <1>1, <1>2 DEF Resumed
<1>4. InHand(st, i + 1, k) = K \cup A
  <2>1. InHand(st, i + 1, k) = K \cup InHand(st, m + 1, k) BY <1>3, HandSplits
  <2> QED BY <1>1, <2>1
<1>5. InHand(st1, i + 1, l) = K \cup N
  <2>1. InHand(st1, i + 1, m) = K BY <1>3, HandSame
  <2>2. InHand(st1, i + 1, l) = InHand(st1, i + 1, m) \cup InHand(st1, m + 1, l)
    BY <1>3, HandSplits
  <2> QED BY <1>2, <2>1, <2>2
<1>6. K \subseteq D
  <2>1. i + 1 .. m \subseteq 1 .. m BY <1>3
  <2>2. K \subseteq InHand(st, 1, m) BY <2>1 DEF InHand
  <2> QED BY <2>2
<1>7. st[i].op = "walk" /\ SameWalk(st[i], st1[i], E1) /\ ~st[i].astray
  BY DEF Resumed, SameWalk
<1>8. Tracks(st[i], D, E, T, K \cup A, r) BY <1>1, <1>3, <1>4, <1>7 DEF Walks
<1> HIDE DEF K
<1>9. Shifts(D, E, T, K \cup A, r, D1, E1, T1, K \cup N, t) BY <1>6 DEF Shifts
<1>10. Tracks(st1[i], D1, E1, T1, K \cup N, t) BY <1>7, <1>8, <1>9, TracksKept
<1> QED BY <1>2, <1>5, <1>10

LEMMA StackKept ==
  ASSUME NEW st, NEW st1, NEW m, NEW b, NEW b1, NEW E, NEW H, NEW T, NEW r, NEW A,
         NEW E1, NEW H1, NEW T1, NEW t, NEW N,
         Held(b, st, E, H, T), Walks(st, 1 .. Len(b), E, T, r),
         Turns(st, st1, m, E1, A, N),
         Keeps(1 .. Len(b), E, H, T, A, 1 .. Len(b1), E1, H1, T1, N),
         Shifts(1 .. Len(b), E, T, A, r, 1 .. Len(b1), E1, T1, N, t),
         Len(st1) > m /\ st1[m + 1].op = "walk" /\ ~st1[m + 1].astray
           => Tracks(st1[m + 1], 1 .. Len(b1), E1, T1, {}, t)
  PROVE  Held(b1, st1, E1, H1, T1) /\ Walks(st1, 1 .. Len(b1), E1, T1, t)
<1> DEFINE K == InHand(st, 1, m)
           D == 1 .. Len(b)
           D1 == 1 .. Len(b1)
<1> USE DEF Turns
<1>1. PICK k \in Nat : k = Len(st) BY LenProperties DEF Resumed
<1>2. PICK l \in Nat : l = Len(st1) BY LenProperties DEF Resumed
<1>3. m \in Nat /\ m <= k /\ m <= l /\ l <= m + 1 BY <1>1, <1>2 DEF Resumed
<1>4. InHand(st, 1, k) = K \cup A
  <2>1. 1 \in Nat /\ 1 <= m + 1 BY <1>3
  <2> QED BY <1>1, <1>3, <2>1, HandSplits
<1>5. InHand(st1, 1, l) = K \cup N
  <2>1. 1 \in Nat /\ 1 <= m + 1 /\ 1 >= 1 BY <1>3
  <2>2. InHand(st1, 1, m) = K BY <2>1, HandSame
  <2>3. InHand(st1, 1, l) = InHand(st1, 1, m) \cup InHand(st1, m + 1, l)
    BY <1>3, <2>1, HandSplits
  <2> QED BY <1>2, <2>2, <2>3
<1>6. K \cap A = {}
  <2> SUFFICES ASSUME NEW x \in K, x \in A PROVE FALSE
    OBVIOUS
  <2>1. PICK i \in 1 .. m : st[i].op = "end" /\ st[i].node = x BY DEF InHand
  <2>2. PICK j \in m + 1 .. k : st[j].op = "end" /\ st[j].node = x BY <1>1 DEF InHand
  <2>3. i \in 1 .. k /\ j \in 1 .. k /\ i # j BY <1>3
  <2> QED BY <1>1, <2>1, <2>2, <2>3 DEF Held
<1>7. /\ (K \cup A) \cap (E \cup H \cup T) = {}
      /\ K \cup A \cup E \cup H \cup T = D
  BY <1>1, <1>4 DEF Held
<1>8. /\ D \subseteq D1 /\ N \cap (E1 \cup H1 \cup T1) = {}
      /\ N \cup E1 \cup H1 \cup T1 = (D1 \ D) \cup A \cup E \cup H \cup T
  BY DEF Keeps
<1> HIDE DEF K, D, D1
<1>9. /\ (K \cup N) \cap (E1 \cup H1 \cup T1) = {} /\ K \cap N = {}
      /\ K \cup N \cup E1 \cup H1 \cup T1 = D1
  BY <1>6, <1>7, <1>8
<1>10. ASSUME NEW i \in 1 .. l, NEW j \in 1 .. l,
              st1[i].op = "end", st1[j].op = "end", st1[i].node = st1[j].node
       PROVE  i = j
  <2>1. i \in 1 .. m \/ i = m + 1 BY <1>3
  <2>2. j \in 1 .. m \/ j = m + 1 BY <1>3
  <2>3. ASSUME NEW z \in 1 .. m, st1[z].op = "end"
        PROVE  /\ st[z].op = "end" /\ st[z].node = st1[z].node /\ st1[z].node \in K
               /\ z \in 1 .. k
    <3>1. st[z].op = "end" /\ st[z].node = st1[z].node BY <2>3 DEF Resumed
    <3> QED BY <1>3, <3>1 DEF InHand, K
  <2>4. ASSUME m + 1 \in 1 .. l, st1[m + 1].op = "end" PROVE st1[m + 1].node \in N
    <3>1. m + 1 \in m + 1 .. l BY <1>3, <2>4
    <3> QED BY <1>2, <2>4, <3>1 DEF InHand
  <2>5. CASE i \in 1 .. m /\ j \in 1 .. m
    <3>1. st[i].op = "end" /\ st[j].op = "end" /\ st[i].node = st[j].node
          /\ i \in 1 .. k /\ j \in 1 .. k
      BY <1>10, <2>3, <2>5
    <3> QED BY <1>1, <3>1 DEF Held
  <2>6. CASE i \in 1 .. m /\ j = m + 1 BY <1>9, <1>10, <2>3, <2>4, <2>6
  <2>7. CASE i = m + 1 /\ j \in 1 .. m BY <1>9, <1>10, <2>3, <2>4, <2>7
  <2> QED BY <2>1, <2>2, <2>5, <2>6, <2>7
<1>11. Held(b1, st1, E1, H1, T1) BY <1>2, <1>5, <1>9, <1>10 DEF Held, D1
<1>12. ASSUME NEW i \in 1 .. l, st1[i].op = "walk", ~st1[i].astray
       PROVE  Tracks(st1[i], D1, E1, T1, InHand(st1, i + 1, l), t)
  <2>1. CASE i \in 1 .. m
    <3>1. K \subseteq D BY <1>7
    <3> QED BY <1>2, <1>12, <2>1, <3>1, WalksKept DEF D, D1, K
  <2>2. CASE i = m + 1
    <3>1. InHand(st1, i + 1, l) = {}
      <4>1. i + 1 .. l = {} BY <1>3, <2>2
      <4> QED BY <4>1 DEF InHand
    <3>2. Len(st1) > m /\ st1[m + 1].op = "walk" /\ ~st1[m + 1].astray
      BY <1>2, <1>3, <1>12, <2>2
    <3>3. Tracks(st1[m + 1], D1, E1, T1, {}, t) BY <3>2 DEF D1
    <3> QED BY <2>2, <3>1, <3>3
  <2> QED BY <1>3, <2>1, <2>2
<1>13. Walks(st1, D1, E1, T1, t) BY <1>2, <1>12 DEF Walks
<1> QED BY <1>11, <1>13 DEF D1

(* The stack where those not in E have left the list                       *)
Carried(st, st1, E) ==
  /\ st \in Seq(Frame) /\ st1 \in Seq(Frame) /\ Len(st1) = Len(st)
  /\ \A i \in 1 .. Len(st) :
       /\ st1[i].op = st[i].op
       /\ IF st[i].op # "walk" THEN st1[i].node = st[i].node
          ELSE /\ st1[i].astray = st[i].astray
               /\ ~st[i].astray => SameWalk(st[i], st1[i], E)

LEMMA StackCarried ==
  ASSUME NEW st \in Seq(Frame), NEW D, NEW E, NEW T, NEW r, Walks(st, D, E, T, r),
         NEW E1, E \subseteq E1
  PROVE  Carried(st, st, E1)
<1>1. ASSUME NEW i \in 1 .. Len(st), st[i].op = "walk", ~st[i].astray
      PROVE  SameWalk(st[i], st[i], E1)
  <2>1. st[i].stay \subseteq E BY <1>1 DEF Walks, Tracks
  <2> QED BY <2>1 DEF SameWalk
<1> QED BY <1>1 DEF Carried

LEMMA LeftCarried ==
  ASSUME stack \in Seq(Frame), NEW D, NEW E, NEW T, NEW r, Walks(stack, D, E, T, r),
         NEW N, NEW E1, E \ N = E \cap E1
  PROVE  Carried(stack, Left(N), E1)
<1>1. PICK k \in Nat : k = Len(stack) /\ DOMAIN stack = 1 .. k BY LenProperties
<1>2. \A i \in 1 .. k : stack[i] \in Frame BY <1>1, ElementOfSeq
<1>3. Left(N) = [i \in 1 .. k |-> IF stack[i].op = "walk"
                                    THEN [stack[i] EXCEPT !.stay = @ \ N] ELSE stack[i]]
  BY <1>1 DEF Left
<1>4. ASSUME NEW i \in 1 .. k
      PROVE  IF stack[i].op = "walk"
               THEN /\ stack[i] \in WalkFrame
                    /\ [stack[i] EXCEPT !.stay = @ \ N] \in WalkFrame
                    /\ [stack[i] EXCEPT !.stay = @ \ N].stay = stack[i].stay \ N
               ELSE TRUE
  <2>1. stack[i] \in Frame BY <1>2
  <2>2. stack[i].op = "walk" => stack[i] \in WalkFrame BY <2>1 DEF Frame
  <2> QED BY <2>2 DEF WalkFrame
<1>5. /\ Left(N) \in [1 .. k -> Frame]
      /\ \A i \in 1 .. k : Left(N)[i] = IF stack[i].op = "walk"
                                          THEN [stack[i] EXCEPT !.stay = @ \ N] ELSE stack[i]
  <2>1. \A i \in 1 .. k : (IF stack[i].op = "walk"
                             THEN [stack[i] EXCEPT !.stay = @ \ N] ELSE stack[i]) \in Frame
    BY <1>2, <1>4 DEF Frame
  <2> QED BY <1>3, <2>1
<1>6. Left(N) \in Seq(Frame) /\ Len(Left(N)) = k
  <2>1. Left(N) \in Seq(Frame) BY <1>5, SeqDef
  <2>2. DOMAIN Left(N) = 1 .. k BY <1>5
  <2> QED BY <2>1, <2>2, LenProperties
<1>7. ASSUME NEW i \in 1 .. k
      PROVE  /\ Left(N)[i].op = stack[i].op
             /\ IF stack[i].op # "walk" THEN Left(N)[i].node = stack[i].node
                ELSE /\ Left(N)[i].astray = stack[i].astray
                     /\ ~stack[i].astray => SameWalk(stack[i], Left(N)[i], E1)
  <2>1. CASE stack[i].op # "walk" BY <1>5, <2>1
  <2>2. CASE stack[i].op = "walk"
    <3>1. PICK w \in WalkFrame : w = stack[i] BY <1>4, <2>2
    <3>2. PICK v : v = [w EXCEPT !.stay = w.stay \ N] OBVIOUS
    <3>3. Left(N)[i] = v BY <1>5, <2>2, <3>1, <3>2
    <3>4. /\ v.op = w.op /\ v.astray = w.astray /\ v.cur = w.cur /\ v.nxt = w.nxt
          /\ v.body = w.body /\ v.seen = w.seen /\ v.stay = w.stay \ N
      BY <3>1, <3>2 DEF WalkFrame
    <3>5. ~w.astray => w.stay \ N = w.stay \cap E1
      <4>1. ~w.astray => w.stay \subseteq E BY <1>1, <2>2, <3>1 DEF Walks, Tracks
      <4> QED BY <4>1
    <3>6. ~w.astray => SameWalk(w, v, E1) BY <3>4, <3>5 DEF SameWalk
    <3>7. v.op = w.op /\ v.astray = w.astray BY <3>4
    <3> QED BY <2>2, <3>1, <3>3, <3>6, <3>7
  <2> QED BY <2>1, <2>2
<1> QED BY <1>1, <1>6, <1>7 DEF Carried

LEMMA NoneInHand ==
  ASSUME NEW st, NEW m \in Nat
  PROVE  InHand(st, m + 1, m) = {}
<1>1. m + 1 .. m = {} OBVIOUS
<1> QED BY <1>1 DEF InHand

LEMMA OneInHand ==
  ASSUME NEW st, NEW m \in Nat, NEW fr, st[m] = fr
  PROVE  InHand(st, m, m) = IF fr.op = "end" THEN {fr.node} ELSE {}
<1>1. m .. m = {m} OBVIOUS
<1> QED BY <1>1 DEF InHand

LEMMA TurnsOnly ==
  ASSUME NEW st, NEW st1, NEW E1, Carried(st, st1, E1)
  PROVE  Turns(st, st1, Len(st), E1, {}, {}) /\ Len(st1) = Len(st)
<1>1. PICK k \in Nat : k = Len(st) BY LenProperties DEF Carried
<1>2. Resumed(st, st1, k, E1) BY <1>1 DEF Carried, Resumed
<1> QED BY <1>1, <1>2, NoneInHand DEF Turns, Carried

LEMMA TurnsPushed ==
  ASSUME NEW st, NEW st2, NEW E1, Carried(st, st2, E1), NEW fr \in Frame, NEW N,
         N = IF fr.op = "end" THEN {fr.node} ELSE {}
  PROVE  LET st1 == Append(st2, fr)
         IN  /\ Turns(st, st1, Len(st), E1, {}, N)
             /\ Len(st1) = Len(st) + 1 /\ st1[Len(st) + 1] = fr
<1> DEFINE st1 == Append(st2, fr)
<1>1. PICK k \in Nat : k = Len(st) BY LenProperties DEF Carried
<1>2. /\ st1 \in Seq(Frame) /\ Len(st1) = k + 1 /\ st1[k + 1] = fr
      /\ \A i \in 1 .. k : st1[i] = st2[i]
  BY <1>1, AppendProperties DEF Carried
<1> HIDE DEF st1
<1>3. Resumed(st, st1, k, E1) BY <1>1, <1>2 DEF Carried, Resumed
<1>4. InHand(st, k + 1, k) = {} BY NoneInHand
<1>5. InHand(st1, k + 1, k + 1) = N
  <2>1. PICK m \in Nat : m = k + 1 OBVIOUS
  <2>2. st1[m] = fr BY <1>2, <2>1
  <2>3. InHand(st1, m, m) = IF fr.op = "end" THEN {fr.node} ELSE {} BY <2>2, OneInHand
  <2> QED BY <2>1, <2>3
<1> QED BY <1>1, <1>2, <1>3, <1>4, <1>5 DEF Turns, st1

LEMMA TurnsBelow ==
  ASSUME NEW st, NEW E1, Carried(st, st, E1), st # << >>, NEW st1 \in Seq(Frame),
         Len(st1) = Len(st) - 1 \/ Len(st1) = Len(st),
         \A i \in 1 .. Len(st) - 1 : st1[i] = st[i],
         Len(st1) = Len(st) => st1[Len(st)].op = "walk"
  PROVE  LET fr == st[Len(st)]
         IN  Turns(st, st1, Len(st) - 1, E1, IF fr.op = "end" THEN {fr.node} ELSE {}, {})
<1> DEFINE fr == st[Len(st)]
<1>1. PICK k \in Nat : k = Len(st) /\ k # 0
  <2>1. st \in Seq(Frame) BY DEF Carried
  <2> QED BY <2>1, EmptySeq
<1>2. Resumed(st, st1, k - 1, E1) BY <1>1 DEF Carried, Resumed
<1>3. InHand(st, k, k) = IF fr.op = "end" THEN {fr.node} ELSE {} BY <1>1, OneInHand
<1>4. InHand(st1, k, Len(st1)) = {}
  <2>1. CASE Len(st1) = k - 1
    <3>1. k .. k - 1 = {} BY <1>1
    <3> QED BY <2>1, <3>1 DEF InHand
  <2>2. CASE Len(st1) = k
    <3>1. InHand(st1, k, k) = {} BY <1>1, <2>2, OneInHand
    <3> QED BY <2>2, <3>1
  <2> QED BY <1>1, <2>1, <2>2
<1>5. k - 1 + 1 = k BY <1>1
<1> QED BY <1>1, <1>2, <1>3, <1>4, <1>5 DEF Turns

-----------------------------------------------------------------------------
(* The invariant: E are the nodes on the field, H those in the record and  *)
(* T the trash.                                                            *)

(* Who has fallen keeps only the effects meant to stay, and who is roared  *)
(* down none; the record is of a time when that held too.                  *)
Bare(b, s, p, E, H) ==
  /\ \A n \in E : LET k == b[n] IN
       s[Dest[k]] = "up" \/ (s[Dest[k]] = "failed" /\ k \in Kept)
  /\ \A n \in H : LET k == b[n] IN
       /\ p[Dest[k]] = "up" \/ (p[Dest[k]] = "failed" /\ k \in Kept)
       /\ s[Dest[k]] # "roared"

Live(g, b, s, p, st, E, H, T, r) ==
  /\ Laid(g, 1 .. Len(b), E, H, T, r)
  /\ Held(b, st, E, H, T)
  /\ Walks(st, 1 .. Len(b), E, T, r)
  /\ Bare(b, s, p, E, H)

Types(b, s, p, st) ==
  /\ b \in Seq(Kind) /\ Len(b) <= MaxNode
  /\ s \in [Unit -> States] /\ p \in [Unit -> States]
  /\ st \in Seq(Frame) /\ Len(st) <= MaxDepth

Freed ==
  /\ f \in Pointers /\ f.head = Null /\ f.hist = Null /\ f.trash = Null
  /\ stack = << >>
  /\ Orders(freed, 1 .. Len(base))

IInv ==
  /\ Types(base, state, past, stack)
  /\ IF freed = << >>
       THEN \E E, H, T, r : Live(f, base, state, past, stack, E, H, T, r)
       ELSE Freed

LEMMA LiveFacts ==
  ASSUME NEW E, NEW H, NEW T, NEW r, Live(f, base, state, past, stack, E, H, T, r)
  PROVE  /\ Listed = E /\ ToSet(Recorded) = H /\ ToSet(Trash) = T
         /\ Orders(Effects, E) /\ Orders(Recorded, H) /\ Orders(Trash, T)
         /\ f.head = Null <=> E = {}
         /\ f.hist = Null <=> H = {}
         /\ f.intrash = T /\ f \in Pointers /\ r \in [Node -> Nat]
         /\ 1 .. Len(base) \subseteq Node
         /\ E \subseteq 1 .. Len(base) /\ H \subseteq 1 .. Len(base) /\ T \subseteq 1 .. Len(base)
         /\ E \cap H = {} /\ E \cap T = {} /\ H \cap T = {}
<1>1. Laid(f, 1 .. Len(base), E, H, T, r) BY DEF Live
<1>2. /\ IsList(f, f.head, E, r) /\ IsList(f, f.hist, H, r) /\ IsList(f, f.trash, T, r)
      /\ f.intrash = T /\ 1 .. Len(base) \subseteq Node /\ f \in Pointers /\ r \in [Node -> Nat]
      /\ E \subseteq 1 .. Len(base) /\ H \subseteq 1 .. Len(base) /\ T \subseteq 1 .. Len(base)
      /\ E \cap H = {} /\ E \cap T = {} /\ H \cap T = {}
  BY <1>1 DEF Laid
<1>3. Orders(Effects, E) /\ ToSet(Effects) = E BY <1>2, ChainOrders DEF Effects
<1>4. Orders(Recorded, H) /\ ToSet(Recorded) = H BY <1>2, ChainOrders DEF Recorded
<1>5. Orders(Trash, T) /\ ToSet(Trash) = T BY <1>2, ChainOrders DEF Trash
<1>6. /\ f.head = Null <=> E = {}
      /\ f.hist = Null <=> H = {}
  <2>1. ASSUME NEW h, NEW S, IsList(f, h, S, r) PROVE h = Null <=> S = {}
    BY <2>1, NodeFacts DEF IsList
  <2> QED BY <1>2, <2>1
<1> QED BY <1>2, <1>3, <1>4, <1>5, <1>6 DEF Listed

LEMMA PopFacts ==
  ASSUME stack \in Seq(Frame), stack # << >>, NEW fr \in Frame
  PROVE  /\ Pop \in Seq(Frame) /\ Len(Pop) = Len(stack) - 1
         /\ \A i \in 1 .. Len(stack) - 1 : Pop[i] = stack[i]
         /\ Append(Pop, fr) \in Seq(Frame) /\ Len(Append(Pop, fr)) = Len(stack)
         /\ \A i \in 1 .. Len(stack) - 1 : Append(Pop, fr)[i] = stack[i]
         /\ Append(Pop, fr)[Len(stack)] = fr
         /\ SetTop(fr) \in Seq(Frame) /\ Len(SetTop(fr)) = Len(stack)
         /\ \A i \in 1 .. Len(stack) - 1 : SetTop(fr)[i] = stack[i]
         /\ SetTop(fr)[Len(stack)] = fr
         /\ Top \in Frame
<1>1. PICK k \in Nat : k = Len(stack) /\ k # 0 BY EmptySeq
<1>2. \A i \in 1 .. k : stack[i] \in Frame BY <1>1, ElementOfSeq
<1>3. /\ Pop \in Seq(Frame) /\ Len(Pop) = k - 1
      /\ \A i \in 1 .. k - 1 : Pop[i] = stack[i]
  <2>1. 1 \in Int /\ k - 1 \in Int /\ \A i \in 1 .. k - 1 : stack[i] \in Frame BY <1>2
  <2>2. /\ SubSeq(stack, 1, k - 1) \in Seq(Frame)
        /\ Len(SubSeq(stack, 1, k - 1)) = IF 1 <= k - 1 THEN k - 1 - 1 + 1 ELSE 0
        /\ \A i \in 1 .. k - 1 - 1 + 1 : SubSeq(stack, 1, k - 1)[i] = stack[1 + i - 1]
    BY <2>1, SubSeqProperties
  <2>3. Pop = SubSeq(stack, 1, k - 1) BY <1>1 DEF Pop
  <2>4. \A i \in 1 .. k - 1 : i \in 1 .. k - 1 - 1 + 1 /\ 1 + i - 1 = i OBVIOUS
  <2>5. (IF 1 <= k - 1 THEN k - 1 - 1 + 1 ELSE 0) = k - 1 BY <1>1
  <2> QED BY <2>2, <2>3, <2>4, <2>5
<1>4. /\ Append(Pop, fr) \in Seq(Frame) /\ Len(Append(Pop, fr)) = k
      /\ \A i \in 1 .. k - 1 : Append(Pop, fr)[i] = stack[i]
      /\ Append(Pop, fr)[k] = fr
  <2>1. PICK q \in Seq(Frame) : q = Pop BY <1>3
  <2>2. /\ Append(q, fr) \in Seq(Frame) /\ Len(Append(q, fr)) = Len(q) + 1
        /\ \A i \in 1 .. Len(q) : Append(q, fr)[i] = q[i]
        /\ Append(q, fr)[Len(q) + 1] = fr
    BY <2>1, AppendProperties
  <2>3. Len(q) = k - 1 /\ k - 1 + 1 = k BY <1>3, <2>1
  <2> QED BY <1>3, <2>1, <2>2, <2>3
<1>5. /\ SetTop(fr) \in Seq(Frame) /\ Len(SetTop(fr)) = k
      /\ \A i \in 1 .. k - 1 : SetTop(fr)[i] = stack[i]
      /\ SetTop(fr)[k] = fr
  <2>1. k \in 1 .. Len(stack) BY <1>1
  <2>2. /\ SetTop(fr) \in Seq(Frame) /\ Len(SetTop(fr)) = k
        /\ \A j \in 1 .. k : SetTop(fr)[j] = IF j = k THEN fr ELSE stack[j]
    BY <1>1, <2>1, ExceptSeq DEF SetTop
  <2>3. k \in 1 .. k /\ \A i \in 1 .. k - 1 : i \in 1 .. k /\ i # k BY <1>1
  <2> QED BY <2>2, <2>3
<1>6. Top \in Frame BY <1>1, <1>2 DEF Top
<1> QED BY <1>1, <1>3, <1>4, <1>5, <1>6

(* A walk that begins                                                      *)
LEMMA NewWalk ==
  ASSUME NEW g, NEW h, NEW D, NEW E, NEW T, NEW r, IsList(g, h, E, r), D \subseteq Node,
         NEW hooks \in Seq(HookName) \ {<< >>}
  PROVE  /\ Walk(h, E, hooks) \in Frame /\ Walk(h, E, hooks).op = "walk"
         /\ Tracks(Walk(h, E, hooks), D, E, T, {}, r)
<1> DEFINE w == Walk(h, E, hooks)
<1>1. h \in {Null} \cup E /\ E \subseteq Node /\ (h = Null => E = {}) BY NodeFacts DEF IsList
<1>2. /\ w.op = "walk" /\ w.cur = h /\ ~w.body /\ w.seen = << >> /\ w.stay = E
      /\ w \in WalkFrame
  <2>1. h \in Ptr /\ Null \in Ptr /\ << >> \in Seq(Node) BY <1>1, EmptySeq DEF Ptr
  <2> QED BY <1>1, <2>1 DEF Walk, WalkFrame
<1> HIDE DEF w
<1>3. ToSet(<< >>) = {} /\ IsInjective(<< >>)
  <2>1. DOMAIN << >> = {} BY EmptySeq, LenProperties
  <2> QED BY <2>1 DEF ToSet, IsInjective
<1>4. Onto(w, h, E, r)
  <2>1. \A x \in E : r[h] <= r[x] BY HeadLeast
  <2> QED BY <1>1, <1>2, <1>3, <2>1 DEF Onto
<1>5. Tracks(w, D, E, T, {}, r)
  BY <1>1, <1>2, <1>3, <1>4 DEF Tracks
<1> QED BY <1>2, <1>5 DEF w, Frame

LEMMA StillLive ==
  ASSUME NEW E, NEW H, NEW T, NEW r, Live(f, base, state, past, stack, E, H, T, r),
         NEW E1, NEW H1, NEW T1, NEW t, NEW m, NEW A, NEW N,
         freed' = << >>, Types(base', state', past', stack'),
         Laid(f', 1 .. Len(base'), E1, H1, T1, t), Bare(base', state', past', E1, H1),
         Turns(stack, stack', m, E1, A, N),
         Keeps(1 .. Len(base), E, H, T, A, 1 .. Len(base'), E1, H1, T1, N),
         Shifts(1 .. Len(base), E, T, A, r, 1 .. Len(base'), E1, T1, N, t),
         Len(stack') > m /\ stack'[m + 1].op = "walk" /\ ~stack'[m + 1].astray
           => Tracks(stack'[m + 1], 1 .. Len(base'), E1, T1, {}, t)
  PROVE  IInv'
<1>1. Held(base, stack, E, H, T) /\ Walks(stack, 1 .. Len(base), E, T, r) BY DEF Live
<1>2. PICK st1 : st1 = stack' OBVIOUS
<1>3. PICK b1 : b1 = base' OBVIOUS
<1>4. Turns(stack, st1, m, E1, A, N) BY <1>2
<1>5. /\ Keeps(1 .. Len(base), E, H, T, A, 1 .. Len(b1), E1, H1, T1, N)
      /\ Shifts(1 .. Len(base), E, T, A, r, 1 .. Len(b1), E1, T1, N, t)
  BY <1>3
<1>6. Len(st1) > m /\ st1[m + 1].op = "walk" /\ ~st1[m + 1].astray
        => Tracks(st1[m + 1], 1 .. Len(b1), E1, T1, {}, t)
  BY <1>2, <1>3
<1>7. Held(b1, st1, E1, H1, T1) /\ Walks(st1, 1 .. Len(b1), E1, T1, t)
  BY <1>1, <1>4, <1>5, <1>6, StackKept
<1>8. Live(f', base', state', past', stack', E1, H1, T1, t) BY <1>2, <1>3, <1>7 DEF Live
<1> QED BY <1>8 DEF IInv

LEMMA SameLists ==
  ASSUME NEW E, NEW H, NEW T, NEW r, Live(f, base, state, past, stack, E, H, T, r)
  PROVE  /\ Keeps(1 .. Len(base), E, H, T, {}, 1 .. Len(base), E, H, T, {})
         /\ Shifts(1 .. Len(base), E, T, {}, r, 1 .. Len(base), E, T, {}, r)
         /\ stack \in Seq(Frame) => Carried(stack, stack, E)
<1>1. /\ r \in [Node -> Nat] /\ 1 .. Len(base) \subseteq Node
      /\ E \subseteq 1 .. Len(base) /\ T \subseteq 1 .. Len(base)
  BY LiveFacts
<1>2. stack \in Seq(Frame) => Carried(stack, stack, E) BY StackCarried DEF Live
<1> QED BY <1>1, <1>2 DEF Keeps, Shifts, SameOrder

(* Where a step finds the system                                           *)
LEMMA Now ==
  ASSUME IInv, Runs \/ stack # << >>
  PROVE  /\ Types(base, state, past, stack) /\ freed = << >>
         /\ \E E, H, T, r : Live(f, base, state, past, stack, E, H, T, r)
BY DEF IInv, Runs, Over, Freed

LEMMA BeginWalkStep == IInv /\ BeginWalk => IInv'
<1> SUFFICES ASSUME IInv, BeginWalk PROVE IInv'
  OBVIOUS
<1>1. Types(base, state, past, stack) /\ freed = << >> BY Now DEF BeginWalk, May
<1>2. PICK E, H, T, r : Live(f, base, state, past, stack, E, H, T, r)
  BY Now DEF BeginWalk, May
<1> DEFINE hooks == IF stack = << >> THEN <<"roundend">> ELSE <<"hook">>
           fr == Walk(f.head, E, hooks)
<1>3. /\ stack' = Append(stack, fr) /\ Len(stack) < MaxDepth
      /\ f' = f /\ base' = base /\ state' = state /\ past' = past /\ freed' = freed
  BY <1>2, LiveFacts DEF BeginWalk, Deeper
<1>4. hooks \in Seq(HookName) \ {<< >>}
  <2>1. "roundend" \in HookName /\ "hook" \in HookName BY DEF HookName
  <2> QED BY <2>1, OneHook
<1> HIDE DEF hooks
<1>5. fr \in Frame /\ fr.op = "walk" /\ Tracks(fr, 1 .. Len(base), E, T, {}, r)
  <2>1. IsList(f, f.head, E, r) /\ 1 .. Len(base) \subseteq Node BY <1>2 DEF Live, Laid
  <2> QED BY <1>4, <2>1, NewWalk
<1> HIDE DEF fr
<1>6. stack \in Seq(Frame) /\ Carried(stack, stack, E) BY <1>1, <1>2, SameLists DEF Types
<1>7. PICK k \in Nat : k = Len(stack) BY <1>6, LenProperties
<1>8. /\ Turns(stack, stack', k, E, {}, {}) /\ Len(stack') = k + 1 /\ stack'[k + 1] = fr
      /\ stack' \in Seq(Frame)
  <2>1. {} = IF fr.op = "end" THEN {fr.node} ELSE {} BY <1>5
  <2>2. /\ Turns(stack, Append(stack, fr), k, E, {}, {}) /\ Len(Append(stack, fr)) = k + 1
        /\ Append(stack, fr)[k + 1] = fr
    BY <1>5, <1>6, <1>7, <2>1, TurnsPushed
  <2> QED BY <1>3, <2>2 DEF Turns, Resumed
<1>9. Types(base', state', past', stack')
  <2>1. MaxDepth \in Nat BY EffectListAssumption
  <2> QED BY <1>1, <1>3, <1>7, <1>8, <2>1 DEF Types
<1>10. /\ Keeps(1 .. Len(base), E, H, T, {}, 1 .. Len(base'), E, H, T, {})
       /\ Shifts(1 .. Len(base), E, T, {}, r, 1 .. Len(base'), E, T, {}, r)
  BY <1>2, <1>3, SameLists
<1>11. Laid(f', 1 .. Len(base'), E, H, T, r) /\ Bare(base', state', past', E, H)
  BY <1>2, <1>3 DEF Live
<1>12. Tracks(stack'[k + 1], 1 .. Len(base'), E, T, {}, r) BY <1>3, <1>5, <1>8
<1> QED BY <1>1, <1>2, <1>3, <1>8, <1>9, <1>10, <1>11, <1>12, StillLive

(* Only the walk or the call on the top goes on or ends.                   *)
LEMMA TopStep ==
  ASSUME Types(base, state, past, stack), freed = << >>, stack # << >>, Top.op # "end",
         NEW E, NEW H, NEW T, NEW r, Live(f, base, state, past, stack, E, H, T, r),
         NEW fr \in Frame, fr.op = "walk",
         ~fr.astray => Tracks(fr, 1 .. Len(base), E, T, {}, r),
         stack' = Pop \/ stack' = Append(Pop, fr) \/ stack' = SetTop(fr),
         UNCHANGED <<f, base, state, past, freed>>
  PROVE  IInv'
<1>1. stack \in Seq(Frame) /\ Carried(stack, stack, E) BY SameLists DEF Types
<1>2. PICK k \in Nat : k = Len(stack) /\ k # 0 BY <1>1, EmptySeq
<1>3. /\ stack' \in Seq(Frame) /\ (Len(stack') = k - 1 \/ Len(stack') = k)
      /\ \A i \in 1 .. k - 1 : stack'[i] = stack[i]
      /\ Len(stack') = k => stack'[k] = fr
  <2>1. CASE stack' = Pop
    <3>1. Pop \in Seq(Frame) /\ Len(Pop) = k - 1 /\ \A i \in 1 .. k - 1 : Pop[i] = stack[i]
      BY <1>1, <1>2, PopFacts
    <3> QED BY <1>2, <2>1, <3>1
  <2>2. CASE stack' = Append(Pop, fr)
    <3>1. /\ Append(Pop, fr) \in Seq(Frame) /\ Len(Append(Pop, fr)) = k
          /\ \A i \in 1 .. k - 1 : Append(Pop, fr)[i] = stack[i]
          /\ Append(Pop, fr)[k] = fr
      BY <1>1, <1>2, PopFacts
    <3> QED BY <2>2, <3>1
  <2>3. CASE stack' = SetTop(fr)
    <3>1. /\ SetTop(fr) \in Seq(Frame) /\ Len(SetTop(fr)) = k
          /\ \A i \in 1 .. k - 1 : SetTop(fr)[i] = stack[i]
          /\ SetTop(fr)[k] = fr
      BY <1>1, <1>2, PopFacts
    <3> QED BY <2>3, <3>1
  <2> QED BY <2>1, <2>2, <2>3
<1>4. Turns(stack, stack', k - 1, E, {}, {})
  <2>1. PICK st1 : st1 = stack' OBVIOUS
  <2>2. /\ st1 \in Seq(Frame) /\ (Len(st1) = Len(stack) - 1 \/ Len(st1) = Len(stack))
        /\ \A i \in 1 .. Len(stack) - 1 : st1[i] = stack[i]
        /\ Len(st1) = Len(stack) => st1[Len(stack)].op = "walk"
    BY <1>2, <1>3, <2>1
  <2>3. Turns(stack, st1, Len(stack) - 1, E,
              IF stack[Len(stack)].op = "end" THEN {stack[Len(stack)].node} ELSE {}, {})
    BY <1>1, <2>2, TurnsBelow
  <2>4. stack[Len(stack)].op # "end" BY DEF Top
  <2> QED BY <1>2, <2>1, <2>3, <2>4
<1>5. Types(base', state', past', stack')
  <2>1. MaxDepth \in Nat BY EffectListAssumption
  <2> QED BY <1>2, <1>3, <2>1 DEF Types
<1>6. /\ Keeps(1 .. Len(base), E, H, T, {}, 1 .. Len(base'), E, H, T, {})
      /\ Shifts(1 .. Len(base), E, T, {}, r, 1 .. Len(base'), E, T, {}, r)
  BY SameLists
<1>7. Laid(f', 1 .. Len(base'), E, H, T, r) /\ Bare(base', state', past', E, H) BY DEF Live
<1>8. PICK m \in Nat : m = k - 1 BY <1>2
<1>9. Len(stack') > m /\ stack'[m + 1].op = "walk" /\ ~stack'[m + 1].astray
        => Tracks(stack'[m + 1], 1 .. Len(base'), E, T, {}, r)
  BY <1>2, <1>3, <1>8
<1>10. Turns(stack, stack', m, E, {}, {}) /\ freed' = << >> BY <1>4, <1>8
<1> QED BY <1>5, <1>6, <1>7, <1>9, <1>10, StillLive

LEMMA AddedStep == IInv /\ Added => IInv'
<1> SUFFICES ASSUME IInv, Added PROVE IInv'
  OBVIOUS
<1>1. /\ Types(base, state, past, stack) /\ freed = << >> /\ stack # << >>
      /\ Top.op = "inited"
  BY Now DEF Added, In
<1>2. PICK E, H, T, r : Live(f, base, state, past, stack, E, H, T, r) BY <1>1, Now
<1>3. IsList(f, f.head, E, r) /\ 1 .. Len(base) \subseteq Node BY <1>2 DEF Live, Laid
<1> DEFINE fr == Walk(f.head, E, <<"effect_end", "effect_end0">>)
<1>4. stack' = Append(Pop, fr) BY <1>2, LiveFacts DEF Added
<1>5. fr \in Frame /\ fr.op = "walk" /\ Tracks(fr, 1 .. Len(base), E, T, {}, r)
  <2>1. "effect_end" \in HookName /\ "effect_end0" \in HookName BY DEF HookName
  <2>2. <<"effect_end", "effect_end0">> \in Seq(HookName) \ {<< >>} BY <2>1, TwoHooks
  <2> QED BY <1>3, <2>2, NewWalk
<1> HIDE DEF fr
<1>6. Top.op # "end" /\ UNCHANGED <<f, base, state, past, freed>> BY <1>1 DEF Added
<1> QED BY <1>1, <1>2, <1>4, <1>5, <1>6, TopStep

(* The node that the code calls next                                       *)
LEMMA BeyondNext ==
  ASSUME NEW g, NEW h, NEW E, NEW r, IsList(g, h, E, r), NEW w, NEW c \in E,
         Beyond(w, c, E, r), w.stay \subseteq E
  PROVE  g.next[c] \in {Null} \cup E /\ Onto(w, g.next[c], E, r)
<1> DEFINE n == g.next[c]
<1>1. n \in {Null} \cup E /\ (n \in E => r[c] < r[n]) BY NodeFacts DEF IsList
<1>2. /\ \A x \in w.stay \ ToSet(w.seen) : x \in E /\ r[c] < r[x]
      /\ \A x \in ToSet(w.seen) \cap E : r[x] <= r[c]
  BY DEF Beyond
<1>3. \A x \in w.stay \ ToSet(w.seen) : n \in E /\ r[n] <= r[x] BY <1>2, NextLeast
<1>4. n = Null => w.stay \subseteq ToSet(w.seen)
  <2>1. n = Null => n \notin E BY NodeFacts DEF IsList
  <2> QED BY <1>3, <2>1
<1>5. ASSUME n \in E, NEW x \in ToSet(w.seen) \cap E PROVE r[x] < r[n]
  <2>1. r[x] \in Nat /\ r[c] \in Nat /\ r[n] \in Nat BY <1>5 DEF IsList
  <2> QED BY <1>1, <1>2, <1>5, <2>1
<1> QED BY <1>1, <1>3, <1>4, <1>5 DEF Onto

LEMMA RankDistinct ==
  ASSUME NEW g, NEW h, NEW S, NEW r, IsList(g, h, S, r), NEW x \in S, NEW y \in S, r[x] = r[y]
  PROVE  x = y
<1> DEFINE s == Chain(g, h)
<1>1. Goes(g, h, S, r, s) BY ChainGoes
<1> HIDE DEF s
<1>2. PICK c \in Nat : c = Len(s) BY <1>1, LenProperties DEF Goes
<1>3. PICK i \in 1 .. c : x = s[i] BY <1>1, <1>2 DEF Goes
<1>4. PICK j \in 1 .. c : y = s[j] BY <1>1, <1>2 DEF Goes
<1>5. i < j => r[x] < r[y] BY <1>1, <1>2, <1>3, <1>4 DEF Goes
<1>6. j < i => r[y] < r[x] BY <1>1, <1>2, <1>3, <1>4 DEF Goes
<1>7. r[x] \in Nat /\ r[y] \in Nat BY DEF IsList
<1>8. i = j BY <1>3, <1>4, <1>5, <1>6, <1>7
<1> QED BY <1>3, <1>4, <1>8

LEMMA TopTracks ==
  ASSUME Types(base, state, past, stack), stack # << >>, Top.op = "walk",
         NEW E, NEW H, NEW T, NEW r, Live(f, base, state, past, stack, E, H, T, r)
  PROVE  Top \in WalkFrame /\ (~Top.astray => Tracks(Top, 1 .. Len(base), E, T, {}, r))
<1>1. PICK k \in Nat : k = Len(stack) /\ k # 0 BY EmptySeq DEF Types
<1>2. Top \in Frame BY <1>1, ElementOfSeq DEF Types, Top
<1>3. Top \in WalkFrame BY <1>2 DEF Frame
<1>4. InHand(stack, k + 1, k) = {} BY NoneInHand
<1>5. k \in 1 .. k BY <1>1
<1>6. ~Top.astray => Tracks(Top, 1 .. Len(base), E, T, {}, r)
  BY <1>1, <1>4, <1>5 DEF Live, Walks, Top
<1> QED BY <1>3, <1>6

LEMMA SeenAppended ==
  ASSUME NEW s \in Seq(Node), NEW n \in Node
  PROVE  /\ Append(s, n) \in Seq(Node) /\ ToSet(Append(s, n)) = ToSet(s) \cup {n}
         /\ IsInjective(s) /\ n \notin ToSet(s) => IsInjective(Append(s, n))
<1>1. PICK k \in Nat : k = Len(s) BY LenProperties
<1>2. PICK u \in Seq(Node) : u = Append(s, n) BY AppendProperties
<1>3. /\ Len(u) = k + 1 /\ u[k + 1] = n /\ \A i \in 1 .. k : u[i] = s[i]
      /\ DOMAIN s = 1 .. k
  BY <1>1, <1>2, AppendProperties, LenProperties
<1>4. DOMAIN u = 1 .. k + 1 BY <1>3, LenProperties
<1>5. 1 .. k + 1 = (1 .. k) \cup {k + 1} OBVIOUS
<1>6. ToSet(u) = ToSet(s) \cup {n}
  <2>1. ToSet(u) = {u[i] : i \in 1 .. k + 1} /\ ToSet(s) = {s[i] : i \in 1 .. k}
    BY <1>3, <1>4 DEF ToSet
  <2> QED BY <1>3, <1>5, <2>1
<1>7. ASSUME IsInjective(s), n \notin ToSet(s) PROVE IsInjective(u)
  <2>1. /\ \A i \in 1 .. k : s[i] # n
        /\ \A i, j \in 1 .. k : s[i] = s[j] => i = j
    BY <1>3, <1>7 DEF IsInjective, ToSet
  <2>2. ASSUME NEW i \in 1 .. k + 1, NEW j \in 1 .. k + 1, u[i] = u[j] PROVE i = j
    <3>1. CASE i \in 1 .. k /\ j \in 1 .. k BY <1>3, <2>1, <2>2, <3>1
    <3>2. CASE i \in 1 .. k /\ j = k + 1 BY <1>3, <2>1, <2>2, <3>2
    <3>3. CASE i = k + 1 /\ j \in 1 .. k BY <1>3, <2>1, <2>2, <3>3
    <3>4. CASE i = k + 1 /\ j = k + 1 BY <3>4
    <3> QED BY <1>5, <3>1, <3>2, <3>3, <3>4
  <2> QED BY <1>4, <2>2 DEF IsInjective
<1> QED BY <1>2, <1>6, <1>7

LEMMA VisitStep == IInv /\ Visit => IInv'
<1> SUFFICES ASSUME IInv, Visit PROVE IInv'
  OBVIOUS
<1>1. /\ Types(base, state, past, stack) /\ freed = << >> /\ stack # << >>
      /\ Top.op = "walk" /\ ~Top.body /\ Top.cur # Null
  BY Now DEF Visit, In
<1>2. PICK E, H, T, r : Live(f, base, state, past, stack, E, H, T, r) BY <1>1, Now
<1>3. /\ Top \in WalkFrame
      /\ ~Top.astray => Tracks(Top, 1 .. Len(base), E, T, {}, r)
  BY <1>1, <1>2, TopTracks
<1>4. PICK w \in WalkFrame : w = Top BY <1>3
<1>5. PICK fr : fr = [w EXCEPT !.body = TRUE, !.nxt = f.next[w.cur],
                               !.seen = Append(w.seen, w.cur),
                               !.astray = w.astray \/ w.cur \in f.intrash]
  OBVIOUS
<1>6. stack' = SetTop(fr) /\ UNCHANGED <<f, base, state, past, freed>>
  BY <1>4, <1>5 DEF Visit
<1>7. /\ w.cur \in Node /\ f.next[w.cur] \in Ptr /\ w.seen \in Seq(Node)
      /\ w.astray \in BOOLEAN
  BY <1>1, <1>2, <1>4, LiveFacts DEF WalkFrame, Ptr, Pointers
<1>8. PICK s \in Seq(Node) : /\ s = Append(w.seen, w.cur)
                             /\ ToSet(s) = ToSet(w.seen) \cup {w.cur}
                             /\ IsInjective(w.seen) /\ w.cur \notin ToSet(w.seen)
                                  => IsInjective(s)
  BY <1>7, SeenAppended
<1>9. PICK n \in Ptr : n = f.next[w.cur] BY <1>7
<1>10. PICK x \in BOOLEAN : x = (w.astray \/ w.cur \in f.intrash) OBVIOUS
<1>11. /\ fr.op = "walk" /\ fr.cur = w.cur /\ fr.nxt = n /\ fr.body = TRUE /\ fr.seen = s
       /\ fr.stay = w.stay /\ fr.astray = x /\ fr \in WalkFrame
  <2>1. w.cur # Null BY <1>1, <1>4
  <2>2. fr = [w EXCEPT !.body = TRUE, !.nxt = n, !.seen = s, !.astray = x]
    BY <1>5, <1>8, <1>9, <1>10
  <2> QED BY <2>1, <2>2 DEF WalkFrame
<1>12. ASSUME ~fr.astray PROVE Tracks(fr, 1 .. Len(base), E, T, {}, r)
  <2>a. ~x BY <1>11, <1>12
  <2>b. ~w.astray /\ w.cur \notin f.intrash BY <1>10, <2>a, Zenon
  <2>1. ~w.astray /\ w.cur \notin T BY <1>2, <2>b, LiveFacts
  <2>2. Tracks(w, 1 .. Len(base), E, T, {}, r) BY <1>3, <1>4, <2>1
  <2>3. w.cur \in E BY <1>1, <1>4, <2>1, <2>2 DEF Tracks
  <2>4. /\ w.stay \subseteq E /\ IsInjective(w.seen) /\ Onto(w, w.cur, E, r)
        /\ ToSet(w.seen) \subseteq 1 .. Len(base)
    BY <1>1, <1>4, <2>2 DEF Tracks
  <2>5. /\ \A y \in w.stay \ ToSet(w.seen) : y \in E /\ r[w.cur] <= r[y]
        /\ \A y \in ToSet(w.seen) \cap E : r[y] < r[w.cur]
        /\ \A y \in E : r[y] \in Nat
        /\ IsList(f, f.head, E, r)
    <3>1. IsList(f, f.head, E, r) BY <1>2 DEF Live, Laid
    <3> QED BY <2>3, <2>4, <3>1 DEF Onto, IsList
  <2>6. w.cur \notin ToSet(w.seen) BY <2>3, <2>5
  <2>7. Beyond(fr, w.cur, E, r)
    <3>1. ASSUME NEW y \in fr.stay \ ToSet(fr.seen) PROVE r[w.cur] < r[y]
      <4>1. y \in w.stay \ ToSet(w.seen) /\ y # w.cur BY <1>8, <1>11
      <4>2. y \in E /\ r[w.cur] <= r[y] BY <2>5, <4>1
      <4>3. r[w.cur] # r[y] BY <2>3, <2>5, <4>1, <4>2, RankDistinct
      <4>4. r[w.cur] \in Nat /\ r[y] \in Nat BY <2>3, <2>5, <4>2
      <4> QED BY <4>2, <4>3, <4>4
    <3>2. ASSUME NEW y \in ToSet(fr.seen) \cap E PROVE r[y] <= r[w.cur]
      <4>1. y = w.cur \/ y \in ToSet(w.seen) \cap E BY <1>8, <1>11
      <4>2. r[w.cur] \in Nat /\ r[y] \in Nat BY <2>3, <2>5
      <4> QED BY <2>5, <4>1, <4>2
    <3> QED BY <3>1, <3>2 DEF Beyond
  <2>8. fr.stay \subseteq E BY <1>11, <2>4
  <2>9. n \in {Null} \cup E /\ Onto(fr, n, E, r)
    BY <1>9, <2>3, <2>5, <2>7, <2>8, BeyondNext
  <2>10. IsInjective(fr.seen) /\ ToSet(fr.seen) \subseteq 1 .. Len(base)
    <3>1. w.cur \in 1 .. Len(base) BY <1>2, <2>3, LiveFacts
    <3> QED BY <1>8, <1>11, <2>4, <2>6, <3>1
  <2> QED BY <1>1, <1>4, <1>11, <2>3, <2>7, <2>8, <2>9, <2>10 DEF Tracks
<1>13. fr \in Frame BY <1>11 DEF Frame
<1> QED BY <1>1, <1>2, <1>6, <1>11, <1>12, <1>13, TopStep

LEMMA StepStep == IInv /\ Step => IInv'
<1> SUFFICES ASSUME IInv, Step PROVE IInv'
  OBVIOUS
<1>1. /\ Types(base, state, past, stack) /\ freed = << >> /\ stack # << >>
      /\ Top.op = "walk" /\ Top.body
  BY Now DEF Step, In
<1>2. PICK E, H, T, r : Live(f, base, state, past, stack, E, H, T, r) BY <1>1, Now
<1>3. /\ Top \in WalkFrame
      /\ ~Top.astray => Tracks(Top, 1 .. Len(base), E, T, {}, r)
  BY <1>1, <1>2, TopTracks
<1>4. PICK w \in WalkFrame : w = Top BY <1>3
<1>5. PICK c : c = Onward(w) OBVIOUS
<1>6. PICK fr : fr = [w EXCEPT !.body = FALSE, !.cur = c] OBVIOUS
<1>7. stack' = SetTop(fr) /\ UNCHANGED <<f, base, state, past, freed>>
  BY <1>4, <1>5, <1>6 DEF Step
<1>8. IsList(f, f.head, E, r) BY <1>2 DEF Live, Laid
<1>9. c = IF w.cur \in T THEN w.nxt ELSE f.next[w.cur] BY <1>2, <1>5, LiveFacts DEF Onward
<1>10. c \in Ptr
  <2>1. w.cur \in Node /\ w.nxt \in Ptr BY <1>1, <1>4 DEF WalkFrame, Ptr
  <2>2. f.next[w.cur] \in Ptr BY <1>2, <2>1, LiveFacts DEF Pointers
  <2> QED BY <1>9, <2>1, <2>2
<1>11. /\ fr.op = "walk" /\ fr.cur = c /\ fr.body = FALSE /\ fr.seen = w.seen
       /\ fr.stay = w.stay /\ fr.astray = w.astray /\ fr \in WalkFrame
  BY <1>6, <1>10 DEF WalkFrame
<1>12. ASSUME ~fr.astray PROVE Tracks(fr, 1 .. Len(base), E, T, {}, r)
  <2>1. Tracks(w, 1 .. Len(base), E, T, {}, r) BY <1>3, <1>4, <1>11, <1>12
  <2>2. /\ w.cur \in E \cup T /\ w.nxt \in {Null} \cup E \cup T
        /\ Beyond(w, w.cur, E, r) /\ Onto(w, w.nxt, E, r) /\ w.stay \subseteq E
        /\ ToSet(w.seen) \subseteq 1 .. Len(base) /\ IsInjective(w.seen)
    BY <1>1, <1>4, <2>1 DEF Tracks
  <2>3. c \in {Null} \cup E \cup T /\ Onto(w, c, E, r)
    <3>1. CASE w.cur \in T BY <1>9, <2>2, <3>1
    <3>2. CASE w.cur \notin T
      <4>1. w.cur \in E BY <2>2, <3>2
      <4>2. /\ f.next[w.cur] \in {Null} \cup E
            /\ Onto(w, f.next[w.cur], E, r)
        BY <1>8, <2>2, <4>1, BeyondNext
      <4> QED BY <1>9, <3>2, <4>2
    <3> QED BY <3>1, <3>2
  <2>4. Onto(fr, c, E, r) BY <1>11, <2>3 DEF Onto
  <2> QED BY <1>11, <2>2, <2>3, <2>4 DEF Tracks
<1>13. fr \in Frame BY <1>11 DEF Frame
<1>14. Top.op # "end" BY <1>1
<1> QED BY <1>1, <1>2, <1>7, <1>11, <1>12, <1>13, <1>14, TopStep

LEMMA EndWalkStep == IInv /\ EndWalk => IInv'
<1> SUFFICES ASSUME IInv, EndWalk PROVE IInv'
  OBVIOUS
<1>1. /\ Types(base, state, past, stack) /\ freed = << >> /\ stack # << >>
      /\ Top.op = "walk"
  BY Now DEF EndWalk, In
<1>2. PICK E, H, T, r : Live(f, base, state, past, stack, E, H, T, r) BY <1>1, Now
<1>3. Top \in WalkFrame BY <1>1, <1>2, TopTracks
<1>4. IsList(f, f.head, E, r) /\ 1 .. Len(base) \subseteq Node BY <1>2 DEF Live, Laid
<1>5. PICK hooks \in Seq(HookName) \ {<< >>} :
        Len(Top.hooks) # 1 => hooks = Tail(Top.hooks)
  <2>1. Top.hooks \in Seq(HookName) /\ Top.hooks # << >> BY <1>3 DEF WalkFrame
  <2>2. CASE Len(Top.hooks) = 1 BY <2>1, <2>2
  <2>3. CASE Len(Top.hooks) # 1
    <3>1. PICK n \in Nat : n = Len(Top.hooks) /\ n # 0 BY <2>1, EmptySeq
    <3>2. Tail(Top.hooks) \in Seq(HookName) /\ Len(Tail(Top.hooks)) = n - 1
      BY <2>1, <3>1, HeadTailProperties
    <3>3. Tail(Top.hooks) # << >>
      <4>1. n - 1 # 0 BY <2>3, <3>1
      <4>2. Len(<< >>) = 0 BY EmptySeq
      <4>3. PICK s : s = Tail(Top.hooks) OBVIOUS
      <4> QED BY <3>2, <4>1, <4>2, <4>3
    <3> QED BY <3>2, <3>3
  <2> QED BY <2>2, <2>3
<1> DEFINE fr == Walk(f.head, E, hooks)
<1>6. fr \in Frame /\ fr.op = "walk" /\ Tracks(fr, 1 .. Len(base), E, T, {}, r)
  BY <1>4, <1>5, NewWalk
<1>7. stack' = Pop \/ stack' = SetTop(fr) BY <1>2, <1>5, LiveFacts DEF EndWalk
<1>8. Top.op # "end" /\ UNCHANGED <<f, base, state, past, freed>> BY <1>1 DEF EndWalk
<1> HIDE DEF fr
<1> QED BY <1>1, <1>2, <1>6, <1>7, <1>8, TopStep

(* A call begins, or a walk, above those that are under way ...            *)
LEMMA PushStep ==
  ASSUME Types(base, state, past, stack), Deeper,
         NEW E, NEW H, NEW T, NEW r, Live(f, base, state, past, stack, E, H, T, r),
         NEW E1, NEW H1, NEW T1, NEW t, NEW st, Carried(stack, st, E1),
         NEW fr \in Frame, NEW N, N = IF fr.op = "end" THEN {fr.node} ELSE {},
         stack' = Append(st, fr), freed' = << >>, Types(base', state', past', stack),
         Laid(f', 1 .. Len(base'), E1, H1, T1, t), Bare(base', state', past', E1, H1),
         Keeps(1 .. Len(base), E, H, T, {}, 1 .. Len(base'), E1, H1, T1, N),
         Shifts(1 .. Len(base), E, T, {}, r, 1 .. Len(base'), E1, T1, N, t),
         fr.op = "walk" => Tracks(fr, 1 .. Len(base'), E1, T1, {}, t)
  PROVE  IInv'
<1>1. PICK k \in Nat : k = Len(stack) BY LenProperties DEF Types
<1>2. PICK st1 : st1 = Append(st, fr) OBVIOUS
<1>3. Turns(stack, st1, k, E1, {}, N) /\ Len(st1) = k + 1 /\ st1[k + 1] = fr
  BY <1>1, <1>2, TurnsPushed
<1>4. Types(base', state', past', st1)
  <2>1. st1 \in Seq(Frame) BY <1>3 DEF Turns, Resumed
  <2>2. MaxDepth \in Nat BY EffectListAssumption
  <2> QED BY <1>1, <1>3, <2>1, <2>2 DEF Types, Deeper
<1>5. st1 = stack' BY <1>2
<1>6. Len(st1) > k /\ st1[k + 1].op = "walk" /\ ~st1[k + 1].astray
        => Tracks(st1[k + 1], 1 .. Len(base'), E1, T1, {}, t)
  BY <1>3
<1>7. /\ Turns(stack, stack', k, E1, {}, N) /\ Types(base', state', past', stack')
      /\ Len(stack') > k /\ stack'[k + 1].op = "walk" /\ ~stack'[k + 1].astray
           => Tracks(stack'[k + 1], 1 .. Len(base'), E1, T1, {}, t)
  BY <1>3, <1>4, <1>5, <1>6
<1> QED BY <1>7, StillLive

(* ... or none does.                                                       *)
LEMMA StayStep ==
  ASSUME Types(base, state, past, stack),
         NEW E, NEW H, NEW T, NEW r, Live(f, base, state, past, stack, E, H, T, r),
         NEW E1, NEW H1, NEW T1, NEW t, NEW st, Carried(stack, st, E1),
         stack' = st, freed' = << >>, Types(base', state', past', stack),
         Laid(f', 1 .. Len(base'), E1, H1, T1, t), Bare(base', state', past', E1, H1),
         Keeps(1 .. Len(base), E, H, T, {}, 1 .. Len(base'), E1, H1, T1, {}),
         Shifts(1 .. Len(base), E, T, {}, r, 1 .. Len(base'), E1, T1, {}, t)
  PROVE  IInv'
<1>1. PICK k \in Nat : k = Len(stack) BY LenProperties DEF Types
<1>2. Turns(stack, st, k, E1, {}, {}) /\ Len(st) = k BY <1>1, TurnsOnly
<1>3. Types(base', state', past', st) BY <1>1, <1>2 DEF Types, Turns, Resumed
<1>4. /\ Turns(stack, stack', k, E1, {}, {}) /\ Types(base', state', past', stack')
      /\ Len(stack') > k /\ stack'[k + 1].op = "walk" /\ ~stack'[k + 1].astray
           => Tracks(stack'[k + 1], 1 .. Len(base'), E1, T1, {}, t)
  BY <1>2, <1>3
<1> QED BY <1>4, StillLive

LEMMA DropStep == ASSUME NEW n \in Node PROVE IInv /\ Drop(n) => IInv'
<1> SUFFICES ASSUME IInv, Drop(n) PROVE IInv'
  OBVIOUS
<1>1. Types(base, state, past, stack) /\ freed = << >> BY Now DEF Drop, May
<1>2. PICK E, H, T, r : Live(f, base, state, past, stack, E, H, T, r) BY Now DEF Drop, May
<1>3. /\ n \in E /\ f' = EffectFinal(f, n) /\ stack' = Left({n})
      /\ base' = base /\ state' = state /\ past' = past /\ freed' = freed
  BY <1>2, LiveFacts DEF Drop
<1> DEFINE t == First(r, n)
           G == E \ {n}
           U == T \cup {n}
<1>4. Laid(f', 1 .. Len(base), G, H, U, t) /\ SameOrder(r, t, Node \ {n})
  BY <1>2, <1>3, FinalLaid DEF Live
<1>5. /\ r \in [Node -> Nat] /\ t \in [Node -> Nat] /\ 1 .. Len(base) \subseteq Node
      /\ E \subseteq 1 .. Len(base) /\ T \subseteq 1 .. Len(base)
      /\ E \cap T = {} /\ H \cap E = {} /\ H \cap T = {}
  BY <1>2, <1>4, LiveFacts DEF Laid
<1> HIDE DEF t
<1>6. Carried(stack, Left({n}), G)
  <2>1. E \ {n} = E \cap G OBVIOUS
  <2> QED BY <1>1, <1>2, <2>1, LeftCarried DEF Live, Types
<1>7. Keeps(1 .. Len(base), E, H, T, {}, 1 .. Len(base'), G, H, U, {})
  BY <1>3 DEF Keeps
<1>8. Shifts(1 .. Len(base), E, T, {}, r, 1 .. Len(base'), G, U, {}, t)
  BY <1>3, <1>4, <1>5 DEF Shifts, SameOrder
<1>9. Bare(base', state', past', G, H) BY <1>2, <1>3 DEF Live, Bare
<1>10. /\ Types(base', state', past', stack) /\ freed' = << >>
       /\ Laid(f', 1 .. Len(base'), G, H, U, t)
  BY <1>1, <1>3, <1>4
<1> HIDE DEF G, U
<1> QED BY <1>1, <1>2, <1>3, <1>6, <1>7, <1>8, <1>9, <1>10, StayStep

LEMMA EndStep == ASSUME NEW n \in Node PROVE IInv /\ End(n) => IInv'
<1> SUFFICES ASSUME IInv, End(n) PROVE IInv'
  OBVIOUS
<1>1. Types(base, state, past, stack) /\ freed = << >> /\ Deeper BY Now DEF End, May
<1>2. PICK E, H, T, r : Live(f, base, state, past, stack, E, H, T, r) BY Now DEF End, May
<1> DEFINE fr == Call("end", n)
           G == E \ {n}
<1>3. /\ n \in E /\ f' = EffectRemove(f, n) /\ stack' = Append(Left({n}), fr)
      /\ base' = base /\ state' = state /\ past' = past /\ freed' = freed
  BY <1>2, LiveFacts DEF End
<1>4. Laid(f', 1 .. Len(base), G, H, T, r) BY <1>2, <1>3, RemoveLaid DEF Live
<1>5. /\ r \in [Node -> Nat] /\ 1 .. Len(base) \subseteq Node
      /\ E \subseteq 1 .. Len(base) /\ T \subseteq 1 .. Len(base)
      /\ E \cap T = {} /\ H \cap E = {} /\ H \cap T = {}
  BY <1>2, LiveFacts
<1>6. Carried(stack, Left({n}), G)
  <2>1. E \ {n} = E \cap G OBVIOUS
  <2> QED BY <1>1, <1>2, <2>1, LeftCarried DEF Live, Types
<1>7. Keeps(1 .. Len(base), E, H, T, {}, 1 .. Len(base'), G, H, T, {n})
  BY <1>3, <1>5 DEF Keeps
<1>8. Shifts(1 .. Len(base), E, T, {}, r, 1 .. Len(base'), G, T, {n}, r)
  BY <1>3, <1>5 DEF Shifts, SameOrder
<1>9. Bare(base', state', past', G, H) BY <1>2, <1>3 DEF Live, Bare
<1>10. /\ Types(base', state', past', stack) /\ freed' = << >>
       /\ Laid(f', 1 .. Len(base'), G, H, T, r)
  BY <1>1, <1>3, <1>4
<1>11. /\ fr \in Frame /\ fr.op # "walk"
       /\ {n} = IF fr.op = "end" THEN {fr.node} ELSE {}
  BY DEF Call, Frame
<1> HIDE DEF fr, G
<1> QED BY <1>1, <1>2, <1>3, <1>6, <1>7, <1>8, <1>9, <1>10, <1>11, PushStep

LEMMA EndedStep == IInv /\ Ended => IInv'
<1> SUFFICES ASSUME IInv, Ended PROVE IInv'
  OBVIOUS
<1>1. /\ Types(base, state, past, stack) /\ freed = << >> /\ stack # << >>
      /\ Top.op = "end"
  BY Now DEF Ended, In
<1>2. PICK E, H, T, r : Live(f, base, state, past, stack, E, H, T, r) BY <1>1, Now
<1>3. stack \in Seq(Frame) /\ Carried(stack, stack, E) BY <1>1, <1>2, SameLists DEF Types
<1>4. PICK k \in Nat : k = Len(stack) /\ k # 0 BY <1>1, <1>3, EmptySeq
<1>5. PICK n : n = Top.node OBVIOUS
<1>6. n \in (1 .. Len(base)) \ (E \cup H \cup T)
  <2>1. k \in 1 .. k BY <1>4
  <2>2. n \in InHand(stack, 1, k) BY <1>1, <1>4, <1>5, <2>1 DEF InHand, Top
  <2> QED BY <1>2, <1>4, <2>2 DEF Live, Held
<1> DEFINE t == First(r, n)
           U == T \cup {n}
           fr == Walk(f.head, E, <<"effect_endt">>)
<1>7. /\ f' = EffectFree(f, n) /\ stack' = Append(Pop, fr)
      /\ base' = base /\ state' = state /\ past' = past /\ freed' = freed
  BY <1>2, <1>5, LiveFacts DEF Ended
<1>8. /\ Laid(f', 1 .. Len(base), E, H, U, t) /\ SameOrder(r, t, Node \ {n})
      /\ f'.head = f.head
  <2>1. Laid(f, 1 .. Len(base), E, H, T, r) BY <1>2 DEF Live
  <2>2. /\ Laid(EffectFree(f, n), 1 .. Len(base), E, H, U, t) /\ SameOrder(r, t, Node \ {n})
        /\ EffectFree(f, n).head = f.head
    <3>1. PICK g : g = f OBVIOUS
    <3>2. PICK D : D = 1 .. Len(base) OBVIOUS
    <3>3. Laid(g, D, E, H, T, r) /\ n \in D \ (E \cup H \cup T) BY <1>6, <2>1, <3>1, <3>2
    <3> HIDE DEF t, U, fr
    <3>4. /\ Laid(EffectFree(g, n), D, E, H, T \cup {n}, First(r, n))
          /\ Untouched(g, EffectFree(g, n), Node \ (T \cup {n}))
          /\ SameOrder(r, First(r, n), Node \ {n})
      <4>1. InNoList(g, D, E, H, T, r, n) BY <3>3 DEF InNoList
      <4> QED BY <4>1, FreeLaid
    <3>5. EffectFree(g, n).head = g.head
      <4>1. n \notin g.intrash BY <3>3, LaidFacts
      <4>2. g \in Pointers BY <3>3, LaidFacts
      <4> QED BY <4>1, <4>2 DEF EffectFree, Pointers
    <3> QED BY <3>1, <3>2, <3>4, <3>5 DEF t, U
  <2> QED BY <1>7, <2>2
<1>9. /\ r \in [Node -> Nat] /\ t \in [Node -> Nat] /\ 1 .. Len(base) \subseteq Node
      /\ E \subseteq 1 .. Len(base) /\ T \subseteq 1 .. Len(base)
      /\ E \cap T = {} /\ H \cap E = {} /\ H \cap T = {}
  BY <1>2, <1>8, LiveFacts DEF Laid
<1> HIDE DEF t
<1>10. fr \in Frame /\ fr.op = "walk" /\ Tracks(fr, 1 .. Len(base), E, U, {}, t)
  <2>1. IsList(f', f.head, E, t) BY <1>8 DEF Laid
  <2>2. PICK g : g = f' OBVIOUS
  <2>3. "effect_endt" \in HookName BY DEF HookName
  <2>4. <<"effect_endt">> \in Seq(HookName) \ {<< >>} BY <2>3, OneHook
  <2> QED BY <1>9, <2>1, <2>2, <2>4, NewWalk
<1> HIDE DEF fr, U
<1>11. /\ stack' \in Seq(Frame) /\ Len(stack') = k /\ stack'[k] = fr
       /\ \A i \in 1 .. k - 1 : stack'[i] = stack[i]
  <2>1. /\ Append(Pop, fr) \in Seq(Frame) /\ Len(Append(Pop, fr)) = k
        /\ \A i \in 1 .. k - 1 : Append(Pop, fr)[i] = stack[i]
        /\ Append(Pop, fr)[k] = fr
    BY <1>3, <1>4, <1>10, PopFacts
  <2> QED BY <1>7, <2>1
<1>12. Turns(stack, stack', k - 1, E, {n}, {})
  <2>1. PICK st1 : st1 = stack' OBVIOUS
  <2>2. /\ st1 \in Seq(Frame) /\ (Len(st1) = Len(stack) - 1 \/ Len(st1) = Len(stack))
        /\ \A i \in 1 .. Len(stack) - 1 : st1[i] = stack[i]
        /\ Len(st1) = Len(stack) => st1[Len(stack)].op = "walk"
    BY <1>4, <1>10, <1>11, <2>1
  <2>3. Turns(stack, st1, Len(stack) - 1, E,
              IF stack[Len(stack)].op = "end" THEN {stack[Len(stack)].node} ELSE {}, {})
    BY <1>1, <1>3, <1>4, <2>2, TurnsBelow
  <2>4. stack[Len(stack)].op = "end" /\ stack[Len(stack)].node = n BY <1>1, <1>5 DEF Top
  <2> QED BY <1>4, <2>1, <2>3, <2>4
<1>13. Types(base', state', past', stack') BY <1>1, <1>4, <1>7, <1>11 DEF Types
<1>14. Keeps(1 .. Len(base), E, H, T, {n}, 1 .. Len(base'), E, H, U, {})
  BY <1>7 DEF Keeps, U
<1>15. Shifts(1 .. Len(base), E, T, {n}, r, 1 .. Len(base'), E, U, {}, t)
  BY <1>6, <1>7, <1>8, <1>9 DEF Shifts, SameOrder, U
<1>16. /\ Bare(base', state', past', E, H) /\ freed' = << >>
       /\ Laid(f', 1 .. Len(base'), E, H, U, t)
  BY <1>1, <1>2, <1>7, <1>8 DEF Live, Bare, U
<1>17. PICK m \in Nat : m = k - 1 BY <1>4
<1>18. /\ Turns(stack, stack', m, E, {n}, {})
       /\ Len(stack') > m /\ stack'[m + 1].op = "walk" /\ ~stack'[m + 1].astray
            => Tracks(stack'[m + 1], 1 .. Len(base'), E, U, {}, t)
  BY <1>7, <1>10, <1>11, <1>12, <1>17
<1> QED BY <1>2, <1>13, <1>14, <1>15, <1>16, <1>18, StillLive

(* The new effect is of kind k, the others are of the kinds they were of.  *)
LEMMA BaseAppended ==
  ASSUME NEW b \in Seq(Kind), NEW k \in Kind, NEW n \in Nat, n = Len(b) + 1
  PROVE  /\ Append(b, k) \in Seq(Kind) /\ Len(Append(b, k)) = n /\ Append(b, k)[n] = k
         /\ \A i \in 1 .. Len(b) : Append(b, k)[i] = b[i]
         /\ 1 .. n = (1 .. Len(b)) \cup {n} /\ n \notin 1 .. Len(b)
<1>1. PICK j \in Nat : j = Len(b) BY LenProperties
<1> QED BY <1>1, AppendProperties

LEMMA AddStep == ASSUME NEW k \in Kind PROVE IInv /\ Add(k) => IInv'
<1> SUFFICES ASSUME IInv, Add(k) PROVE IInv'
  OBVIOUS
<1>1. Types(base, state, past, stack) /\ freed = << >> /\ Deeper BY Now DEF Add, May
<1>2. PICK E, H, T, r : Live(f, base, state, past, stack, E, H, T, r) BY Now DEF Add, May
<1>3. PICK n \in Nat : n = Len(base) + 1
  <2>1. Len(base) \in Nat BY <1>1, LenProperties DEF Types
  <2> QED BY <2>1
<1> DEFINE p == [m \in 1 .. n |-> Prior[Append(base, k)[m]]]
           fr == Call("inited", n)
           G == E \cup {n}
<1>4. /\ f' = EffectInsert(f, n, p) /\ stack' = Append(stack, fr)
      /\ base' = Append(base, k) /\ state' = state /\ past' = past /\ freed' = freed
      /\ CheckAlive3(k) /\ Room(1)
  BY <1>3 DEF Add
<1> HIDE DEF p
<1>5. /\ base' \in Seq(Kind) /\ Len(base') = n /\ base'[n] = k
      /\ \A i \in 1 .. Len(base) : base'[i] = base[i]
      /\ 1 .. n = (1 .. Len(base)) \cup {n} /\ n \notin 1 .. Len(base)
  BY <1>1, <1>3, <1>4, BaseAppended DEF Types
<1>6. n <= MaxNode /\ n \in Node
  <2>1. Len(base) \in Nat BY <1>1, LenProperties DEF Types
  <2> QED BY <1>3, <1>4, <2>1, NodeFacts DEF Room, Node
<1>7. PICK D : D = 1 .. Len(base) OBVIOUS
<1>8. Laid(f, D, E, H, T, r) /\ n \in Node \ D BY <1>2, <1>5, <1>6, <1>7 DEF Live
<1>9. PICK t : /\ Laid(EffectInsert(f, n, p), D \cup {n}, E \cup {n}, H, T, t)
               /\ SameOrder(r, t, Node \ {n}) /\ Placed(E, n, r, t, p)
  BY <1>8, InsertLaid
<1>10. Laid(f', 1 .. Len(base'), G, H, T, t) BY <1>4, <1>5, <1>7, <1>9
<1>11. /\ r \in [Node -> Nat] /\ t \in [Node -> Nat] /\ D \subseteq Node
       /\ E \subseteq D /\ T \subseteq D /\ H \subseteq D
       /\ E \cap T = {} /\ H \cap E = {} /\ H \cap T = {}
       /\ 1 .. Len(base') = D \cup {n} /\ n \notin D
  BY <1>5, <1>7, <1>8, <1>9, LaidFacts
<1>12. Carried(stack, stack, G) BY <1>1, <1>2, StackCarried DEF Live, Types
<1>13. Keeps(D, E, H, T, {}, 1 .. Len(base'), G, H, T, {}) BY <1>11 DEF Keeps
<1>14. Shifts(D, E, T, {}, r, 1 .. Len(base'), G, T, {}, t)
  <2>1. SameOrder(r, t, E \cap G) BY <1>9, <1>11 DEF SameOrder
  <2>2. G \subseteq Node /\ G \cap D \subseteq E BY <1>6, <1>11
  <2> QED BY <1>11, <2>1, <2>2 DEF Shifts
<1>15. Bare(base', state', past', G, H)
  <2>1. Bare(base, state, past, E, H) /\ Dest[k] \in Unit
    BY <1>2, EffectListAssumption DEF Live
  <2>2. state[Dest[k]] = "up" \/ (state[Dest[k]] = "failed" /\ k \in Kept)
    BY <1>4, EffectListAssumption DEF CheckAlive3
  <2>3. \A x \in E \cup H : base'[x] = base[x] BY <1>5, <1>7, <1>11
  <2>4. ASSUME NEW x \in G
        PROVE  LET q == base'[x] IN state'[Dest[q]] = "up"
                                   \/ (state'[Dest[q]] = "failed" /\ q \in Kept)
    <3>1. CASE x = n BY <1>4, <1>5, <2>2, <3>1
    <3>2. CASE x # n
      <4>1. x \in E BY <3>2
      <4>2. LET q == base[x] IN state[Dest[q]] = "up"
                               \/ (state[Dest[q]] = "failed" /\ q \in Kept)
        BY <2>1, <4>1 DEF Bare
      <4>3. base'[x] = base[x] BY <2>3, <4>1
      <4> QED BY <1>4, <4>2, <4>3
    <3> QED BY <3>1, <3>2
  <2>5. ASSUME NEW x \in H
        PROVE  LET q == base'[x]
               IN  /\ past'[Dest[q]] = "up" \/ (past'[Dest[q]] = "failed" /\ q \in Kept)
                   /\ state'[Dest[q]] # "roared"
    BY <1>4, <2>1, <2>3 DEF Bare
  <2> HIDE DEF G
  <2> QED BY <2>4, <2>5 DEF Bare
<1>16. /\ Types(base', state', past', stack) /\ freed' = << >>
  BY <1>1, <1>4, <1>5, <1>6 DEF Types
<1>17. /\ fr \in Frame /\ fr.op # "walk"
       /\ {} = IF fr.op = "end" THEN {fr.node} ELSE {}
  BY <1>6 DEF Call, Frame
<1> HIDE DEF fr, G
<1> QED BY <1>1, <1>2, <1>4, <1>7, <1>10, <1>12, <1>13, <1>14, <1>15, <1>16, <1>17, PushStep

(* The walk that unit_kill() and the like begin above what is under way,   *)
(* once the effects of N have left the list                                *)
Wipes(E, H, T, r, G, H1, U, t, N, hooks) ==
  /\ G = E \ N /\ H1 \subseteq H /\ U = T \cup (E \ G) \cup (H \ H1)
  /\ SameOrder(r, t, G) /\ hooks \in Seq(HookName) /\ hooks # << >>

LEMMA WalkPushed ==
  ASSUME Types(base, state, past, stack), freed = << >>, Deeper,
         NEW E, NEW H, NEW T, NEW r, Live(f, base, state, past, stack, E, H, T, r),
         NEW G, NEW H1, NEW U, NEW t, NEW N, NEW hooks, Wipes(E, H, T, r, G, H1, U, t, N, hooks),
         Laid(f', 1 .. Len(base), G, H1, U, t), Bare(base', state', past', G, H1),
         Types(base', state', past', stack),
         stack' = Append(Left(N), Walk(f'.head, G, hooks)), UNCHANGED <<base, freed>>
  PROVE  IInv'
<1> USE DEF Wipes
<1>1. PICK a : a = f' OBVIOUS
<1> DEFINE fr == Walk(a.head, G, hooks)
<1>2. Laid(a, 1 .. Len(base), G, H1, U, t) BY <1>1
<1>3. fr \in Frame /\ fr.op = "walk" /\ Tracks(fr, 1 .. Len(base), G, U, {}, t)
  <2>1. PICK D : D = 1 .. Len(base) OBVIOUS
  <2>2. IsList(a, a.head, G, t) /\ D \subseteq Node BY <1>2, <2>1 DEF Laid
  <2>3. /\ Walk(a.head, G, hooks) \in Frame /\ Walk(a.head, G, hooks).op = "walk"
        /\ Tracks(Walk(a.head, G, hooks), D, G, U, {}, t)
    BY <2>2, NewWalk
  <2> QED BY <2>1, <2>3
<1>4. /\ r \in [Node -> Nat] /\ t \in [Node -> Nat] /\ 1 .. Len(base) \subseteq Node
      /\ E \subseteq 1 .. Len(base) /\ T \subseteq 1 .. Len(base) /\ H \subseteq 1 .. Len(base)
      /\ E \cap T = {} /\ H \cap E = {} /\ H \cap T = {}
  BY <1>2, LiveFacts DEF Laid
<1>5. Carried(stack, Left(N), G)
  <2>1. E \ N = E \cap G OBVIOUS
  <2> QED BY <2>1, LeftCarried DEF Live, Types
<1>6. stack' = Append(Left(N), fr) BY <1>1
<1> HIDE DEF fr
<1>7. Keeps(1 .. Len(base), E, H, T, {}, 1 .. Len(base'), G, H1, U, {}) BY DEF Keeps
<1>8. Shifts(1 .. Len(base), E, T, {}, r, 1 .. Len(base'), G, U, {}, t)
  BY <1>4 DEF Shifts, SameOrder
<1>9. /\ {} = IF fr.op = "end" THEN {fr.node} ELSE {}
      /\ fr.op = "walk" => Tracks(fr, 1 .. Len(base'), G, U, {}, t)
  BY <1>3
<1>10. /\ freed' = << >> /\ Types(base', state', past', stack)
       /\ Laid(f', 1 .. Len(base'), G, H1, U, t) /\ Bare(base', state', past', G, H1)
  OBVIOUS
<1> QED BY <1>3, <1>5, <1>6, <1>7, <1>8, <1>9, <1>10, PushStep

LEMMA KillStep == ASSUME NEW u \in Unit PROVE IInv /\ Kill(u) => IInv'
<1> SUFFICES ASSUME IInv, Kill(u) PROVE IInv'
  OBVIOUS
<1>1. Types(base, state, past, stack) /\ freed = << >> /\ Deeper BY Now DEF Kill, May
<1>2. PICK E, H, T, r : Live(f, base, state, past, stack, E, H, T, r) BY Now DEF Kill, May
<1>3. PICK N : N = Wiped(u, Kept) OBVIOUS
<1>4. Listed = E /\ Orders(Effects, E) /\ E \cap H = {} /\ E \subseteq 1 .. Len(base)
  BY <1>2, LiveFacts
<1>5. PICK hooks \in Seq(HookName) \ {<< >>} : hooks = <<"statemod", "kill_end">>
  <2>1. "statemod" \in HookName /\ "kill_end" \in HookName BY DEF HookName
  <2> QED BY <2>1, TwoHooks
<1>6. /\ f' = Finals(f, Effects, N) /\ state' = [state EXCEPT ![u] = "failed"]
      /\ stack' = Append(Left(N), Walk(f'.head, E \ N, hooks))
      /\ UNCHANGED <<base, past, freed>>
  BY <1>3, <1>4, <1>5 DEF Kill
<1>7. \A n \in E : n \in N <=> Dest[base[n]] = u /\ base[n] \notin Kept
  BY <1>3, <1>4 DEF Wiped
<1>8. PICK D : D = 1 .. Len(base) OBVIOUS
<1>9. Laid(f, D, E, H, T, r) BY <1>2, <1>8 DEF Live
<1>10. PICK t : /\ Laid(Finals(f, Effects, N), D, E \ N, H, T \cup (E \cap N), t)
                /\ SameOrder(r, t, Node \ (E \cap N))
  <2>1. \E t : /\ Laid(Finals(f, Effects, N), D, E \ N, H, T \cup (E \cap N), t)
               /\ Untouched(f, Finals(f, Effects, N), Node \ (E \cup T))
               /\ SameOrder(r, t, Node \ (E \cap N))
    BY <1>4, <1>9, FinalsLaid
  <2> QED BY <2>1
<1>11. PICK G : G = E \ N OBVIOUS
<1>12. PICK U : U = T \cup (E \cap N) OBVIOUS
<1>13. Laid(f', 1 .. Len(base), G, H, U, t) /\ U = T \cup (E \ G) \cup (H \ H)
  BY <1>6, <1>8, <1>10, <1>11, <1>12
<1>14. SameOrder(r, t, G)
  <2>1. G \in SUBSET (Node \ (E \cap N)) BY <1>9, <1>11 DEF Laid
  <2> QED BY <1>10, <2>1, SameOrderSub
<1>15. state \in [Unit -> States] /\ \A n \in 1 .. Len(base) : base[n] \in Kind
  BY <1>1, ElementOfSeq DEF Types
<1>16. Types(base', state', past', stack) BY <1>1, <1>6 DEF Types, States
<1>17. Bare(base', state', past', G, H)
  <2>1. Bare(base, state, past, E, H) BY <1>2 DEF Live
  <2>2. \A w \in Unit : state'[w] = IF w = u THEN "failed" ELSE state[w] BY <1>6, <1>15
  <2>3. \A n \in E \cup H : Dest[base[n]] \in Unit /\ base'[n] = base[n]
    <3>1. E \cup H \subseteq 1 .. Len(base) BY <1>2, LiveFacts
    <3> QED BY <1>6, <1>15, <3>1, EffectListAssumption
  <2>4. ASSUME NEW n \in G
        PROVE  LET q == base'[n] IN state'[Dest[q]] = "up"
                                    \/ (state'[Dest[q]] = "failed" /\ q \in Kept)
    BY <1>7, <1>11, <2>1, <2>2, <2>3 DEF Bare
  <2>5. ASSUME NEW n \in H
        PROVE  LET q == base'[n]
               IN  /\ past'[Dest[q]] = "up" \/ (past'[Dest[q]] = "failed" /\ q \in Kept)
                   /\ state'[Dest[q]] # "roared"
    BY <1>6, <2>1, <2>2, <2>3 DEF Bare
  <2> QED BY <2>4, <2>5 DEF Bare
<1>18. stack' = Append(Left(N), Walk(f'.head, G, hooks)) BY <1>6, <1>11
<1>19. Wipes(E, H, T, r, G, H, U, t, N, hooks) BY <1>5, <1>11, <1>13, <1>14 DEF Wipes
<1> QED BY <1>1, <1>2, <1>6, <1>13, <1>16, <1>17, <1>18, <1>19, WalkPushed

LEMMA RoarDownStep == ASSUME NEW u \in Unit PROVE IInv /\ RoarDown(u) => IInv'
<1> SUFFICES ASSUME IInv, RoarDown(u) PROVE IInv'
  OBVIOUS
<1>1. Types(base, state, past, stack) /\ freed = << >> /\ Deeper BY Now DEF RoarDown, May
<1>2. PICK E, H, T, r : Live(f, base, state, past, stack, E, H, T, r)
  BY Now DEF RoarDown, May
<1>3. PICK N : N = Wiped(u, {}) OBVIOUS
<1>4. PICK M : M = {n \in ToSet(Recorded) : Dest[base[n]] = u} OBVIOUS
<1>5. /\ Listed = E /\ Orders(Effects, E) /\ ToSet(Recorded) = H /\ Orders(Recorded, H)
      /\ E \cap H = {}
  BY <1>2, LiveFacts
<1>6. PICK hooks \in Seq(HookName) \ {<< >>} : hooks = <<"statemod">>
  <2>1. "statemod" \in HookName BY DEF HookName
  <2> QED BY <2>1, OneHook
<1>7. /\ f' = Finals(Struck(f, Recorded, M), Effects, N)
      /\ state' = [state EXCEPT ![u] = "roared"] /\ past' = [past EXCEPT ![u] = "roared"]
      /\ stack' = Append(Left(N), Walk(f'.head, E \ N, hooks))
      /\ UNCHANGED <<base, freed>>
  BY <1>3, <1>4, <1>5, <1>6 DEF RoarDown, StruckFromRecord
<1>8. /\ \A n \in E : n \in N <=> Dest[base[n]] = u
      /\ \A n \in H : n \in M <=> Dest[base[n]] = u
  BY <1>3, <1>4, <1>5 DEF Wiped
<1>9. PICK D : D = 1 .. Len(base) OBVIOUS
<1>10. Laid(f, D, E, H, T, r) BY <1>2, <1>9 DEF Live
<1>11. PICK t : /\ Laid(Struck(f, Recorded, M), D, E, H \ M, T \cup (H \cap M), t)
                /\ SameOrder(r, t, Node \ (H \cap M))
  BY <1>5, <1>10, StruckLaid
<1>12. PICK g : g = Struck(f, Recorded, M) OBVIOUS
<1>13. PICK J : J = H \ M OBVIOUS
<1>14. PICK V : V = T \cup (H \cap M) OBVIOUS
<1>15. PICK t1 : /\ Laid(Finals(g, Effects, N), D, E \ N, J, V \cup (E \cap N), t1)
                 /\ SameOrder(t, t1, Node \ (E \cap N))
  <2>1. Laid(g, D, E, J, V, t) BY <1>11, <1>12, <1>13, <1>14
  <2>2. \E x : /\ Laid(Finals(g, Effects, N), D, E \ N, J, V \cup (E \cap N), x)
               /\ Untouched(g, Finals(g, Effects, N), Node \ (E \cup V))
               /\ SameOrder(t, x, Node \ (E \cap N))
    BY <1>5, <2>1, FinalsLaid
  <2> QED BY <2>2
<1>16. PICK G : G = E \ N OBVIOUS
<1>17. PICK U : U = V \cup (E \cap N) OBVIOUS
<1>18. /\ Laid(f', 1 .. Len(base), G, J, U, t1) /\ U = T \cup (E \ G) \cup (H \ J)
       /\ J \subseteq H
  BY <1>7, <1>9, <1>12, <1>13, <1>14, <1>15, <1>16, <1>17
<1>19. SameOrder(r, t1, G)
  <2>1. G \in SUBSET (Node \ (E \cap N)) /\ G \in SUBSET (Node \ (H \cap M))
    BY <1>5, <1>10, <1>16 DEF Laid
  <2>2. SameOrder(r, t, G) /\ SameOrder(t, t1, G) BY <1>11, <1>15, <2>1, SameOrderSub
  <2> QED BY <2>2 DEF SameOrder
<1>20. /\ state \in [Unit -> States] /\ past \in [Unit -> States]
       /\ \A n \in 1 .. Len(base) : base[n] \in Kind
  BY <1>1, ElementOfSeq DEF Types
<1>21. Types(base', state', past', stack) BY <1>1, <1>7 DEF Types, States
<1>22. Bare(base', state', past', G, J)
  <2>1. Bare(base, state, past, E, H) BY <1>2 DEF Live
  <2>2. \A w \in Unit : /\ state'[w] = IF w = u THEN "roared" ELSE state[w]
                        /\ past'[w] = IF w = u THEN "roared" ELSE past[w]
    BY <1>7, <1>20
  <2>3. \A n \in E \cup H : Dest[base[n]] \in Unit /\ base'[n] = base[n]
    <3>1. E \cup H \subseteq 1 .. Len(base) BY <1>2, LiveFacts
    <3> QED BY <1>7, <1>20, <3>1, EffectListAssumption
  <2>4. ASSUME NEW n \in G
        PROVE  LET q == base'[n] IN state'[Dest[q]] = "up"
                                    \/ (state'[Dest[q]] = "failed" /\ q \in Kept)
    BY <1>8, <1>16, <2>1, <2>2, <2>3 DEF Bare
  <2>5. ASSUME NEW n \in J
        PROVE  LET q == base'[n]
               IN  /\ past'[Dest[q]] = "up" \/ (past'[Dest[q]] = "failed" /\ q \in Kept)
                   /\ state'[Dest[q]] # "roared"
    BY <1>8, <1>13, <2>1, <2>2, <2>3 DEF Bare
  <2> QED BY <2>4, <2>5 DEF Bare
<1>23. stack' = Append(Left(N), Walk(f'.head, G, hooks)) BY <1>7, <1>16
<1>24. Wipes(E, H, T, r, G, J, U, t1, N, hooks) BY <1>6, <1>16, <1>18, <1>19 DEF Wipes
<1> QED BY <1>1, <1>2, <1>7, <1>18, <1>21, <1>22, <1>23, <1>24, WalkPushed

-----------------------------------------------------------------------------
(* Records and rewinds.                                                    *)

(* What is copied becomes the record, or the list.                         *)
LEMMA HeadedLaid ==
  ASSUME NEW g, NEW D, NEW E, NEW H, NEW T, NEW r, Laid(g, D, E, H, T, r),
         NEW C, C \subseteq D, C \cap (E \cup H \cup T) = {}, NEW h, IsList(g, h, C, r)
  PROVE  /\ E = {} => Laid([g EXCEPT !.head = h], D, C, H, T, r)
         /\ H = {} => Laid([g EXCEPT !.hist = h], D, E, C, T, r)
<1>1. h \in Ptr /\ g \in Pointers BY LaidFacts DEF IsList, Ptr
<1>2. PICK a : a = [g EXCEPT !.head = h] OBVIOUS
<1>3. PICK c : c = [g EXCEPT !.hist = h] OBVIOUS
<1>4. /\ a \in Pointers /\ a.next = g.next /\ a.prev = g.prev /\ a.head = h
      /\ a.hist = g.hist /\ a.trash = g.trash /\ a.intrash = g.intrash
  BY <1>1, <1>2 DEF Pointers
<1>5. /\ c \in Pointers /\ c.next = g.next /\ c.prev = g.prev /\ c.head = g.head
      /\ c.hist = h /\ c.trash = g.trash /\ c.intrash = g.intrash
  BY <1>1, <1>3 DEF Pointers
<1>6. ASSUME NEW x, x.next = g.next, x.prev = g.prev, NEW y, NEW S, IsList(g, y, S, r)
      PROVE  IsList(x, y, S, r)
  BY <1>6 DEF IsList
<1>7. /\ IsList(g, g.head, E, r) /\ IsList(g, g.hist, H, r) /\ IsList(g, g.trash, T, r)
      /\ E \subseteq D /\ H \subseteq D /\ T \subseteq D
      /\ E \cap H = {} /\ E \cap T = {} /\ H \cap T = {}
      /\ g.intrash = T /\ Unused(g, Node \ D) /\ r \in [Node -> Nat] /\ D \subseteq Node
  BY DEF Laid
<1>8. /\ IsList(a, h, C, r) /\ IsList(a, g.hist, H, r) /\ IsList(a, g.trash, T, r)
      /\ Unused(a, Node \ D)
  <2>1. Unused(a, Node \ D) BY <1>4, <1>7 DEF Unused
  <2> QED BY <1>4, <1>6, <1>7, <2>1
<1>9. /\ IsList(c, h, C, r) /\ IsList(c, g.head, E, r) /\ IsList(c, g.trash, T, r)
      /\ Unused(c, Node \ D)
  <2>1. Unused(c, Node \ D) BY <1>5, <1>7 DEF Unused
  <2> QED BY <1>5, <1>6, <1>7, <2>1
<1>10. Laid(a, D, C, H, T, r) BY <1>4, <1>7, <1>8 DEF Laid
<1>11. Laid(c, D, E, C, T, r) BY <1>5, <1>7, <1>9 DEF Laid
<1> QED BY <1>2, <1>3, <1>10, <1>11

(* The copies are of the kinds of the effects of the list.                 *)
Extended(c, b, k, S) ==
  /\ c \in Seq(Kind) /\ Len(c) = b + k
  /\ \A n \in 1 .. b : c[n] = base[n]
  /\ \A n \in Copied(b, k) : \E m \in S : c[n] = base[m]

LEMMA KindsFacts ==
  ASSUME base \in Seq(Kind), NEW list \in Seq(Node), NEW S, Orders(list, S),
         S \subseteq 1 .. Len(base), NEW b \in Nat, b = Len(base), NEW k \in Nat, k = Len(list)
  PROVE  Extended(base \o KindsOf(list), b, k, S)
<1> DEFINE q == KindsOf(list)
<1>1. DOMAIN list = 1 .. k BY LenProperties
<1>2. \A i \in 1 .. k : list[i] \in S /\ base[list[i]] \in Kind
  BY ElementOfSeq DEF Orders
<1>3. q = [i \in 1 .. k |-> base[list[i]]] BY <1>1 DEF KindsOf
<1>4. q \in Seq(Kind) /\ Len(q) = k
  <2>1. q \in [1 .. k -> Kind] BY <1>2, <1>3
  <2>2. q \in Seq(Kind) BY <2>1, SeqDef
  <2> QED BY <2>1, <2>2, LenProperties
<1>5. \A i \in 1 .. k : q[i] = base[list[i]] BY <1>3
<1> HIDE DEF q
<1>6. PICK c \in Seq(Kind) : c = base \o q BY <1>4, ConcatProperties
<1>7. Len(c) = b + k /\ \A i \in 1 .. b + k : c[i] = IF i <= b THEN base[i] ELSE q[i - b]
  <2>1. /\ Len(base \o q) = Len(base) + Len(q)
        /\ \A i \in 1 .. Len(base) + Len(q) :
             (base \o q)[i] = IF i <= Len(base) THEN base[i] ELSE q[i - Len(base)]
    BY <1>4, ConcatProperties
  <2> QED BY <1>4, <1>6, <2>1
<1>8. \A n \in 1 .. b : c[n] = base[n] BY <1>7
<1>9. ASSUME NEW n \in b + 1 .. b + k PROVE \E m \in S : c[n] = base[m]
  <2>1. n \in 1 .. b + k /\ ~(n <= b) /\ n - b \in 1 .. k OBVIOUS
  <2>2. c[n] = base[list[n - b]] BY <1>5, <1>7, <2>1
  <2> QED BY <1>2, <2>1, <2>2
<1> QED BY <1>6, <1>7, <1>8, <1>9 DEF q, Copied, Extended

LEMMA CopiedApart ==
  ASSUME NEW b \in Nat, NEW k \in Nat
  PROVE  /\ Copied(b, k) \cap (1 .. b) = {} /\ Copied(b, k) \cup (1 .. b) = 1 .. b + k
         /\ 1 .. b \subseteq 1 .. b + k
BY DEF Copied

LEMMA RecordStep == IInv /\ Record => IInv'
<1> SUFFICES ASSUME IInv, Record PROVE IInv'
  OBVIOUS
<1>1. Types(base, state, past, stack) /\ freed = << >> BY Now DEF Record
<1>2. PICK E, H, T, r : Live(f, base, state, past, stack, E, H, T, r) BY Now DEF Record
<1>3. /\ H = {} /\ Orders(Effects, E) /\ E \subseteq 1 .. Len(base)
      /\ T \subseteq 1 .. Len(base) /\ E \cap T = {} /\ Effects \in Seq(Node)
      /\ r \in [Node -> Nat]
  BY <1>2, LiveFacts DEF Record, Orders
<1>4. PICK b \in Nat : b = Len(base) BY <1>1, LenProperties DEF Types
<1>5. PICK k \in Nat : k = Len(Effects) BY <1>3, LenProperties
<1>6. PICK list \in Seq(Node) : list = Effects /\ Orders(list, E) /\ k = Len(list)
  BY <1>3, <1>5
<1>7. b + k <= MaxNode BY <1>4, <1>5 DEF Record, Room
<1> DEFINE a == CopyAll(f, list)
           t == Copies(r, b, k)
           C == Copied(b, k)
<1>8. Laid(f, 1 .. b, E, H, T, r) BY <1>2, <1>4 DEF Live
<1>9. /\ Laid(a, 1 .. b + k, E, H, T, t) /\ IsList(a, CopyHead(list), C, t)
      /\ SameOrder(r, t, Node \ C)
  BY <1>4, <1>6, <1>7, <1>8, CopyFacts
<1>10. C \cap (1 .. b) = {} /\ C \cup (1 .. b) = 1 .. b + k BY CopiedApart
<1>11. PICK c : c = base \o KindsOf(list) OBVIOUS
<1>12. /\ c \in Seq(Kind) /\ Len(c) = b + k
       /\ \A n \in 1 .. b : c[n] = base[n]
       /\ \A n \in C : \E m \in E : c[n] = base[m]
  <2>1. base \in Seq(Kind) /\ E \subseteq 1 .. Len(base) BY <1>1, <1>3 DEF Types
  <2>2. Extended(base \o KindsOf(list), b, k, E) BY <1>4, <1>6, <2>1, KindsFacts
  <2> QED BY <1>11, <2>2 DEF Extended
<1> HIDE DEF a, t, C
<1>13. /\ f' = [a EXCEPT !.hist = CopyHead(list)] /\ base' = c /\ past' = state
       /\ state' = state /\ stack' = stack /\ freed' = freed
  BY <1>6, <1>11 DEF Record, a
<1>14. Laid(f', 1 .. Len(base'), E, C, T, t)
  <2>1. C \subseteq 1 .. b + k /\ C \cap (E \cup H \cup T) = {}
    BY <1>3, <1>4, <1>10
  <2>2. Laid([a EXCEPT !.hist = CopyHead(list)], 1 .. b + k, E, C, T, t)
    <3>1. PICK D : D = 1 .. b + k OBVIOUS
    <3>2. Laid(a, D, E, H, T, t) /\ C \subseteq D BY <1>9, <2>1, <3>1
    <3>3. H = {} => Laid([a EXCEPT !.hist = CopyHead(list)], D, E, C, T, t)
      BY <1>9, <2>1, <3>2, HeadedLaid
    <3> QED BY <1>3, <3>1, <3>3
  <2> QED BY <1>12, <1>13, <2>2
<1>15. Carried(stack, stack, E) BY <1>1, <1>2, SameLists DEF Types
<1>16. Keeps(1 .. Len(base), E, H, T, {}, 1 .. Len(base'), E, C, T, {})
  BY <1>3, <1>4, <1>10, <1>12, <1>13 DEF Keeps
<1>17. Shifts(1 .. Len(base), E, T, {}, r, 1 .. Len(base'), E, T, {}, t)
  <2>1. E \in SUBSET (Node \ C) BY <1>3, <1>4, <1>8, <1>10 DEF Laid
  <2>2. SameOrder(r, t, E) BY <1>9, <2>1, SameOrderSub
  <2>3. t \in [Node -> Nat] /\ 1 .. b \subseteq Node BY <1>8, <1>9 DEF Laid
  <2>4. 1 .. b \subseteq 1 .. b + k BY <1>10
  <2> QED BY <1>3, <1>4, <1>12, <1>13, <2>1, <2>2, <2>3, <2>4 DEF Shifts
<1>18. Types(base', state', past', stack) BY <1>1, <1>7, <1>12, <1>13 DEF Types
<1>19. Bare(base', state', past', E, C)
  <2>1. Bare(base, state, past, E, H) BY <1>2 DEF Live
  <2>2. \A n \in E : base'[n] = base[n] BY <1>3, <1>4, <1>12, <1>13
  <2>3. ASSUME NEW n \in C
        PROVE  LET q == base'[n]
               IN  /\ past'[Dest[q]] = "up" \/ (past'[Dest[q]] = "failed" /\ q \in Kept)
                   /\ state'[Dest[q]] # "roared"
    <3>1. PICK m \in E : base'[n] = base[m] BY <1>12, <1>13
    <3> QED BY <1>13, <2>1, <3>1 DEF Bare
  <2> QED BY <1>13, <2>1, <2>2, <2>3 DEF Bare
<1>20. freed' = << >> BY <1>1, <1>13
<1> QED BY <1>1, <1>2, <1>13, <1>14, <1>15, <1>16, <1>17, <1>18, <1>19, <1>20, StayStep

LEMMA RewindStep == IInv /\ Rewind => IInv'
<1> SUFFICES ASSUME IInv, Rewind PROVE IInv'
  OBVIOUS
<1>1. Types(base, state, past, stack) /\ freed = << >> BY Now DEF Rewind, May
<1>2. PICK E, H, T, r : Live(f, base, state, past, stack, E, H, T, r)
  BY Now DEF Rewind, May
<1>3. /\ Orders(Effects, E) /\ Orders(Recorded, H) /\ E \subseteq 1 .. Len(base)
      /\ T \subseteq 1 .. Len(base) /\ H \subseteq 1 .. Len(base)
      /\ E \cap T = {} /\ E \cap H = {} /\ H \cap T = {} /\ Recorded \in Seq(Node)
      /\ r \in [Node -> Nat] /\ Listed = E
  BY <1>2, LiveFacts DEF Orders
<1>4. PICK b \in Nat : b = Len(base) BY <1>1, LenProperties DEF Types
<1>5. PICK k \in Nat : k = Len(Recorded) BY <1>3, LenProperties
<1>6. PICK list \in Seq(Node) : list = Recorded /\ Orders(list, H) /\ k = Len(list)
  BY <1>3, <1>5
<1>7. b + k <= MaxNode BY <1>4, <1>5 DEF Rewind, Room
<1> DEFINE a == CopyAll(f, list)
           t == Copies(r, b, k)
           C == Copied(b, k)
           z == Finals(a, Effects, E)
           U == T \cup E
           D == 1 .. b + k
<1>8. Laid(f, 1 .. b, E, H, T, r) BY <1>2, <1>4 DEF Live
<1>9. /\ Laid(a, D, E, H, T, t) /\ IsList(a, CopyHead(list), C, t)
      /\ SameOrder(r, t, Node \ C)
  BY <1>4, <1>6, <1>7, <1>8, CopyFacts
<1>10. C \cap (1 .. b) = {} /\ C \cup (1 .. b) = D BY CopiedApart
<1>11. PICK c : c = base \o KindsOf(list) OBVIOUS
<1>12. /\ c \in Seq(Kind) /\ Len(c) = b + k
       /\ \A n \in 1 .. b : c[n] = base[n]
       /\ \A n \in C : \E m \in H : c[n] = base[m]
  <2>1. base \in Seq(Kind) /\ H \subseteq 1 .. Len(base) BY <1>1, <1>3 DEF Types
  <2>2. Extended(base \o KindsOf(list), b, k, H) BY <1>4, <1>6, <2>1, KindsFacts
  <2> QED BY <1>11, <2>2 DEF Extended
<1> HIDE DEF a, t, C, D
<1>13. /\ f' = [z EXCEPT !.head = CopyHead(list)] /\ base' = c /\ past' = past
       /\ state' = past /\ stack' = Left(E) /\ freed' = freed
  BY <1>3, <1>6, <1>11 DEF Rewind, a, FreeAll, Listed
<1>14. PICK x : /\ Laid(z, D, {}, H, U, x) /\ Untouched(a, z, Node \ U)
                /\ SameOrder(t, x, Node \ E)
  <2>1. \E x : /\ Laid(z, D, E \ E, H, T \cup (E \cap E), x)
               /\ Untouched(a, z, Node \ (E \cup T))
               /\ SameOrder(t, x, Node \ (E \cap E))
    BY <1>3, <1>9, FinalsLaid
  <2>2. E \ E = {} /\ T \cup (E \cap E) = U /\ Node \ (E \cup T) = Node \ U
        /\ Node \ (E \cap E) = Node \ E
    OBVIOUS
  <2> HIDE DEF z, U
  <2> QED BY <2>1, <2>2
<1> HIDE DEF z
<1>15. C \subseteq D /\ C \cap ({} \cup H \cup U) = {} /\ C \cap E = {}
  BY <1>3, <1>4, <1>10
<1>16. Laid(f', 1 .. Len(base'), C, H, U, x)
  <2>1. C \in SUBSET (Node \ U) /\ C \in SUBSET (Node \ E)
    BY <1>9, <1>15 DEF IsList
  <2>2. Untouched(a, z, C) /\ SameOrder(t, x, C) BY <1>14, <2>1, UntouchedSub, SameOrderSub
  <2>3. x \in [Node -> Nat] BY <1>14 DEF Laid
  <2>4. IsList(z, CopyHead(list), C, x) BY <1>9, <2>2, <2>3, StaysList
  <2>5. {} = {} => Laid([z EXCEPT !.head = CopyHead(list)], D, C, H, U, x)
    <3> HIDE DEF U
    <3> QED BY <1>14, <1>15, <2>4, HeadedLaid
  <2> QED BY <1>12, <1>13, <2>5 DEF D
<1>17. Carried(stack, Left(E), C)
  <2>1. E \ E = E \cap C BY <1>15
  <2> QED BY <1>1, <1>2, <2>1, LeftCarried DEF Live, Types
<1>18. 1 .. Len(base') = D BY <1>12, <1>13 DEF D
<1>19. Keeps(1 .. Len(base), E, H, T, {}, 1 .. Len(base'), C, H, U, {})
  <2>1. Keeps(1 .. b, E, H, T, {}, D, C, H, U, {}) BY <1>3, <1>4, <1>10 DEF Keeps
  <2> QED BY <1>4, <1>18, <2>1
<1>20. Shifts(1 .. Len(base), E, T, {}, r, 1 .. Len(base'), C, U, {}, x)
  <2>1. x \in [Node -> Nat] /\ 1 .. b \subseteq Node /\ C \subseteq Node
    BY <1>8, <1>9, <1>14 DEF Laid, IsList
  <2>2. 1 .. b \subseteq D BY <1>10
  <2>3. C \cap (1 .. b) \subseteq E /\ SameOrder(r, x, E \cap C)
    BY <1>10, <1>15 DEF SameOrder
  <2>4. Shifts(1 .. b, E, T, {}, r, D, C, U, {}, x)
    BY <1>3, <1>4, <2>1, <2>2, <2>3 DEF Shifts
  <2> QED BY <1>4, <1>18, <2>4
<1>21. Types(base', state', past', stack) BY <1>1, <1>7, <1>12, <1>13 DEF Types
<1>22. Bare(base', state', past', C, H)
  <2>1. Bare(base, state, past, E, H) BY <1>2 DEF Live
  <2>2. \A n \in H : base'[n] = base[n] BY <1>3, <1>4, <1>12, <1>13
  <2>3. ASSUME NEW n \in C
        PROVE  LET q == base'[n] IN state'[Dest[q]] = "up"
                                    \/ (state'[Dest[q]] = "failed" /\ q \in Kept)
    <3>1. PICK m \in H : base'[n] = base[m] BY <1>12, <1>13
    <3> QED BY <1>13, <2>1, <3>1 DEF Bare
  <2>4. ASSUME NEW n \in H
        PROVE  LET q == base'[n]
               IN  /\ past'[Dest[q]] = "up" \/ (past'[Dest[q]] = "failed" /\ q \in Kept)
                   /\ state'[Dest[q]] # "roared"
    BY <1>13, <2>1, <2>2 DEF Bare
  <2> QED BY <2>3, <2>4 DEF Bare
<1>23. freed' = << >> BY <1>1, <1>13
<1> HIDE DEF U
<1> QED BY <1>1, <1>2, <1>13, <1>16, <1>17, <1>19, <1>20, <1>21, <1>22, <1>23, StayStep

LEMMA FieldFreeStep == IInv /\ FieldFree => IInv'
<1> SUFFICES ASSUME IInv, FieldFree PROVE IInv'
  OBVIOUS
<1>1. Types(base, state, past, stack) /\ freed = << >> /\ stack = << >>
  BY Now DEF FieldFree
<1>2. PICK E, H, T, r : Live(f, base, state, past, stack, E, H, T, r)
  BY Now DEF FieldFree
<1>3. PICK D : D = 1 .. Len(base) OBVIOUS
<1>4. /\ Laid(f, D, E, H, T, r) /\ Orders(Effects, E) /\ Orders(Recorded, H)
      /\ ToSet(Effects) = E /\ ToSet(Recorded) = H
  BY <1>2, <1>3, LiveFacts DEF Live, Listed
<1> DEFINE z == Finals(f, Effects, E)
           g == Struck(z, Recorded, H)
           U == T \cup E
           V == U \cup H
<1>5. PICK t : Laid(z, D, {}, H, U, t)
  <2>1. \E t : /\ Laid(z, D, E \ E, H, T \cup (E \cap E), t)
               /\ Untouched(f, z, Node \ (E \cup T))
               /\ SameOrder(r, t, Node \ (E \cap E))
    BY <1>4, FinalsLaid
  <2>2. E \ E = {} /\ T \cup (E \cap E) = U OBVIOUS
  <2> HIDE DEF z, U
  <2> QED BY <2>1, <2>2
<1> HIDE DEF z
<1>6. PICK x : Laid(g, D, {}, {}, V, x)
  <2> HIDE DEF U
  <2>1. \E x : /\ Laid(g, D, {}, H \ H, U \cup (H \cap H), x)
               /\ SameOrder(t, x, Node \ (H \cap H))
    BY <1>4, <1>5, StruckLaid
  <2>2. H \ H = {} /\ U \cup (H \cap H) = V OBVIOUS
  <2> HIDE DEF g, V
  <2> QED BY <2>1, <2>2
<1>7. f' = [g EXCEPT !.trash = Null] /\ freed' = Chain(g, g.trash) /\ base' = base
      /\ state' = state /\ past' = past /\ stack' = stack /\ base # << >>
  BY <1>4 DEF FieldFree, FreeAll, z
<1> HIDE DEF g
<1>8. V = D
  <2>1. PICK k \in Nat : k = Len(stack) /\ k = 0 BY <1>1, EmptySeq
  <2>2. 1 .. k = {} BY <2>1
  <2>3. InHand(stack, 1, k) = {} BY <2>2 DEF InHand
  <2>4. E \cup H \cup T = D BY <1>2, <1>3, <2>1, <2>3 DEF Live, Held
  <2> QED BY <2>4
<1> HIDE DEF U, V
<1>9. Orders(freed', D)
  <2>1. IsList(g, g.trash, V, x) BY <1>6 DEF Laid
  <2>2. Orders(Chain(g, g.trash), V) BY <2>1, ChainOrders
  <2> QED BY <1>7, <1>8, <2>2
<1>10. freed' # << >>
  <2>1. PICK k \in Nat : k = Len(base) /\ k # 0 BY <1>1, <1>7, EmptySeq DEF Types
  <2>2. 1 \in D BY <1>3, <2>1
  <2>3. PICK q : q = freed' OBVIOUS
  <2>4. PICK i \in 1 .. Len(q) : q[i] = 1 BY <1>9, <2>2, <2>3 DEF Orders
  <2>5. q # << >>
    <3>1. q = << >> => Len(q) = 0 BY EmptySeq
    <3>2. 1 .. 0 = {} OBVIOUS
    <3> QED BY <2>4, <3>1, <3>2
  <2> QED BY <2>3, <2>5
<1>11. f' \in Pointers /\ f'.head = Null /\ f'.hist = Null /\ f'.trash = Null
  <2>1. g \in Pointers /\ g.head = Null /\ g.hist = Null BY <1>6 DEF Laid, IsList
  <2>2. PICK c : c = [g EXCEPT !.trash = Null] OBVIOUS
  <2>3. c \in Pointers /\ c.head = Null /\ c.hist = Null /\ c.trash = Null
    BY <2>1, <2>2 DEF Pointers, Ptr
  <2> QED BY <1>7, <2>2, <2>3
<1>12. stack' = << >> /\ Orders(freed', 1 .. Len(base')) BY <1>1, <1>3, <1>7, <1>9
<1>13. Freed' BY <1>11, <1>12 DEF Freed
<1>14. Types(base', state', past', stack') BY <1>1, <1>7
<1> QED BY <1>10, <1>13, <1>14 DEF IInv

-----------------------------------------------------------------------------
(* The invariant holds always.                                             *)

LEMMA IInvInit == Init => IInv
<1> SUFFICES ASSUME Init PROVE IInv
  OBVIOUS
<1> DEFINE r == [n \in Node |-> 0]
<1>1. Len(base) = 0 /\ Len(stack) = 0 /\ base = << >> /\ stack = << >> /\ freed = << >>
  BY EmptySeq DEF Init
<1>2. 1 .. 0 = {} OBVIOUS
<1>3. Types(base, state, past, stack)
  <2>1. base \in Seq(Kind) /\ stack \in Seq(Frame) BY <1>1, EmptySeq
  <2>2. MaxNode \in Nat /\ MaxDepth \in Nat BY EffectListAssumption
  <2>3. state \in [Unit -> States] /\ past = state BY DEF Init, States
  <2> QED BY <1>1, <2>1, <2>2, <2>3 DEF Types
<1>4. /\ f.next = [n \in Node |-> Null] /\ f.prev = [n \in Node |-> Null]
      /\ f.head = Null /\ f.hist = Null /\ f.trash = Null /\ f.intrash = {}
      /\ f \in Pointers
  BY DEF Init, Pointers, Ptr
<1>5. Laid(f, {}, {}, {}, {}, r)
  <2>1. IsList(f, Null, {}, r) BY DEF IsList
  <2>2. Unused(f, Node \ {}) BY <1>4 DEF Unused
  <2> QED BY <1>4, <2>1, <2>2 DEF Laid
<1> HIDE DEF r
<1>6. InHand(stack, 1, 0) = {} BY <1>2 DEF InHand
<1>7. Held(base, stack, {}, {}, {}) BY <1>1, <1>2, <1>6 DEF Held
<1>8. Walks(stack, 1 .. Len(base), {}, {}, r) BY <1>1, <1>2 DEF Walks
<1>9. Bare(base, state, past, {}, {}) BY DEF Bare
<1>10. Live(f, base, state, past, stack, {}, {}, {}, r)
  BY <1>1, <1>2, <1>5, <1>7, <1>8, <1>9 DEF Live
<1> QED BY <1>1, <1>3, <1>10 DEF IInv

LEMMA IInvStep == IInv /\ [Next]_vars => IInv'
<1>1. IInv /\ UNCHANGED vars => IInv'
  BY DEF IInv, vars, Freed, Live, Walks, Types
<1>2. IInv /\ Next => IInv'
  <2> SUFFICES ASSUME IInv, Next PROVE IInv'
    OBVIOUS
  <2>1. CASE \E k \in Kind : Add(k) BY <2>1, AddStep
  <2>2. CASE \E n \in Node : End(n) \/ Drop(n) BY <2>2, EndStep, DropStep
  <2>3. CASE \E u \in Unit : Kill(u) \/ RoarDown(u) BY <2>3, KillStep, RoarDownStep
  <2>4. CASE Added \/ Ended \/ Record \/ Rewind
    BY <2>4, AddedStep, EndedStep, RecordStep, RewindStep
  <2>5. CASE BeginWalk \/ Visit \/ Step \/ EndWalk
    BY <2>5, BeginWalkStep, VisitStep, StepStep, EndWalkStep
  <2>6. CASE FieldFree BY <2>6, FieldFreeStep
  <2> QED BY <2>1, <2>2, <2>3, <2>4, <2>5, <2>6 DEF Next
<1> QED BY <1>1, <1>2

LEMMA IInvAlways == Spec => []IInv
BY IInvInit, IInvStep, PTL DEF Spec

-----------------------------------------------------------------------------
(* What follows from it.                                                   *)

LEMMA OrdersJoin ==
  ASSUME NEW s, NEW S, Orders(s, S), NEW q, NEW Q, Orders(q, Q), S \cap Q = {}
  PROVE  Orders(s \o q, S \cup Q)
<1>1. PICK m \in Nat : m = Len(s) BY LenProperties DEF Orders
<1>2. PICK n \in Nat : n = Len(q) BY LenProperties DEF Orders
<1>3. PICK c \in Seq(Node) : c = s \o q BY ConcatProperties DEF Orders
<1>4. Len(c) = m + n /\ \A i \in 1 .. m + n : c[i] = IF i <= m THEN s[i] ELSE q[i - m]
  <2>1. /\ Len(s \o q) = Len(s) + Len(q)
        /\ \A i \in 1 .. Len(s) + Len(q) :
             (s \o q)[i] = IF i <= Len(s) THEN s[i] ELSE q[i - Len(s)]
    BY ConcatProperties DEF Orders
  <2> QED BY <1>1, <1>2, <1>3, <2>1
<1>5. /\ S = {s[i] : i \in 1 .. m} /\ Q = {q[i] : i \in 1 .. n}
      /\ \A i, j \in 1 .. m : i # j => s[i] # s[j]
      /\ \A i, j \in 1 .. n : i # j => q[i] # q[j]
  BY <1>1, <1>2 DEF Orders
<1>6. ASSUME NEW i \in 1 .. m + n
      PROVE  \/ i \in 1 .. m /\ c[i] = s[i] /\ c[i] \in S
             \/ i - m \in 1 .. n /\ c[i] = q[i - m] /\ c[i] \in Q
  <2>1. CASE i <= m
    <3>1. i \in 1 .. m BY <2>1
    <3> QED BY <1>4, <1>5, <2>1, <3>1
  <2>2. CASE ~(i <= m)
    <3>1. i - m \in 1 .. n BY <2>2
    <3> QED BY <1>4, <1>5, <2>2, <3>1
  <2> QED BY <2>1, <2>2
<1>7. S \cup Q = {c[i] : i \in 1 .. m + n}
  <2>1. ASSUME NEW x \in S PROVE \E i \in 1 .. m + n : x = c[i]
    <3>1. PICK i \in 1 .. m : x = s[i] BY <1>5
    <3>2. i \in 1 .. m + n /\ i <= m OBVIOUS
    <3> QED BY <1>4, <3>1, <3>2
  <2>2. ASSUME NEW x \in Q PROVE \E i \in 1 .. m + n : x = c[i]
    <3>1. PICK i \in 1 .. n : x = q[i] BY <1>5
    <3>2. PICK j \in 1 .. m + n : j = i + m OBVIOUS
    <3>3. ~(j <= m) /\ j - m = i BY <3>2
    <3>4. c[j] = q[j - m] BY <1>4, <3>3
    <3> QED BY <3>1, <3>3, <3>4
  <2>3. \A i \in 1 .. m + n : c[i] \in S \cup Q BY <1>6
  <2> QED BY <2>1, <2>2, <2>3
<1>8. ASSUME NEW i \in 1 .. m + n, NEW j \in 1 .. m + n, i # j PROVE c[i] # c[j]
  <2>1. \/ i \in 1 .. m /\ c[i] = s[i] /\ c[i] \in S
        \/ i - m \in 1 .. n /\ c[i] = q[i - m] /\ c[i] \in Q
    BY <1>6
  <2>2. \/ j \in 1 .. m /\ c[j] = s[j] /\ c[j] \in S
        \/ j - m \in 1 .. n /\ c[j] = q[j - m] /\ c[j] \in Q
    BY <1>6
  <2>3. i - m # j - m BY <1>8
  <2> QED BY <1>5, <1>8, <2>1, <2>2, <2>3
<1>9. PICK l \in Nat : l = Len(c) /\ l = m + n BY <1>4
<1>10. Orders(c, S \cup Q) BY <1>7, <1>8, <1>9 DEF Orders
<1> QED BY <1>3, <1>10

LEMMA OrdersFacts ==
  ASSUME NEW s, NEW S, Orders(s, S)
  PROVE  ToSet(s) = S /\ IsInjective(s)
<1>1. DOMAIN s = 1 .. Len(s) BY LenProperties DEF Orders
<1> QED BY <1>1 DEF Orders, ToSet, IsInjective

LEMMA NoOrders == Orders(<< >>, {})
<1>1. PICK s \in Seq(Node) : s = << >> /\ Len(s) = 0 BY EmptySeq
<1>2. 1 .. 0 = {} OBVIOUS
<1> QED BY <1>1, <1>2 DEF Orders

(* After field_free()                                                      *)
LEMMA FreedFacts ==
  ASSUME Freed
  PROVE  /\ Effects = << >> /\ Recorded = << >> /\ Trash = << >>
         /\ Listed = {} /\ ToSet(Recorded) = {}
<1> DEFINE r == [n \in Node |-> 0]
<1>1. IsList(f, Null, {}, r) BY DEF IsList
<1>2. Chain(f, Null) = << >> /\ ToSet(Chain(f, Null)) = {} BY <1>1, ChainOrders
<1> QED BY <1>2 DEF Freed, Effects, Recorded, Trash, Listed

LEMMA HandIsBeingEnded ==
  ASSUME stack \in Seq(Frame)
  PROVE  BeingEnded = InHand(stack, 1, Len(stack))
<1>1. DOMAIN stack = 1 .. Len(stack) BY LenProperties
<1> QED BY <1>1 DEF BeingEnded, InHand

LEMMA IInvLoses == IInv => NothingIsLost
<1> SUFFICES ASSUME IInv PROVE NothingIsLost
  OBVIOUS
<1> DEFINE all == Effects \o Recorded \o Trash \o freed
<1>1. Types(base, state, past, stack) BY DEF IInv
<1>2. DOMAIN base = 1 .. Len(base) BY <1>1, LenProperties DEF Types
<1>3. BeingEnded = InHand(stack, 1, Len(stack)) BY <1>1, HandIsBeingEnded DEF Types
<1>4. CASE freed = << >>
  <2>1. PICK E, H, T, r : Live(f, base, state, past, stack, E, H, T, r) BY <1>4 DEF IInv
  <2>2. /\ Orders(Effects, E) /\ Orders(Recorded, H) /\ Orders(Trash, T)
        /\ E \cap H = {} /\ E \cap T = {} /\ H \cap T = {}
    BY <2>1, LiveFacts
  <2>3. Orders(Effects \o Recorded, E \cup H) BY <2>2, OrdersJoin
  <2>4. Orders(Effects \o Recorded \o Trash, E \cup H \cup T)
    <3>1. (E \cup H) \cap T = {} BY <2>2
    <3> QED BY <2>2, <2>3, <3>1, OrdersJoin
  <2>5. Orders(all, E \cup H \cup T \cup {}) BY <1>4, <2>4, NoOrders, OrdersJoin
  <2>6. ToSet(all) = E \cup H \cup T \cup {} /\ IsInjective(all) BY <2>5, OrdersFacts
  <2>7. /\ InHand(stack, 1, Len(stack)) \cap (E \cup H \cup T) = {}
        /\ InHand(stack, 1, Len(stack)) \cup E \cup H \cup T = 1 .. Len(base)
    BY <2>1 DEF Live, Held
  <2> HIDE DEF all
  <2>8. ToSet(all) \cap BeingEnded = {} /\ ToSet(all) \cup BeingEnded = DOMAIN base
    BY <1>2, <1>3, <2>6, <2>7
  <2> QED BY <2>6, <2>8 DEF NothingIsLost, all
<1>5. CASE freed # << >>
  <2>1. Freed BY <1>5 DEF IInv
  <2>2. Effects = << >> /\ Recorded = << >> /\ Trash = << >> BY <2>1, FreedFacts
  <2>3. Orders(freed, 1 .. Len(base)) BY <2>1 DEF Freed
  <2>4. Orders(Effects \o Recorded, {} \cup {}) BY <2>2, NoOrders, OrdersJoin
  <2>5. Orders(Effects \o Recorded \o Trash, {} \cup {} \cup {})
    BY <2>2, <2>4, NoOrders, OrdersJoin
  <2>6. Orders(all, {} \cup {} \cup {} \cup 1 .. Len(base)) BY <2>3, <2>5, OrdersJoin
  <2>7. ToSet(all) = {} \cup {} \cup {} \cup 1 .. Len(base) /\ IsInjective(all)
    BY <2>6, OrdersFacts
  <2>8. BeingEnded = {}
    <3>1. Len(stack) = 0 BY <2>1, EmptySeq DEF Freed
    <3>2. 1 .. 0 = {} OBVIOUS
    <3> QED BY <1>3, <3>1, <3>2 DEF InHand
  <2> HIDE DEF all
  <2>9. ToSet(all) \cap BeingEnded = {} /\ ToSet(all) \cup BeingEnded = DOMAIN base
    BY <1>2, <2>7, <2>8
  <2> QED BY <2>7, <2>9 DEF NothingIsLost, all
<1> QED BY <1>4, <1>5

LEMMA IInvTypes == IInv => TypeOK
<1> SUFFICES ASSUME IInv PROVE TypeOK
  OBVIOUS
<1>1. Types(base, state, past, stack) BY DEF IInv
<1>2. f \in Pointers
  <2>1. CASE freed = << >>
    <3>1. PICK E, H, T, r : Live(f, base, state, past, stack, E, H, T, r) BY <2>1 DEF IInv
    <3> QED BY <3>1, LiveFacts
  <2>2. CASE freed # << >> BY <2>2 DEF IInv, Freed
  <2> QED BY <2>1, <2>2
<1> QED BY <1>1, <1>2 DEF TypeOK, Types, Pointers, Ptr

LEMMA IInvLinked == IInv => Linked
<1> SUFFICES ASSUME IInv PROVE Linked
  OBVIOUS
<1>1. CASE freed = << >>
  <2>1. PICK E, H, T, r : Live(f, base, state, past, stack, E, H, T, r) BY <1>1 DEF IInv
  <2>2. Listed = E /\ IsList(f, f.head, E, r) BY <2>1, LiveFacts DEF Live, Laid
  <2> QED BY <2>2 DEF Linked, IsList
<1>2. CASE freed # << >>
  <2>1. Freed BY <1>2 DEF IInv
  <2> QED BY <2>1, FreedFacts DEF Linked, Freed
<1> QED BY <1>1, <1>2

LEMMA IInvBare == IInv => FallenAreBare
<1> SUFFICES ASSUME IInv PROVE FallenAreBare
  OBVIOUS
<1>1. CASE freed = << >>
  <2>1. PICK E, H, T, r : Live(f, base, state, past, stack, E, H, T, r) BY <1>1 DEF IInv
  <2>2. Listed = E /\ ToSet(Recorded) = H /\ Bare(base, state, past, E, H)
    BY <2>1, LiveFacts DEF Live
  <2> QED BY <2>2 DEF FallenAreBare, Bare
<1>2. CASE freed # << >>
  <2>1. Freed BY <1>2 DEF IInv
  <2> QED BY <2>1, FreedFacts DEF FallenAreBare
<1> QED BY <1>1, <1>2

(* No effect that the field, its record or the trash has ever held is      *)
(* lost, in two lists or freed twice, and the list can be followed both    *)
(* ways, whatever hooks do to the list in the middle of a walk along it or *)
(* of effect_end().                                                        *)
THEOREM ListStaysWhole == Spec => []ListIsWhole
<1>1. IInv => ListIsWhole BY IInvTypes, IInvLoses, IInvLinked DEF ListIsWhole
<1> QED BY <1>1, IInvAlways, PTL

(* Who has fallen stays without the effects that unit_kill() wiped, and    *)
(* who is roared down without any: no hook under way puts one back, and no *)
(* rewind brings one back from the record.                                 *)
THEOREM FallenStayBare == Spec => []FallenAreBare
BY IInvBare, IInvAlways, PTL

LEMMA StepIsSound ==
  IInv /\ Step /\ ~Top.astray /\ ~Lost(Top) => stack'[Len(stack)].cur \notin f.intrash
<1> SUFFICES ASSUME IInv, Step, ~Top.astray, ~Lost(Top)
             PROVE  stack'[Len(stack)].cur \notin f.intrash
  OBVIOUS
<1>1. /\ Types(base, state, past, stack) /\ freed = << >> /\ stack # << >>
      /\ Top.op = "walk" /\ Top.body
  BY Now DEF Step, In
<1>2. PICK E, H, T, r : Live(f, base, state, past, stack, E, H, T, r) BY <1>1, Now
<1>3. Top \in WalkFrame /\ Tracks(Top, 1 .. Len(base), E, T, {}, r)
  BY <1>1, <1>2, TopTracks
<1>4. PICK w \in WalkFrame : w = Top BY <1>3
<1>5. /\ w.cur \in E \cup T /\ w.nxt \in {Null} \cup E \cup T /\ f.intrash = T
      /\ E \cap T = {} /\ Null \notin T
  <2>1. T \subseteq Node BY <1>2, LiveFacts
  <2> QED BY <1>1, <1>2, <1>3, <1>4, <2>1, LiveFacts, NodeFacts DEF Tracks
<1>6. PICK c : c = Onward(w) OBVIOUS
<1>7. stack'[Len(stack)].cur = c
  <2>1. PICK fr : fr = [w EXCEPT !.body = FALSE, !.cur = c] OBVIOUS
  <2>2. PICK k \in Nat : k = Len(stack) /\ k # 0 BY <1>1, EmptySeq DEF Types
  <2>3. DOMAIN stack = 1 .. k /\ k \in 1 .. k BY <1>1, <2>2, LenProperties DEF Types
  <2>4. stack' = [stack EXCEPT ![k] = fr] BY <1>4, <1>6, <2>1, <2>2 DEF Step, SetTop
  <2>5. stack'[k] = fr BY <2>3, <2>4
  <2>6. fr.cur = c BY <2>1 DEF WalkFrame
  <2> QED BY <2>2, <2>5, <2>6
<1>8. c \notin T
  <2>1. CASE w.cur \in T
    <3>1. w.nxt \notin T BY <1>4, <1>5, <2>1 DEF Lost
    <3> QED BY <1>5, <1>6, <2>1, <3>1 DEF Onward
  <2>2. CASE w.cur \notin T
    <3>1. w.cur \in E /\ IsList(f, f.head, E, r) BY <1>2, <1>5, <2>2 DEF Live, Laid
    <3>2. f.next[w.cur] \in {Null} \cup E BY <3>1 DEF IsList
    <3> QED BY <1>5, <1>6, <2>2, <3>2 DEF Onward
  <2> QED BY <2>1, <2>2
<1> QED BY <1>5, <1>7, <1>8

LEMMA EndIsSound ==
  IInv /\ EndWalk /\ ~Top.astray
    => Top.stay \subseteq ToSet(Top.seen) /\ IsInjective(Top.seen)
<1> SUFFICES ASSUME IInv, EndWalk, ~Top.astray
             PROVE  Top.stay \subseteq ToSet(Top.seen) /\ IsInjective(Top.seen)
  OBVIOUS
<1>1. /\ Types(base, state, past, stack) /\ freed = << >> /\ stack # << >>
      /\ Top.op = "walk" /\ ~Top.body /\ Top.cur = Null
  BY Now DEF EndWalk, In
<1>2. PICK E, H, T, r : Live(f, base, state, past, stack, E, H, T, r) BY <1>1, Now
<1>3. Tracks(Top, 1 .. Len(base), E, T, {}, r) BY <1>1, <1>2, TopTracks
<1> QED BY <1>1, <1>3 DEF Tracks, Onto

(* A walk of for_each_effect() calls the hook of no effect that has ended, *)
(* and that of each effect that stays on the list exactly once, as long as *)
(* it has not lost its place: no insertion, removal, wipe or rewind by the *)
(* hooks it calls makes it miss or repeat an effect.                       *)
THEOREM WalksAreSound == Spec => WalkIsSound
<1>1. IInv /\ [Next]_vars
        => [(Step /\ ~Top.astray /\ ~Lost(Top))
              => stack'[Len(stack)].cur \notin f.intrash]_vars
  BY StepIsSound
<1>2. IInv /\ [Next]_vars
        => [(EndWalk /\ ~Top.astray) => /\ Top.stay \subseteq ToSet(Top.seen)
                                        /\ IsInjective(Top.seen)]_vars
  BY EndIsSound
<1> QED
  BY <1>1, <1>2, IInvAlways, PTL DEF Spec, WalkIsSound, GhostsOnlyWhenLost, WalkIsComplete

-----------------------------------------------------------------------------
(* The order of the hooks.                                                 *)

(* s goes through S, and rank r grows along the way.                       *)
Ranked(s, S, r) ==
  /\ s \in Seq(Node) /\ S = {s[i] : i \in 1 .. Len(s)} /\ S \subseteq Node
  /\ r \in [Node -> Nat]
  /\ \A i, j \in 1 .. Len(s) : i < j => r[s[i]] < r[s[j]]

Kinds(b, list) == [i \in DOMAIN list |-> b[list[i]]]

LEMMA ChainRanked ==
  ASSUME NEW g, NEW h, NEW S, NEW r, IsList(g, h, S, r)
  PROVE  Ranked(Chain(g, h), S, r)
<1>1. Goes(g, h, S, r, Chain(g, h)) BY ChainGoes
<1> QED BY <1>1 DEF Goes, Ranked, IsList

(* s goes through S in c steps, and r says how far along a node is.        *)
GoesThrough(s, S, r, c) ==
  /\ c = Len(s) /\ DOMAIN s = 1 .. c
  /\ \A i \in 1 .. c : s[i] \in S /\ r[s[i]] \in Nat
  /\ \A x \in S : \E i \in 1 .. c : s[i] = x
  /\ \A i, j \in 1 .. c : i < j <=> r[s[i]] < r[s[j]]

LEMMA RankedFacts ==
  ASSUME NEW s, NEW S, NEW r, Ranked(s, S, r)
  PROVE  \E c \in Nat : GoesThrough(s, S, r, c)
<1>1. PICK c \in Nat : c = Len(s) /\ DOMAIN s = 1 .. c
  <2>1. s \in Seq(Node) BY DEF Ranked
  <2>2. Len(s) \in Nat /\ DOMAIN s = 1 .. Len(s) BY <2>1, LenProperties
  <2> QED BY <2>2
<1>2. S = {s[i] : i \in 1 .. c} BY <1>1 DEF Ranked
<1>3. \A i \in 1 .. c : s[i] \in S /\ r[s[i]] \in Nat
  <2> SUFFICES ASSUME NEW i \in 1 .. c PROVE s[i] \in S /\ r[s[i]] \in Nat
    OBVIOUS
  <2>1. s[i] \in S BY <1>2
  <2>2. s[i] \in Node BY <2>1 DEF Ranked
  <2> QED BY <2>1, <2>2 DEF Ranked
<1>4. \A i, j \in 1 .. c : i < j => r[s[i]] < r[s[j]] BY <1>1 DEF Ranked
<1>5. ASSUME NEW i \in 1 .. c, NEW j \in 1 .. c, r[s[i]] < r[s[j]]
      PROVE  i < j
  <2>1. PICK x \in Nat : x = r[s[i]] BY <1>3
  <2>2. PICK y \in Nat : y = r[s[j]] BY <1>3
  <2>3. x < y BY <1>5, <2>1, <2>2
  <2>4. CASE i = j
    <3>1. x = y BY <2>1, <2>2, <2>4
    <3> QED BY <2>3, <3>1
  <2>5. CASE j < i
    <3>1. r[s[j]] < r[s[i]] BY <1>4, <2>5
    <3>2. y < x BY <2>1, <2>2, <3>1
    <3> QED BY <2>3, <3>2
  <2> QED BY <2>4, <2>5
<1>6. \A i, j \in 1 .. c : i < j <=> r[s[i]] < r[s[j]]
  <2> SUFFICES ASSUME NEW i \in 1 .. c, NEW j \in 1 .. c
               PROVE  i < j <=> r[s[i]] < r[s[j]]
    OBVIOUS
  <2>1. i < j => r[s[i]] < r[s[j]] BY <1>4
  <2>2. r[s[i]] < r[s[j]] => i < j BY <1>5
  <2> QED BY <2>1, <2>2
<1>7. \A x \in S : \E i \in 1 .. c : s[i] = x BY <1>2
<1>8. GoesThrough(s, S, r, c) BY <1>1, <1>3, <1>6, <1>7 DEF GoesThrough
<1> QED BY <1>8

(* What is left of the list is some of it.                                 *)
LEMMA RankedSome ==
  ASSUME NEW s, NEW S, NEW r, Ranked(s, S, r),
         NEW u, NEW U, NEW t, Ranked(u, U, t), U \subseteq S, SameOrder(r, t, U),
         NEW b, NEW b1, \A n \in U : b1[n] = b[n]
  PROVE  Order!Some(Kinds(b1, u), Kinds(b, s))
<1>c. PICK c \in Nat : GoesThrough(s, S, r, c) BY RankedFacts
<1>1. /\ c = Len(s) /\ DOMAIN s = 1 .. c
      /\ \A i \in 1 .. c : s[i] \in S /\ r[s[i]] \in Nat
      /\ \A x \in S : \E i \in 1 .. c : s[i] = x
      /\ \A i, j \in 1 .. c : i < j <=> r[s[i]] < r[s[j]]
  BY <1>c DEF GoesThrough
<1>d. PICK d \in Nat : GoesThrough(u, U, t, d) BY RankedFacts
<1>2. /\ d = Len(u) /\ DOMAIN u = 1 .. d
      /\ \A i \in 1 .. d : u[i] \in U /\ t[u[i]] \in Nat
      /\ \A x \in U : \E i \in 1 .. d : u[i] = x
      /\ \A i, j \in 1 .. d : i < j <=> t[u[i]] < t[u[j]]
  BY <1>d DEF GoesThrough
<1> DEFINE at == [i \in 1 .. d |-> CHOOSE j \in 1 .. c : s[j] = u[i]]
<1>3. \A i \in 1 .. d : at[i] \in 1 .. c /\ s[at[i]] = u[i]
  <2> SUFFICES ASSUME NEW i \in 1 .. d PROVE at[i] \in 1 .. c /\ s[at[i]] = u[i]
    OBVIOUS
  <2>1. \E j \in 1 .. c : s[j] = u[i] BY <1>1, <1>2
  <2> QED BY <2>1
<1>4. at \in [1 .. d -> 1 .. c] BY <1>3
<1> HIDE DEF at
<1>5. ASSUME NEW i \in 1 .. d, NEW j \in 1 .. d, i < j PROVE at[i] < at[j]
  <2>1. t[u[i]] < t[u[j]] BY <1>2, <1>5
  <2>2. r[u[i]] < r[u[j]] BY <1>2, <2>1 DEF SameOrder
  <2> QED BY <1>1, <1>3, <2>2
<1>6. DOMAIN Kinds(b1, u) = 1 .. d /\ \A i \in 1 .. d : Kinds(b1, u)[i] = b1[u[i]]
  BY <1>2 DEF Kinds
<1>7. DOMAIN Kinds(b, s) = 1 .. c /\ \A i \in 1 .. c : Kinds(b, s)[i] = b[s[i]]
  BY <1>1 DEF Kinds
<1>8. \A i \in 1 .. d : Kinds(b1, u)[i] = Kinds(b, s)[at[i]] BY <1>2, <1>3, <1>6, <1>7
<1>9. Order!Within(Kinds(b1, u), Kinds(b, s), at) BY <1>4, <1>5, <1>6, <1>7, <1>8 DEF Order!Within
<1> QED BY <1>4, <1>6, <1>7, <1>9 DEF Order!Some

(* There is one way through the same nodes in the same order.              *)
LEMMA RankedSame ==
  ASSUME NEW s, NEW S, NEW r, Ranked(s, S, r),
         NEW u, NEW t, Ranked(u, S, t), SameOrder(r, t, S)
  PROVE  s = u
<1>c. PICK c \in Nat : GoesThrough(s, S, r, c) BY RankedFacts
<1>1. /\ c = Len(s) /\ DOMAIN s = 1 .. c
      /\ \A i \in 1 .. c : s[i] \in S /\ r[s[i]] \in Nat
      /\ \A x \in S : \E i \in 1 .. c : s[i] = x
      /\ \A i, j \in 1 .. c : i < j <=> r[s[i]] < r[s[j]]
  BY <1>c DEF GoesThrough
<1>d. PICK d \in Nat : GoesThrough(u, S, t, d) BY RankedFacts
<1>2. /\ d = Len(u) /\ DOMAIN u = 1 .. d
      /\ \A i \in 1 .. d : u[i] \in S /\ t[u[i]] \in Nat
      /\ \A x \in S : \E i \in 1 .. d : u[i] = x
      /\ \A i, j \in 1 .. d : i < j <=> t[u[i]] < t[u[j]]
  BY <1>d DEF GoesThrough
<1>3. \A i, j \in 1 .. d : i < j <=> r[u[i]] < r[u[j]] BY <1>2 DEF SameOrder
<1>4. ASSUME NEW i \in Nat, i \in 1 .. c \/ i \in 1 .. d, \A k \in 1 .. i - 1 : s[k] = u[k]
      PROVE  i \in 1 .. c /\ i \in 1 .. d /\ s[i] = u[i]
  <2>1. ASSUME NEW j \in 1 .. d, i \in 1 .. c, s[i] = u[j] PROVE i <= j
    <3> SUFFICES ASSUME j < i PROVE FALSE
      OBVIOUS
    <3>1. j \in 1 .. i - 1 /\ j \in 1 .. c BY <2>1
    <3>2. s[j] = s[i] BY <1>4, <2>1, <3>1
    <3>3. r[s[j]] < r[s[i]] BY <1>1, <2>1, <3>1
    <3> QED BY <1>1, <2>1, <3>2, <3>3
  <2>2. ASSUME NEW j \in 1 .. c, i \in 1 .. d, u[i] = s[j] PROVE i <= j
    <3> SUFFICES ASSUME j < i PROVE FALSE
      OBVIOUS
    <3>1. j \in 1 .. i - 1 /\ j \in 1 .. d BY <2>2
    <3>2. u[j] = u[i] BY <1>4, <2>2, <3>1
    <3>3. t[u[j]] < t[u[i]] BY <1>2, <2>2, <3>1
    <3> QED BY <1>2, <2>2, <3>2, <3>3
  <2>3. i \in 1 .. c => i \in 1 .. d
    <3> SUFFICES ASSUME i \in 1 .. c PROVE i \in 1 .. d
      OBVIOUS
    <3>1. PICK j \in 1 .. d : u[j] = s[i] BY <1>1, <1>2
    <3> QED BY <2>1, <3>1
  <2>4. i \in 1 .. d => i \in 1 .. c
    <3> SUFFICES ASSUME i \in 1 .. d PROVE i \in 1 .. c
      OBVIOUS
    <3>1. PICK j \in 1 .. c : s[j] = u[i] BY <1>1, <1>2
    <3> QED BY <2>2, <3>1
  <2>5. i \in 1 .. c /\ i \in 1 .. d BY <1>4, <2>3, <2>4
  <2>6. PICK j \in 1 .. d : u[j] = s[i] BY <1>1, <1>2, <2>5
  <2>7. PICK l \in 1 .. c : s[l] = u[i] BY <1>1, <1>2, <2>5
  <2>8. i <= j /\ i <= l BY <2>1, <2>2, <2>5, <2>6, <2>7
  <2>9. CASE i = j BY <2>5, <2>6, <2>9
  <2>10. CASE i = l BY <2>5, <2>7, <2>10
  <2>11. CASE i < j /\ i < l
    <3>1. r[u[i]] < r[u[j]] BY <1>3, <2>5, <2>11
    <3>2. r[s[i]] < r[s[l]] BY <1>1, <2>5, <2>11
    <3>3. r[s[i]] \in Nat /\ r[s[l]] \in Nat BY <1>1, <2>5
    <3> QED BY <2>6, <2>7, <3>1, <3>2, <3>3
  <2> QED BY <2>8, <2>9, <2>10, <2>11
<1>5. \A i \in Nat : i \in 1 .. c \/ i \in 1 .. d
                       => i \in 1 .. c /\ i \in 1 .. d /\ s[i] = u[i]
  <2> DEFINE Z == {i \in Nat : /\ i \in 1 .. c \/ i \in 1 .. d
                               /\ ~(i \in 1 .. c /\ i \in 1 .. d /\ s[i] = u[i])}
  <2>1. SUFFICES ASSUME Z # {} PROVE FALSE
    OBVIOUS
  <2>2. Z \in SUBSET Nat OBVIOUS
  <2>3. PICK i \in Z : \A k \in Z : i <= k
    <3> HIDE DEF Z
    <3> QED BY <2>1, <2>2, LeastNat
  <2>4. ASSUME NEW k \in 1 .. i - 1 PROVE s[k] = u[k]
    <3>1. k \in Nat /\ ~(i <= k) /\ (k \in 1 .. c \/ k \in 1 .. d) OBVIOUS
    <3>2. k \notin Z BY <2>3, <3>1
    <3> QED BY <3>1, <3>2
  <2> QED BY <1>4, <2>4
<1>6. c = d
  <2>1. c \in 1 .. c => c \in 1 .. d BY <1>5
  <2>2. d \in 1 .. d => d \in 1 .. c BY <1>5
  <2> QED BY <2>1, <2>2
<1>7. Len(s) = Len(u) /\ \A i \in 1 .. Len(s) : s[i] = u[i] BY <1>1, <1>2, <1>5, <1>6
<1> QED BY <1>7, SeqEqual DEF Ranked

(* With n put in where it belongs, the others stay as they were.           *)
IsPutIn(u, s, i, n, p) ==
  /\ Len(u) = Len(s) + 1
  /\ \A j \in 1 .. Len(s) : j <= i <=> p[s[j]] >= p[n]
  /\ \A j \in 1 .. Len(s) + 1 :
       u[j] = IF j <= i THEN s[j] ELSE IF j = i + 1 THEN n ELSE s[j - 1]

LEMMA RankedPutIn ==
  ASSUME NEW s, NEW E, NEW r, Ranked(s, E, r), NEW n \in Node \ E,
         NEW u, NEW t, Ranked(u, E \cup {n}, t), SameOrder(r, t, E),
         NEW p, Belongs(E, n, t, p)
  PROVE  \E i \in 0 .. Len(s) : IsPutIn(u, s, i, n, p)
<1>d. PICK d \in Nat : GoesThrough(u, E \cup {n}, t, d) BY RankedFacts
<1>1. /\ d = Len(u) /\ DOMAIN u = 1 .. d
      /\ \A i \in 1 .. d : u[i] \in E \cup {n} /\ t[u[i]] \in Nat
      /\ \A x \in E \cup {n} : \E i \in 1 .. d : u[i] = x
      /\ \A i, j \in 1 .. d : i < j <=> t[u[i]] < t[u[j]]
  BY <1>d DEF GoesThrough
<1>2. PICK l \in 1 .. d : u[l] = n BY <1>1
<1>3. PICK e \in Nat : e = d - 1 OBVIOUS
<1> DEFINE w == [j \in 1 .. e |-> IF j < l THEN u[j] ELSE u[j + 1]]
<1>4. \A j \in 1 .. e : /\ j \in 1 .. d /\ j + 1 \in 1 .. d
                       /\ w[j] = IF j < l THEN u[j] ELSE u[j + 1]
  BY <1>3
<1>5. \A i \in 1 .. d : i # l => u[i] \in E
  <2> SUFFICES ASSUME NEW i \in 1 .. d, i # l PROVE u[i] \in E
    OBVIOUS
  <2>1. u[i] # n
    <3>1. i < l \/ l < i OBVIOUS
    <3>2. t[u[i]] < t[u[l]] \/ t[u[l]] < t[u[i]] BY <1>1, <3>1
    <3> QED BY <1>1, <1>2, <3>2
  <2> QED BY <1>1, <2>1
<1>6. \A j \in 1 .. e : w[j] \in E /\ w[j] \in Node
  <2> SUFFICES ASSUME NEW j \in 1 .. e PROVE w[j] \in E /\ w[j] \in Node
    OBVIOUS
  <2>1. w[j] \in E BY <1>4, <1>5
  <2> QED BY <2>1 DEF Ranked
<1>7. w \in Seq(Node) /\ Len(w) = e
  <2>1. w \in [1 .. e -> Node] BY <1>6
  <2>2. w \in Seq(Node) BY <2>1, SeqDef
  <2> QED BY <1>3, <2>1, <2>2, LenProperties
<1> HIDE DEF w
<1>8. E = {w[j] : j \in 1 .. e}
  <2> SUFFICES ASSUME NEW x \in E PROVE \E j \in 1 .. e : w[j] = x
    BY <1>6
  <2>1. PICK i \in 1 .. d : u[i] = x BY <1>1
  <2>2. i # l BY <1>2, <2>1
  <2>3. CASE i < l
    <3>1. i \in 1 .. e BY <1>3, <2>3
    <3> QED BY <1>4, <2>1, <2>3, <3>1
  <2>4. CASE l < i
    <3>1. i - 1 \in 1 .. e /\ ~(i - 1 < l) /\ i - 1 + 1 = i BY <1>3, <2>4
    <3> QED BY <1>4, <2>1, <3>1
  <2> QED BY <2>2, <2>3, <2>4
<1>9. ASSUME NEW i \in 1 .. e, NEW j \in 1 .. e, i < j PROVE t[w[i]] < t[w[j]]
  <2>1. PICK a \in 1 .. d : a = (IF i < l THEN i ELSE i + 1) BY <1>4
  <2>2. PICK b \in 1 .. d : b = (IF j < l THEN j ELSE j + 1) BY <1>4
  <2>3. a < b BY <1>9, <2>1, <2>2
  <2>4. w[i] = u[a] /\ w[j] = u[b] BY <1>4, <2>1, <2>2
  <2> QED BY <1>1, <2>3, <2>4
<1>10. Ranked(w, E, t) BY <1>7, <1>8, <1>9 DEF Ranked
<1>11. s = w BY <1>10, RankedSame
<1>12. l - 1 \in 0 .. e BY <1>3
<1>13. ASSUME NEW j \in 1 .. e PROVE j <= l - 1 <=> p[s[j]] >= p[n]
  <2>1. j <= l - 1 <=> j < l OBVIOUS
  <2>2. j < l <=> t[s[j]] < t[n]
    <3>1. CASE j < l BY <1>1, <1>2, <1>4, <1>11, <3>1
    <3>2. CASE ~(j < l)
      <4>1. l < j + 1 /\ ~(j + 1 < l) BY <3>2
      <4>2. ~(t[u[j + 1]] < t[u[l]]) BY <1>1, <1>4, <4>1
      <4> QED BY <1>2, <1>4, <1>11, <3>2, <4>2
    <3> QED BY <3>1, <3>2
  <2>3. s[j] \in E BY <1>6, <1>11
  <2> QED BY <2>1, <2>2, <2>3 DEF Belongs
<1>14. ASSUME NEW j \in 1 .. e + 1
       PROVE  u[j] = IF j <= l - 1 THEN s[j] ELSE IF j = l - 1 + 1 THEN n ELSE s[j - 1]
  <2>1. CASE j < l
    <3>1. j \in 1 .. e /\ j <= l - 1 BY <1>3, <2>1
    <3> QED BY <1>4, <1>11, <2>1, <3>1
  <2>2. CASE j = l
    <3>1. ~(j <= l - 1) /\ j = l - 1 + 1 BY <2>2
    <3> QED BY <1>2, <2>2, <3>1
  <2>3. CASE l < j
    <3>1. j - 1 \in 1 .. e /\ ~(j - 1 < l) /\ j - 1 + 1 = j /\ ~(j <= l - 1) /\ j # l - 1 + 1
      BY <1>3, <2>3
    <3> QED BY <1>4, <1>11, <3>1
  <2> QED BY <2>1, <2>2, <2>3
<1>15. Len(s) = e /\ Len(u) = e + 1 BY <1>1, <1>3, <1>7, <1>11
<1>16. IsPutIn(u, s, l - 1, n, p) BY <1>13, <1>14, <1>15 DEF IsPutIn
<1> QED BY <1>12, <1>15, <1>16

(* The new effect is put in.                                               *)
LEMMA KindsPutIn ==
  ASSUME NEW s, NEW E, NEW r, Ranked(s, E, r), NEW n \in Node \ E,
         NEW u, NEW t, Ranked(u, E \cup {n}, t), SameOrder(r, t, E),
         NEW b, NEW b1, \A x \in E : b1[x] = b[x],
         NEW p, Belongs(E, n, t, p), \A x \in E \cup {n} : p[x] = Prior[b1[x]]
  PROVE  LET o == Kinds(b, s)
         IN  \E i \in 0 .. Len(o) :
               /\ \A j \in DOMAIN o : j <= i <=> Prior[o[j]] >= Prior[b1[n]]
               /\ Order!PutIn(Kinds(b1, u), o, i, b1[n])
<1> DEFINE o == Kinds(b, s)
           q == Kinds(b1, u)
<1>c. PICK c \in Nat : GoesThrough(s, E, r, c) BY RankedFacts
<1>1. /\ c = Len(s) /\ DOMAIN s = 1 .. c
      /\ \A i \in 1 .. c : s[i] \in E
  BY <1>c DEF GoesThrough
<1>2. PICK i \in 0 .. c :
        /\ Len(u) = c + 1
        /\ \A j \in 1 .. c : j <= i <=> p[s[j]] >= p[n]
        /\ \A j \in 1 .. c + 1 :
             u[j] = IF j <= i THEN s[j] ELSE IF j = i + 1 THEN n ELSE s[j - 1]
  <2>1. PICK i \in 0 .. Len(s) : IsPutIn(u, s, i, n, p) BY RankedPutIn
  <2> QED BY <1>1, <2>1 DEF IsPutIn
<1>3. DOMAIN u = 1 .. c + 1 BY <1>2, LenProperties DEF Ranked
<1>4. DOMAIN o = 1 .. c /\ Len(o) = c /\ \A j \in 1 .. c : o[j] = b[s[j]]
  <2>1. o = [j \in 1 .. c |-> b[s[j]]] BY <1>1 DEF Kinds
  <2> QED BY <2>1
<1>5. q = [j \in 1 .. c + 1 |-> b1[u[j]]] BY <1>3 DEF Kinds
<1> HIDE DEF o, q
<1>6. ASSUME NEW j \in 1 .. c + 1
      PROVE  b1[u[j]] = IF j <= i THEN o[j] ELSE IF j = i + 1 THEN b1[n] ELSE o[j - 1]
  <2>1. CASE j <= i
    <3>1. j \in 1 .. c BY <2>1
    <3> QED BY <1>1, <1>2, <1>4, <2>1, <3>1
  <2>2. CASE j = i + 1
    <3>1. ~(j <= i) BY <2>2
    <3> QED BY <1>2, <2>2, <3>1
  <2>3. CASE ~(j <= i) /\ j # i + 1
    <3>1. j - 1 \in 1 .. c BY <2>3
    <3> QED BY <1>1, <1>2, <1>4, <2>3, <3>1
  <2> QED BY <2>1, <2>2, <2>3
<1>7. Order!PutIn(q, o, i, b1[n])
  <2>1. q = [j \in 1 .. c + 1 |-> IF j <= i THEN o[j] ELSE IF j = i + 1 THEN b1[n]
                                 ELSE o[j - 1]]
    BY <1>5, <1>6
  <2> QED BY <1>4, <2>1 DEF Order!PutIn
<1>8. \A j \in DOMAIN o : j <= i <=> Prior[o[j]] >= Prior[b1[n]]
  <2>1. \A j \in 1 .. c : p[s[j]] = Prior[o[j]] BY <1>1, <1>4
  <2> QED BY <1>2, <1>4, <2>1
<1>9. i \in 0 .. Len(o) BY <1>4
<1> QED BY <1>7, <1>8, <1>9 DEF o, q

(* Copies in their order have the kinds of the list.                       *)
LEMMA KindsOfCopies ==
  ASSUME base \in Seq(Kind), NEW list, NEW S, Orders(list, S), S \subseteq 1 .. Len(base),
         NEW b \in Nat, b = Len(base), NEW k \in Nat, k = Len(list),
         NEW u, NEW t, Ranked(u, Copied(b, k), t),
         \A i, j \in Copied(b, k) : i < j => t[i] < t[j]
  PROVE  Kinds(base \o KindsOf(list), u) = KindsOf(list)
<1> DEFINE w == [i \in 1 .. k |-> b + i]
           q == KindsOf(list)
<1>1. \A i \in 1 .. k : w[i] = b + i /\ w[i] \in Copied(b, k) BY DEF Copied
<1>2. Copied(b, k) \subseteq Node /\ t \in [Node -> Nat] BY DEF Ranked
<1>3. w \in Seq(Node) /\ Len(w) = k
  <2>1. w \in [1 .. k -> Node] BY <1>1, <1>2
  <2>2. w \in Seq(Node) BY <2>1, SeqDef
  <2> QED BY <2>1, <2>2, LenProperties
<1> HIDE DEF w
<1>4. Copied(b, k) = {w[i] : i \in 1 .. k}
  <2>1. \A n \in b + 1 .. b + k : n - b \in 1 .. k /\ b + (n - b) = n OBVIOUS
  <2>2. \A n \in Copied(b, k) : \E i \in 1 .. k : w[i] = n BY <1>1, <2>1 DEF Copied
  <2> QED BY <1>1, <2>2
<1>5. \A i, j \in 1 .. k : i < j => t[w[i]] < t[w[j]]
  <2>1. \A i, j \in 1 .. k : i < j => b + i < b + j OBVIOUS
  <2> QED BY <1>1, <2>1
<1>6. Ranked(w, Copied(b, k), t) BY <1>2, <1>3, <1>4, <1>5 DEF Ranked
<1>7. SameOrder(t, t, Copied(b, k)) BY DEF SameOrder
<1>8. u = w BY <1>6, <1>7, RankedSame
<1>9. DOMAIN list = 1 .. k /\ DOMAIN w = 1 .. k BY <1>3, LenProperties DEF Orders
<1>10. q = [i \in 1 .. k |-> base[list[i]]] BY <1>9 DEF KindsOf
<1>11. q \in Seq(Kind) /\ Len(q) = k
  <2>1. \A i \in 1 .. k : base[list[i]] \in Kind
    <3>1. \A i \in 1 .. k : list[i] \in 1 .. Len(base) BY DEF Orders
    <3> QED BY <3>1, ElementOfSeq
  <2>2. q \in [1 .. k -> Kind] BY <1>10, <2>1
  <2>3. q \in Seq(Kind) BY <2>2, SeqDef
  <2> QED BY <2>2, <2>3, LenProperties
<1> HIDE DEF q
<1>12. PICK c : c = base \o q OBVIOUS
<1>13. \A i \in 1 .. k : c[b + i] = q[i]
  <2>1. \A i \in 1 .. Len(base) + Len(q) :
          (base \o q)[i] = IF i <= Len(base) THEN base[i] ELSE q[i - Len(base)]
    BY <1>11, ConcatProperties
  <2>2. \A i \in 1 .. b + k : c[i] = IF i <= b THEN base[i] ELSE q[i - b]
    BY <1>11, <1>12, <2>1
  <2>3. \A i \in 1 .. k : b + i \in 1 .. b + k /\ ~(b + i <= b) /\ b + i - b = i OBVIOUS
  <2> QED BY <2>2, <2>3
<1>14. Kinds(c, w) = [i \in 1 .. k |-> q[i]] BY <1>1, <1>9, <1>13 DEF Kinds
<1>15. q = [i \in 1 .. k |-> q[i]] BY <1>10
<1> QED BY <1>8, <1>12, <1>14, <1>15 DEF q

(* The lists fall by priority.                                             *)
Falling(o) == \A i, j \in DOMAIN o : i < j => Prior[o[i]] >= Prior[o[j]]
Sorted == Falling(KindsOf(Effects)) /\ Falling(KindsOf(Recorded))

LEMMA SomeFalls ==
  ASSUME NEW s, NEW o, Order!Some(s, o), Falling(o)
  PROVE  Falling(s)
<1>1. PICK at \in [DOMAIN s -> DOMAIN o] : Order!Within(s, o, at) BY DEF Order!Some
<1> QED BY <1>1 DEF Order!Within, Falling

LEMMA PutInFalls ==
  ASSUME NEW o \in Seq(Kind), NEW q, NEW k \in Kind, NEW i \in 0 .. Len(o),
         \A j \in DOMAIN o : j <= i <=> Prior[o[j]] >= Prior[k],
         Order!PutIn(q, o, i, k), Falling(o)
  PROVE  Falling(q)
<1>1. PICK c \in Nat : c = Len(o) /\ DOMAIN o = 1 .. c BY LenProperties
<1>2. /\ DOMAIN q = 1 .. c + 1
      /\ \A j \in 1 .. c + 1 : q[j] = IF j <= i THEN o[j] ELSE IF j = i + 1 THEN k ELSE o[j - 1]
  BY <1>1 DEF Order!PutIn
<1>3. \A j \in 1 .. c : Prior[o[j]] \in Int
  BY <1>1, ElementOfSeq, EffectListAssumption
<1>4. Prior[k] \in Int BY EffectListAssumption
<1>5. ASSUME NEW x \in 1 .. c + 1, NEW y \in 1 .. c + 1, x < y
      PROVE  Prior[q[x]] >= Prior[q[y]]
  <2>1. CASE y <= i
    <3>1. x \in 1 .. c /\ y \in 1 .. c /\ x <= i BY <1>1, <1>5, <2>1
    <3>2. q[x] = o[x] /\ q[y] = o[y] BY <1>2, <2>1, <3>1
    <3> QED BY <1>1, <1>5, <3>1, <3>2 DEF Falling
  <2>2. CASE y = i + 1
    <3>1. x \in 1 .. c /\ x <= i /\ ~(y <= i) BY <1>1, <1>5, <2>2
    <3>2. q[x] = o[x] /\ q[y] = k BY <1>2, <2>2, <3>1
    <3> QED BY <1>1, <3>1, <3>2
  <2>3. CASE i + 1 < y
    <3>1. y - 1 \in 1 .. c /\ ~(y <= i) /\ y # i + 1 /\ ~(y - 1 <= i) BY <1>1, <2>3
    <3>2. q[y] = o[y - 1] BY <1>2, <3>1
    <3>3. ~(Prior[o[y - 1]] >= Prior[k]) BY <1>1, <3>1
    <3>4. CASE x <= i
      <4>1. x \in 1 .. c /\ x < y - 1 BY <1>1, <1>5, <2>3, <3>4
      <4>2. q[x] = o[x] BY <1>2, <3>4
      <4> QED BY <1>1, <3>1, <3>2, <4>1, <4>2 DEF Falling
    <3>5. CASE x = i + 1
      <4>1. q[x] = k BY <1>2, <3>5
      <4> QED BY <1>3, <1>4, <3>1, <3>2, <3>3, <4>1
    <3>6. CASE i + 1 < x
      <4>1. x - 1 \in 1 .. c /\ x - 1 < y - 1 /\ ~(x <= i) /\ x # i + 1
        BY <1>1, <1>5, <3>1, <3>6
      <4>2. q[x] = o[x - 1] BY <1>2, <4>1
      <4> QED BY <1>1, <3>1, <3>2, <4>1, <4>2 DEF Falling
    <3> QED BY <3>4, <3>5, <3>6
  <2> QED BY <2>1, <2>2, <2>3
<1> QED BY <1>2, <1>5 DEF Falling

LEMMA FallingFalls ==
  ASSUME NEW s, NEW E, NEW r, Ranked(s, E, r), NEW b, NEW p,
         \A x \in E : p[x] = Prior[b[x]], Falling(Kinds(b, s))
  PROVE  Falls(E, r, p)
<1>c. PICK c \in Nat : GoesThrough(s, E, r, c) BY RankedFacts
<1>1. /\ c = Len(s) /\ DOMAIN s = 1 .. c
      /\ \A i \in 1 .. c : s[i] \in E /\ r[s[i]] \in Nat
      /\ \A x \in E : \E i \in 1 .. c : s[i] = x
      /\ \A i, j \in 1 .. c : i < j <=> r[s[i]] < r[s[j]]
  BY <1>c DEF GoesThrough
<1> SUFFICES ASSUME NEW x \in E, NEW y \in E, r[x] < r[y] PROVE p[x] >= p[y]
  BY DEF Falls
<1>2. PICK i \in 1 .. c : s[i] = x BY <1>1
<1>3. PICK j \in 1 .. c : s[j] = y BY <1>1
<1>4. i < j BY <1>1, <1>2, <1>3
<1>5. DOMAIN Kinds(b, s) = 1 .. c /\ \A l \in 1 .. c : Kinds(b, s)[l] = b[s[l]]
  BY <1>1 DEF Kinds
<1> QED BY <1>2, <1>3, <1>4, <1>5 DEF Falling

(* The lists before a step and after it                                    *)
LEMMA ListsBefore ==
  ASSUME NEW E, NEW H, NEW T, NEW r, Live(f, base, state, past, stack, E, H, T, r)
  PROVE  Ranked(Effects, E, r) /\ Ranked(Recorded, H, r)
<1>1. IsList(f, f.head, E, r) /\ IsList(f, f.hist, H, r) BY DEF Live, Laid
<1> QED BY <1>1, ChainRanked DEF Effects, Recorded

LEMMA ListsAfter ==
  ASSUME NEW E, NEW H, NEW t, IsList(f', f'.head, E, t), IsList(f', f'.hist, H, t)
  PROVE  Ranked(Effects', E, t) /\ Ranked(Recorded', H, t)
<1>1. PICK g : g = f' OBVIOUS
<1>2. Ranked(Chain(g, g.head), E, t) /\ Ranked(Chain(g, g.hist), H, t) BY <1>1, ChainRanked
<1> QED BY <1>1, <1>2 DEF Effects, Recorded

LEMMA LaidAfter ==
  ASSUME NEW D, NEW E, NEW H, NEW T, NEW t, Laid(f', D, E, H, T, t)
  PROVE  Ranked(Effects', E, t) /\ Ranked(Recorded', H, t)
BY ListsAfter DEF Laid

LEMMA KindsBoth ==
  /\ KindsOf(Effects) = Kinds(base, Effects) /\ KindsOf(Recorded) = Kinds(base, Recorded)
  /\ KindsOf(Effects)' = Kinds(base', Effects')
  /\ KindsOf(Recorded)' = Kinds(base', Recorded')
BY DEF KindsOf, Kinds

(* Effects leave the lists.                                                *)
LEMMA LeavesInOrder ==
  ASSUME NEW E, NEW H, NEW T, NEW r, Live(f, base, state, past, stack, E, H, T, r),
         NEW G, NEW J, NEW t, Ranked(Effects', G, t), Ranked(Recorded', J, t),
         G \subseteq E, J \subseteq H, SameOrder(r, t, G), SameOrder(r, t, J),
         UNCHANGED base
  PROVE  Order!Remove
<1>1. Ranked(Effects, E, r) /\ Ranked(Recorded, H, r) BY ListsBefore
<1>2. Order!Some(Kinds(base', Effects'), Kinds(base, Effects))
  <2>1. \A n \in G : base'[n] = base[n] OBVIOUS
  <2> QED BY <1>1, <2>1, RankedSome
<1>3. Order!Some(Kinds(base', Recorded'), Kinds(base, Recorded))
  <2>1. \A n \in J : base'[n] = base[n] OBVIOUS
  <2> QED BY <1>1, <2>1, RankedSome
<1> QED BY <1>2, <1>3, KindsBoth DEF Order!Remove

LEMMA DropInOrder == ASSUME NEW n \in Node PROVE IInv /\ Drop(n) => Order!Remove
<1> SUFFICES ASSUME IInv, Drop(n) PROVE Order!Remove
  OBVIOUS
<1>1. PICK E, H, T, r : Live(f, base, state, past, stack, E, H, T, r) BY Now DEF Drop, May
<1>2. n \in E /\ f' = EffectFinal(f, n) /\ base' = base BY <1>1, LiveFacts DEF Drop
<1> DEFINE t == First(r, n)
           G == E \ {n}
           U == T \cup {n}
<1>3. Laid(f', 1 .. Len(base), G, H, U, t) /\ SameOrder(r, t, Node \ {n})
  BY <1>1, <1>2, FinalLaid DEF Live
<1>4. SameOrder(r, t, G) /\ SameOrder(r, t, H)
  <2>1. G \in SUBSET (Node \ {n}) /\ H \in SUBSET (Node \ {n})
    BY <1>1, <1>2, LiveFacts
  <2> QED BY <1>3, <2>1, SameOrderSub
<1> HIDE DEF t, U
<1>5. Ranked(Effects', G, t) /\ Ranked(Recorded', H, t) BY <1>3, LaidAfter
<1> QED BY <1>1, <1>2, <1>4, <1>5, LeavesInOrder

LEMMA EndInOrder == ASSUME NEW n \in Node PROVE IInv /\ End(n) => Order!Remove
<1> SUFFICES ASSUME IInv, End(n) PROVE Order!Remove
  OBVIOUS
<1>1. PICK E, H, T, r : Live(f, base, state, past, stack, E, H, T, r) BY Now DEF End, May
<1>2. n \in E /\ f' = EffectRemove(f, n) /\ base' = base BY <1>1, LiveFacts DEF End
<1> DEFINE G == E \ {n}
<1>3. Laid(f', 1 .. Len(base), G, H, T, r) BY <1>1, <1>2, RemoveLaid DEF Live
<1>4. SameOrder(r, r, G) /\ SameOrder(r, r, H) BY DEF SameOrder
<1>5. Ranked(Effects', G, r) /\ Ranked(Recorded', H, r) BY <1>3, LaidAfter
<1> QED BY <1>1, <1>2, <1>4, <1>5, LeavesInOrder

LEMMA EndedInOrder == IInv /\ Ended => Order!Remove
<1> SUFFICES ASSUME IInv, Ended PROVE Order!Remove
  OBVIOUS
<1>1. stack # << >> /\ Top.op = "end" /\ stack \in Seq(Frame)
  BY Now DEF Ended, In, Types
<1>2. PICK E, H, T, r : Live(f, base, state, past, stack, E, H, T, r) BY <1>1, Now
<1>3. PICK k \in Nat : k = Len(stack) /\ k # 0 BY <1>1, EmptySeq
<1>4. PICK n : n = Top.node OBVIOUS
<1>5. PICK D : D = 1 .. Len(base) OBVIOUS
<1>6. n \in D \ (E \cup H \cup T)
  <2>1. k \in 1 .. k BY <1>3
  <2>2. n \in InHand(stack, 1, k) BY <1>1, <1>3, <1>4, <2>1 DEF InHand, Top
  <2> QED BY <1>2, <1>3, <1>5, <2>2 DEF Live, Held
<1>7. Laid(f, D, E, H, T, r) BY <1>2, <1>5 DEF Live
<1>8. PICK t : t = First(r, n) OBVIOUS
<1>9. Laid(EffectFree(f, n), D, E, H, T \cup {n}, t) /\ SameOrder(r, t, Node \ {n})
  <2>1. /\ Laid(EffectFree(f, n), D, E, H, T \cup {n}, First(r, n))
        /\ SameOrder(r, First(r, n), Node \ {n})
    <3>1. InNoList(f, D, E, H, T, r, n) BY <1>6, <1>7 DEF InNoList
    <3> QED BY <3>1, FreeLaid
  <2> QED BY <1>8, <2>1
<1>10. f' = EffectFree(f, n) /\ base' = base BY <1>4 DEF Ended
<1>11. Ranked(Effects', E, t) /\ Ranked(Recorded', H, t)
  <2>1. Laid(f', D, E, H, T \cup {n}, t) BY <1>9, <1>10
  <2> QED BY <2>1, LaidAfter
<1>12. SameOrder(r, t, E) /\ SameOrder(r, t, H)
  <2>1. E \in SUBSET (Node \ {n}) /\ H \in SUBSET (Node \ {n}) BY <1>6, <1>7, LaidFacts
  <2> QED BY <1>9, <2>1, SameOrderSub
<1> QED BY <1>2, <1>10, <1>11, <1>12, LeavesInOrder

LEMMA KillInOrder == ASSUME NEW u \in Unit PROVE IInv /\ Kill(u) => Order!Remove
<1> SUFFICES ASSUME IInv, Kill(u) PROVE Order!Remove
  OBVIOUS
<1>1. PICK E, H, T, r : Live(f, base, state, past, stack, E, H, T, r) BY Now DEF Kill, May
<1>2. PICK N : N = Wiped(u, Kept) OBVIOUS
<1>3. f' = Finals(f, Effects, N) /\ base' = base BY <1>2 DEF Kill
<1>4. PICK D : D = 1 .. Len(base) OBVIOUS
<1>5. Laid(f, D, E, H, T, r) /\ Orders(Effects, E) BY <1>1, <1>4, LiveFacts DEF Live
<1>6. PICK t : /\ Laid(f', D, E \ N, H, T \cup (E \cap N), t)
               /\ SameOrder(r, t, Node \ (E \cap N))
  <2>1. \E t : /\ Laid(Finals(f, Effects, N), D, E \ N, H, T \cup (E \cap N), t)
               /\ Untouched(f, Finals(f, Effects, N), Node \ (E \cup T))
               /\ SameOrder(r, t, Node \ (E \cap N))
    BY <1>5, FinalsLaid
  <2> QED BY <1>3, <2>1
<1>7. SameOrder(r, t, E \ N) /\ SameOrder(r, t, H)
  <2>1. E \ N \in SUBSET (Node \ (E \cap N)) /\ H \in SUBSET (Node \ (E \cap N))
    BY <1>5, LaidFacts
  <2> QED BY <1>6, <2>1, SameOrderSub
<1>8. Ranked(Effects', E \ N, t) /\ Ranked(Recorded', H, t) BY <1>6, LaidAfter
<1> QED BY <1>1, <1>3, <1>7, <1>8, LeavesInOrder

LEMMA RoarDownInOrder == ASSUME NEW u \in Unit PROVE IInv /\ RoarDown(u) => Order!Remove
<1> SUFFICES ASSUME IInv, RoarDown(u) PROVE Order!Remove
  OBVIOUS
<1>1. PICK E, H, T, r : Live(f, base, state, past, stack, E, H, T, r)
  BY Now DEF RoarDown, May
<1>2. PICK N : N = Wiped(u, {}) OBVIOUS
<1>3. PICK M : M = {n \in ToSet(Recorded) : Dest[base[n]] = u} OBVIOUS
<1>4. PICK g : g = Struck(f, Recorded, M) OBVIOUS
<1>5. f' = Finals(g, Effects, N) /\ base' = base
  BY <1>2, <1>3, <1>4 DEF RoarDown, StruckFromRecord
<1>6. PICK D : D = 1 .. Len(base) OBVIOUS
<1>7. Laid(f, D, E, H, T, r) /\ Orders(Effects, E) /\ Orders(Recorded, H)
  BY <1>1, <1>6, LiveFacts DEF Live
<1>8. PICK J : J = H \ M OBVIOUS
<1>9. PICK V : V = T \cup (H \cap M) OBVIOUS
<1>10. PICK t : Laid(g, D, E, J, V, t) /\ SameOrder(r, t, Node \ (H \cap M))
  <2>1. \E t : /\ Laid(Struck(f, Recorded, M), D, E, H \ M, T \cup (H \cap M), t)
               /\ SameOrder(r, t, Node \ (H \cap M))
    BY <1>7, StruckLaid
  <2> QED BY <1>4, <1>8, <1>9, <2>1
<1>11. PICK x : /\ Laid(f', D, E \ N, J, V \cup (E \cap N), x)
                /\ SameOrder(t, x, Node \ (E \cap N))
  <2>1. \E x : /\ Laid(Finals(g, Effects, N), D, E \ N, J, V \cup (E \cap N), x)
               /\ Untouched(g, Finals(g, Effects, N), Node \ (E \cup V))
               /\ SameOrder(t, x, Node \ (E \cap N))
    BY <1>7, <1>10, FinalsLaid
  <2> QED BY <1>5, <2>1
<1>12. SameOrder(r, x, E \ N) /\ SameOrder(r, x, J)
  <2>1. /\ E \ N \in SUBSET (Node \ (E \cap N)) /\ J \in SUBSET (Node \ (E \cap N))
        /\ E \ N \in SUBSET (Node \ (H \cap M)) /\ J \in SUBSET (Node \ (H \cap M))
    BY <1>7, <1>8, LaidFacts
  <2>2. /\ SameOrder(r, t, E \ N) /\ SameOrder(t, x, E \ N)
        /\ SameOrder(r, t, J) /\ SameOrder(t, x, J)
    BY <1>10, <1>11, <2>1, SameOrderSub
  <2> QED BY <2>2 DEF SameOrder
<1>13. Ranked(Effects', E \ N, x) /\ Ranked(Recorded', J, x) BY <1>11, LaidAfter
<1>14. J \subseteq H BY <1>8
<1> QED BY <1>1, <1>5, <1>12, <1>13, <1>14, LeavesInOrder

(* field_free() leaves neither list.                                       *)
LEMMA FieldFreeInOrder == IInv /\ FieldFree => Order!Remove
<1> SUFFICES ASSUME IInv, FieldFree PROVE Order!Remove
  OBVIOUS
<1>1. PICK E, H, T, r : Live(f, base, state, past, stack, E, H, T, r)
  BY Now DEF FieldFree
<1>2. PICK D : D = 1 .. Len(base) OBVIOUS
<1>3. /\ Laid(f, D, E, H, T, r) /\ Orders(Effects, E) /\ Orders(Recorded, H)
      /\ ToSet(Effects) = E /\ ToSet(Recorded) = H
  <2>1. Laid(f, D, E, H, T, r) BY <1>1, <1>2 DEF Live
  <2>2. Orders(Effects, E) /\ Orders(Recorded, H) BY <1>1, LiveFacts
  <2>3. Listed = E /\ ToSet(Recorded) = H BY <1>1, LiveFacts
  <2> QED BY <2>1, <2>2, <2>3 DEF Listed
<1>4. PICK z : z = Finals(f, Effects, E) OBVIOUS
<1>5. PICK g : g = Struck(z, Recorded, H) OBVIOUS
<1>6. PICK U : U = T \cup E OBVIOUS
<1>7. PICK t : Laid(z, D, {}, H, U, t)
  <2>1. \E t : /\ Laid(z, D, E \ E, H, T \cup (E \cap E), t)
               /\ Untouched(f, z, Node \ (E \cup T))
               /\ SameOrder(r, t, Node \ (E \cap E))
    BY <1>3, <1>4, FinalsLaid
  <2>2. E \ E = {} /\ T \cup (E \cap E) = U BY <1>6
  <2> QED BY <2>1, <2>2
<1>8. PICK x : Laid(g, D, {}, {}, U \cup H, x)
  <2>1. \E x : /\ Laid(g, D, {}, H \ H, U \cup (H \cap H), x)
               /\ SameOrder(t, x, Node \ (H \cap H))
    BY <1>3, <1>5, <1>7, StruckLaid
  <2>2. H \ H = {} /\ U \cup (H \cap H) = U \cup H OBVIOUS
  <2> QED BY <2>1, <2>2
<1>9. f' = [g EXCEPT !.trash = Null] /\ base' = base
  BY <1>3, <1>4, <1>5 DEF FieldFree, FreeAll
<1>10. IsList(f', f'.head, {}, x) /\ IsList(f', f'.hist, {}, x)
  <2>1. g \in Pointers /\ g.head = Null /\ g.hist = Null /\ x \in [Node -> Nat]
    BY <1>8 DEF Laid, IsList
  <2>2. PICK a : a = [g EXCEPT !.trash = Null] OBVIOUS
  <2>3. a.head = Null /\ a.hist = Null BY <2>1, <2>2 DEF Pointers
  <2>4. IsList(a, a.head, {}, x) /\ IsList(a, a.hist, {}, x) BY <2>1, <2>3 DEF IsList
  <2> QED BY <1>9, <2>2, <2>4
<1>11. Ranked(Effects', {}, x) /\ Ranked(Recorded', {}, x) BY <1>10, ListsAfter
<1>12. SameOrder(r, x, {}) BY DEF SameOrder
<1> QED BY <1>1, <1>9, <1>11, <1>12, LeavesInOrder

(* A list of the same effects in the same order                            *)
LEMMA KindsStay ==
  ASSUME NEW s, NEW S, NEW r, Ranked(s, S, r), NEW u, NEW t, Ranked(u, S, t),
         SameOrder(r, t, S), NEW b, NEW b1, \A n \in S : b1[n] = b[n]
  PROVE  Kinds(b1, u) = Kinds(b, s)
<1>1. s = u BY RankedSame
<1>2. \A i \in DOMAIN s : s[i] \in S BY LenProperties DEF Ranked
<1> QED BY <1>1, <1>2 DEF Kinds

LEMMA AddInOrder ==
  ASSUME NEW k \in Kind
  PROVE  IInv /\ Sorted /\ Add(k) => Order!Insert(k)
<1> SUFFICES ASSUME IInv, Sorted, Add(k) PROVE Order!Insert(k)
  OBVIOUS
<1>1. Types(base, state, past, stack) BY Now DEF Add, May
<1>2. PICK E, H, T, r : Live(f, base, state, past, stack, E, H, T, r) BY Now DEF Add, May
<1>3. PICK n \in Nat : n = Len(base) + 1
  <2>1. Len(base) \in Nat BY <1>1, LenProperties DEF Types
  <2> QED BY <2>1
<1> DEFINE q == [m \in 1 .. n |-> Prior[Append(base, k)[m]]]
<1>4. PICK p : p = q OBVIOUS
<1>5. f' = EffectInsert(f, n, p) /\ base' = Append(base, k) /\ Room(1)
  BY <1>3, <1>4 DEF Add
<1>6. \A m \in 1 .. n : p[m] = Prior[base'[m]] BY <1>4, <1>5
<1> HIDE DEF q
<1>7. /\ base' \in Seq(Kind) /\ Len(base') = n /\ base'[n] = k
      /\ \A i \in 1 .. Len(base) : base'[i] = base[i]
      /\ 1 .. n = (1 .. Len(base)) \cup {n} /\ n \notin 1 .. Len(base)
  BY <1>1, <1>3, <1>5, BaseAppended DEF Types
<1>8. n \in Node
  <2>1. Len(base) \in Nat BY <1>1, LenProperties DEF Types
  <2> QED BY <1>3, <1>5, <2>1, NodeFacts DEF Room, Node
<1>9. PICK D : D = 1 .. Len(base) OBVIOUS
<1>10. /\ Laid(f, D, E, H, T, r) /\ n \in Node \ D /\ E \subseteq D /\ H \subseteq D
       /\ n \in Node \ E /\ 1 .. n = D \cup {n}
  BY <1>2, <1>7, <1>8, <1>9 DEF Live, Laid
<1>11. PICK t : /\ Laid(f', D \cup {n}, E \cup {n}, H, T, t)
                /\ SameOrder(r, t, Node \ {n}) /\ Placed(E, n, r, t, p)
  <2>1. PICK t : /\ Laid(EffectInsert(f, n, p), D \cup {n}, E \cup {n}, H, T, t)
                 /\ SameOrder(r, t, Node \ {n}) /\ Placed(E, n, r, t, p)
    BY <1>10, InsertLaid
  <2> QED BY <1>5, <2>1
<1>12. Ranked(Effects, E, r) /\ Ranked(Recorded, H, r) BY <1>2, ListsBefore
<1>13. Ranked(Effects', E \cup {n}, t) /\ Ranked(Recorded', H, t) BY <1>11, LaidAfter
<1>14. SameOrder(r, t, E) /\ SameOrder(r, t, H)
  <2>1. E \in SUBSET (Node \ {n}) /\ H \in SUBSET (Node \ {n}) BY <1>10, LaidFacts
  <2> QED BY <1>11, <2>1, SameOrderSub
<1>15. \A x \in E \cup H : base'[x] = base[x] BY <1>7, <1>9, <1>10
<1>16. \A x \in E \cup {n} : p[x] = Prior[base'[x]] BY <1>6, <1>10
<1>17. Belongs(E, n, t, p)
  <2>1. \A x \in E \cup {n} : p[x] \in Int
    <3>1. \A x \in E \cup {n} : base'[x] \in Kind
      <4>1. \A x \in 1 .. n : base'[x] \in Kind BY <1>7, ElementOfSeq
      <4> QED BY <1>10, <4>1
    <3> QED BY <1>16, <3>1, EffectListAssumption
  <2>2. \A x \in E : p[x] = Prior[base[x]] BY <1>15, <1>16
  <2>3. Falling(Kinds(base, Effects)) BY KindsBoth DEF Sorted
  <2>4. Falls(E, r, p) BY <1>12, <2>2, <2>3, FallingFalls
  <2> QED BY <1>11, <2>1, <2>4 DEF Placed
<1>18. PICK o : o = Kinds(base, Effects) OBVIOUS
<1>19. PICK i \in 0 .. Len(o) :
         /\ \A j \in DOMAIN o : j <= i <=> Prior[o[j]] >= Prior[k]
         /\ Order!PutIn(Kinds(base', Effects'), o, i, k)
  <2>1. PICK c : c = base' OBVIOUS
  <2>2. PICK u : u = Effects' OBVIOUS
  <2>3. Ranked(u, E \cup {n}, t) BY <1>13, <2>2
  <2>4. \A x \in E : c[x] = base[x] BY <1>15, <2>1
  <2>5. \A x \in E \cup {n} : p[x] = Prior[c[x]] BY <1>16, <2>1
  <2>6. LET y == Kinds(base, Effects)
        IN  \E i \in 0 .. Len(y) :
               /\ \A j \in DOMAIN y : j <= i <=> Prior[y[j]] >= Prior[c[n]]
               /\ Order!PutIn(Kinds(c, u), y, i, c[n])
    BY <1>10, <1>12, <1>14, <1>17, <2>3, <2>4, <2>5, KindsPutIn
  <2> QED BY <1>7, <1>18, <2>1, <2>2, <2>6
<1>20. Kinds(base', Recorded') = Kinds(base, Recorded)
  BY <1>12, <1>13, <1>14, <1>15, KindsStay
<1> QED BY <1>18, <1>19, <1>20, KindsBoth DEF Order!Insert

LEMMA RecordInOrder == IInv /\ Record => Order!Record
<1> SUFFICES ASSUME IInv, Record PROVE Order!Record
  OBVIOUS
<1>1. Types(base, state, past, stack) BY Now DEF Record
<1>2. PICK E, H, T, r : Live(f, base, state, past, stack, E, H, T, r) BY Now DEF Record
<1>3. /\ H = {} /\ Orders(Effects, E) /\ E \subseteq 1 .. Len(base)
      /\ T \subseteq 1 .. Len(base) /\ Effects \in Seq(Node)
  BY <1>2, LiveFacts DEF Record, Orders
<1>4. PICK b \in Nat : b = Len(base) BY <1>1, LenProperties DEF Types
<1>5. PICK k \in Nat : k = Len(Effects) BY <1>3, LenProperties
<1>6. PICK list \in Seq(Node) : list = Effects /\ Orders(list, E) /\ k = Len(list)
  BY <1>3, <1>5
<1>7. b + k <= MaxNode BY <1>4, <1>5 DEF Record, Room
<1> DEFINE a == CopyAll(f, list)
           t == Copies(r, b, k)
           C == Copied(b, k)
<1>8. Laid(f, 1 .. b, E, H, T, r) BY <1>2, <1>4 DEF Live
<1>9. /\ Laid(a, 1 .. b + k, E, H, T, t) /\ IsList(a, CopyHead(list), C, t)
      /\ SameOrder(r, t, Node \ C)
  BY <1>4, <1>6, <1>7, <1>8, CopyFacts
<1>10. C \cap (1 .. b) = {} /\ C \cup (1 .. b) = 1 .. b + k BY CopiedApart
<1>11. \A i, j \in C : i < j => t[i] < t[j]
  <2>1. C \subseteq Node BY <1>9 DEF IsList
  <2>2. \A i \in C : t[i] = i BY <2>1 DEF Copies
  <2> QED BY <2>2
<1> HIDE DEF a, t, C
<1>12. f' = [a EXCEPT !.hist = CopyHead(list)] /\ base' = base \o KindsOf(list)
  BY <1>6 DEF Record, a
<1>13. Laid(f', 1 .. b + k, E, C, T, t)
  <2>1. C \cap (E \cup H \cup T) = {} BY <1>3, <1>4, <1>10
  <2>2. PICK D : D = 1 .. b + k OBVIOUS
  <2>3. Laid(a, D, E, H, T, t) /\ C \subseteq D BY <1>9, <1>10, <2>2
  <2>4. H = {} => Laid([a EXCEPT !.hist = CopyHead(list)], D, E, C, T, t)
    BY <1>9, <2>1, <2>3, HeadedLaid
  <2> QED BY <1>3, <1>12, <2>2, <2>4
<1>14. Ranked(Effects', E, t) /\ Ranked(Recorded', C, t) BY <1>13, LaidAfter
<1>15. Ranked(Effects, E, r) BY <1>2, ListsBefore
<1>16. base \in Seq(Kind) /\ E \subseteq 1 .. b BY <1>1, <1>3, <1>4 DEF Types
<1>17. \A n \in E : base'[n] = base[n]
  <2>1. Extended(base \o KindsOf(list), b, k, E) BY <1>3, <1>4, <1>6, <1>16, KindsFacts
  <2> QED BY <1>12, <1>16, <2>1 DEF Extended
<1>18. SameOrder(r, t, E)
  <2>1. E \in SUBSET (Node \ C) BY <1>8, <1>10, <1>16 DEF Laid
  <2> QED BY <1>9, <2>1, SameOrderSub
<1>19. Kinds(base', Effects') = Kinds(base, Effects)
  BY <1>14, <1>15, <1>17, <1>18, KindsStay
<1>20. Kinds(base', Recorded') = KindsOf(list)
  <2>1. PICK u : u = Recorded' OBVIOUS
  <2>2. Ranked(u, Copied(b, k), t) BY <1>14, <2>1 DEF C
  <2>3. \A i, j \in Copied(b, k) : i < j => t[i] < t[j] BY <1>11 DEF C
  <2>4. Kinds(base \o KindsOf(list), u) = KindsOf(list)
    BY <1>3, <1>4, <1>6, <1>16, <2>2, <2>3, KindsOfCopies
  <2> QED BY <1>12, <2>1, <2>4
<1> QED BY <1>6, <1>19, <1>20, KindsBoth DEF Order!Record

LEMMA RewindInOrder == IInv /\ Rewind => Order!Rewind
<1> SUFFICES ASSUME IInv, Rewind PROVE Order!Rewind
  OBVIOUS
<1>1. Types(base, state, past, stack) BY Now DEF Rewind, May
<1>2. PICK E, H, T, r : Live(f, base, state, past, stack, E, H, T, r)
  BY Now DEF Rewind, May
<1>3. /\ Orders(Effects, E) /\ Orders(Recorded, H) /\ E \subseteq 1 .. Len(base)
      /\ T \subseteq 1 .. Len(base) /\ H \subseteq 1 .. Len(base) /\ E \cap H = {}
      /\ Recorded \in Seq(Node) /\ Listed = E
  <2>1. Orders(Effects, E) /\ Orders(Recorded, H) /\ Listed = E BY <1>2, LiveFacts
  <2>2. /\ E \subseteq 1 .. Len(base) /\ T \subseteq 1 .. Len(base)
        /\ H \subseteq 1 .. Len(base) /\ E \cap H = {}
    BY <1>2, LiveFacts
  <2> QED BY <2>1, <2>2 DEF Orders
<1>4. PICK b \in Nat : b = Len(base) BY <1>1, LenProperties DEF Types
<1>5. PICK k \in Nat : k = Len(Recorded) BY <1>3, LenProperties
<1>6. PICK list \in Seq(Node) : list = Recorded /\ Orders(list, H) /\ k = Len(list)
  BY <1>3, <1>5
<1>7. b + k <= MaxNode BY <1>4, <1>5 DEF Rewind, Room
<1> DEFINE a == CopyAll(f, list)
           t == Copies(r, b, k)
           C == Copied(b, k)
<1>8. Laid(f, 1 .. b, E, H, T, r) BY <1>2, <1>4 DEF Live
<1>9. /\ Laid(a, 1 .. b + k, E, H, T, t) /\ IsList(a, CopyHead(list), C, t)
      /\ SameOrder(r, t, Node \ C)
  BY <1>4, <1>6, <1>7, <1>8, CopyFacts
<1>10. C \cap (1 .. b) = {} /\ C \cup (1 .. b) = 1 .. b + k BY CopiedApart
<1>11. C \subseteq Node /\ \A i, j \in C : i < j => t[i] < t[j]
  <2>1. C \subseteq Node BY <1>9 DEF IsList
  <2>2. \A i \in C : t[i] = i BY <2>1 DEF Copies
  <2> QED BY <2>1, <2>2
<1> HIDE DEF a, t, C
<1>12. PICK z : z = Finals(a, Effects, E) OBVIOUS
<1>13. f' = [z EXCEPT !.head = CopyHead(list)] /\ base' = base \o KindsOf(list)
  <2>1. f' = [FreeAll(CopyAll(f, list), Effects) EXCEPT !.head = CopyHead(list)]
    BY <1>6 DEF Rewind
  <2>2. base' = base \o KindsOf(list) BY <1>6 DEF Rewind
  <2>3. ToSet(Effects) = E BY <1>3 DEF Listed
  <2>4. FreeAll(CopyAll(f, list), Effects) = z BY <1>12, <2>3 DEF a, FreeAll
  <2> QED BY <2>1, <2>2, <2>4
<1>14. PICK D : D = 1 .. b + k OBVIOUS
<1>15. PICK U : U = T \cup E OBVIOUS
<1>16. PICK x : /\ Laid(z, D, {}, H, U, x) /\ Untouched(a, z, Node \ U)
                /\ SameOrder(t, x, Node \ E)
  <2>1. \E x : /\ Laid(z, D, E \ E, H, T \cup (E \cap E), x)
               /\ Untouched(a, z, Node \ (E \cup T))
               /\ SameOrder(t, x, Node \ (E \cap E))
    BY <1>3, <1>9, <1>12, <1>14, FinalsLaid
  <2>2. E \ E = {} /\ T \cup (E \cap E) = U /\ Node \ (E \cup T) = Node \ U
        /\ Node \ (E \cap E) = Node \ E
    BY <1>15
  <2> QED BY <2>1, <2>2
<1>17. C \subseteq D /\ C \cap ({} \cup H \cup U) = {} /\ C \cap E = {}
  BY <1>3, <1>4, <1>10, <1>14, <1>15
<1>18. SameOrder(t, x, C) /\ Untouched(a, z, C)
  <2>1. C \in SUBSET (Node \ U) /\ C \in SUBSET (Node \ E) BY <1>11, <1>17
  <2> QED BY <1>16, <2>1, SameOrderSub, UntouchedSub
<1>19. Laid(f', D, C, H, U, x)
  <2>1. x \in [Node -> Nat] BY <1>16 DEF Laid
  <2>2. IsList(z, CopyHead(list), C, x) BY <1>9, <1>18, <2>1, StaysList
  <2>3. {} = {} => Laid([z EXCEPT !.head = CopyHead(list)], D, C, H, U, x)
    BY <1>16, <1>17, <2>2, HeadedLaid
  <2> QED BY <1>13, <2>3
<1>20. Ranked(Effects', C, x) /\ Ranked(Recorded', H, x) BY <1>19, LaidAfter
<1>21. Ranked(Recorded, H, r) BY <1>2, ListsBefore
<1>22. base \in Seq(Kind) /\ H \subseteq 1 .. b BY <1>1, <1>3, <1>4 DEF Types
<1>23. \A n \in H : base'[n] = base[n]
  <2>1. Extended(base \o KindsOf(list), b, k, H) BY <1>3, <1>4, <1>6, <1>22, KindsFacts
  <2> QED BY <1>13, <1>22, <2>1 DEF Extended
<1>24. SameOrder(r, x, H)
  <2>1. H \in SUBSET (Node \ C) /\ H \in SUBSET (Node \ E)
    BY <1>3, <1>8, <1>10, <1>22 DEF Laid
  <2>2. SameOrder(r, t, H) /\ SameOrder(t, x, H) BY <1>9, <1>16, <2>1, SameOrderSub
  <2> QED BY <2>2 DEF SameOrder
<1>25. Kinds(base', Recorded') = Kinds(base, Recorded)
  BY <1>20, <1>21, <1>23, <1>24, KindsStay
<1>26. Kinds(base', Effects') = KindsOf(list)
  <2>1. PICK u : u = Effects' OBVIOUS
  <2>2. Ranked(u, Copied(b, k), x) BY <1>20, <2>1 DEF C
  <2>3. \A i, j \in Copied(b, k) : i < j => x[i] < x[j]
    BY <1>11, <1>18 DEF C, SameOrder
  <2>4. Kinds(base \o KindsOf(list), u) = KindsOf(list)
    BY <1>3, <1>4, <1>6, <1>22, <2>2, <2>3, KindsOfCopies
  <2> QED BY <1>13, <2>1, <2>4
<1> QED BY <1>6, <1>25, <1>26, KindsBoth DEF Order!Rewind

(* Each step is one of the order of the hooks or leaves it alone, and the  *)
(* lists fall by priority after it.                                        *)
LEMMA StepInOrder ==
  ASSUME IInv, Sorted, Next
  PROVE  Order!Next \/ UNCHANGED <<KindsOf(Effects), KindsOf(Recorded)>>
<1>1. CASE \E k \in Kind : Add(k) BY <1>1, AddInOrder DEF Order!Next
<1>2. CASE \E n \in Node : End(n) \/ Drop(n)
  BY <1>2, EndInOrder, DropInOrder DEF Order!Next
<1>3. CASE \E u \in Unit : Kill(u) \/ RoarDown(u)
  BY <1>3, KillInOrder, RoarDownInOrder DEF Order!Next
<1>4. CASE Ended \/ Record \/ Rewind
  BY <1>4, EndedInOrder, RecordInOrder, RewindInOrder DEF Order!Next
<1>5. CASE FieldFree BY <1>5, FieldFreeInOrder DEF Order!Next
<1>6. CASE Added \/ BeginWalk \/ Visit \/ Step \/ EndWalk
  <2>1. UNCHANGED <<f, base>> BY <1>6 DEF Added, BeginWalk, Visit, Step, EndWalk
  <2> QED BY <2>1 DEF KindsOf, Effects, Recorded
<1> QED BY <1>1, <1>2, <1>3, <1>4, <1>5, <1>6 DEF Next

LEMMA KindsListed ==
  ASSUME IInv
  PROVE  KindsOf(Effects) \in Seq(Kind)
<1>1. base \in Seq(Kind) BY DEF IInv, Types
<1>2. ASSUME NEW s, NEW S, Orders(s, S), S \subseteq 1 .. Len(base)
      PROVE  KindsOf(s) \in Seq(Kind)
  <2>1. PICK k \in Nat : k = Len(s) /\ DOMAIN s = 1 .. k
    BY <1>2, LenProperties DEF Orders
  <2>2. \A i \in 1 .. k : base[s[i]] \in Kind
    <3>1. \A i \in 1 .. k : s[i] \in 1 .. Len(base) BY <1>2, <2>1 DEF Orders
    <3> QED BY <1>1, <3>1, ElementOfSeq
  <2>3. KindsOf(s) \in [1 .. k -> Kind] BY <2>1, <2>2 DEF KindsOf
  <2> QED BY <2>3, SeqDef
<1>3. CASE freed = << >>
  <2>1. PICK E, H, T, r : Live(f, base, state, past, stack, E, H, T, r)
    BY <1>3 DEF IInv
  <2> QED BY <1>2, <2>1, LiveFacts
<1>4. CASE freed # << >>
  <2>1. f.head = Null BY <1>4 DEF IInv, Freed
  <2>2. IsList(f, f.head, {}, [n \in Node |-> 0]) BY <2>1 DEF IsList
  <2>3. Orders(Effects, {}) BY <2>2, ChainOrders DEF Effects
  <2> QED BY <1>2, <2>3
<1> QED BY <1>3, <1>4

LEMMA SortedStep == IInv /\ Sorted /\ [Next]_vars => Sorted'
<1> SUFFICES ASSUME IInv, Sorted, [Next]_vars PROVE Sorted'
  OBVIOUS
<1>1. CASE UNCHANGED <<KindsOf(Effects), KindsOf(Recorded)>> BY <1>1 DEF Sorted, Falling
<1>2. CASE \E k \in Kind : Order!Insert(k)
  <2>1. PICK o \in Seq(Kind) : o = KindsOf(Effects) BY KindsListed
  <2>2. PICK q : q = KindsOf(Effects)' OBVIOUS
  <2>3. PICK k \in Kind : Order!Insert(k) BY <1>2
  <2>4. PICK i \in 0 .. Len(o) :
          /\ \A j \in DOMAIN o : j <= i <=> Prior[o[j]] >= Prior[k]
          /\ Order!PutIn(q, o, i, k)
    BY <2>1, <2>2, <2>3 DEF Order!Insert
  <2>5. Falling(q) BY <2>1, <2>4, PutInFalls DEF Sorted
  <2>6. UNCHANGED KindsOf(Recorded) BY <2>3 DEF Order!Insert
  <2> QED BY <2>2, <2>5, <2>6 DEF Sorted, Falling
<1>3. CASE Order!Remove
  <2>1. PICK o, p, q, s : /\ o = KindsOf(Effects) /\ p = KindsOf(Recorded)
                          /\ q = KindsOf(Effects)' /\ s = KindsOf(Recorded)'
    OBVIOUS
  <2>2. Order!Some(q, o) /\ Order!Some(s, p) BY <1>3, <2>1 DEF Order!Remove
  <2>3. Falling(q) /\ Falling(s) BY <2>1, <2>2, SomeFalls DEF Sorted
  <2> QED BY <2>1, <2>3 DEF Sorted, Falling
<1>4. CASE Order!Record BY <1>4 DEF Order!Record, Sorted, Falling
<1>5. CASE Order!Rewind BY <1>5 DEF Order!Rewind, Sorted, Falling
<1>6. CASE UNCHANGED vars
  <2>1. UNCHANGED <<KindsOf(Effects), KindsOf(Recorded)>>
    BY <1>6 DEF vars, KindsOf, Effects, Recorded
  <2> QED BY <1>1, <2>1
<1> QED BY <1>1, <1>2, <1>3, <1>4, <1>5, <1>6, StepInOrder DEF Order!Next

LEMMA EmptyLists ==
  ASSUME Init
  PROVE  KindsOf(Effects) = << >> /\ KindsOf(Recorded) = << >>
<1> DEFINE r == [n \in Node |-> 0]
<1>1. f.head = Null /\ f.hist = Null BY DEF Init
<1>2. IsList(f, f.head, {}, r) /\ IsList(f, f.hist, {}, r) BY <1>1 DEF IsList
<1>3. Effects = << >> /\ Recorded = << >> BY <1>1, <1>2, ChainOrders DEF Effects, Recorded
<1>4. KindsOf(<< >>) = << >>
  <2>1. PICK q : q = KindsOf(<< >>) OBVIOUS
  <2>2. DOMAIN << >> = 1 .. 0
    <3>1. << >> \in Seq(Kind) /\ Len(<< >>) = 0 BY EmptySeq
    <3> QED BY <3>1, LenProperties
  <2>3. q = [i \in 1 .. 0 |-> base[<< >>[i]]] BY <2>1, <2>2 DEF KindsOf
  <2>4. q \in [1 .. 0 -> Kind] BY <2>3
  <2>5. q \in Seq(Kind) BY <2>4, SeqDef
  <2>6. Len(q) = 0 BY <2>4, <2>5, LenProperties
  <2> QED BY <2>1, <2>5, <2>6, EmptySeq
<1> QED BY <1>3, <1>4

(* The list is a refinement of EffectOrder, whatever the priorities: hooks *)
(* are called by priority and then by age, also after effects that end and *)
(* those that are added in the middle of a walk, and time_back() brings    *)
(* back the recorded effects in their order.                               *)
THEOREM HooksInOrder == Spec => InOrder
<1>1. Init => Order!Init /\ Sorted
  <2> SUFFICES ASSUME Init PROVE Order!Init /\ Sorted
    OBVIOUS
  <2>1. KindsOf(Effects) = << >> /\ KindsOf(Recorded) = << >> BY EmptyLists
  <2>2. Falling(<< >>)
    <3>1. << >> \in Seq(Kind) /\ Len(<< >>) = 0 BY EmptySeq
    <3>2. DOMAIN << >> = 1 .. 0 BY <3>1, LenProperties
    <3> QED BY <3>2 DEF Falling
  <2> QED BY <2>1, <2>2 DEF Order!Init, Sorted
<1>2. IInv /\ Sorted /\ [Next]_vars => [Order!Next]_<<KindsOf(Effects), KindsOf(Recorded)>>
  <2>1. UNCHANGED vars => UNCHANGED <<KindsOf(Effects), KindsOf(Recorded)>>
    BY DEF vars, KindsOf, Effects, Recorded
  <2> QED BY <2>1, StepInOrder
<1> QED BY <1>1, <1>2, SortedStep, IInvAlways, PTL DEF Spec, InOrder, Order!Spec
=============================================================================
