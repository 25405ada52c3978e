------------------------- MODULE PlayerData_proofs -------------------------
(***************************************************************************)
(* The player's units and experience are kept, and a save is loaded as it  *)
(* was written or not at all, for any number of slots, any species and     *)
(* types, and any units a new player gets.                                 *)
(***************************************************************************)
EXTENDS PlayerData, NaturalSets, SequenceTheorems

(* A function of 0 .. N may be defined by its first value and a step.      *)
Runs(N, S, z, G, f) ==
  /\ f \in [0 .. N -> S] /\ f[0] = z
  /\ \A i \in 1 .. N : f[i] = G[i][f[i - 1]]

LEMMA Recursion ==
  ASSUME NEW N \in Nat, NEW S, NEW z \in S, NEW G \in [1 .. N -> [S -> S]]
  PROVE  \E f : Runs(N, S, z, G, f)
<1> DEFINE Upto(n, f) == f[0] = z /\ \A i \in 1 .. n : f[i] = G[i][f[i - 1]]
           T == {n \in 0 .. N : ~\E f \in [0 .. n -> S] : Upto(n, f)}
<1>1. SUFFICES ASSUME T # {} PROVE FALSE
  <2>1. N \notin T BY <1>1
  <2> QED BY <2>1 DEF Runs
<1>2. T \in SUBSET Nat OBVIOUS
<1>3. PICK n \in T : \A m \in T : n <= m
  <2> HIDE DEF T
  <2> QED BY <1>1, <1>2, LeastNat
<1>4. n \in 0 .. N /\ ~\E f \in [0 .. n -> S] : Upto(n, f) BY <1>3
<1>5. CASE n = 0
  <2> DEFINE f == [i \in 0 .. 0 |-> z]
  <2>1. f \in [0 .. n -> S] /\ Upto(n, f) BY <1>5
  <2> QED BY <1>4, <2>1
<1>6. CASE n # 0
  <2>1. n - 1 \in 0 .. N /\ n \in 1 .. N /\ ~(n <= n - 1) BY <1>4, <1>6
  <2>2. n - 1 \notin T BY <1>3, <2>1
  <2>3. PICK f \in [0 .. n - 1 -> S] : Upto(n - 1, f) BY <2>1, <2>2
  <2> DEFINE g == [i \in 0 .. n |-> IF i = n THEN G[n][f[n - 1]] ELSE f[i]]
  <2>4. f[n - 1] \in S /\ G[n] \in [S -> S] BY <2>1
  <2>5. g \in [0 .. n -> S] BY <2>1, <2>4
  <2>6. g[0] = z BY <2>1, <2>3
  <2>7. ASSUME NEW i \in 1 .. n PROVE g[i] = G[i][g[i - 1]]
    <3>1. i - 1 \in 0 .. n /\ i \in 0 .. n /\ i - 1 # n BY <2>1
    <3>2. g[i - 1] = f[i - 1] BY <3>1
    <3>3. CASE i = n BY <3>1, <3>2, <3>3
    <3>4. CASE i # n
      <4>1. i \in 1 .. n - 1 BY <2>1, <3>4
      <4>2. f[i] = G[i][f[i - 1]] BY <2>3, <4>1
      <4>3. g[i] = f[i] BY <3>1, <3>4
      <4> QED BY <3>2, <4>2, <4>3
    <3> QED BY <3>3, <3>4
  <2>8. Upto(n, g) BY <2>6, <2>7
  <2> QED BY <1>4, <2>5, <2>8
<1> QED BY <1>5, <1>6

-----------------------------------------------------------------------------
(* Sums.                                                                   *)

Sums(s, f) == /\ f \in [0 .. Len(s) -> Nat] /\ f[0] = 0
              /\ \A i \in 1 .. Len(s) : f[i] = f[i - 1] + s[i]

LEMMA TotalIs ==
  ASSUME NEW s \in Seq(Nat)
  PROVE  \E f : Sums(s, f) /\ Total(s) = f[Len(s)]
<1> PICK N \in Nat : N = Len(s) OBVIOUS
<1>1. s \in [1 .. N -> Nat] OBVIOUS
<1> DEFINE G == [i \in 1 .. N |-> [x \in Nat |-> x + s[i]]]
           H(f) == [i \in 0 .. N |-> IF i = 0 THEN 0 ELSE f[i - 1] + s[i]]
           to == CHOOSE f : f = H(f)
<1>2. G \in [1 .. N -> [Nat -> Nat]] BY <1>1
<1>3. PICK f : Runs(N, Nat, 0, G, f)
  <2> HIDE DEF G
  <2> QED BY <1>2, Recursion
<1>4. f = H(f)
  <2>1. ASSUME NEW i \in 0 .. N PROVE f[i] = IF i = 0 THEN 0 ELSE f[i - 1] + s[i]
    <3>1. CASE i = 0 BY <1>3, <3>1 DEF Runs
    <3>2. CASE i # 0
      <4>1. i \in 1 .. N /\ i - 1 \in 0 .. N BY <3>2
      <4>2. f[i] = G[i][f[i - 1]] /\ f[i - 1] \in Nat BY <1>3, <4>1 DEF Runs
      <4> QED BY <3>2, <4>1, <4>2
    <3> QED BY <3>1, <3>2
  <2>2. f = [i \in 0 .. N |-> f[i]] BY <1>3 DEF Runs
  <2> QED BY <2>1, <2>2
<1>5. to = H(to)
  <2> HIDE DEF H
  <2> QED BY <1>4
<1>6. Total(s) = to[N] BY DEF Total
<1> HIDE DEF to
<1>7. \A i \in 0 .. N : to[i] = IF i = 0 THEN 0 ELSE to[i - 1] + s[i] BY <1>5
<1>8. \A i \in 0 .. N : to[i] \in Nat
  <2> DEFINE T == {i \in 0 .. N : to[i] \notin Nat}
  <2>1. SUFFICES ASSUME T # {} PROVE FALSE
    OBVIOUS
  <2>2. T \in SUBSET Nat OBVIOUS
  <2>3. PICK i \in T : \A m \in T : i <= m
    <3> HIDE DEF T
    <3> QED BY <2>1, <2>2, LeastNat
  <2>4. i # 0 BY <1>7, <2>3
  <2>5. i - 1 \in 0 .. N /\ i \in 1 .. N /\ ~(i <= i - 1) BY <2>3, <2>4
  <2>6. to[i - 1] \in Nat BY <2>3, <2>5
  <2>7. s[i] \in Nat BY <1>1, <2>5
  <2> QED BY <1>7, <2>3, <2>4, <2>6, <2>7
<1>9. to \in [0 .. N -> Nat]
  <2>1. DOMAIN to = 0 .. N BY <1>5
  <2>2. to = [i \in 0 .. N |-> to[i]] BY <1>5, <2>1
  <2> QED BY <1>8, <2>2
<1>10. Sums(s, to) BY <1>7, <1>9 DEF Sums
<1> QED BY <1>6, <1>10

LEMMA TotalNat == ASSUME NEW s \in Seq(Nat) PROVE Total(s) \in Nat
<1>1. PICK f : Sums(s, f) /\ Total(s) = f[Len(s)] BY TotalIs
<1> QED BY <1>1 DEF Sums

Balance(a, b, m, n) == a + m = b + n

LEMMA Cancel ==
  ASSUME NEW m \in Nat, NEW n \in Nat, NEW h \in Nat, NEW x \in Nat, NEW y \in Nat,
         Balance(m, n, h + y, h + x)
  PROVE  Balance(m, n, y, x)
BY DEF Balance

LEMMA AddBoth ==
  ASSUME NEW a \in Nat, NEW b \in Nat, NEW m \in Nat, NEW n \in Nat, NEW x \in Nat,
         Balance(m, n, a, b)
  PROVE  Balance(m + x, n + x, a, b)
BY DEF Balance

(* After the same elements two sums have grown by the same.                *)
Alike(s, u, a, b, n) ==
  /\ a \in Nat /\ b \in Nat /\ n \in Nat /\ a + n <= Len(s) /\ b + n <= Len(u)
  /\ \A k \in 1 .. n : s[a + k] = u[b + k]

Grown(f, g, a, b, n) == g[b + n] + f[a] = f[a + n] + g[b]

LEMMA SumsGrowAlike ==
  ASSUME NEW s \in Seq(Nat), NEW u \in Seq(Nat), NEW f, NEW g, NEW a, NEW b, NEW n,
         Sums(s, f), Sums(u, g), Alike(s, u, a, b, n)
  PROVE  Grown(f, g, a, b, n)
<1> USE DEF Grown
<1> DEFINE T == {k \in 0 .. n : g[b + k] + f[a] # f[a + k] + g[b]}
<1>1. a \in Nat /\ b \in Nat /\ n \in Nat /\ a + n <= Len(s) /\ b + n <= Len(u)
  BY DEF Alike
<1>2. Len(s) \in Nat /\ Len(u) \in Nat OBVIOUS
<1>3. SUFFICES ASSUME T # {} PROVE FALSE
  <2>1. n \notin T BY <1>3
  <2> QED BY <1>1, <2>1
<1>4. T \in SUBSET Nat BY <1>1
<1>5. PICK k \in T : \A m \in T : k <= m
  <2> HIDE DEF T
  <2> QED BY <1>3, <1>4, LeastNat
<1>6. k \in 0 .. n /\ k \in Nat BY <1>5
<1>7. f[a] \in Nat /\ g[b] \in Nat
  <2>1. a \in 0 .. Len(s) /\ b \in 0 .. Len(u) BY <1>1, <1>2
  <2> QED BY <2>1 DEF Sums
<1>8. k # 0
  <2>1. 0 \notin T BY <1>1, <1>7
  <2> QED BY <1>5, <2>1
<1>9. PICK j \in Nat : j = k - 1 BY <1>6, <1>8
<1>10. j \in 0 .. n /\ k = j + 1 /\ ~(k <= j) /\ k \in 1 .. n BY <1>1, <1>6, <1>9
<1>11. g[b + j] + f[a] = f[a + j] + g[b] BY <1>5, <1>10
<1> PICK p \in Nat : p = a + k
  <2>1. a + k \in Nat BY <1>1, <1>6
  <2> QED BY <2>1
<1> PICK q \in Nat : q = b + k
  <2>1. b + k \in Nat BY <1>1, <1>6
  <2> QED BY <2>1
<1>12. p \in 1 .. Len(s) /\ p - 1 = a + j /\ q \in 1 .. Len(u) /\ q - 1 = b + j
  BY <1>1, <1>2, <1>9, <1>10
<1>13. f[p] = f[a + j] + s[p] /\ g[q] = g[b + j] + u[q]
  <2>1. f[p] = f[p - 1] + s[p] BY <1>12 DEF Sums
  <2>2. g[q] = g[q - 1] + u[q] BY <1>12 DEF Sums
  <2> QED BY <1>12, <2>1, <2>2
<1>14. s[p] = u[q] BY <1>10 DEF Alike
<1>15. s[p] \in Nat BY <1>12, ElementOfSeq
<1>16. f[a + j] \in Nat /\ g[b + j] \in Nat
  <2>1. a + j \in 0 .. Len(s) /\ b + j \in 0 .. Len(u) BY <1>1, <1>2, <1>10
  <2> QED BY <2>1 DEF Sums
<1>17. (g[b + j] + s[p]) + f[a] = (f[a + j] + s[p]) + g[b]
  <2>1. Balance(g[b + j], f[a + j], f[a], g[b]) BY <1>11 DEF Balance
  <2>2. Balance(g[b + j] + s[p], f[a + j] + s[p], f[a], g[b])
    BY <1>7, <1>15, <1>16, <2>1, AddBoth
  <2> QED BY <2>2 DEF Balance
<1>18. g[q] + f[a] = f[p] + g[b] BY <1>13, <1>14, <1>17
<1> QED BY <1>5, <1>18

LEMMA TotalEmpty == Total(<< >>) = 0
<1>1. << >> \in Seq(Nat) /\ Len(<< >>) = 0 OBVIOUS
<1>2. PICK f : Sums(<< >>, f) /\ Total(<< >>) = f[Len(<< >>)] BY <1>1, TotalIs
<1> QED BY <1>1, <1>2 DEF Sums

LEMMA TotalAppend ==
  ASSUME NEW s \in Seq(Nat), NEW x \in Nat
  PROVE  Append(s, x) \in Seq(Nat) /\ Total(Append(s, x)) = Total(s) + x
<1> PICK n \in Nat : n = Len(s) OBVIOUS
<1> PICK u : u = Append(s, x) OBVIOUS
<1>1. u \in Seq(Nat) /\ Len(u) = n + 1 /\ u[n + 1] = x /\ \A k \in 1 .. n : u[k] = s[k]
  OBVIOUS
<1>2. PICK f : Sums(s, f) /\ Total(s) = f[Len(s)] BY TotalIs
<1>3. PICK g : Sums(u, g) /\ Total(u) = g[Len(u)] BY <1>1, TotalIs
<1> PICK z \in Nat : z = 0 OBVIOUS
<1>4. Alike(s, u, z, z, n) BY <1>1 DEF Alike
<1>5. Grown(f, g, z, z, n) BY <1>1, <1>2, <1>3, <1>4, SumsGrowAlike
<1>6. f[0] = 0 /\ g[0] = 0 /\ f[n] \in Nat /\ g[n] \in Nat
  <2>1. n \in 0 .. Len(s) /\ n \in 0 .. Len(u) BY <1>1
  <2> QED BY <1>2, <1>3, <2>1 DEF Sums
<1>7. g[n] = f[n] BY <1>5, <1>6 DEF Grown
<1>8. n + 1 \in 1 .. Len(u) /\ n + 1 - 1 = n BY <1>1
<1>9. g[n + 1] = g[n] + x BY <1>1, <1>3, <1>8 DEF Sums
<1> QED BY <1>1, <1>2, <1>3, <1>7, <1>9

LEMMA TotalUpdate ==
  ASSUME NEW s \in Seq(Nat), NEW i \in 1 .. Len(s), NEW x \in Nat
  PROVE  /\ [s EXCEPT ![i] = x] \in Seq(Nat)
         /\ Total([s EXCEPT ![i] = x]) + s[i] = Total(s) + x
<1> PICK n \in Nat : n = Len(s) OBVIOUS
<1> PICK u : u = [s EXCEPT ![i] = x] OBVIOUS
<1>1. u \in Seq(Nat) /\ Len(u) = n /\ u[i] = x /\ \A k \in 1 .. n : k # i => u[k] = s[k]
  OBVIOUS
<1>2. PICK f : Sums(s, f) /\ Total(s) = f[Len(s)] BY TotalIs
<1>3. PICK g : Sums(u, g) /\ Total(u) = g[Len(u)] BY <1>1, TotalIs
<1> PICK j \in Nat : j = i - 1 OBVIOUS
<1>0. n - i \in Nat OBVIOUS
<1> PICK m \in Nat : m = n - i BY <1>0
<1>4. i \in Nat /\ i = j + 1 /\ i + m = n /\ i \in 1 .. Len(u) OBVIOUS
<1> PICK z \in Nat : z = 0 OBVIOUS
<1>5. Alike(s, u, z, z, j) BY <1>1 DEF Alike
<1>6. Alike(s, u, i, i, m) BY <1>1, <1>4 DEF Alike
<1>7. Grown(f, g, z, z, j) BY <1>1, <1>2, <1>3, <1>5, SumsGrowAlike
<1>8. Grown(f, g, i, i, m) BY <1>1, <1>2, <1>3, <1>6, SumsGrowAlike
<1>9. /\ f[0] = 0 /\ g[0] = 0 /\ f[j] \in Nat /\ g[j] \in Nat
      /\ f[n] \in Nat /\ g[n] \in Nat
  <2>1. n \in 0 .. Len(s) /\ n \in 0 .. Len(u) /\ j \in 0 .. Len(s) /\ j \in 0 .. Len(u)
    BY <1>1
  <2> QED BY <1>2, <1>3, <2>1 DEF Sums
<1>10. f[i] = f[i - 1] + s[i] /\ g[i] = g[i - 1] + u[i] BY <1>2, <1>3, <1>4 DEF Sums
<1>11. f[i] = f[j] + s[i] /\ g[i] = g[j] + x BY <1>1, <1>10
<1>12. g[j] = f[j] BY <1>7, <1>9 DEF Grown
<1>13. s[i] \in Nat OBVIOUS
<1>14. g[n] + f[i] = f[n] + g[i] BY <1>4, <1>8 DEF Grown
<1>15. g[n] + (f[j] + s[i]) = f[n] + (f[j] + x) BY <1>11, <1>12, <1>14
<1>16. g[n] + s[i] = f[n] + x
  <2>1. Balance(g[n], f[n], f[j] + s[i], f[j] + x) BY <1>15 DEF Balance
  <2>2. Balance(g[n], f[n], s[i], x) BY <1>9, <1>13, <2>1, Cancel
  <2> QED BY <2>2 DEF Balance
<1> QED BY <1>1, <1>2, <1>3, <1>9, <1>16

(* The sequence without its i-th element.                                  *)
Without(s, i) == [j \in 1 .. Len(s) - 1 |-> IF j < i THEN s[j] ELSE s[j + 1]]

LEMMA TotalWithout ==
  ASSUME NEW s \in Seq(Nat), NEW i \in 1 .. Len(s)
  PROVE  Without(s, i) \in Seq(Nat) /\ Total(Without(s, i)) + s[i] = Total(s)
<1> PICK n \in Nat : n = Len(s) OBVIOUS
<1> PICK u : u = Without(s, i) OBVIOUS
<1>1. /\ u \in Seq(Nat) /\ Len(u) = n - 1
      /\ \A k \in 1 .. n - 1 : u[k] = IF k < i THEN s[k] ELSE s[k + 1]
  BY DEF Without
<1>2. PICK f : Sums(s, f) /\ Total(s) = f[Len(s)] BY TotalIs
<1>3. PICK g : Sums(u, g) /\ Total(u) = g[Len(u)] BY <1>1, TotalIs
<1> PICK j \in Nat : j = i - 1 OBVIOUS
<1>0. n - i \in Nat OBVIOUS
<1> PICK m \in Nat : m = n - i BY <1>0
<1>4. i \in Nat /\ i = j + 1 /\ i + m = n /\ j + m = n - 1 OBVIOUS
<1> PICK z \in Nat : z = 0 OBVIOUS
<1>5. Alike(s, u, z, z, j)
  <2>1. ASSUME NEW k \in 1 .. j PROVE s[z + k] = u[z + k]
    <3>1. k \in 1 .. n - 1 /\ k < i /\ z + k = k BY <1>4
    <3> QED BY <1>1, <3>1
  <2> QED BY <1>1, <1>4, <2>1 DEF Alike
<1>6. Alike(s, u, i, j, m)
  <2>1. ASSUME NEW k \in 1 .. m PROVE s[i + k] = u[j + k]
    <3>1. j + k \in 1 .. n - 1 /\ ~(j + k < i) /\ j + k + 1 = i + k BY <1>4
    <3> QED BY <1>1, <3>1
  <2> QED BY <1>1, <1>4, <2>1 DEF Alike
<1>7. Grown(f, g, z, z, j) BY <1>1, <1>2, <1>3, <1>5, SumsGrowAlike
<1>8. Grown(f, g, i, j, m) BY <1>1, <1>2, <1>3, <1>6, SumsGrowAlike
<1>9. /\ f[0] = 0 /\ g[0] = 0 /\ f[j] \in Nat /\ g[j] \in Nat
      /\ f[n] \in Nat /\ g[n - 1] \in Nat
  <2>1. n \in 0 .. Len(s) /\ n - 1 \in 0 .. Len(u) /\ j \in 0 .. Len(s) /\ j \in 0 .. Len(u)
    BY <1>1, <1>4
  <2> QED BY <1>2, <1>3, <2>1 DEF Sums
<1>10. f[i] = f[i - 1] + s[i] BY <1>2 DEF Sums
<1>11. f[i] = f[j] + s[i] BY <1>10
<1>12. g[j] = f[j] BY <1>7, <1>9 DEF Grown
<1>13. s[i] \in Nat OBVIOUS
<1>14. g[n - 1] + f[i] = f[n] + g[j] BY <1>4, <1>8 DEF Grown
<1>15. g[n - 1] + (f[j] + s[i]) = f[n] + (f[j] + 0) BY <1>9, <1>11, <1>12, <1>14
<1>16. g[n - 1] + s[i] = f[n] + 0
  <2>1. Balance(g[n - 1], f[n], f[j] + s[i], f[j] + 0) BY <1>15 DEF Balance
  <2>2. Balance(g[n - 1], f[n], s[i], 0) BY <1>9, <1>13, <2>1, Cancel
  <2> QED BY <2>2 DEF Balance
<1> QED BY <1>1, <1>2, <1>3, <1>9, <1>16

-----------------------------------------------------------------------------
(* What a unit is worth.                                                   *)

LEMMA FactorsToNat == \A l \in 1 .. MaxLevel : FactorsTo(l) \in Nat
<1> SUFFICES ASSUME NEW l \in 1 .. MaxLevel PROVE FactorsTo(l) \in Nat
  OBVIOUS
<1>1. MaxLevel \in Nat /\ Factor \in [1 .. MaxLevel -> Nat] BY PlayerDataAssumption
<1> DEFINE s == [i \in 1 .. l - 1 |-> Factor[i]]
<1>2. l - 1 \in Nat BY <1>1
<1>3. \A i \in 1 .. l - 1 : Factor[i] \in Nat BY <1>1
<1>4. s \in Seq(Nat)
  <2>1. s \in [1 .. l - 1 -> Nat] BY <1>3
  <2> QED BY <1>2, <2>1, SeqDef
<1> HIDE DEF s
<1>5. Total(s) \in Nat BY <1>4, TotalNat
<1> QED BY <1>5 DEF FactorsTo, s

LEMMA FactorsToNext ==
  \A l \in 1 .. MaxLevel : FactorsTo(l + 1) = FactorsTo(l) + Factor[l]
<1> SUFFICES ASSUME NEW l \in 1 .. MaxLevel
             PROVE  FactorsTo(l + 1) = FactorsTo(l) + Factor[l]
  OBVIOUS
<1>1. MaxLevel \in Nat /\ Factor \in [1 .. MaxLevel -> Nat] BY PlayerDataAssumption
<1> DEFINE s == [i \in 1 .. l - 1 |-> Factor[i]]
           u == [i \in 1 .. l + 1 - 1 |-> Factor[i]]
<1>2. l - 1 \in Nat /\ l \in Nat /\ l + 1 - 1 = l BY <1>1
<1>3. \A i \in 1 .. l : Factor[i] \in Nat BY <1>1
<1>4. s \in Seq(Nat) /\ Len(s) = l - 1
  <2>1. s \in [1 .. l - 1 -> Nat] BY <1>2, <1>3
  <2> QED BY <1>2, <2>1, SeqDef
<1>5. u = Append(s, Factor[l])
  <2>1. u \in Seq(Nat) /\ Len(u) = l
    <3>1. u \in [1 .. l -> Nat] BY <1>2, <1>3
    <3> QED BY <1>2, <3>1, SeqDef
  <2>2. Factor[l] \in Nat BY <1>3, <1>2
  <2>3. \A i \in 1 .. l - 1 : s[i] = Factor[i] BY <1>2
  <2>4. \A i \in 1 .. l : u[i] = Factor[i] BY <1>2
  <2> PICK v : v = Append(s, Factor[l]) OBVIOUS
  <2> HIDE DEF s, u
  <2>5. /\ v \in Seq(Nat) /\ Len(v) = l /\ v[l] = Factor[l]
        /\ \A i \in 1 .. l - 1 : v[i] = s[i]
    BY <1>2, <1>4, <2>2, AppendProperties
  <2>6. \A i \in 1 .. Len(u) : u[i] = v[i] BY <1>2, <2>1, <2>3, <2>4, <2>5
  <2>7. u = v BY <2>1, <2>5, <2>6, SeqEqual
  <2> QED BY <2>7
<1>6. Factor[l] \in Nat BY <1>1
<1> HIDE DEF s, u
<1>7. Total(u) = Total(s) + Factor[l] BY <1>4, <1>5, <1>6, TotalAppend
<1> QED BY <1>7 DEF FactorsTo, s, u

LEMMA FactorsToFirst == FactorsTo(1) = 0
<1>1. [i \in 1 .. 1 - 1 |-> Factor[i]] = << >> OBVIOUS
<1> QED BY <1>1, TotalEmpty DEF FactorsTo

LEMMA NoneIsNoUnit == None \notin UnitRecord
<1> SUFFICES ASSUME None \in UnitRecord PROVE FALSE
  OBVIOUS
<1>1. DOMAIN None = {"id", "spec", "level", "type"} BY DEF UnitRecord
<1>2. DOMAIN None = {"id"} BY DEF None
<1> QED BY <1>1, <1>2

LEMMA UnitFields ==
  ASSUME NEW u \in UnitRecord
  PROVE  /\ u.id \in Ids /\ u.spec \in Species /\ u.level \in 1 .. MaxLevel
         /\ u.type \in (0 .. Types) \X (0 .. Types) /\ u # None
BY NoneIsNoUnit DEF UnitRecord

LEMMA WorthNat == \A u \in UnitRecord \cup {None} : Worth(u) \in Nat
<1> SUFFICES ASSUME NEW u \in UnitRecord, u # None PROVE Worth(u) \in Nat
  BY DEF Worth
<1>1. XpType[u.spec] \in Nat BY UnitFields, PlayerDataAssumption
<1>2. FactorsTo(u.level) \in Nat BY UnitFields, FactorsToNat
<1>3. XpType[u.spec] * FactorsTo(u.level) \in Nat BY <1>1, <1>2
<1> QED BY <1>3 DEF Worth

LEMMA WorthsNat ==
  ASSUME NEW s \in Seq(UnitRecord \cup {None})
  PROVE  /\ Worths(s) \in Seq(Nat) /\ Len(Worths(s)) = Len(s)
         /\ \A i \in 1 .. Len(s) : Worths(s)[i] = Worth(s[i])
<1>1. DOMAIN s = 1 .. Len(s) /\ Len(s) \in Nat OBVIOUS
<1>2. \A i \in 1 .. Len(s) : s[i] \in UnitRecord \cup {None} BY ElementOfSeq
<1>3. Worths(s) = [i \in 1 .. Len(s) |-> Worth(s[i])] BY <1>1 DEF Worths
<1>4. Worths(s) \in [1 .. Len(s) -> Nat] BY <1>2, <1>3, WorthNat
<1> QED BY <1>1, <1>3, <1>4, SeqDef

LEMMA WorthsAppend ==
  ASSUME NEW s \in Seq(UnitRecord \cup {None}), NEW u \in UnitRecord \cup {None}
  PROVE  Total(Worths(Append(s, u))) = Total(Worths(s)) + Worth(u)
<1> PICK n \in Nat : n = Len(s) OBVIOUS
<1> PICK v : v = Append(s, u) OBVIOUS
<1>1. /\ v \in Seq(UnitRecord \cup {None}) /\ Len(v) = n + 1 /\ v[n + 1] = u
      /\ \A i \in 1 .. n : v[i] = s[i]
  BY AppendProperties
<1> PICK a : a = Worths(s) OBVIOUS
<1> PICK b : b = Worths(v) OBVIOUS
<1> PICK w \in Nat : w = Worth(u) BY WorthNat
<1>2. a \in Seq(Nat) /\ Len(a) = n /\ \A i \in 1 .. n : a[i] = Worth(s[i])
  BY WorthsNat
<1>3. b \in Seq(Nat) /\ Len(b) = n + 1 /\ \A i \in 1 .. n + 1 : b[i] = Worth(v[i])
  BY <1>1, WorthsNat
<1> PICK e \in Seq(Nat) :
      /\ Len(e) = n + 1 /\ e[n + 1] = w /\ \A i \in 1 .. n : e[i] = a[i]
      /\ Total(e) = Total(a) + w
  <2>1. Append(a, w) \in Seq(Nat) /\ Total(Append(a, w)) = Total(a) + w
    BY <1>2, TotalAppend
  <2>2. /\ Len(Append(a, w)) = n + 1 /\ Append(a, w)[n + 1] = w
        /\ \A i \in 1 .. n : Append(a, w)[i] = a[i]
    BY <1>2, AppendProperties
  <2> QED BY <2>1, <2>2
<1>4. \A i \in 1 .. n + 1 : i \in 1 .. n \/ i = n + 1 OBVIOUS
<1>5. \A i \in 1 .. n + 1 : b[i] = e[i] BY <1>1, <1>2, <1>3, <1>4
<1>6. b = e BY <1>3, <1>5, SeqEqual
<1> QED BY <1>6

LEMMA WithoutSeq ==
  ASSUME NEW S, NEW s \in Seq(S), NEW i \in 1 .. Len(s)
  PROVE  /\ Without(s, i) \in Seq(S) /\ Len(Without(s, i)) = Len(s) - 1
         /\ \A j \in 1 .. Len(s) - 1 :
              Without(s, i)[j] = IF j < i THEN s[j] ELSE s[j + 1]
<1> PICK n \in Nat : n = Len(s) OBVIOUS
<1>1. n - 1 \in Nat /\ i \in 1 .. n OBVIOUS
<1>2. \A j \in 1 .. n - 1 : (IF j < i THEN s[j] ELSE s[j + 1]) \in S
  <2> SUFFICES ASSUME NEW j \in 1 .. n - 1
               PROVE  (IF j < i THEN s[j] ELSE s[j + 1]) \in S
    OBVIOUS
  <2>1. j \in 1 .. n /\ j + 1 \in 1 .. n BY <1>1
  <2> QED BY <2>1, ElementOfSeq
<1>3. Without(s, i) \in [1 .. n - 1 -> S] BY <1>2 DEF Without
<1>4. Without(s, i) \in Seq(S) BY <1>1, <1>3, SeqDef
<1>5. Len(Without(s, i)) = n - 1 BY <1>1, <1>3, <1>4
<1> QED BY <1>4, <1>5 DEF Without

LEMMA WorthsWithout ==
  ASSUME NEW s \in Seq(UnitRecord \cup {None}), NEW i \in 1 .. Len(s)
  PROVE  Total(Worths(Without(s, i))) + Worth(s[i]) = Total(Worths(s))
<1> PICK n \in Nat : n = Len(s) OBVIOUS
<1> PICK v : v = Without(s, i) OBVIOUS
<1>1. /\ v \in Seq(UnitRecord \cup {None}) /\ Len(v) = n - 1
      /\ \A j \in 1 .. n - 1 : v[j] = IF j < i THEN s[j] ELSE s[j + 1]
  BY WithoutSeq
<1> PICK a : a = Worths(s) OBVIOUS
<1> PICK b : b = Worths(v) OBVIOUS
<1>2. a \in Seq(Nat) /\ Len(a) = n /\ \A j \in 1 .. n : a[j] = Worth(s[j])
  BY WorthsNat
<1>3. b \in Seq(Nat) /\ Len(b) = n - 1 /\ \A j \in 1 .. n - 1 : b[j] = Worth(v[j])
  BY <1>1, WorthsNat
<1> PICK e \in Seq(Nat) :
      /\ Len(e) = n - 1 /\ \A j \in 1 .. n - 1 : e[j] = IF j < i THEN a[j] ELSE a[j + 1]
      /\ Total(e) + a[i] = Total(a)
  <2>1. i \in 1 .. Len(a) BY <1>2
  <2>2. Without(a, i) \in Seq(Nat) /\ Total(Without(a, i)) + a[i] = Total(a)
    BY <1>2, <2>1, TotalWithout
  <2>3. /\ Len(Without(a, i)) = n - 1
        /\ \A j \in 1 .. n - 1 : Without(a, i)[j] = IF j < i THEN a[j] ELSE a[j + 1]
    BY <1>2, <2>1, WithoutSeq
  <2> QED BY <2>2, <2>3
<1>4. ASSUME NEW j \in 1 .. n - 1 PROVE b[j] = e[j]
  <2>1. j \in 1 .. n /\ j + 1 \in 1 .. n OBVIOUS
  <2> QED BY <1>1, <1>2, <1>3, <2>1
<1>5. b = e BY <1>3, <1>4, SeqEqual
<1> QED BY <1>2, <1>5

-----------------------------------------------------------------------------
(* What a player keeps, whatever is done with the units.                   *)

(* The first type of a unit that can select its types is never void: a     *)
(* second one that is void is then different.                              *)
Selected(u) == u.spec \in CanSelectType => u.type[1] # u.type[2] /\ u.type[1] # 0
AllSelected(p) ==
  /\ \A i \in Deployed(p.ui) : Selected(p.ui[i])
  /\ \A i \in DOMAIN p.storage : Selected(p.storage[i])

Good(p) == /\ p \in Player
           /\ NoUnitIsLost(p) /\ NoGaps(p) /\ AllSelected(p)
           /\ HighestIsHighest(p) /\ NoXpIsLost(p)

LEMMA PlayerFields ==
  ASSUME NEW p \in Player
  PROVE  /\ p.ui \in [1 .. Slots -> UnitRecord \cup {None}] /\ p.storage \in Seq(UnitRecord)
         /\ p.items \in Nat /\ p.xp \in Nat /\ p.level \in Nat \ {0}
         /\ p.highest \in Nat /\ p.won \in Nat /\ p.tree \in Tree
BY DEF Player

(* The slots are a sequence, and so is the storage, of units and gaps.     *)
LEMMA UnitSequences ==
  ASSUME NEW p \in Player
  PROVE  /\ Slots \in Nat /\ Slots > 0
         /\ p.ui \in Seq(UnitRecord \cup {None}) /\ Len(p.ui) = Slots
         /\ p.storage \in Seq(UnitRecord \cup {None})
<1>1. Slots \in Nat /\ Slots > 0 BY PlayerDataAssumption
<1>2. p.ui \in [1 .. Slots -> UnitRecord \cup {None}] /\ p.storage \in Seq(UnitRecord)
  BY PlayerFields
<1>3. p.ui \in Seq(UnitRecord \cup {None}) BY <1>1, <1>2, SeqDef
<1>4. Len(p.ui) = Slots BY <1>1, <1>2, <1>3
<1>5. UnitRecord \subseteq UnitRecord \cup {None} OBVIOUS
<1>6. p.storage \in Seq(UnitRecord \cup {None}) BY <1>2, <1>5, SeqMonotonic
<1> QED BY <1>1, <1>3, <1>4, <1>6

LEMMA DeployedUnit ==
  ASSUME NEW p \in Player, NEW i \in Deployed(p.ui)
  PROVE  i \in 1 .. Slots /\ p.ui[i] \in UnitRecord /\ p.ui[i] # None
BY PlayerFields DEF Deployed

(* What a player keeps is about the units and the experience only.         *)
SameUnits(p, q) == q.ui = p.ui /\ q.storage = p.storage /\ q.xp = p.xp /\ q.won = p.won

LEMMA StaysGood ==
  ASSUME NEW p, Good(p), NEW q \in Player, SameUnits(p, q), HighestIsHighest(q)
  PROVE  Good(q)
<1>1. q.ui = p.ui /\ q.storage = p.storage BY DEF SameUnits
<1>2. NoUnitIsLost(q)
  <2>1. DeployedIds(q) = DeployedIds(p) BY <1>1 DEF DeployedIds
  <2>2. StoredIds(q) = StoredIds(p) BY <1>1 DEF StoredIds
  <2>3. NoUnitIsLost(p) BY DEF Good
  <2> QED BY <1>1, <2>1, <2>2, <2>3 DEF NoUnitIsLost
<1>3. NoGaps(q) BY <1>1 DEF Good, NoGaps
<1>4. AllSelected(q) BY <1>1 DEF Good, AllSelected
<1>5. NoXpIsLost(q) BY <1>1 DEF Good, NoXpIsLost, SameUnits
<1> QED BY <1>2, <1>3, <1>4, <1>5 DEF Good

(* One unit in a slot becomes another, the experience pays for it.         *)
Becomes(p, q, c, u) ==
  /\ q = [p EXCEPT !.ui[c] = u, !.xp = q.xp] /\ q.xp \in Nat
  /\ c \in Deployed(p.ui) /\ u \in UnitRecord
  /\ u.id = p.ui[c].id /\ Selected(u)
  /\ q.xp + Worth(u) = p.xp + Worth(p.ui[c])

LEMMA BecomesGood ==
  ASSUME NEW p, Good(p), NEW q, NEW c, NEW u, Becomes(p, q, c, u)
  PROVE  Good(q)
<1>0. p \in Player BY DEF Good
<1> PICK ui : ui = p.ui OBVIOUS
<1> PICK vi : vi = q.ui OBVIOUS
<1>1. /\ ui \in [1 .. Slots -> UnitRecord \cup {None}] /\ c \in 1 .. Slots
      /\ ui[c] \in UnitRecord /\ ui[c] # None /\ u \in UnitRecord /\ u # None
  BY <1>0, PlayerFields, DeployedUnit, UnitFields DEF Becomes
<1>2. q \in Player /\ vi = [ui EXCEPT ![c] = u]
  BY <1>0, <1>1 DEF Becomes, Player
<1>3. /\ q.storage = p.storage /\ q.level = p.level /\ q.highest = p.highest
      /\ q.won = p.won
  BY <1>0 DEF Becomes, Player
<1>4. /\ \A i \in 1 .. Slots : vi[i] = IF i = c THEN u ELSE ui[i]
      /\ Deployed(vi) = Deployed(ui)
  BY <1>1, <1>2 DEF Deployed
<1>5. \A i \in Deployed(ui) : vi[i].id = ui[i].id BY <1>4 DEF Becomes, Deployed
<1>6. NoUnitIsLost(q)
  <2>1. NoUnitIsLost(p) BY DEF Good
  <2>2. \A i, j \in Deployed(vi) : vi[i].id = vi[j].id => i = j
    BY <1>4, <1>5, <2>1 DEF NoUnitIsLost
  <2>3. DeployedIds(q) = DeployedIds(p)
    <3>1. DeployedIds(p) = {ui[i].id : i \in Deployed(ui)} BY DEF DeployedIds
    <3>2. DeployedIds(q) = {vi[i].id : i \in Deployed(ui)} BY <1>4 DEF DeployedIds
    <3> QED BY <1>5, <3>1, <3>2
  <2>4. StoredIds(q) = StoredIds(p) BY <1>3 DEF StoredIds
  <2> QED BY <1>3, <2>1, <2>2, <2>3, <2>4 DEF NoUnitIsLost
<1>7. NoGaps(q) BY <1>4 DEF Good, NoGaps, IsUnit, Deployed
<1>8. AllSelected(q) BY <1>3, <1>4 DEF Good, AllSelected, Becomes, Deployed
<1>9. HighestIsHighest(q) BY <1>3 DEF Good, HighestIsHighest
<1>10. NoXpIsLost(q)
  <2>1. ui \in Seq(UnitRecord \cup {None}) /\ vi \in Seq(UnitRecord \cup {None})
        /\ Len(ui) = Slots /\ Len(vi) = Slots
    BY <1>0, <1>2, UnitSequences
  <2> PICK s : s = Worths(ui) OBVIOUS
  <2> PICK t : t = Worths(vi) OBVIOUS
  <2> PICK w \in Nat : w = Worth(u) BY <1>1, WorthNat
  <2>2. s \in Seq(Nat) /\ Len(s) = Slots /\ \A i \in 1 .. Slots : s[i] = Worth(ui[i])
    BY <2>1, WorthsNat
  <2>3. t \in Seq(Nat) /\ Len(t) = Slots /\ \A i \in 1 .. Slots : t[i] = Worth(vi[i])
    BY <2>1, WorthsNat
  <2> PICK r : r = [s EXCEPT ![c] = w] OBVIOUS
  <2>4. c \in 1 .. Len(s) BY <1>1, <2>2
  <2>5. r \in Seq(Nat) /\ Total(r) + s[c] = Total(s) + w BY <2>2, <2>4, TotalUpdate
  <2>6. Len(r) = Slots /\ \A i \in 1 .. Slots : r[i] = IF i = c THEN w ELSE s[i]
    BY <2>2, <2>4, ExceptSeq
  <2>7. \A i \in 1 .. Len(t) : t[i] = r[i] BY <1>4, <2>2, <2>3, <2>6
  <2>8. t = r BY <2>3, <2>5, <2>6, <2>7, SeqEqual
  <2>9. s[c] = Worth(ui[c]) /\ s[c] \in Nat BY <1>1, <2>2, WorthNat
  <2>10. q.xp + w = p.xp + s[c] /\ q.xp \in Nat /\ p.xp \in Nat
    BY <1>0, <2>9, PlayerFields DEF Becomes
  <2> PICK a \in Nat : a = Total(s) BY <2>2, TotalNat
  <2> PICK b \in Nat : b = Total(t) BY <2>3, TotalNat
  <2> PICK x \in Nat : x = s[c] BY <2>9
  <2> PICK m \in Nat : m = q.xp BY <2>10
  <2> PICK n \in Nat : n = p.xp BY <2>10
  <2>14. b + x = a + w /\ m + w = n + x BY <2>5, <2>8, <2>10
  <2>11. m + b = n + a BY <2>14
  <2>12. p.xp + a + Total(Worths(p.storage)) = p.won BY DEF Good, NoXpIsLost
  <2>13. q.xp + b + Total(Worths(q.storage)) = q.won BY <1>3, <2>11, <2>12
  <2> QED BY <2>13 DEF NoXpIsLost
<1> QED BY <1>2, <1>6, <1>7, <1>8, <1>9, <1>10 DEF Good

(* Two units change places.                                                *)
Swaps(p, q, c, d) ==
  /\ c \in Deployed(p.ui) /\ d \in Deployed(p.ui) /\ c # d
  /\ q = [p EXCEPT !.ui = Swapped(@, c, d)]

LEMMA SwapGood ==
  ASSUME NEW p, Good(p), NEW c, NEW d, NEW q, Swaps(p, q, c, d)
  PROVE  Good(q) /\ Deployed(q.ui) = Deployed(p.ui)
<1> c \in Deployed(p.ui) /\ d \in Deployed(p.ui) /\ c # d BY DEF Swaps
<1>0. p \in Player /\ q = [p EXCEPT !.ui = Swapped(@, c, d)] BY DEF Good, Swaps
<1> PICK ui : ui = p.ui OBVIOUS
<1> PICK vi : vi = q.ui OBVIOUS
<1>1. /\ ui \in [1 .. Slots -> UnitRecord \cup {None}] /\ c \in 1 .. Slots /\ d \in 1 .. Slots
      /\ ui[c] \in UnitRecord /\ ui[c] # None /\ ui[d] \in UnitRecord /\ ui[d] # None
  BY <1>0, PlayerFields, DeployedUnit
<1>2. vi = Swapped(ui, c, d) BY <1>0 DEF Player
<1>3. /\ vi \in [1 .. Slots -> UnitRecord \cup {None}]
      /\ \A i \in 1 .. Slots : vi[i] = IF i = c THEN ui[d] ELSE IF i = d THEN ui[c] ELSE ui[i]
  BY <1>1, <1>2 DEF Swapped
<1>4. /\ q \in Player /\ q.storage = p.storage /\ q.level = p.level
      /\ q.highest = p.highest /\ q.won = p.won /\ q.xp = p.xp
  BY <1>0, <1>2, <1>3 DEF Player
<1>5. Deployed(vi) = Deployed(ui) BY <1>1, <1>3 DEF Deployed
<1>6. NoUnitIsLost(q)
  <2>1. \A i, j \in Deployed(ui) : ui[i].id = ui[j].id => i = j
    BY DEF Good, NoUnitIsLost
  <2>2. c \in Deployed(ui) /\ d \in Deployed(ui) /\ Deployed(ui) \subseteq 1 .. Slots
    BY DEF Deployed
  <2>3. \A i, j \in Deployed(vi) : vi[i].id = vi[j].id => i = j
    BY <1>3, <1>5, <2>1, <2>2
  <2>4. DeployedIds(q) = DeployedIds(p)
    <3>1. ASSUME NEW i \in Deployed(ui) PROVE \E j \in Deployed(ui) : ui[i].id = vi[j].id
      <4>1. ui[i] = vi[IF i = c THEN d ELSE IF i = d THEN c ELSE i]
        BY <1>3, <2>2
      <4>2. (IF i = c THEN d ELSE IF i = d THEN c ELSE i) \in Deployed(ui) BY <2>2
      <4> QED BY <4>1, <4>2
    <3>2. ASSUME NEW i \in Deployed(ui) PROVE \E j \in Deployed(ui) : vi[i].id = ui[j].id
      <4>1. vi[i] = ui[IF i = c THEN d ELSE IF i = d THEN c ELSE i]
        BY <1>3, <2>2
      <4>2. (IF i = c THEN d ELSE IF i = d THEN c ELSE i) \in Deployed(ui) BY <2>2
      <4> QED BY <4>1, <4>2
    <3>3. DeployedIds(p) = {ui[i].id : i \in Deployed(ui)} BY DEF DeployedIds
    <3>4. DeployedIds(q) = {vi[i].id : i \in Deployed(ui)} BY <1>5 DEF DeployedIds
    <3>5. DeployedIds(p) \subseteq DeployedIds(q) BY <3>1, <3>3, <3>4
    <3>6. DeployedIds(q) \subseteq DeployedIds(p) BY <3>2, <3>3, <3>4
    <3> QED BY <3>5, <3>6
  <2>5. StoredIds(q) = StoredIds(p) BY <1>4 DEF StoredIds
  <2>6. NoUnitIsLost(p) BY DEF Good
  <2> QED BY <1>4, <1>5, <2>3, <2>4, <2>5, <2>6 DEF NoUnitIsLost
<1>7. NoGaps(q)
  <2>1. \A j \in 1 .. Slots : IsUnit(vi, j) <=> IsUnit(ui, j) BY <1>1, <1>3 DEF IsUnit
  <2>2. NoGaps(p) BY DEF Good
  <2>3. ASSUME NEW i \in Deployed(vi), NEW j \in 1 .. i PROVE IsUnit(vi, j)
    <3>1. IsUnit(ui, j) BY <1>5, <2>2 DEF NoGaps
    <3>2. j \in 1 .. Slots BY <3>1 DEF IsUnit
    <3> QED BY <2>1, <3>1, <3>2
  <2> QED BY <2>3 DEF NoGaps
<1>8. AllSelected(q)
  <2>1. \A i \in Deployed(ui) : Selected(ui[i]) BY DEF Good, AllSelected
  <2>2. \A i \in Deployed(vi) : Selected(vi[i])
    <3> SUFFICES ASSUME NEW i \in Deployed(vi) PROVE Selected(vi[i])
      OBVIOUS
    <3>1. i \in 1 .. Slots BY DEF Deployed
    <3>2. CASE i = c BY <1>3, <2>1, <3>1, <3>2
    <3>3. CASE i # c /\ i = d BY <1>3, <2>1, <3>1, <3>3
    <3>4. CASE i # c /\ i # d BY <1>3, <1>5, <2>1, <3>1, <3>4
    <3> QED BY <3>2, <3>3, <3>4
  <2> QED BY <1>4, <2>2 DEF Good, AllSelected
<1>9. HighestIsHighest(q) BY <1>4 DEF Good, HighestIsHighest
<1>10. NoXpIsLost(q)
  <2>1. ui \in Seq(UnitRecord \cup {None}) /\ vi \in Seq(UnitRecord \cup {None})
        /\ Len(ui) = Slots /\ Len(vi) = Slots
    BY <1>0, <1>4, UnitSequences
  <2>2. PICK s : s = Worths(ui) OBVIOUS
  <2>3. PICK t : t = Worths(vi) OBVIOUS
  <2>4. s \in Seq(Nat) /\ Len(s) = Slots /\ \A i \in 1 .. Slots : s[i] = Worth(ui[i])
    BY <2>1, <2>2, WorthsNat
  <2>5. t \in Seq(Nat) /\ Len(t) = Slots /\ \A i \in 1 .. Slots : t[i] = Worth(vi[i])
    BY <2>1, <2>3, WorthsNat
  <2>6. c \in 1 .. Len(s) /\ d \in 1 .. Len(s) BY <1>1, <2>4
  <2>7. PICK x \in Nat : x = s[c] BY <2>4, <2>6, ElementOfSeq
  <2>8. PICK y \in Nat : y = s[d] BY <2>4, <2>6, ElementOfSeq
  <2>9. PICK r \in Seq(Nat) :
          /\ Len(r) = Slots /\ \A i \in 1 .. Slots : r[i] = IF i = c THEN y ELSE s[i]
          /\ Total(r) + x = Total(s) + y
    <3>1. /\ [s EXCEPT ![c] = y] \in Seq(Nat)
          /\ Total([s EXCEPT ![c] = y]) + s[c] = Total(s) + y
      BY <2>4, <2>6, TotalUpdate
    <3>2. /\ Len([s EXCEPT ![c] = y]) = Slots
          /\ \A i \in 1 .. Slots : [s EXCEPT ![c] = y][i] = IF i = c THEN y ELSE s[i]
      BY <2>4, <2>6, ExceptSeq
    <3> QED BY <2>7, <3>1, <3>2
  <2>10. d \in 1 .. Len(r) /\ r[d] = y BY <1>1, <2>8, <2>9
  <2>11. PICK v \in Seq(Nat) :
           /\ Len(v) = Slots /\ \A i \in 1 .. Slots : v[i] = IF i = d THEN x ELSE r[i]
           /\ Total(v) + y = Total(r) + x
    <3>1. /\ [r EXCEPT ![d] = x] \in Seq(Nat)
          /\ Total([r EXCEPT ![d] = x]) + r[d] = Total(r) + x
      BY <2>10, TotalUpdate
    <3>2. /\ Len([r EXCEPT ![d] = x]) = Slots
          /\ \A i \in 1 .. Slots : [r EXCEPT ![d] = x][i] = IF i = d THEN x ELSE r[i]
      BY <2>9, <2>10, ExceptSeq
    <3> QED BY <2>10, <3>1, <3>2
  <2>12. \A i \in 1 .. Slots : v[i] = IF i = d THEN x ELSE IF i = c THEN y ELSE s[i]
    BY <2>9, <2>11
  <2>13. x = Worth(ui[c]) /\ y = Worth(ui[d]) BY <1>1, <2>4, <2>7, <2>8
  <2>14. ASSUME NEW i \in 1 .. Slots PROVE t[i] = v[i]
    <3>1. t[i] = Worth(vi[i]) BY <2>5
    <3>2. v[i] = IF i = d THEN x ELSE IF i = c THEN y ELSE s[i] BY <2>12
    <3>3. vi[i] = IF i = c THEN ui[d] ELSE IF i = d THEN ui[c] ELSE ui[i] BY <1>3
    <3>4. CASE i = d
      <4>1. vi[i] = ui[c] BY <3>3, <3>4
      <4>2. v[i] = x BY <3>2, <3>4
      <4> QED BY <2>13, <3>1, <4>1, <4>2
    <3>5. CASE i # d /\ i = c
      <4>1. vi[i] = ui[d] BY <3>3, <3>5
      <4>2. v[i] = y BY <3>2, <3>5
      <4> QED BY <2>13, <3>1, <4>1, <4>2
    <3>6. CASE i # d /\ i # c
      <4>1. vi[i] = ui[i] BY <3>3, <3>6
      <4>2. v[i] = s[i] BY <3>2, <3>6
      <4>3. s[i] = Worth(ui[i]) BY <2>4
      <4> QED BY <3>1, <4>1, <4>2, <4>3
    <3> QED BY <3>4, <3>5, <3>6
  <2>15. t = v
    <3>1. Len(t) = Slots /\ Len(v) = Slots BY <2>5, <2>11
    <3>2. \A i \in 1 .. Len(t) : t[i] = v[i] BY <2>14, <3>1
    <3> QED BY <2>5, <2>11, <3>1, <3>2, SeqEqual
  <2>16. PICK m \in Nat : m = Total(s) BY <2>4, TotalNat
  <2>17. PICK e \in Nat : e = Total(r) BY <2>9, TotalNat
  <2>18. PICK n \in Nat : n = Total(v) BY <2>11, TotalNat
  <2>19. e + x = m + y /\ n + y = e + x BY <2>9, <2>11, <2>16, <2>17, <2>18
  <2>20. m = n BY <2>19
  <2>21. Total(Worths(q.ui)) = Total(Worths(p.ui))
    BY <2>2, <2>3, <2>15, <2>16, <2>18, <2>20
  <2> QED BY <1>4, <2>21 DEF Good, NoXpIsLost
<1> QED BY <1>4, <1>5, <1>6, <1>7, <1>8, <1>9, <1>10 DEF Good

(* The slots behind the one that is emptied move up.                       *)
LEMMA ClosedIs ==
  ASSUME NEW p, Good(p), NEW c \in Deployed(p.ui)
  PROVE  /\ Closed(p.ui, c) \in [1 .. Slots -> UnitRecord \cup {None}]
         /\ \A i \in 1 .. Slots :
              Closed(p.ui, c)[i] =
                IF i < c THEN p.ui[i] ELSE IF i < Slots THEN p.ui[i + 1] ELSE None
<1>0. p \in Player /\ NoGaps(p) BY DEF Good
<1> PICK ui : ui = p.ui OBVIOUS
<1>1. /\ ui \in [1 .. Slots -> UnitRecord \cup {None}] /\ c \in 1 .. Slots
      /\ Slots \in Nat /\ ui[c] # None
  BY <1>0, PlayerFields, DeployedUnit, UnitSequences
<1>2. CASE ~IsUnit(ui, c + 1)
  <2>1. Closed(ui, c) = [ui EXCEPT ![c] = None] BY <1>2 DEF Closed
  <2>2. ASSUME NEW i \in 1 .. Slots, i > c PROVE ui[i] = None
    <3>1. SUFFICES ASSUME ui[i] # None PROVE FALSE
      OBVIOUS
    <3>2. i \in Deployed(ui) BY <3>1 DEF Deployed
    <3>3. c + 1 \in 1 .. i BY <1>1, <2>2
    <3>4. IsUnit(ui, c + 1) BY <1>0, <3>2, <3>3 DEF NoGaps
    <3> QED BY <1>2, <3>4
  <2>3. ASSUME NEW i \in 1 .. Slots
        PROVE  Closed(ui, c)[i] = IF i < c THEN ui[i] ELSE IF i < Slots THEN ui[i + 1] ELSE None
    <3>1. CASE i < c BY <1>1, <2>1, <3>1
    <3>2. CASE i >= c /\ i < Slots
      <4>1. i + 1 \in 1 .. Slots /\ i + 1 > c BY <1>1, <3>2
      <4>2. ui[i + 1] = None BY <2>2, <4>1
      <4>3. i # c => ui[i] = None BY <1>1, <2>2, <3>2
      <4>4. Closed(ui, c)[i] = None BY <1>1, <2>1, <4>3
      <4> QED BY <1>1, <3>2, <4>2, <4>4
    <3>3. CASE i >= c /\ ~(i < Slots)
      <4>1. i # c => ui[i] = None BY <1>1, <2>2, <3>3
      <4>2. Closed(ui, c)[i] = None BY <1>1, <2>1, <4>1
      <4> QED BY <1>1, <3>3, <4>2
    <3> QED BY <1>1, <3>1, <3>2, <3>3
  <2>4. Closed(ui, c) \in [1 .. Slots -> UnitRecord \cup {None}] BY <1>1, <2>1
  <2> QED BY <2>3, <2>4
<1>3. CASE IsUnit(ui, c + 1)
  <2>1. Closed(ui, c)
          = [i \in 1 .. Slots |-> IF i < c THEN ui[i] ELSE IF i < Slots THEN ui[i + 1] ELSE None]
    BY <1>3 DEF Closed
  <2>2. \A i \in 1 .. Slots :
          (IF i < c THEN ui[i] ELSE IF i < Slots THEN ui[i + 1] ELSE None)
            \in UnitRecord \cup {None}
    BY <1>1
  <2> QED BY <2>1, <2>2
<1> QED BY <1>2, <1>3

(* A unit goes to the storage.                                             *)
LEMMA StoreGood ==
  ASSUME NEW p, Good(p), NEW c \in Deployed(p.ui), NEW t \in Tree, NEW q,
         q = [p EXCEPT !.ui = Closed(@, c), !.storage = Append(@, p.ui[c]), !.tree = t]
  PROVE  Good(q)
<1>0. p \in Player /\ NoGaps(p) /\ NoUnitIsLost(p) /\ AllSelected(p) BY DEF Good
<1> PICK ui : ui = p.ui OBVIOUS
<1> PICK vi : vi = Closed(p.ui, c) OBVIOUS
<1> PICK st : st = p.storage OBVIOUS
<1> PICK ts : ts = Append(p.storage, p.ui[c]) OBVIOUS
<1>1. /\ ui \in [1 .. Slots -> UnitRecord \cup {None}] /\ c \in 1 .. Slots
      /\ Slots \in Nat /\ ui[c] \in UnitRecord /\ ui[c] # None /\ st \in Seq(UnitRecord)
  BY <1>0, PlayerFields, DeployedUnit, UnitSequences
<1> PICK n \in Nat : n = Len(st)
  <2>1. Len(st) \in Nat BY <1>1, LenProperties
  <2> QED BY <2>1
<1>2. /\ vi \in [1 .. Slots -> UnitRecord \cup {None}]
      /\ \A i \in 1 .. Slots :
           vi[i] = IF i < c THEN ui[i] ELSE IF i < Slots THEN ui[i + 1] ELSE None
  BY ClosedIs
<1>3. /\ ts \in Seq(UnitRecord) /\ Len(ts) = n + 1 /\ ts[n + 1] = ui[c]
      /\ \A i \in 1 .. n : ts[i] = st[i]
  BY <1>1
<1>4. /\ q \in Player /\ q.ui = vi /\ q.storage = ts /\ q.level = p.level
      /\ q.highest = p.highest /\ q.won = p.won /\ q.xp = p.xp
  BY <1>0, <1>2, <1>3 DEF Player
<1>5. \A i \in 1 .. Slots : \A j \in 1 .. i : ui[i] # None => ui[j] # None
  BY <1>0, <1>1 DEF NoGaps, Deployed, IsUnit
<1>6. ASSUME NEW i \in Deployed(vi)
      PROVE  /\ i \in 1 .. Slots
             /\ i < c => vi[i] = ui[i] /\ i \in Deployed(ui)
             /\ i >= c => vi[i] = ui[i + 1] /\ i + 1 \in Deployed(ui) /\ i < Slots
  <2>1. i \in 1 .. Slots /\ vi[i] # None BY DEF Deployed
  <2>2. CASE i < c BY <1>1, <1>2, <2>1, <2>2 DEF Deployed
  <2>3. CASE i >= c
    <3>1. i < Slots BY <1>1, <1>2, <2>1, <2>3
    <3>2. vi[i] = ui[i + 1] /\ i + 1 \in 1 .. Slots BY <1>1, <1>2, <2>1, <2>3, <3>1
    <3> QED BY <1>1, <2>1, <2>3, <3>1, <3>2 DEF Deployed
  <2> QED BY <1>1, <2>1, <2>2, <2>3
<1>7. ASSUME NEW k \in Deployed(ui), k # c
      PROVE  \E i \in Deployed(vi) : vi[i] = ui[k]
  <2>1. k \in 1 .. Slots /\ ui[k] # None BY DEF Deployed
  <2>2. CASE k < c
    <3>1. vi[k] = ui[k] BY <1>2, <2>1, <2>2
    <3> QED BY <2>1, <3>1 DEF Deployed
  <2>3. CASE k > c
    <3>1. k - 1 \in 1 .. Slots /\ ~(k - 1 < c) /\ k - 1 < Slots /\ k - 1 + 1 = k
      BY <1>1, <2>1, <2>3
    <3>2. vi[k - 1] = ui[k] BY <1>2, <3>1
    <3> QED BY <2>1, <3>1, <3>2 DEF Deployed
  <2> QED BY <1>1, <1>7, <2>1, <2>2, <2>3
<1>8. c \in Deployed(ui) /\ \A i, j \in Deployed(ui) : ui[i].id = ui[j].id => i = j
  BY <1>0 DEF NoUnitIsLost
<1>9. \A i, j \in Deployed(vi) : vi[i].id = vi[j].id => i = j
  <2> SUFFICES ASSUME NEW i \in Deployed(vi), NEW j \in Deployed(vi), vi[i].id = vi[j].id
               PROVE  i = j
    OBVIOUS
  <2>1. i \in 1 .. Slots /\ j \in 1 .. Slots BY <1>6
  <2>2. CASE i < c /\ j < c BY <1>6, <1>8, <2>2
  <2>3. CASE i < c /\ j >= c
    <3>1. i = j + 1 BY <1>6, <1>8, <2>3
    <3> QED BY <1>1, <2>1, <2>3, <3>1
  <2>4. CASE i >= c /\ j < c
    <3>1. i + 1 = j BY <1>6, <1>8, <2>4
    <3> QED BY <1>1, <2>1, <2>4, <3>1
  <2>5. CASE i >= c /\ j >= c
    <3>1. i + 1 = j + 1 BY <1>6, <1>8, <2>5
    <3> QED BY <1>1, <2>1, <3>1
  <2> QED BY <1>1, <2>1, <2>2, <2>3, <2>4, <2>5
<1>10. DeployedIds(q) = DeployedIds(p) \ {ui[c].id}
  <2>1. DeployedIds(q) = {vi[i].id : i \in Deployed(vi)} BY <1>4 DEF DeployedIds
  <2>2. DeployedIds(p) = {ui[i].id : i \in Deployed(ui)} BY DEF DeployedIds
  <2>3. ASSUME NEW i \in Deployed(vi)
        PROVE  \E k \in Deployed(ui) : k # c /\ vi[i].id = ui[k].id
    <3>1. i \in 1 .. Slots BY <1>6
    <3>2. CASE i < c
      <4>1. i # c BY <1>1, <3>1, <3>2
      <4> QED BY <1>6, <3>2, <4>1
    <3>3. CASE i >= c
      <4>1. i + 1 # c BY <1>1, <3>1, <3>3
      <4> QED BY <1>6, <3>3, <4>1
    <3> QED BY <1>1, <3>1, <3>2, <3>3
  <2>4. DeployedIds(q) \subseteq DeployedIds(p) \ {ui[c].id}
    BY <1>8, <2>1, <2>2, <2>3
  <2>5. DeployedIds(p) \ {ui[c].id} \subseteq DeployedIds(q)
    BY <1>7, <2>1, <2>2
  <2> QED BY <2>4, <2>5
<1>11. StoredIds(q) = StoredIds(p) \cup {ui[c].id}
  <2>1. StoredIds(q) = {ts[i].id : i \in 1 .. n + 1} BY <1>3, <1>4 DEF StoredIds
  <2>2. StoredIds(p) = {st[i].id : i \in 1 .. n} BY <1>1 DEF StoredIds
  <2>3. \A i \in 1 .. n + 1 : i \in 1 .. n \/ i = n + 1 OBVIOUS
  <2>4. StoredIds(q) \subseteq StoredIds(p) \cup {ui[c].id} BY <1>3, <2>1, <2>2, <2>3
  <2>5. \A i \in 1 .. n : i \in 1 .. n + 1 OBVIOUS
  <2>6. n + 1 \in 1 .. n + 1 OBVIOUS
  <2>7. StoredIds(p) \cup {ui[c].id} \subseteq StoredIds(q)
    BY <1>3, <2>1, <2>2, <2>5, <2>6
  <2> QED BY <2>4, <2>7
<1>12. ui[c].id \in DeployedIds(p) BY <1>8 DEF DeployedIds
<1>13. NoUnitIsLost(q)
  <2>1. \A i, j \in DOMAIN ts : ts[i].id = ts[j].id => i = j
    <3> SUFFICES ASSUME NEW i \in 1 .. n + 1, NEW j \in 1 .. n + 1, ts[i].id = ts[j].id
                 PROVE  i = j
      BY <1>3
    <3>1. \A k \in 1 .. n : ts[k].id # ui[c].id
      <4>1. \A k \in 1 .. n : st[k].id \in StoredIds(p) BY <1>1 DEF StoredIds
      <4>2. ui[c].id \notin StoredIds(p) BY <1>0, <1>12 DEF NoUnitIsLost
      <4> QED BY <1>3, <4>1, <4>2
    <3>2. CASE i \in 1 .. n /\ j \in 1 .. n BY <1>0, <1>1, <1>3, <3>2 DEF NoUnitIsLost
    <3>3. CASE i = n + 1 BY <1>3, <3>1, <3>3
    <3>4. CASE j = n + 1 BY <1>3, <3>1, <3>4
    <3> QED BY <3>2, <3>3, <3>4
  <2>2. /\ DeployedIds(p) \cap StoredIds(p) = {} /\ DeployedIds(p) \cup StoredIds(p) = Ids
    BY <1>0 DEF NoUnitIsLost
  <2>3. /\ DeployedIds(q) \cap StoredIds(q) = {} /\ DeployedIds(q) \cup StoredIds(q) = Ids
    BY <1>10, <1>11, <1>12, <2>2
  <2>4. \A i, j \in Deployed(q.ui) : q.ui[i].id = q.ui[j].id => i = j BY <1>4, <1>9
  <2>5. \A i, j \in DOMAIN q.storage : q.storage[i].id = q.storage[j].id => i = j
    BY <1>4, <2>1
  <2> QED BY <2>3, <2>4, <2>5 DEF NoUnitIsLost
<1>14. NoGaps(q)
  <2> SUFFICES ASSUME NEW i \in Deployed(vi), NEW j \in 1 .. i PROVE IsUnit(vi, j)
    BY <1>4 DEF NoGaps
  <2>1. i \in 1 .. Slots /\ j \in 1 .. Slots BY <1>1, <1>6
  <2>2. CASE j < c
    <3>1. ui[j] # None BY <1>1, <1>5, <2>1, <2>2
    <3> QED BY <1>2, <2>1, <2>2, <3>1 DEF IsUnit
  <2>3. CASE j >= c
    <3>1. i >= c BY <1>1, <2>1, <2>3
    <3>2. i + 1 \in Deployed(ui) /\ i < Slots BY <1>6, <3>1
    <3>3. j + 1 \in 1 .. i + 1 /\ j < Slots BY <1>1, <2>1, <3>2
    <3>4. ui[j + 1] # None BY <1>5, <3>2, <3>3 DEF Deployed
    <3>5. vi[j] = ui[j + 1] BY <1>1, <1>2, <2>1, <2>3, <3>3
    <3> QED BY <2>1, <3>4, <3>5 DEF IsUnit
  <2> QED BY <1>1, <2>1, <2>2, <2>3
<1>15. AllSelected(q)
  <2>1. ASSUME NEW i \in Deployed(vi) PROVE Selected(vi[i])
    <3>1. i \in 1 .. Slots BY <1>6
    <3>2. CASE i < c BY <1>0, <1>6, <3>2 DEF AllSelected
    <3>3. CASE i >= c BY <1>0, <1>6, <3>3 DEF AllSelected
    <3> QED BY <1>1, <3>1, <3>2, <3>3
  <2>2. ASSUME NEW i \in 1 .. n + 1 PROVE Selected(ts[i])
    <3>1. CASE i \in 1 .. n BY <1>0, <1>1, <1>3, <3>1 DEF AllSelected
    <3>2. CASE i = n + 1 BY <1>0, <1>3, <1>8, <3>2 DEF AllSelected
    <3> QED BY <3>1, <3>2
  <2>3. DOMAIN ts = 1 .. n + 1 BY <1>3
  <2> QED BY <1>4, <2>1, <2>2, <2>3 DEF AllSelected
<1>16. HighestIsHighest(q) BY <1>4 DEF Good, HighestIsHighest
<1>17. NoXpIsLost(q)
  <2>1. ui \in Seq(UnitRecord \cup {None}) /\ Len(ui) = Slots
        /\ st \in Seq(UnitRecord \cup {None}) /\ vi \in Seq(UnitRecord \cup {None})
        /\ Len(vi) = Slots
    BY <1>0, <1>4, UnitSequences
  <2> PICK r : r = Without(ui, c) OBVIOUS
  <2>2. /\ r \in Seq(UnitRecord \cup {None}) /\ Len(r) = Slots - 1
        /\ \A i \in 1 .. Slots - 1 : r[i] = IF i < c THEN ui[i] ELSE ui[i + 1]
    <3>1. c \in 1 .. Len(ui) BY <1>1, <2>1
    <3> QED BY <2>1, <3>1, WithoutSeq
  <2> PICK v : v = Append(r, None) OBVIOUS
  <2>3. /\ v \in Seq(UnitRecord \cup {None}) /\ Len(v) = Slots /\ v[Slots] = None
        /\ \A i \in 1 .. Slots - 1 : v[i] = r[i]
    BY <1>1, <2>2, AppendProperties
  <2>4. ASSUME NEW i \in 1 .. Slots PROVE vi[i] = v[i]
    <3>1. CASE i \in 1 .. Slots - 1
      <4>1. i < Slots BY <1>1, <3>1
      <4> QED BY <1>2, <2>2, <2>3, <3>1, <4>1
    <3>2. CASE i = Slots
      <4>1. ~(i < c) /\ ~(i < Slots) BY <1>1, <3>2
      <4> QED BY <1>2, <2>3, <3>2, <4>1
    <3>3. i \in 1 .. Slots - 1 \/ i = Slots BY <1>1
    <3> QED BY <3>1, <3>2, <3>3
  <2>5. vi = v BY <2>1, <2>3, <2>4, SeqEqual
  <2>6. Total(Worths(r)) + Worth(ui[c]) = Total(Worths(ui))
    BY <1>1, <2>1, WorthsWithout
  <2>7. Total(Worths(v)) = Total(Worths(r)) + Worth(None) BY <2>2, WorthsAppend
  <2>8. Total(Worths(ts)) = Total(Worths(st)) + Worth(ui[c])
    BY <1>1, <2>1, WorthsAppend
  <2>9. Worth(None) = 0 BY DEF Worth
  <2> PICK w \in Nat : w = Worth(ui[c]) BY <1>1, WorthNat
  <2> PICK a \in Nat : a = Total(Worths(r)) BY <2>2, WorthsNat, TotalNat
  <2> PICK b \in Nat : b = Total(Worths(st)) BY <2>1, WorthsNat, TotalNat
  <2> PICK x \in Nat : x = p.xp BY <1>0, PlayerFields
  <2>10. Total(Worths(vi)) = a BY <2>5, <2>7, <2>9
  <2>11. Total(Worths(ui)) = a + w BY <2>6
  <2>12. x + (a + w) + b = p.won BY <2>11 DEF Good, NoXpIsLost
  <2>13. x + (a + w) + b = x + a + (b + w) OBVIOUS
  <2>14. q.xp + Total(Worths(q.ui)) + Total(Worths(q.storage)) = q.won
    BY <1>4, <2>8, <2>10, <2>12, <2>13
  <2> QED BY <2>14 DEF NoXpIsLost
<1> QED BY <1>4, <1>13, <1>14, <1>15, <1>16, <1>17 DEF Good

LEMMA TakenIs ==
  ASSUME NEW S, NEW s \in Seq(S), NEW c \in 1 .. Len(s)
  PROVE  Taken(s, c) = Without(s, c)
<1> PICK n \in Nat : n = Len(s) OBVIOUS
<1> PICK a : a = SubSeq(s, 1, c - 1) OBVIOUS
<1> PICK b : b = SubSeq(s, c + 1, n) OBVIOUS
<1> PICK v : v = Without(s, c) OBVIOUS
<1>0. c \in 1 .. n /\ c \in Nat /\ c - 1 \in Nat /\ n - c \in Nat OBVIOUS
<1>1. a \in Seq(S) /\ Len(a) = c - 1 /\ \A i \in 1 .. c - 1 : a[i] = s[i]
  <2>1. \A i \in 1 .. c - 1 : s[i] \in S BY <1>0, ElementOfSeq
  <2>2. /\ a \in Seq(S) /\ Len(a) = IF 1 <= c - 1 THEN c - 1 - 1 + 1 ELSE 0
        /\ \A i \in 1 .. c - 1 - 1 + 1 : a[i] = s[1 + i - 1]
    BY <1>0, <2>1, SubSeqProperties
  <2>3. c - 1 - 1 + 1 = c - 1 /\ \A i \in 1 .. c - 1 : 1 + i - 1 = i BY <1>0
  <2>4. \A i \in 1 .. c - 1 : a[i] = s[i] BY <2>2, <2>3
  <2>5. Len(a) = c - 1 BY <1>0, <2>2
  <2> QED BY <2>2, <2>4, <2>5
<1>2. b \in Seq(S) /\ Len(b) = n - c /\ \A i \in 1 .. n - c : b[i] = s[c + i]
  <2>1. \A i \in c + 1 .. n : s[i] \in S BY <1>0, ElementOfSeq
  <2>2. /\ b \in Seq(S) /\ Len(b) = IF c + 1 <= n THEN n - (c + 1) + 1 ELSE 0
        /\ \A i \in 1 .. n - (c + 1) + 1 : b[i] = s[c + 1 + i - 1]
    BY <1>0, <2>1, SubSeqProperties
  <2>3. n - (c + 1) + 1 = n - c /\ \A i \in 1 .. n - c : c + 1 + i - 1 = c + i BY <1>0
  <2>4. \A i \in 1 .. n - c : b[i] = s[c + i] BY <2>2, <2>3
  <2>5. Len(b) = n - c BY <1>0, <2>2
  <2> QED BY <2>2, <2>4, <2>5
<1> PICK w : w = a \o b OBVIOUS
<1>3. /\ w \in Seq(S) /\ Len(w) = Len(a) + Len(b)
      /\ \A i \in 1 .. Len(a) + Len(b) :
           w[i] = IF i <= Len(a) THEN a[i] ELSE b[i - Len(a)]
  <2>1. a \in Seq(S) /\ b \in Seq(S) BY <1>1, <1>2
  <2>2. /\ a \o b \in Seq(S) /\ Len(a \o b) = Len(a) + Len(b)
        /\ \A i \in 1 .. Len(a) + Len(b) :
             (a \o b)[i] = IF i <= Len(a) THEN a[i] ELSE b[i - Len(a)]
    BY ONLY <2>1, ConcatProperties
  <2> QED BY <2>2
<1>4. Len(a) + Len(b) = n - 1
  <2>1. Len(a) = c - 1 /\ Len(b) = n - c BY <1>1, <1>2
  <2>2. (c - 1) + (n - c) = n - 1 BY <1>0
  <2> QED BY <2>1, <2>2
<1>5. v \in Seq(S) /\ Len(v) = n - 1
      /\ \A i \in 1 .. n - 1 : v[i] = IF i < c THEN s[i] ELSE s[i + 1]
  BY WithoutSeq
<1>6. ASSUME NEW i \in 1 .. n - 1 PROVE w[i] = v[i]
  <2>1. CASE i < c
    <3>1. i <= c - 1 /\ i \in 1 .. c - 1 BY <1>0, <2>1
    <3> QED BY <1>1, <1>3, <1>4, <1>5, <2>1, <3>1
  <2>2. CASE ~(i < c)
    <3>1. ~(i <= c - 1) /\ i - (c - 1) \in 1 .. n - c /\ c + (i - (c - 1)) = i + 1
      BY <1>0, <2>2
    <3> PICK j \in 1 .. n - c : j = i - (c - 1) BY <3>1
    <3>2. w[i] = b[j] BY <1>1, <1>3, <1>4, <3>1
    <3>3. b[j] = s[i + 1] BY <1>2, <3>1
    <3> QED BY <1>5, <2>2, <3>2, <3>3
  <2> QED BY <2>1, <2>2
<1>7. w = v BY <1>3, <1>4, <1>5, <1>6, SeqEqual
<1> QED BY <1>7 DEF Taken, RemoveAt

LEMMA WorthsUpdate ==
  ASSUME NEW s \in Seq(UnitRecord \cup {None}), NEW i \in 1 .. Len(s),
         NEW u \in UnitRecord \cup {None}
  PROVE  Total(Worths([s EXCEPT ![i] = u])) + Worth(s[i]) = Total(Worths(s)) + Worth(u)
<1> PICK n \in Nat : n = Len(s) OBVIOUS
<1> PICK v : v = [s EXCEPT ![i] = u] OBVIOUS
<1>1. /\ v \in Seq(UnitRecord \cup {None}) /\ Len(v) = n
      /\ \A j \in 1 .. n : v[j] = IF j = i THEN u ELSE s[j]
  BY ExceptSeq
<1> PICK a : a = Worths(s) OBVIOUS
<1> PICK b : b = Worths(v) OBVIOUS
<1> PICK w \in Nat : w = Worth(u) BY WorthNat
<1>2. a \in Seq(Nat) /\ Len(a) = n /\ \A j \in 1 .. n : a[j] = Worth(s[j])
  BY WorthsNat
<1>3. b \in Seq(Nat) /\ Len(b) = n /\ \A j \in 1 .. n : b[j] = Worth(v[j])
  BY <1>1, WorthsNat
<1>4. i \in 1 .. Len(a) BY <1>2
<1> PICK e \in Seq(Nat) :
      /\ Len(e) = n /\ \A j \in 1 .. n : e[j] = IF j = i THEN w ELSE a[j]
      /\ Total(e) + a[i] = Total(a) + w
  <2>1. /\ [a EXCEPT ![i] = w] \in Seq(Nat)
        /\ Total([a EXCEPT ![i] = w]) + a[i] = Total(a) + w
    BY <1>2, <1>4, TotalUpdate
  <2>2. /\ Len([a EXCEPT ![i] = w]) = n
        /\ \A j \in 1 .. n : [a EXCEPT ![i] = w][j] = IF j = i THEN w ELSE a[j]
    BY <1>2, <1>4, ExceptSeq
  <2> QED BY <2>1, <2>2
<1>5. ASSUME NEW j \in 1 .. n PROVE b[j] = e[j]
  <2>1. b[j] = Worth(v[j]) BY <1>3
  <2>2. v[j] = IF j = i THEN u ELSE s[j] BY <1>1
  <2>3. CASE j = i
    <3>1. Worth(v[j]) = w BY <2>2, <2>3
    <3>2. e[j] = w BY <2>3
    <3> QED BY <2>1, <3>1, <3>2
  <2>4. CASE j # i
    <3>1. Worth(v[j]) = a[j] BY <1>2, <2>2, <2>4
    <3>2. e[j] = a[j] BY <2>4
    <3> QED BY <2>1, <3>1, <3>2
  <2> QED BY <2>3, <2>4
<1>6. b = e BY <1>3, <1>5, SeqEqual
<1> QED BY <1>2, <1>4, <1>6

(* A unit comes from the storage into the first empty slot.                *)
LEMMA DeployGood ==
  ASSUME NEW p, Good(p), NEW c \in 1 .. Len(p.storage), NEW f \in 1 .. Slots,
         p.ui[f] = None, \A i \in 1 .. Slots : i < f => p.ui[i] # None,
         NEW q, q = [p EXCEPT !.ui[f] = p.storage[c], !.storage = Taken(@, c)]
  PROVE  Good(q) /\ q.storage = Without(p.storage, c)
<1>0. p \in Player /\ NoGaps(p) /\ NoUnitIsLost(p) /\ AllSelected(p) BY DEF Good
<1> PICK ui : ui = p.ui OBVIOUS
<1> PICK st : st = p.storage OBVIOUS
<1>1. /\ ui \in [1 .. Slots -> UnitRecord \cup {None}] /\ Slots \in Nat
      /\ st \in Seq(UnitRecord) /\ ui[f] = None
  BY <1>0, PlayerFields, UnitSequences
<1> PICK n \in Nat : n = Len(st) BY <1>1
<1> PICK u \in UnitRecord : u = st[c] BY <1>1, ElementOfSeq
<1> PICK vi : vi = [ui EXCEPT ![f] = u] OBVIOUS
<1> PICK ts : ts = Without(st, c) OBVIOUS
<1>2. u # None BY NoneIsNoUnit
<1>3. /\ vi \in [1 .. Slots -> UnitRecord \cup {None}]
      /\ \A i \in 1 .. Slots : vi[i] = IF i = f THEN u ELSE ui[i]
  BY <1>1
<1>4. /\ ts \in Seq(UnitRecord) /\ Len(ts) = n - 1
      /\ \A j \in 1 .. n - 1 : ts[j] = IF j < c THEN st[j] ELSE st[j + 1]
  BY <1>1, WithoutSeq
<1>5. Taken(p.storage, c) = ts BY <1>1, TakenIs
<1>6. /\ q \in Player /\ q.ui = vi /\ q.storage = ts /\ q.level = p.level
      /\ q.highest = p.highest /\ q.won = p.won /\ q.xp = p.xp
  BY <1>0, <1>3, <1>4, <1>5 DEF Player
<1>7. Deployed(vi) = Deployed(ui) \cup {f} /\ f \notin Deployed(ui) /\ Deployed(ui) \subseteq 1 .. Slots
  BY <1>1, <1>2, <1>3 DEF Deployed
<1>8. c \in 1 .. n /\ DOMAIN st = 1 .. n /\ DOMAIN ts = 1 .. n - 1 BY <1>1, <1>4
<1>9. \A j \in Deployed(ui) : vi[j] = ui[j] BY <1>3, <1>7
<1>10. vi[f] = u BY <1>3
<1>11. u.id \in StoredIds(p) BY <1>8 DEF StoredIds
<1>12. \A i, j \in 1 .. n : st[i].id = st[j].id => i = j
  BY <1>0, <1>8 DEF NoUnitIsLost
<1>13. DeployedIds(q) = DeployedIds(p) \cup {u.id}
  <2>1. DeployedIds(q) = {vi[i].id : i \in Deployed(ui) \cup {f}}
    BY <1>6, <1>7 DEF DeployedIds
  <2>2. DeployedIds(p) = {ui[i].id : i \in Deployed(ui)} BY DEF DeployedIds
  <2> QED BY <1>9, <1>10, <2>1, <2>2
<1>14. StoredIds(q) = StoredIds(p) \ {u.id}
  <2>1. StoredIds(q) = {ts[i].id : i \in 1 .. n - 1} BY <1>6, <1>8 DEF StoredIds
  <2>2. StoredIds(p) = {st[i].id : i \in 1 .. n} BY <1>8 DEF StoredIds
  <2>3. ASSUME NEW j \in 1 .. n - 1
        PROVE  \E k \in 1 .. n : k # c /\ ts[j].id = st[k].id
    <3>1. CASE j < c
      <4>1. j \in 1 .. n /\ j # c BY <1>8, <3>1
      <4> QED BY <1>4, <3>1, <4>1
    <3>2. CASE ~(j < c)
      <4>1. j + 1 \in 1 .. n /\ j + 1 # c BY <1>8, <3>2
      <4> QED BY <1>4, <3>2, <4>1
    <3> QED BY <3>1, <3>2
  <2>4. ASSUME NEW k \in 1 .. n, k # c
        PROVE  \E j \in 1 .. n - 1 : ts[j].id = st[k].id
    <3>1. CASE k < c
      <4>1. k \in 1 .. n - 1 BY <1>8, <3>1
      <4> QED BY <1>4, <3>1, <4>1
    <3>2. CASE k > c
      <4>1. k - 1 \in 1 .. n - 1 /\ ~(k - 1 < c) /\ k - 1 + 1 = k BY <1>8, <3>2
      <4> PICK j \in 1 .. n - 1 : j = k - 1 BY <4>1
      <4>2. ts[j] = st[k] BY <1>4, <4>1
      <4> QED BY <4>2
    <3> QED BY <1>8, <2>4, <3>1, <3>2
  <2>7. \A k \in 1 .. n : k # c => st[k].id # u.id BY <1>8, <1>12
  <2>5. StoredIds(q) \subseteq StoredIds(p) \ {u.id} BY <2>1, <2>2, <2>3, <2>7
  <2>6. StoredIds(p) \ {u.id} \subseteq StoredIds(q) BY <2>1, <2>2, <2>4
  <2> QED BY <2>5, <2>6
<1>15. NoUnitIsLost(q)
  <2>1. \A i, j \in Deployed(vi) : vi[i].id = vi[j].id => i = j
    <3> SUFFICES ASSUME NEW i \in Deployed(ui) \cup {f}, NEW j \in Deployed(ui) \cup {f},
                        vi[i].id = vi[j].id
                 PROVE  i = j
      BY <1>7
    <3>1. u.id \notin DeployedIds(p) BY <1>0, <1>11 DEF NoUnitIsLost
    <3>2. \A k \in Deployed(ui) : vi[k].id # u.id BY <1>9, <3>1 DEF DeployedIds
    <3>3. CASE i \in Deployed(ui) /\ j \in Deployed(ui)
      BY <1>0, <1>9, <3>3 DEF NoUnitIsLost
    <3> QED BY <1>10, <3>2, <3>3
  <2>2. \A i, j \in 1 .. n - 1 : ts[i].id = ts[j].id => i = j
    <3> SUFFICES ASSUME NEW i \in 1 .. n - 1, NEW j \in 1 .. n - 1, ts[i].id = ts[j].id
                 PROVE  i = j
      OBVIOUS
    <3>1. i \in 1 .. n /\ i + 1 \in 1 .. n /\ j \in 1 .. n /\ j + 1 \in 1 .. n OBVIOUS
    <3> PICK k \in 1 .. n : k = i + 1 BY <3>1
    <3> PICK m \in 1 .. n : m = j + 1 BY <3>1
    <3>2. /\ ts[i] = IF i < c THEN st[i] ELSE st[k]
          /\ ts[j] = IF j < c THEN st[j] ELSE st[m]
      BY <1>4
    <3>3. CASE i < c /\ j < c BY <1>12, <3>1, <3>2, <3>3
    <3>4. CASE i < c /\ ~(j < c)
      <4>1. i = m BY <1>12, <3>1, <3>2, <3>4
      <4> QED BY <1>8, <3>4, <4>1
    <3>5. CASE ~(i < c) /\ j < c
      <4>1. k = j BY <1>12, <3>1, <3>2, <3>5
      <4> QED BY <1>8, <3>5, <4>1
    <3>6. CASE ~(i < c) /\ ~(j < c)
      <4>1. k = m BY <1>12, <3>1, <3>2, <3>6
      <4> QED BY <4>1
    <3> QED BY <3>3, <3>4, <3>5, <3>6
  <2>3. /\ DeployedIds(p) \cap StoredIds(p) = {} /\ DeployedIds(p) \cup StoredIds(p) = Ids
    BY <1>0 DEF NoUnitIsLost
  <2>4. /\ DeployedIds(q) \cap StoredIds(q) = {} /\ DeployedIds(q) \cup StoredIds(q) = Ids
    BY <1>11, <1>13, <1>14, <2>3
  <2>5. \A i, j \in Deployed(q.ui) : q.ui[i].id = q.ui[j].id => i = j BY <1>6, <2>1
  <2>6. \A i, j \in DOMAIN q.storage : q.storage[i].id = q.storage[j].id => i = j
    <3>1. q.storage = ts BY <1>6
    <3>2. PICK D : D = DOMAIN ts OBVIOUS
    <3>3. D = 1 .. n - 1 BY <1>8, <3>2
    <3>4. \A i, j \in D : ts[i].id = ts[j].id => i = j BY <2>2, <3>3
    <3> QED BY <3>1, <3>2, <3>4
  <2> QED BY <2>4, <2>5, <2>6 DEF NoUnitIsLost
<1>16. NoGaps(q)
  <2> SUFFICES ASSUME NEW i \in Deployed(vi), NEW j \in 1 .. i PROVE IsUnit(vi, j)
    BY <1>6 DEF NoGaps
  <2>0. i \in 1 .. Slots BY <1>7
  <2>1. i \in 1 .. Slots /\ j \in 1 .. Slots BY <1>1, <2>0
  <2>2. CASE j = f BY <1>2, <1>10, <2>1, <2>2 DEF IsUnit
  <2>3. CASE j # f /\ i = f
    <3>1. j < f BY <2>1, <2>3
    <3>2. ui[j] # None BY <2>1, <3>1
    <3> QED BY <1>3, <2>1, <2>3, <3>2 DEF IsUnit
  <2>4. CASE j # f /\ i # f
    <3>1. i \in Deployed(ui) BY <1>7, <2>4
    <3>2. IsUnit(ui, j) BY <1>0, <3>1 DEF NoGaps
    <3> QED BY <1>3, <2>1, <2>4, <3>2 DEF IsUnit
  <2> QED BY <2>2, <2>3, <2>4
<1>17. AllSelected(q)
  <2>1. \A j \in 1 .. n : Selected(st[j]) BY <1>0, <1>8 DEF AllSelected
  <2>2. ASSUME NEW i \in Deployed(vi) PROVE Selected(vi[i])
    <3>1. CASE i = f BY <1>8, <1>10, <2>1, <3>1
    <3>2. CASE i \in Deployed(ui) BY <1>0, <1>9, <3>2 DEF AllSelected
    <3> QED BY <1>7, <3>1, <3>2
  <2>3. ASSUME NEW j \in 1 .. n - 1 PROVE Selected(ts[j])
    <3>1. j \in 1 .. n /\ j + 1 \in 1 .. n OBVIOUS
    <3>2. CASE j < c BY <1>4, <2>1, <3>1, <3>2
    <3>3. CASE ~(j < c) BY <1>4, <2>1, <3>1, <3>3
    <3> QED BY <3>2, <3>3
  <2> QED BY <1>6, <1>8, <2>2, <2>3 DEF AllSelected
<1>18. HighestIsHighest(q) BY <1>6 DEF Good, HighestIsHighest
<1>19. NoXpIsLost(q)
  <2>1. /\ ui \in Seq(UnitRecord \cup {None}) /\ Len(ui) = Slots
        /\ st \in Seq(UnitRecord \cup {None})
    BY <1>0, UnitSequences
  <2>2. f \in 1 .. Len(ui) BY <2>1
  <2>3. Total(Worths(vi)) + Worth(ui[f]) = Total(Worths(ui)) + Worth(u)
    BY <2>1, <2>2, WorthsUpdate
  <2>4. Total(Worths(ts)) + Worth(st[c]) = Total(Worths(st)) BY <2>1, WorthsWithout
  <2>5. Worth(ui[f]) = 0 BY <1>1 DEF Worth
  <2> PICK w \in Nat : w = Worth(u) BY WorthNat
  <2> PICK a \in Nat : a = Total(Worths(ui)) BY <2>1, WorthsNat, TotalNat
  <2> PICK b \in Nat : b = Total(Worths(ts))
    <3>1. ts \in Seq(UnitRecord \cup {None}) BY <1>6, UnitSequences
    <3> QED BY <3>1, WorthsNat, TotalNat
  <2> PICK d \in Nat : d = Total(Worths(vi))
    <3>1. vi \in Seq(UnitRecord \cup {None}) BY <1>6, UnitSequences
    <3> QED BY <3>1, WorthsNat, TotalNat
  <2> PICK x \in Nat : x = p.xp BY <1>0, PlayerFields
  <2>6. d + 0 = a + w BY <2>3, <2>5
  <2>7. Total(Worths(st)) = b + w BY <2>4
  <2>8. x + a + (b + w) = p.won BY <2>7 DEF Good, NoXpIsLost
  <2>9. x + a + (b + w) = x + d + b BY <2>6
  <2>10. q.xp + Total(Worths(q.ui)) + Total(Worths(q.storage)) = q.won
    BY <1>6, <2>8, <2>9
  <2> QED BY <2>10 DEF NoXpIsLost
<1>20. Good(q) BY <1>6, <1>15, <1>16, <1>17, <1>18, <1>19 DEF Good
<1> QED BY <1>6, <1>20

(* Only what is won, and the levels, change with victories.                *)
SameThings(p, q) ==
  q.ui = p.ui /\ q.storage = p.storage /\ q.items = p.items /\ q.tree = p.tree

LEMMA WinGood ==
  ASSUME NEW p, Good(p)
  PROVE  Good(EndlessWin(p)) /\ SameThings(p, EndlessWin(p))
<1> PICK q : q = EndlessWin(p) OBVIOUS
<1>0. p \in Player BY DEF Good
<1>1. /\ p.xp \in Nat /\ p.won \in Nat /\ p.level \in Nat \ {0} /\ p.highest \in Nat
      /\ p.highest >= p.level
  BY <1>0, PlayerFields DEF Good, HighestIsHighest
<1> PICK k \in Nat : k = Prize * p.level
  <2>1. Prize \in Nat BY PlayerDataAssumption
  <2>2. Prize * p.level \in Nat BY <1>1, <2>1
  <2> QED BY <2>2
<1>2. Highest(p) \in Nat /\ Highest(p) >= p.level + 1 BY <1>1 DEF Highest
<1>3. /\ q = [p EXCEPT !.xp = p.xp + k, !.won = p.won + k,
                       !.level = p.level + 1, !.highest = Highest(p)]
  BY DEF EndlessWin
<1>4. /\ q.ui = p.ui /\ q.storage = p.storage /\ q.items = p.items /\ q.tree = p.tree
      /\ q.xp = p.xp + k /\ q.won = p.won + k /\ q.level = p.level + 1
      /\ q.highest = Highest(p)
  BY <1>0, <1>3 DEF Player
<1>5. q \in Player
  <2>1. p.xp + k \in Nat /\ p.won + k \in Nat /\ p.level + 1 \in Nat \ {0} BY <1>1
  <2> HIDE <1>4
  <2> QED BY <1>0, <1>2, <1>3, <2>1 DEF Player
<1>6. NoUnitIsLost(q)
  <2>1. DeployedIds(q) = DeployedIds(p) BY <1>4 DEF DeployedIds
  <2>2. StoredIds(q) = StoredIds(p) BY <1>4 DEF StoredIds
  <2>3. NoUnitIsLost(p) BY DEF Good
  <2> QED BY <1>4, <2>1, <2>2, <2>3 DEF NoUnitIsLost
<1>7. NoGaps(q) BY <1>4 DEF Good, NoGaps
<1>8. AllSelected(q) BY <1>4 DEF Good, AllSelected
<1>9. HighestIsHighest(q) BY <1>2, <1>4 DEF HighestIsHighest
<1>10. NoXpIsLost(q)
  <2> PICK x \in Nat : x = p.xp BY <1>1
  <2> PICK a \in Nat : a = Total(Worths(p.ui)) BY <1>0, UnitSequences, WorthsNat, TotalNat
  <2> PICK b \in Nat : b = Total(Worths(p.storage))
    BY <1>0, UnitSequences, WorthsNat, TotalNat
  <2>1. x + a + b = p.won BY DEF Good, NoXpIsLost
  <2>2. (x + k) + a + b = p.won + k BY <2>1
  <2> QED BY <1>4, <2>2 DEF NoXpIsLost
<1> QED BY <1>4, <1>5, <1>6, <1>7, <1>8, <1>9, <1>10 DEF Good, SameThings

LEMMA WinIsPlayer == \A p \in Player : EndlessWin(p) \in Player
<1> SUFFICES ASSUME NEW p \in Player PROVE EndlessWin(p) \in Player
  OBVIOUS
<1>1. p.xp \in Nat /\ p.won \in Nat /\ p.level \in Nat \ {0} /\ p.highest \in Nat
  BY PlayerFields
<1> PICK k \in Nat : k = Prize * p.level
  <2>1. Prize \in Nat BY PlayerDataAssumption
  <2>2. Prize * p.level \in Nat BY <1>1, <2>1
  <2> QED BY <2>2
<1>2. Highest(p) \in Nat BY <1>1 DEF Highest
<1>3. p.xp + k \in Nat /\ p.won + k \in Nat /\ p.level + 1 \in Nat \ {0} BY <1>1
<1>4. EndlessWin(p) = [p EXCEPT !.xp = p.xp + k, !.won = p.won + k,
                                !.level = p.level + 1, !.highest = Highest(p)]
  BY DEF EndlessWin
<1> QED BY <1>2, <1>3, <1>4 DEF Player

LEMMA WinsGood ==
  ASSUME NEW p, Good(p), NEW n \in Nat
  PROVE  Good(EndlessWins(p, n)) /\ SameThings(p, EndlessWins(p, n))
<1>0. p \in Player BY DEF Good
<1> DEFINE G == [i \in 1 .. n |-> [x \in Player |-> EndlessWin(x)]]
           H(f) == [i \in 0 .. n |-> IF i = 0 THEN p ELSE EndlessWin(f[i - 1])]
           after == CHOOSE f : f = H(f)
<1>1. G \in [1 .. n -> [Player -> Player]] BY WinIsPlayer
<1>2. PICK f : Runs(n, Player, p, G, f)
  <2> HIDE DEF G
  <2> QED BY <1>0, <1>1, Recursion
<1>3. f = H(f)
  <2>1. ASSUME NEW i \in 0 .. n PROVE f[i] = IF i = 0 THEN p ELSE EndlessWin(f[i - 1])
    <3>1. CASE i = 0 BY <1>2, <3>1 DEF Runs
    <3>2. CASE i # 0
      <4>1. i \in 1 .. n /\ i - 1 \in 0 .. n BY <3>2
      <4>2. f[i] = G[i][f[i - 1]] /\ f[i - 1] \in Player BY <1>2, <4>1 DEF Runs
      <4> QED BY <3>2, <4>1, <4>2
    <3> QED BY <3>1, <3>2
  <2>2. f = [i \in 0 .. n |-> f[i]] BY <1>2 DEF Runs
  <2> QED BY <2>1, <2>2
<1>4. after = H(after)
  <2> HIDE DEF H
  <2> QED BY <1>3
<1>5. EndlessWins(p, n) = after[n] BY DEF EndlessWins
<1> HIDE DEF after
<1>6. \A i \in 0 .. n : after[i] = IF i = 0 THEN p ELSE EndlessWin(after[i - 1]) BY <1>4
<1> DEFINE T == {i \in 0 .. n : ~(Good(after[i]) /\ SameThings(p, after[i]))}
<1>7. SUFFICES ASSUME T # {} PROVE FALSE
  <2>1. n \notin T BY <1>7
  <2> QED BY <1>5, <2>1
<1>8. T \in SUBSET Nat OBVIOUS
<1>9. PICK i \in T : \A m \in T : i <= m
  <2> HIDE DEF T
  <2> QED BY <1>7, <1>8, LeastNat
<1>10. i # 0
  <2>1. Good(after[0]) /\ SameThings(p, after[0]) BY <1>6 DEF SameThings
  <2> QED BY <1>9, <2>1
<1>11. i - 1 \in 0 .. n /\ ~(i <= i - 1) BY <1>9, <1>10
<1>12. Good(after[i - 1]) /\ SameThings(p, after[i - 1]) BY <1>9, <1>11
<1>13. after[i] = EndlessWin(after[i - 1]) BY <1>6, <1>9, <1>10
<1>14. Good(after[i]) /\ SameThings(after[i - 1], after[i]) BY <1>12, <1>13, WinGood
<1>15. SameThings(p, after[i]) BY <1>12, <1>14 DEF SameThings
<1> QED BY <1>9, <1>14, <1>15

-----------------------------------------------------------------------------
(* What is saved and loaded.                                               *)

(* The slots 1 .. n are taken and the others are not.                      *)
Filled(ui, n) ==
  /\ ui \in [1 .. Slots -> UnitRecord \cup {None}] /\ n \in 0 .. Slots
  /\ \A i \in 1 .. Slots : ui[i] # None <=> i <= n

LEMMA SavedIs ==
  ASSUME NEW ui, NEW n, Filled(ui, n)
  PROVE  /\ Saved(ui) \in Seq(UnitRecord) /\ Len(Saved(ui)) = n
         /\ \A i \in 1 .. n : Saved(ui)[i] = ui[i]
<1>1. /\ ui \in [1 .. Slots -> UnitRecord \cup {None}] /\ n \in 0 .. Slots
      /\ \A i \in 1 .. Slots : ui[i] # None <=> i <= n
      /\ Slots \in Nat
  BY PlayerDataAssumption DEF Filled
<1> DEFINE E == {i \in 1 .. Slots : ui[i] = None} \cup {Slots + 1}
<1>2. n + 1 \in E
  <2>1. CASE n = Slots BY <2>1
  <2>2. CASE n < Slots
    <3>1. n + 1 \in 1 .. Slots /\ ~(n + 1 <= n) BY <1>1, <2>2
    <3> QED BY <1>1, <3>1
  <2> QED BY <1>1, <2>1, <2>2
<1>3. \A i \in E : n + 1 <= i
  <2> SUFFICES ASSUME NEW i \in E PROVE n + 1 <= i
    OBVIOUS
  <2>1. CASE i = Slots + 1 BY <1>1, <2>1
  <2>2. CASE i \in 1 .. Slots /\ ui[i] = None
    <3>1. ~(i <= n) BY <1>1, <2>2
    <3> QED BY <1>1, <2>2, <3>1
  <2> QED BY <2>1, <2>2
<1>4. E \in SUBSET Nat /\ E # {} BY <1>1
<1>5. Min(E) = n + 1
  <2> HIDE DEF E
  <2>1. Min(E) \in E /\ \A i \in E : Min(E) <= i BY <1>4, MinOf
  <2>2. Min(E) \in Nat BY <1>4, <2>1
  <2>4. n \in Nat BY <1>1
  <2>3. n + 1 <= Min(E) /\ Min(E) <= n + 1 BY <1>2, <1>3, <2>1
  <2> QED BY <2>2, <2>3, <2>4
<1>6. Saved(ui) = SubSeq(ui, 1, Min(E) - 1) BY DEF Saved
<1> HIDE DEF E
<1>7. Saved(ui) = SubSeq(ui, 1, n)
  <2>2. n \in Nat /\ n + 1 \in Nat BY <1>1
  <2> PICK m \in Nat : m = Min(E) BY <1>5, <2>2
  <2>3. m = n + 1 BY <1>5
  <2>4. m - 1 = n BY <2>2, <2>3
  <2> QED BY <1>6, <2>4
<1>8. \A i \in 1 .. n : ui[i] \in UnitRecord
  <2> SUFFICES ASSUME NEW i \in 1 .. n PROVE ui[i] \in UnitRecord
    OBVIOUS
  <2>1. i \in 1 .. Slots /\ i <= n BY <1>1
  <2> QED BY <1>1, <2>1
<1>9. /\ SubSeq(ui, 1, n) \in Seq(UnitRecord)
      /\ Len(SubSeq(ui, 1, n)) = IF 1 <= n THEN n - 1 + 1 ELSE 0
      /\ \A i \in 1 .. n - 1 + 1 : SubSeq(ui, 1, n)[i] = ui[1 + i - 1]
  BY <1>1, <1>8, SubSeqProperties
<1>10. n - 1 + 1 = n /\ \A i \in 1 .. n : 1 + i - 1 = i BY <1>1
<1>11. Len(SubSeq(ui, 1, n)) = n BY <1>1, <1>9
<1> QED BY <1>7, <1>9, <1>10, <1>11

LEMMA GoodIsFilled ==
  ASSUME NEW p, Good(p)
  PROVE  \E n : Filled(p.ui, n)
<1> PICK ui : ui = p.ui OBVIOUS
<1>1. /\ ui \in [1 .. Slots -> UnitRecord \cup {None}] /\ Slots \in Nat
  BY PlayerFields, UnitSequences DEF Good
<1>2. \A i \in 1 .. Slots : \A j \in 1 .. i : ui[i] # None => ui[j] # None
  BY <1>1 DEF Good, NoGaps, Deployed, IsUnit
<1> DEFINE E == {i \in 1 .. Slots : ui[i] = None} \cup {Slots + 1}
<1>3. E \in SUBSET Nat /\ E # {} BY <1>1
<1>4. PICK m \in E : \A i \in E : m <= i
  <2> HIDE DEF E
  <2> QED BY <1>3, LeastNat
<1>5. m \in 1 .. Slots + 1 BY <1>1, <1>4
<1> PICK n \in 0 .. Slots : n = m - 1 BY <1>1, <1>5
<1>6. ASSUME NEW i \in 1 .. Slots PROVE ui[i] # None <=> i <= n
  <2>1. CASE i <= n
    <3>1. i \notin E BY <1>1, <1>4, <1>5, <2>1
    <3> QED BY <2>1, <3>1
  <2>2. CASE ~(i <= n)
    <3>1. m \in 1 .. i /\ m # Slots + 1 BY <1>1, <1>5, <2>2
    <3>2. ui[m] = None BY <1>4, <3>1
    <3>3. ui[i] = None BY <1>2, <3>1, <3>2
    <3> QED BY <2>2, <3>3
  <2> QED BY <2>1, <2>2
<1>7. Filled(ui, n) BY <1>1, <1>6 DEF Filled
<1> QED BY <1>7

(* What was saved fills the slots as they were.                            *)
LEMMA PaddedSaved ==
  ASSUME NEW ui, NEW n, Filled(ui, n)
  PROVE  Padded(Saved(ui)) = ui
<1>1. /\ ui \in [1 .. Slots -> UnitRecord \cup {None}] /\ n \in 0 .. Slots
      /\ \A i \in 1 .. Slots : ui[i] # None <=> i <= n
  BY DEF Filled
<1> PICK s : s = Saved(ui) OBVIOUS
<1>2. Len(s) = n /\ \A i \in 1 .. n : s[i] = ui[i] BY SavedIs
<1>3. ASSUME NEW i \in 1 .. Slots PROVE (IF i <= Len(s) THEN s[i] ELSE None) = ui[i]
  <2>1. CASE i <= n
    <3>1. i \in 1 .. n BY <1>1, <2>1
    <3> QED BY <1>2, <2>1, <3>1
  <2>2. CASE ~(i <= n) BY <1>1, <1>2, <2>2
  <2> QED BY <2>1, <2>2
<1>4. ui = [i \in 1 .. Slots |-> ui[i]] BY <1>1
<1>5. Padded(s) = [i \in 1 .. Slots |-> ui[i]] BY <1>3 DEF Padded
<1> QED BY <1>4, <1>5

(* What is filled with some units is saved as them.                        *)
LEMMA SavedPadded ==
  ASSUME NEW s \in Seq(UnitRecord), Len(s) <= Slots
  PROVE  Filled(Padded(s), Len(s)) /\ Saved(Padded(s)) = s
<1> PICK n \in Nat : n = Len(s) OBVIOUS
<1> PICK ui : ui = Padded(s) OBVIOUS
<1>1. Slots \in Nat /\ n \in 0 .. Slots BY PlayerDataAssumption
<1>2. ui = [i \in 1 .. Slots |-> IF i <= n THEN s[i] ELSE None] BY DEF Padded
<1>3. \A i \in 1 .. Slots : i <= n => s[i] \in UnitRecord
  <2> SUFFICES ASSUME NEW i \in 1 .. Slots, i <= n PROVE s[i] \in UnitRecord
    OBVIOUS
  <2>1. i \in 1 .. n BY <1>1
  <2> QED BY <2>1, ElementOfSeq
<1>4. ui \in [1 .. Slots -> UnitRecord \cup {None}] BY <1>2, <1>3
<1>5. \A i \in 1 .. Slots : ui[i] # None <=> i <= n BY <1>2, <1>3, NoneIsNoUnit
<1>6. Filled(ui, n) BY <1>1, <1>4, <1>5 DEF Filled
<1>7. Saved(ui) \in Seq(UnitRecord) /\ Len(Saved(ui)) = n /\ \A i \in 1 .. n : Saved(ui)[i] = ui[i]
  BY <1>6, SavedIs
<1>8. \A i \in 1 .. n : i \in 1 .. Slots /\ i <= n BY <1>1
<1>9. \A i \in 1 .. n : Saved(ui)[i] = s[i] BY <1>2, <1>7, <1>8
<1>10. Saved(ui) = s BY <1>7, <1>9, SeqEqual
<1> QED BY <1>6, <1>10

(* A player who is saved and loaded is the same again, whatever the shape  *)
(* of the list.                                                            *)
LEMMA LiveContent ==
  ASSUME NEW p, Good(p), NEW t
  PROVE  Live(Content(p), t) = [p EXCEPT !.tree = t]
<1>1. PICK n : Filled(p.ui, n) BY GoodIsFilled
<1>2. Padded(Saved(p.ui)) = p.ui BY <1>1, PaddedSaved
<1>3. p = [ui |-> p.ui, storage |-> p.storage, items |-> p.items, xp |-> p.xp,
           level |-> p.level, highest |-> p.highest, won |-> p.won, tree |-> p.tree]
  BY DEF Good, Player
<1>4. [p EXCEPT !.tree = t]
        = [ui |-> p.ui, storage |-> p.storage, items |-> p.items, xp |-> p.xp,
           level |-> p.level, highest |-> p.highest, won |-> p.won, tree |-> t]
  BY <1>3
<1> QED BY <1>2, <1>4 DEF Live, Content

LEMMA TotalZero ==
  ASSUME NEW s \in Seq(Nat), \A i \in 1 .. Len(s) : s[i] = 0
  PROVE  Total(s) = 0
<1> PICK n \in Nat : n = Len(s) OBVIOUS
<1>1. PICK f : Sums(s, f) /\ Total(s) = f[n] BY TotalIs
<1> DEFINE T == {i \in 0 .. n : f[i] # 0}
<1>2. SUFFICES ASSUME T # {} PROVE FALSE
  <2>1. n \notin T BY <1>2
  <2> QED BY <1>1, <2>1
<1>3. T \in SUBSET Nat OBVIOUS
<1>4. PICK i \in T : \A m \in T : i <= m
  <2> HIDE DEF T
  <2> QED BY <1>2, <1>3, LeastNat
<1>5. i # 0 BY <1>1, <1>4 DEF Sums
<1>6. i \in 1 .. n /\ i - 1 \in 0 .. n /\ ~(i <= i - 1) BY <1>4, <1>5
<1>7. f[i - 1] = 0 BY <1>4, <1>6
<1>8. f[i] = f[i - 1] + s[i] BY <1>1, <1>6 DEF Sums
<1>9. s[i] = 0 BY <1>6
<1>10. f[i] = 0 BY <1>7, <1>8, <1>9
<1> QED BY <1>4, <1>10

(* The units of a new player are of the first level and worth nothing yet. *)
LEMMA CreatedUnit ==
  ASSUME NEW d \in Ids, NEW s \in Species
  PROVE  /\ UiCreate(d, s) \in UnitRecord /\ UiCreate(d, s).id = d
         /\ Selected(UiCreate(d, s)) /\ Worth(UiCreate(d, s)) = 0
<1> PICK u : u = UiCreate(d, s) OBVIOUS
<1>1. /\ MaxLevel \in Nat \ {0} /\ Types \in Nat
      /\ MaxType \in [Species -> (0 .. Types) \X (0 .. Types)]
      /\ XpType \in [Species -> Nat]
      /\ \A t \in CanSelectType : MaxType[t][1] # MaxType[t][2] /\ MaxType[t][1] # 0
  BY PlayerDataAssumption
<1>2. 1 \in 1 .. MaxLevel BY <1>1
<1>3. <<0, 0>> \in (0 .. Types) \X (0 .. Types) BY <1>1
<1>4. u.id = d /\ u.spec = s /\ u.level = 1
      /\ u.type = IF s \in CanSelectType THEN MaxType[s] ELSE <<0, 0>>
  BY DEF UiCreate
<1>5. u.type \in (0 .. Types) \X (0 .. Types) BY <1>1, <1>3, <1>4
<1>6. u = [id |-> d, spec |-> s, level |-> 1, type |-> u.type] BY <1>4 DEF UiCreate
<1>7. u \in UnitRecord BY <1>2, <1>5, <1>6 DEF UnitRecord
<1>8. Selected(u) BY <1>1, <1>4 DEF Selected
<1>9. Worth(u) = XpType[s] * 0 BY <1>4, <1>7, NoneIsNoUnit, FactorsToFirst DEF Worth
<1>10. XpType[s] \in Nat BY <1>1
<1>11. Worth(u) = 0 BY <1>9, <1>10
<1> QED BY <1>4, <1>7, <1>8, <1>11

LEMMA CreatedUnits ==
  ASSUME NEW units \in Seq(Ids \X Species)
  PROVE  /\ Create(units) \in Seq(UnitRecord) /\ Len(Create(units)) = Len(units)
         /\ \A i \in 1 .. Len(units) :
              LET u == Create(units)[i]
              IN  u \in UnitRecord /\ u.id = units[i][1] /\ Selected(u) /\ Worth(u) = 0
<1> PICK n \in Nat : n = Len(units) OBVIOUS
<1> PICK s : s = Create(units) OBVIOUS
<1>1. s = [i \in 1 .. n |-> UiCreate(units[i][1], units[i][2])] BY DEF Create
<1>2. ASSUME NEW i \in 1 .. n
      PROVE  /\ s[i] \in UnitRecord /\ s[i].id = units[i][1]
             /\ Selected(s[i]) /\ Worth(s[i]) = 0
  <2>1. units[i] \in Ids \X Species BY ElementOfSeq
  <2>2. units[i][1] \in Ids /\ units[i][2] \in Species BY <2>1
  <2>3. s[i] = UiCreate(units[i][1], units[i][2]) BY <1>1
  <2> QED BY <2>2, <2>3, CreatedUnit
<1>3. s \in [1 .. n -> UnitRecord] BY <1>1, <1>2
<1>4. s \in Seq(UnitRecord) BY <1>3, SeqDef
<1>5. Len(s) = n BY <1>3, <1>4
<1> QED BY <1>2, <1>4, <1>5

LEMMA WorthlessUnits ==
  ASSUME NEW s \in Seq(UnitRecord \cup {None}), \A i \in 1 .. Len(s) : Worth(s[i]) = 0
  PROVE  Total(Worths(s)) = 0
<1> PICK w : w = Worths(s) OBVIOUS
<1>1. w \in Seq(Nat) /\ Len(w) = Len(s) /\ \A i \in 1 .. Len(s) : w[i] = Worth(s[i])
  BY WorthsNat
<1>2. \A i \in 1 .. Len(w) : w[i] = 0 BY <1>1
<1>3. Total(w) = 0 BY <1>1, <1>2, TotalZero
<1> QED BY <1>3

LEMMA NewGood ==
  ASSUME NEW t \in Tree
  PROVE  Good(Live(NewContent, t)) /\ Content(Live(NewContent, t)) = NewContent
<1>1. /\ NewUnits \in Seq(Ids \X Species) /\ NewStorage \in Seq(Ids \X Species)
      /\ Len(NewUnits) <= Slots /\ Slots \in Nat
      /\ \A i, j \in DOMAIN NewUnits : NewUnits[i][1] = NewUnits[j][1] => i = j
      /\ \A i, j \in DOMAIN NewStorage : NewStorage[i][1] = NewStorage[j][1] => i = j
      /\ \A i \in DOMAIN NewUnits, j \in DOMAIN NewStorage : NewUnits[i][1] # NewStorage[j][1]
  BY PlayerDataAssumption
<1> PICK m \in Nat : m = Len(NewUnits) BY <1>1
<1> PICK n \in Nat : n = Len(NewStorage) BY <1>1
<1>2. DOMAIN NewUnits = 1 .. m /\ DOMAIN NewStorage = 1 .. n BY <1>1
<1> PICK us : us = Create(NewUnits) OBVIOUS
<1> PICK ss : ss = Create(NewStorage) OBVIOUS
<1> PICK p : p = Live(NewContent, t) OBVIOUS
<1> PICK ui : ui = Padded(us) OBVIOUS
<1>3. /\ us \in Seq(UnitRecord) /\ Len(us) = m
      /\ \A i \in 1 .. m : us[i] \in UnitRecord /\ us[i].id = NewUnits[i][1]
                             /\ Selected(us[i]) /\ Worth(us[i]) = 0
  BY <1>1, CreatedUnits
<1>4. /\ ss \in Seq(UnitRecord) /\ Len(ss) = n
      /\ \A i \in 1 .. n : ss[i] \in UnitRecord /\ ss[i].id = NewStorage[i][1]
                             /\ Selected(ss[i]) /\ Worth(ss[i]) = 0
  BY <1>1, CreatedUnits
<1>5. Filled(ui, m) /\ Saved(ui) = us BY <1>1, <1>3, SavedPadded
<1>6. p = [ui |-> ui, storage |-> ss, items |-> 0, xp |-> 0, level |-> 1, highest |-> 1,
           won |-> 0, tree |-> t]
  BY DEF Live, NewContent
<1>7. p \in Player BY <1>4, <1>5, <1>6 DEF Player, Filled
<1>8. p.ui = ui /\ p.storage = ss /\ p.xp = 0 /\ p.won = 0 /\ p.level = 1 /\ p.highest = 1
  BY <1>6
<1>9. m <= Slots /\ Deployed(ui) = 1 .. m BY <1>1, <1>5 DEF Filled, Deployed
<1>10. \A i \in 1 .. m : ui[i] = us[i]
  <2> SUFFICES ASSUME NEW i \in 1 .. m PROVE ui[i] = us[i]
    OBVIOUS
  <2>1. i \in 1 .. Slots /\ i <= m BY <1>1, <1>9
  <2> QED BY <1>3, <2>1 DEF Padded
<1>11. NoUnitIsLost(p)
  <2>1. DeployedIds(p) = {NewUnits[i][1] : i \in 1 .. m}
    BY <1>3, <1>8, <1>9, <1>10 DEF DeployedIds
  <2>2. StoredIds(p) = {NewStorage[i][1] : i \in 1 .. n} BY <1>4, <1>8 DEF StoredIds
  <2>3. DeployedIds(p) \cup StoredIds(p) = Ids BY <1>2, <2>1, <2>2 DEF Ids
  <2>4. DeployedIds(p) \cap StoredIds(p) = {}
    <3>1. \A i \in 1 .. m : \A j \in 1 .. n : NewUnits[i][1] # NewStorage[j][1]
      BY <1>1, <1>2
    <3> QED BY <2>1, <2>2, <3>1
  <2>5. \A i, j \in Deployed(ui) : ui[i].id = ui[j].id => i = j
    BY <1>1, <1>2, <1>3, <1>9, <1>10
  <2>6. \A i, j \in DOMAIN ss : ss[i].id = ss[j].id => i = j
    <3>1. DOMAIN ss = 1 .. n BY <1>4
    <3>2. SUFFICES ASSUME NEW i \in 1 .. n, NEW j \in 1 .. n, ss[i].id = ss[j].id PROVE i = j
      BY <3>1
    <3>3. NewStorage[i][1] = NewStorage[j][1] BY <1>4, <3>2
    <3> QED BY <1>1, <1>2, <3>3
  <2> QED BY <1>8, <2>3, <2>4, <2>5, <2>6 DEF NoUnitIsLost
<1>12. NoGaps(p)
  <2> SUFFICES ASSUME NEW i \in 1 .. m, NEW j \in 1 .. i PROVE IsUnit(ui, j)
    BY <1>8, <1>9 DEF NoGaps
  <2>1. j \in 1 .. m OBVIOUS
  <2> QED BY <1>9, <2>1 DEF IsUnit, Deployed
<1>13. AllSelected(p) BY <1>3, <1>4, <1>8, <1>9, <1>10 DEF AllSelected
<1>14. HighestIsHighest(p) BY <1>8 DEF HighestIsHighest
<1>15. NoXpIsLost(p)
  <2>1. /\ ui \in Seq(UnitRecord \cup {None}) /\ Len(ui) = Slots
        /\ ss \in Seq(UnitRecord \cup {None})
    BY <1>7, <1>8, UnitSequences
  <2>2. ASSUME NEW i \in 1 .. Slots PROVE Worth(ui[i]) = 0
    <3>1. CASE i <= m
      <4>1. i \in 1 .. m BY <3>1
      <4> QED BY <1>3, <1>10, <4>1
    <3>2. CASE ~(i <= m)
      <4>1. ui[i] = None BY <1>5, <3>2 DEF Filled
      <4> QED BY <4>1 DEF Worth
    <3> QED BY <3>1, <3>2
  <2>3. Total(Worths(ui)) = 0 BY <2>1, <2>2, WorthlessUnits
  <2>4. Total(Worths(ss)) = 0 BY <1>4, <2>1, WorthlessUnits
  <2> QED BY <1>8, <2>3, <2>4 DEF NoXpIsLost
<1>16. Content(p) = NewContent BY <1>5, <1>6 DEF Content, NewContent
<1> QED BY <1>7, <1>11, <1>12, <1>13, <1>14, <1>15, <1>16 DEF Good

-----------------------------------------------------------------------------
(* The nodes of a player's list.                                           *)

LEMMA Keys ==
  /\ Key = {"xp", "endless", "storage", "items", "units"}
  /\ NoKey \notin Key /\ Cardinality(Key) = 5
<1>1. Key = {"xp", "endless", "storage", "items", "units"} BY PlayerDataAssumption
<1>2. NoKey \notin Key BY <1>1 DEF NoKey
<1> DEFINE A == {"xp"}
           B == A \cup {"endless"}
           C == B \cup {"storage"}
           D == C \cup {"items"}
<1>3. IsFiniteSet(A) /\ Cardinality(A) = 1 BY FS_Singleton
<1>4. IsFiniteSet(B) /\ Cardinality(B) = Cardinality(A) + 1
  <2>1. "endless" \notin A OBVIOUS
  <2> HIDE DEF A
  <2> QED BY <1>3, <2>1, FS_AddElement
<1>5. IsFiniteSet(C) /\ Cardinality(C) = Cardinality(B) + 1
  <2>1. "storage" \notin B OBVIOUS
  <2> HIDE DEF B
  <2> QED BY <1>4, <2>1, FS_AddElement
<1>6. IsFiniteSet(D) /\ Cardinality(D) = Cardinality(C) + 1
  <2>1. "items" \notin C OBVIOUS
  <2> HIDE DEF C
  <2> QED BY <1>5, <2>1, FS_AddElement
<1>7. Cardinality(D \cup {"units"}) = Cardinality(D) + 1
  <2>1. "units" \notin D OBVIOUS
  <2> HIDE DEF D
  <2> QED BY <1>6, <2>1, FS_AddElement
<1>8. Key = D \cup {"units"} BY <1>1
<1>9. Cardinality(Key) = 5
  <2> HIDE DEF A, B, C, D
  <2> QED BY <1>3, <1>4, <1>5, <1>6, <1>7, <1>8
<1> QED BY <1>1, <1>2, <1>9

(* What a search does that has got as far as the nodes w.                  *)
Further(t, k, w) ==
  LET last == w[Len(w)]
  IN  IF last = k \/ Way(t, last, k) = NoKey THEN w ELSE Append(w, Way(t, last, k))

Walk == {w \in Seq(Key) : w # << >>}

LEMMA FurtherWalks ==
  ASSUME NEW t \in Tree, NEW k \in Key, NEW w \in Walk
  PROVE  Further(t, k, w) \in Walk /\ w[Len(w)] \in Key
<1>1. w \in Seq(Key) /\ Len(w) \in 1 .. Len(w) BY DEF Walk
<1>2. w[Len(w)] \in Key BY <1>1, ElementOfSeq
<1> PICK last \in Key : last = w[Len(w)] BY <1>2
<1>3. Way(t, last, k) \in Key \cup {NoKey} BY DEF Way, Tree
<1>4. CASE Way(t, last, k) = NoKey BY <1>4 DEF Further
<1>5. CASE Way(t, last, k) \in Key
  <2>1. Append(w, Way(t, last, k)) \in Walk BY <1>1, <1>5, AppendProperties DEF Walk
  <2> QED BY <2>1 DEF Further
<1> QED BY <1>2, <1>3, <1>4, <1>5

Paths(t, k, f) ==
  /\ f \in [0 .. 5 -> Walk] /\ f[0] = <<t.root>>
  /\ \A i \in 1 .. 5 : f[i] = Further(t, k, f[i - 1])

LEMMA PathIs ==
  ASSUME NEW t \in Tree, NEW k \in Key
  PROVE  \E f : Paths(t, k, f) /\ Path(t, k) = f[5]
<1> DEFINE G == [i \in 1 .. 5 |-> [w \in Walk |-> Further(t, k, w)]]
           H(f) == [i \in 0 .. 5 |->
                      IF i = 0 THEN <<t.root>>
                      ELSE LET last == f[i - 1][Len(f[i - 1])]
                           IN  IF last = k \/ Way(t, last, k) = NoKey THEN f[i - 1]
                               ELSE Append(f[i - 1], Way(t, last, k))]
           from == CHOOSE f : f = H(f)
<1>1. \A w \in Walk : Further(t, k, w) \in Walk BY FurtherWalks
<1>2. <<t.root>> \in Walk BY DEF Walk, Tree
<1>3. G \in [1 .. 5 -> [Walk -> Walk]] BY <1>1
<1>4. PICK f : Runs(5, Walk, <<t.root>>, G, f)
  <2> PICK N \in Nat : N = 5 OBVIOUS
  <2> HIDE DEF G
  <2>1. \E f : Runs(N, Walk, <<t.root>>, G, f) BY <1>2, <1>3, Recursion
  <2> QED BY <2>1
<1>5. \A g, i : i \in 0 .. 5 =>
        H(g)[i] = IF i = 0 THEN <<t.root>> ELSE Further(t, k, g[i - 1])
  BY DEF Further
<1>6. f = H(f)
  <2>1. ASSUME NEW i \in 0 .. 5 PROVE f[i] = H(f)[i]
    <3>1. CASE i = 0 BY <1>4, <3>1 DEF Runs
    <3>2. CASE i # 0
      <4>1. i \in 1 .. 5 /\ i - 1 \in 0 .. 5 BY <3>2
      <4>2. f[i] = G[i][f[i - 1]] /\ f[i - 1] \in Walk BY <1>4, <4>1 DEF Runs
      <4>3. f[i] = Further(t, k, f[i - 1]) BY <4>1, <4>2
      <4> HIDE DEF H, G
      <4> QED BY <1>5, <3>2, <4>3
    <3> QED BY <3>1, <3>2
  <2>2. f = [i \in 0 .. 5 |-> f[i]] BY <1>4 DEF Runs
  <2>3. H(f) = [i \in 0 .. 5 |-> H(f)[i]] OBVIOUS
  <2> HIDE DEF H, G
  <2> QED BY <2>1, <2>2, <2>3
<1>7. from = H(from)
  <2> HIDE DEF H
  <2> QED BY <1>6
<1>8. Path(t, k) = from[5] BY Keys DEF Path
<1>9. DOMAIN from = 0 .. 5 BY <1>7
<1> HIDE DEF from
<1>10. \A i \in 0 .. 5 : from[i] = IF i = 0 THEN <<t.root>> ELSE Further(t, k, from[i - 1])
  <2> SUFFICES ASSUME NEW i \in 0 .. 5
               PROVE from[i] = IF i = 0 THEN <<t.root>> ELSE Further(t, k, from[i - 1])
    OBVIOUS
  <2>1. from[i] = H(from)[i] BY <1>7
  <2> HIDE DEF H
  <2> QED BY <1>5, <2>1
<1> HIDE DEF H, G
<1>11. \A i \in 0 .. 5 : from[i] \in Walk
  <2>1. from[0] \in Walk BY <1>2, <1>10
  <2>2. from[1] \in Walk BY <1>1, <1>10, <2>1
  <2>3. from[2] \in Walk BY <1>1, <1>10, <2>2
  <2>4. from[3] \in Walk BY <1>1, <1>10, <2>3
  <2>5. from[4] \in Walk BY <1>1, <1>10, <2>4
  <2>6. from[5] \in Walk BY <1>1, <1>10, <2>5
  <2> QED BY <2>1, <2>2, <2>3, <2>4, <2>5, <2>6
<1>12. from = [i \in 0 .. 5 |-> from[i]] BY <1>7, <1>9 DEF H
<1>13. from \in [0 .. 5 -> Walk] BY <1>11, <1>12
<1>14. Paths(t, k, from) BY <1>10, <1>13 DEF Paths
<1> QED BY <1>8, <1>14

LEMMA PathWalks ==
  ASSUME NEW t \in Tree, NEW k \in Key
  PROVE  Path(t, k) \in Walk /\ Last(Path(t, k)) \in Key
<1>1. Path(t, k) \in Walk BY PathIs DEF Paths
<1> QED BY <1>1, FurtherWalks DEF Last

(* A search that passes one, two, three or four nodes and ends there.      *)
Ends(t, k, n) == n = k \/ Way(t, n, k) = NoKey
Leads(t, k, n, m) == n # k /\ Way(t, n, k) = m /\ m # NoKey

Appends(w, m, v) == v = Append(w, m)

LEMMA Stays ==
  ASSUME NEW t \in Tree, NEW k \in Key, NEW w, NEW n, w[Len(w)] = n, Ends(t, k, n)
  PROVE  Further(t, k, w) = w
BY DEF Ends, Further

LEMMA Goes ==
  ASSUME NEW t \in Tree, NEW k \in Key, NEW w, NEW n, w[Len(w)] = n,
         NEW m, Leads(t, k, n, m), NEW v, Appends(w, m, v)
  PROVE  Further(t, k, w) = v
BY DEF Leads, Further, Appends

Before(w) == w[Len(w) - 1]

LEMMA Longer ==
  ASSUME NEW w \in Walk, NEW m \in Key
  PROVE  /\ Append(w, m) \in Walk /\ Append(w, m)[Len(Append(w, m))] = m
         /\ Before(Append(w, m)) = w[Len(w)]
<1> PICK v : v = Append(w, m) OBVIOUS
<1> PICK n \in Nat : n = Len(w) BY DEF Walk
<1>1. n \in 1 .. n BY DEF Walk
<1>2. /\ v \in Walk /\ Len(v) = n + 1 /\ v[n + 1] = m
      /\ \A i \in 1 .. n : v[i] = w[i]
  BY AppendProperties DEF Walk
<1>3. v[n] = w[n] BY <1>1, <1>2
<1> PICK l \in Nat : l = Len(v) BY <1>2
<1>4. l - 1 = n BY <1>2
<1> QED BY <1>2, <1>3, <1>4 DEF Before

LEMMA AppendTo ==
  ASSUME NEW w \in Seq(Key), NEW m \in Key
  PROVE  /\ Append(w, m) \in Seq(Key) /\ Len(Append(w, m)) = Len(w) + 1
         /\ \A i \in 1 .. Len(w) : Append(w, m)[i] = w[i]
         /\ Append(w, m)[Len(w) + 1] = m
<1>1. /\ Append(w, m) \in Seq(Key) /\ Len(Append(w, m)) = Len(w) + 1
      /\ \A i \in 1 .. Len(w) : Append(w, m)[i] = w[i]
      /\ Append(w, m)[Len(w) + 1] = m
  BY AppendProperties
<1> QED BY <1>1

LEMMA PathOf1 ==
  ASSUME NEW t \in Tree, NEW k \in Key,
         Ends(t, k, t.root)
  PROVE  Last(Path(t, k)) = t.root
<1> PICK r \in Key : r = t.root BY DEF Tree
<1>1. PICK w1 : w1 = <<r>> OBVIOUS
<1>2. w1 \in Walk /\ w1[Len(w1)] = r BY <1>1 DEF Walk
<1>3. PICK f : Paths(t, k, f) /\ Path(t, k) = f[5] BY PathIs
<1>4. f[0] = w1 /\ \A i \in 1 .. 5 : f[i] = Further(t, k, f[i - 1]) BY <1>1, <1>3 DEF Paths
<1>5. Further(t, k, w1) = w1 BY <1>2, Stays
<1>6. f[1] = w1 BY <1>4, <1>5
<1>7. f[2] = w1 BY <1>4, <1>5, <1>6
<1>8. f[3] = w1 BY <1>4, <1>5, <1>7
<1>9. f[4] = w1 BY <1>4, <1>5, <1>8
<1>10. f[5] = w1 BY <1>4, <1>5, <1>9
<1> QED BY <1>3, <1>10, <1>2 DEF Last

LEMMA PathOf2 ==
  ASSUME NEW t \in Tree, NEW k \in Key, NEW a \in Key,
         Leads(t, k, t.root, a), Ends(t, k, a)
  PROVE  Last(Path(t, k)) = a /\ Before(Path(t, k)) = t.root
<1> PICK r \in Key : r = t.root BY DEF Tree
<1>1. PICK w1 : w1 = <<r>> OBVIOUS
<1>2. w1 \in Walk /\ w1[Len(w1)] = r BY <1>1 DEF Walk
<1>3. PICK w2 : Appends(w1, a, w2) BY DEF Appends
<1>4. w2 \in Walk /\ w2[Len(w2)] = a /\ Before(w2) = r
  BY <1>2, <1>3, Longer DEF Appends
<1>5. PICK f : Paths(t, k, f) /\ Path(t, k) = f[5] BY PathIs
<1>6. f[0] = w1 /\ \A i \in 1 .. 5 : f[i] = Further(t, k, f[i - 1]) BY <1>1, <1>5 DEF Paths
<1>7. Further(t, k, w1) = w2 BY <1>2, <1>3, Goes
<1>8. Further(t, k, w2) = w2 BY <1>4, Stays
<1>9. f[1] = w2 BY <1>6, <1>7
<1>10. f[2] = w2 BY <1>6, <1>8, <1>9
<1>11. f[3] = w2 BY <1>6, <1>8, <1>10
<1>12. f[4] = w2 BY <1>6, <1>8, <1>11
<1>13. f[5] = w2 BY <1>6, <1>8, <1>12
<1> QED BY <1>5, <1>13, <1>2, <1>4 DEF Last, Before

LEMMA PathOf3 ==
  ASSUME NEW t \in Tree, NEW k \in Key, NEW a \in Key, NEW b \in Key,
         Leads(t, k, t.root, a), Leads(t, k, a, b), Ends(t, k, b)
  PROVE  Last(Path(t, k)) = b /\ Before(Path(t, k)) = a
<1> PICK r \in Key : r = t.root BY DEF Tree
<1>1. PICK w1 : w1 = <<r>> OBVIOUS
<1>2. w1 \in Walk /\ w1[Len(w1)] = r BY <1>1 DEF Walk
<1>3. PICK w2 : Appends(w1, a, w2) BY DEF Appends
<1>4. w2 \in Walk /\ w2[Len(w2)] = a /\ Before(w2) = r
  BY <1>2, <1>3, Longer DEF Appends
<1>5. PICK w3 : Appends(w2, b, w3) BY DEF Appends
<1>6. w3 \in Walk /\ w3[Len(w3)] = b /\ Before(w3) = a
  BY <1>4, <1>5, Longer DEF Appends
<1>7. PICK f : Paths(t, k, f) /\ Path(t, k) = f[5] BY PathIs
<1>8. f[0] = w1 /\ \A i \in 1 .. 5 : f[i] = Further(t, k, f[i - 1]) BY <1>1, <1>7 DEF Paths
<1>9. Further(t, k, w1) = w2 BY <1>2, <1>3, Goes
<1>10. Further(t, k, w2) = w3 BY <1>4, <1>5, Goes
<1>11. Further(t, k, w3) = w3 BY <1>6, Stays
<1>12. f[1] = w2 BY <1>8, <1>9
<1>13. f[2] = w3 BY <1>8, <1>10, <1>12
<1>14. f[3] = w3 BY <1>8, <1>11, <1>13
<1>15. f[4] = w3 BY <1>8, <1>11, <1>14
<1>16. f[5] = w3 BY <1>8, <1>11, <1>15
<1> QED BY <1>7, <1>16, <1>2, <1>4, <1>6 DEF Last, Before

LEMMA PathOf4 ==
  ASSUME NEW t \in Tree, NEW k \in Key, NEW a \in Key, NEW b \in Key, NEW c \in Key,
         Leads(t, k, t.root, a), Leads(t, k, a, b), Leads(t, k, b, c), Ends(t, k, c)
  PROVE  Last(Path(t, k)) = c /\ Before(Path(t, k)) = b
<1> PICK r \in Key : r = t.root BY DEF Tree
<1>1. PICK w1 : w1 = <<r>> OBVIOUS
<1>2. w1 \in Walk /\ w1[Len(w1)] = r BY <1>1 DEF Walk
<1>3. PICK w2 : Appends(w1, a, w2) BY DEF Appends
<1>4. w2 \in Walk /\ w2[Len(w2)] = a /\ Before(w2) = r
  BY <1>2, <1>3, Longer DEF Appends
<1>5. PICK w3 : Appends(w2, b, w3) BY DEF Appends
<1>6. w3 \in Walk /\ w3[Len(w3)] = b /\ Before(w3) = a
  BY <1>4, <1>5, Longer DEF Appends
<1>7. PICK w4 : Appends(w3, c, w4) BY DEF Appends
<1>8. w4 \in Walk /\ w4[Len(w4)] = c /\ Before(w4) = b
  BY <1>6, <1>7, Longer DEF Appends
<1>9. PICK f : Paths(t, k, f) /\ Path(t, k) = f[5] BY PathIs
<1>10. f[0] = w1 /\ \A i \in 1 .. 5 : f[i] = Further(t, k, f[i - 1]) BY <1>1, <1>9 DEF Paths
<1>11. Further(t, k, w1) = w2 BY <1>2, <1>3, Goes
<1>12. Further(t, k, w2) = w3 BY <1>4, <1>5, Goes
<1>13. Further(t, k, w3) = w4 BY <1>6, <1>7, Goes
<1>14. Further(t, k, w4) = w4 BY <1>8, Stays
<1>15. f[1] = w2 BY <1>10, <1>11
<1>16. f[2] = w3 BY <1>10, <1>12, <1>15
<1>17. f[3] = w4 BY <1>10, <1>13, <1>16
<1>18. f[4] = w4 BY <1>10, <1>14, <1>17
<1>19. f[5] = w4 BY <1>10, <1>14, <1>18
<1> QED BY <1>9, <1>19, <1>2, <1>4, <1>6, <1>8 DEF Last, Before

LEMMA PathOf5 ==
  ASSUME NEW t \in Tree, NEW k \in Key, NEW a \in Key, NEW b \in Key, NEW c \in Key, NEW d \in Key,
         Leads(t, k, t.root, a), Leads(t, k, a, b), Leads(t, k, b, c), Leads(t, k, c, d), Ends(t, k, d)
  PROVE  Last(Path(t, k)) = d /\ Before(Path(t, k)) = c
<1> PICK r \in Key : r = t.root BY DEF Tree
<1>1. PICK w1 : w1 = <<r>> OBVIOUS
<1>2. w1 \in Walk /\ w1[Len(w1)] = r BY <1>1 DEF Walk
<1>3. PICK w2 : Appends(w1, a, w2) BY DEF Appends
<1>4. w2 \in Walk /\ w2[Len(w2)] = a /\ Before(w2) = r
  BY <1>2, <1>3, Longer DEF Appends
<1>5. PICK w3 : Appends(w2, b, w3) BY DEF Appends
<1>6. w3 \in Walk /\ w3[Len(w3)] = b /\ Before(w3) = a
  BY <1>4, <1>5, Longer DEF Appends
<1>7. PICK w4 : Appends(w3, c, w4) BY DEF Appends
<1>8. w4 \in Walk /\ w4[Len(w4)] = c /\ Before(w4) = b
  BY <1>6, <1>7, Longer DEF Appends
<1>9. PICK w5 : Appends(w4, d, w5) BY DEF Appends
<1>10. w5 \in Walk /\ w5[Len(w5)] = d /\ Before(w5) = c
  BY <1>8, <1>9, Longer DEF Appends
<1>11. PICK f : Paths(t, k, f) /\ Path(t, k) = f[5] BY PathIs
<1>12. f[0] = w1 /\ \A i \in 1 .. 5 : f[i] = Further(t, k, f[i - 1]) BY <1>1, <1>11 DEF Paths
<1>13. Further(t, k, w1) = w2 BY <1>2, <1>3, Goes
<1>14. Further(t, k, w2) = w3 BY <1>4, <1>5, Goes
<1>15. Further(t, k, w3) = w4 BY <1>6, <1>7, Goes
<1>16. Further(t, k, w4) = w5 BY <1>8, <1>9, Goes
<1>17. Further(t, k, w5) = w5 BY <1>10, Stays
<1>18. f[1] = w2 BY <1>12, <1>13
<1>19. f[2] = w3 BY <1>12, <1>14, <1>18
<1>20. f[3] = w4 BY <1>12, <1>15, <1>19
<1>21. f[4] = w5 BY <1>12, <1>16, <1>20
<1>22. f[5] = w5 BY <1>12, <1>17, <1>21
<1> QED BY <1>11, <1>22, <1>10 DEF Last, Before

(* A list that nodes are added to stays one.                               *)
LEMMA AddKeepsTree ==
  ASSUME NEW t \in Tree, NEW k \in Key
  PROVE  Add(t, k) \in Tree
<1> PICK n \in Key : n = Last(Path(t, k)) BY PathWalks
<1>1. Add(t, k) = Link(t, n, k, k) BY DEF Add
<1>2. [t EXCEPT !.next[n] = k] \in Tree /\ [t EXCEPT !.prev[n] = k] \in Tree BY DEF Tree
<1> QED BY <1>1, <1>2 DEF Link

Adds(t, s, f) ==
  /\ f \in [0 .. Len(s) -> Tree] /\ f[0] = t
  /\ \A i \in 1 .. Len(s) : f[i] = Add(f[i - 1], s[i])

LEMMA AddAllIs ==
  ASSUME NEW t \in Tree, NEW s \in Seq(Key)
  PROVE  \E f : Adds(t, s, f) /\ AddAll(t, s) = f[Len(s)]
<1> PICK N \in Nat : N = Len(s) OBVIOUS
<1>1. \A i \in 1 .. N : s[i] \in Key BY ElementOfSeq
<1> DEFINE G == [i \in 1 .. N |-> [u \in Tree |-> Add(u, s[i])]]
           H(f) == [i \in 0 .. N |-> IF i = 0 THEN t ELSE Add(f[i - 1], s[i])]
           after == CHOOSE f : f = H(f)
<1>2. G \in [1 .. N -> [Tree -> Tree]] BY <1>1, AddKeepsTree
<1>3. PICK f : Runs(N, Tree, t, G, f)
  <2> HIDE DEF G
  <2> QED BY <1>2, Recursion
<1>4. f = H(f)
  <2>1. ASSUME NEW i \in 0 .. N PROVE f[i] = H(f)[i]
    <3>1. CASE i = 0 BY <1>3, <3>1 DEF Runs
    <3>2. CASE i # 0
      <4>1. i \in 1 .. N /\ i - 1 \in 0 .. N BY <3>2
      <4>2. f[i] = G[i][f[i - 1]] /\ f[i - 1] \in Tree BY <1>3, <4>1 DEF Runs
      <4> QED BY <3>2, <4>1, <4>2
    <3> QED BY <3>1, <3>2
  <2>2. f = [i \in 0 .. N |-> f[i]] BY <1>3 DEF Runs
  <2>3. H(f) = [i \in 0 .. N |-> H(f)[i]] OBVIOUS
  <2> HIDE DEF H, G
  <2> QED BY <2>1, <2>2, <2>3
<1>5. after = H(after)
  <2> HIDE DEF H
  <2> QED BY <1>4
<1>6. AddAll(t, s) = after[N] BY DEF AddAll
<1> HIDE DEF after
<1>7. \A i \in 0 .. N : after[i] = IF i = 0 THEN t ELSE Add(after[i - 1], s[i]) BY <1>5
<1>8. \A i \in 0 .. N : after[i] \in Tree
  <2> DEFINE T == {i \in 0 .. N : after[i] \notin Tree}
  <2>1. SUFFICES ASSUME T # {} PROVE FALSE
    OBVIOUS
  <2>2. T \in SUBSET Nat OBVIOUS
  <2>3. PICK i \in T : \A m \in T : i <= m
    <3> HIDE DEF T
    <3> QED BY <2>1, <2>2, LeastNat
  <2>4. i # 0 BY <1>7, <2>3
  <2>5. i - 1 \in 0 .. N /\ i \in 1 .. N /\ ~(i <= i - 1) BY <2>3, <2>4
  <2>6. after[i - 1] \in Tree BY <2>3, <2>5
  <2>7. s[i] \in Key BY <1>1, <2>5
  <2>8. after[i] = Add(after[i - 1], s[i]) BY <1>7, <2>4, <2>5
  <2>9. after[i] \in Tree BY <2>6, <2>7, <2>8, AddKeepsTree
  <2> QED BY <2>3, <2>9
<1>9. after = [i \in 0 .. N |-> after[i]] BY <1>5
<1>10. after \in [0 .. N -> Tree] BY <1>8, <1>9
<1>11. Adds(t, s, after) BY <1>7, <1>10 DEF Adds
<1> QED BY <1>6, <1>11

-----------------------------------------------------------------------------
(* The shapes that a player's list can have.                               *)

Shape(px, pu, ps, ne, ns) ==
  [root |-> "xp",
   prev |-> [k \in Key |-> IF k = "xp" THEN px ELSE IF k = "units" THEN pu
                           ELSE IF k = "storage" THEN ps ELSE NoKey],
   next |-> [k \in Key |-> IF k = "endless" THEN ne ELSE IF k = "storage" THEN ns ELSE NoKey]]

Links == Key \cup {NoKey}

(* As a new player's list grows, and as it is after it was saved once.     *)
Fresh(i) == Shape("units", "endless", i, "storage", NoKey)
Kept(i)  == Shape("endless", NoKey, i, "storage", "units")

Few == {NoKey, "items"}

LEMMA ShapeIsTree ==
  ASSUME NEW px \in Links, NEW pu \in Links, NEW ps \in Links, NEW ne \in Links, NEW ns \in Links
  PROVE  Shape(px, pu, ps, ne, ns) \in Tree
BY Keys DEF Shape, Tree, Links

LEMMA ShapeWays ==
  ASSUME NEW px, NEW pu, NEW ps, NEW ne, NEW ns, NEW t, t = Shape(px, pu, ps, ne, ns)
  PROVE  /\ t.root = "xp"
         /\ \A k \in Key : k # "xp" => Way(t, "xp", k) = px
         /\ \A k \in {"endless", "items", "storage"} : Way(t, "units", k) = pu
         /\ \A k \in {"items", "storage", "units"} : Way(t, "endless", k) = ne
         /\ Way(t, "storage", "items") = ps /\ Way(t, "storage", "units") = ns
<1> DEFINE prev == [k \in Key |-> IF k = "xp" THEN px ELSE IF k = "units" THEN pu
                           ELSE IF k = "storage" THEN ps ELSE NoKey]
           next == [k \in Key |-> IF k = "endless" THEN ne ELSE IF k = "storage" THEN ns
                           ELSE NoKey]
<1>1. t.root = "xp" /\ t.prev = prev /\ t.next = next BY DEF Shape
<1>2. prev["xp"] = px /\ prev["units"] = pu /\ prev["storage"] = ps BY Keys
<1>3. next["endless"] = ne /\ next["storage"] = ns BY Keys
<1> HIDE DEF prev, next
<1>4. /\ \A k \in Key : Rank[k] \in Nat
      /\ Rank["endless"] < Rank["items"] /\ Rank["items"] < Rank["storage"]
      /\ Rank["storage"] < Rank["units"] /\ Rank["units"] < Rank["xp"]
  BY NbtAssumption, PlayerDataAssumption
<1> PICK e \in Nat : e = Rank["endless"] BY <1>4, Keys
<1> PICK i \in Nat : i = Rank["items"] BY <1>4, Keys
<1> PICK s \in Nat : s = Rank["storage"] BY <1>4, Keys
<1> PICK u \in Nat : u = Rank["units"] BY <1>4, Keys
<1> PICK x \in Nat : x = Rank["xp"] BY <1>4, Keys
<1>5. e < i /\ i < s /\ s < u /\ u < x BY <1>4
<1>6. /\ ~(e > x) /\ ~(i > x) /\ ~(s > x) /\ ~(u > x)
      /\ ~(e > u) /\ ~(i > u) /\ ~(s > u)
      /\ i > e /\ s > e /\ u > e /\ ~(i > s) /\ u > s
  BY <1>5
<1>7. ASSUME NEW k \in Key, k # "xp" PROVE Way(t, "xp", k) = px
  <2>1. ~(Rank[k] > Rank["xp"]) BY <1>6, <1>7, Keys
  <2> QED BY <1>1, <1>2, <2>1 DEF Way
<1>8. ASSUME NEW k \in {"endless", "items", "storage"} PROVE Way(t, "units", k) = pu
  <2>1. ~(Rank[k] > Rank["units"]) BY <1>6, <1>8
  <2> QED BY <1>1, <1>2, <2>1 DEF Way
<1>9. ASSUME NEW k \in {"items", "storage", "units"} PROVE Way(t, "endless", k) = ne
  <2>1. Rank[k] > Rank["endless"] BY <1>6, <1>9
  <2> QED BY <1>1, <1>3, <2>1 DEF Way
<1>10. Way(t, "storage", "items") = ps /\ Way(t, "storage", "units") = ns
  <2>1. ~(Rank["items"] > Rank["storage"]) /\ Rank["units"] > Rank["storage"] BY <1>6
  <2> QED BY <1>1, <1>2, <1>3, <2>1 DEF Way
<1> QED BY <1>1, <1>7, <1>8, <1>9, <1>10

SetPrev(t, n, to) == [t EXCEPT !.prev[n] = to]
SetNext(t, n, to) == [t EXCEPT !.next[n] = to]

(* A pointer of a list of such a shape is set.                             *)
LEMMA ShapeLink ==
  ASSUME NEW px, NEW pu, NEW ps, NEW ne, NEW ns, NEW t, t = Shape(px, pu, ps, ne, ns), NEW to
  PROVE  /\ SetPrev(t, "xp", to) = Shape(to, pu, ps, ne, ns)
         /\ SetPrev(t, "units", to) = Shape(px, to, ps, ne, ns)
         /\ SetPrev(t, "storage", to) = Shape(px, pu, to, ne, ns)
         /\ SetNext(t, "endless", to) = Shape(px, pu, ps, to, ns)
         /\ SetNext(t, "storage", to) = Shape(px, pu, ps, ne, to)
<1>1. SetPrev(t, "xp", to) = Shape(to, pu, ps, ne, ns) BY DEF Shape, SetPrev, SetNext
<1>2. SetPrev(t, "units", to) = Shape(px, to, ps, ne, ns) BY DEF Shape, SetPrev, SetNext
<1>3. SetPrev(t, "storage", to) = Shape(px, pu, to, ne, ns) BY DEF Shape, SetPrev, SetNext
<1>4. SetNext(t, "endless", to) = Shape(px, pu, ps, to, ns) BY DEF Shape, SetPrev, SetNext
<1>5. SetNext(t, "storage", to) = Shape(px, pu, ps, ne, to) BY DEF Shape, SetPrev, SetNext
<1> QED BY <1>1, <1>2, <1>3, <1>4, <1>5

LEMMA Higher ==
  /\ ~(Rank["units"] > Rank["xp"]) /\ ~(Rank["endless"] > Rank["xp"])
  /\ ~(Rank["endless"] > Rank["units"]) /\ Rank["storage"] > Rank["endless"]
  /\ ~(Rank["items"] > Rank["storage"]) /\ Rank["units"] > Rank["storage"]
<1>1. /\ \A k \in Key : Rank[k] \in Nat
      /\ Rank["endless"] < Rank["items"] /\ Rank["items"] < Rank["storage"]
      /\ Rank["storage"] < Rank["units"] /\ Rank["units"] < Rank["xp"]
  BY NbtAssumption, PlayerDataAssumption
<1> PICK e \in Nat : e = Rank["endless"] BY <1>1, Keys
<1> PICK i \in Nat : i = Rank["items"] BY <1>1, Keys
<1> PICK s \in Nat : s = Rank["storage"] BY <1>1, Keys
<1> PICK u \in Nat : u = Rank["units"] BY <1>1, Keys
<1> PICK x \in Nat : x = Rank["xp"] BY <1>1, Keys
<1>2. e < i /\ i < s /\ s < u /\ u < x BY <1>1
<1> QED BY <1>2

LEMMA AddAt ==
  ASSUME NEW t, NEW k, NEW n, Last(Path(t, k)) = n
  PROVE  Add(t, k) = Link(t, n, k, k)
BY DEF Add

(* Where the search for a key ends in a list of such a shape.              *)
LEMMA UnitsFirstAt ==
  ASSUME NEW t, t = Shape(NoKey, NoKey, NoKey, NoKey, NoKey)
  PROVE  t \in Tree /\ Last(Path(t, "units")) = "xp"
<1>1. t \in Tree BY Keys, ShapeIsTree DEF Links, Few
<1>2. t.root = "xp" BY ShapeWays
<1>3. Ends(t, "units", "xp")
  BY Keys, ShapeWays DEF Leads, Ends, Few
<1> QED BY <1>1, <1>2, <1>3, Keys, PathOf1

LEMMA UnitsFirst ==
  ASSUME NEW t, t = Shape(NoKey, NoKey, NoKey, NoKey, NoKey)
  PROVE  Add(t, "units") = Shape("units", NoKey, NoKey, NoKey, NoKey)
<1>1. Last(Path(t, "units")) = "xp" BY UnitsFirstAt
<1>2. Add(t, "units") = Link(t, "xp", "units", "units") BY <1>1, AddAt
<1>3. Link(t, "xp", "units", "units") = SetPrev(t, "xp", "units") BY Higher DEF Link, SetPrev, SetNext
<1> QED BY <1>2, <1>3, ShapeLink

LEMMA EndlessNextAt ==
  ASSUME NEW t, t = Shape("units", NoKey, NoKey, NoKey, NoKey)
  PROVE  t \in Tree /\ Last(Path(t, "endless")) = "units"
<1>1. t \in Tree BY Keys, ShapeIsTree DEF Links, Few
<1>2. t.root = "xp" BY ShapeWays
<1>3. Leads(t, "endless", "xp", "units") /\ Ends(t, "endless", "units")
  BY Keys, ShapeWays DEF Leads, Ends, Few
<1> QED BY <1>1, <1>2, <1>3, Keys, PathOf2

LEMMA EndlessNext ==
  ASSUME NEW t, t = Shape("units", NoKey, NoKey, NoKey, NoKey)
  PROVE  Add(t, "endless") = Shape("units", "endless", NoKey, NoKey, NoKey)
<1>1. Last(Path(t, "endless")) = "units" BY EndlessNextAt
<1>2. Add(t, "endless") = Link(t, "units", "endless", "endless") BY <1>1, AddAt
<1>3. Link(t, "units", "endless", "endless") = SetPrev(t, "units", "endless") BY Higher DEF Link, SetPrev, SetNext
<1> QED BY <1>2, <1>3, ShapeLink

LEMMA StorageNextAt ==
  ASSUME NEW t, t = Shape("units", "endless", NoKey, NoKey, NoKey)
  PROVE  t \in Tree /\ Last(Path(t, "storage")) = "endless"
<1>1. t \in Tree BY Keys, ShapeIsTree DEF Links, Few
<1>2. t.root = "xp" BY ShapeWays
<1>3. Leads(t, "storage", "xp", "units") /\ Leads(t, "storage", "units", "endless") /\ Ends(t, "storage", "endless")
  BY Keys, ShapeWays DEF Leads, Ends, Few
<1> QED BY <1>1, <1>2, <1>3, Keys, PathOf3

LEMMA StorageNext ==
  ASSUME NEW t, t = Shape("units", "endless", NoKey, NoKey, NoKey)
  PROVE  Add(t, "storage") = Shape("units", "endless", NoKey, "storage", NoKey)
<1>1. Last(Path(t, "storage")) = "endless" BY StorageNextAt
<1>2. Add(t, "storage") = Link(t, "endless", "storage", "storage") BY <1>1, AddAt
<1>3. Link(t, "endless", "storage", "storage") = SetNext(t, "endless", "storage") BY Higher DEF Link, SetPrev, SetNext
<1> QED BY <1>2, <1>3, ShapeLink

LEMMA ItemsNextAt ==
  ASSUME NEW t, t = Shape("units", "endless", NoKey, "storage", NoKey)
  PROVE  t \in Tree /\ Last(Path(t, "items")) = "storage"
<1>1. t \in Tree BY Keys, ShapeIsTree DEF Links, Few
<1>2. t.root = "xp" BY ShapeWays
<1>3. /\ Leads(t, "items", "xp", "units") /\ Leads(t, "items", "units", "endless")
      /\ Leads(t, "items", "endless", "storage") /\ Ends(t, "items", "storage")
  BY Keys, ShapeWays DEF Leads, Ends, Few
<1>4. "units" \in Key /\ "endless" \in Key /\ "storage" \in Key /\ "items" \in Key BY Keys
<1>5. Last(Path(t, "items")) = "storage" BY <1>1, <1>2, <1>3, <1>4, PathOf4
<1> QED BY <1>1, <1>5

LEMMA ItemsNext ==
  ASSUME NEW t, t = Shape("units", "endless", NoKey, "storage", NoKey)
  PROVE  Add(t, "items") = Shape("units", "endless", "items", "storage", NoKey)
<1>1. Last(Path(t, "items")) = "storage" BY ItemsNextAt
<1>2. Add(t, "items") = Link(t, "storage", "items", "items") BY <1>1, AddAt
<1>3. Link(t, "storage", "items", "items") = SetPrev(t, "storage", "items") BY Higher DEF Link, SetPrev, SetNext
<1> QED BY <1>2, <1>3, ShapeLink

LEMMA EndlessFirstAt ==
  ASSUME NEW t, t = Shape(NoKey, NoKey, NoKey, NoKey, NoKey)
  PROVE  t \in Tree /\ Last(Path(t, "endless")) = "xp"
<1>1. t \in Tree BY Keys, ShapeIsTree DEF Links, Few
<1>2. t.root = "xp" BY ShapeWays
<1>3. Ends(t, "endless", "xp")
  BY Keys, ShapeWays DEF Leads, Ends, Few
<1> QED BY <1>1, <1>2, <1>3, Keys, PathOf1

LEMMA EndlessFirst ==
  ASSUME NEW t, t = Shape(NoKey, NoKey, NoKey, NoKey, NoKey)
  PROVE  Add(t, "endless") = Shape("endless", NoKey, NoKey, NoKey, NoKey)
<1>1. Last(Path(t, "endless")) = "xp" BY EndlessFirstAt
<1>2. Add(t, "endless") = Link(t, "xp", "endless", "endless") BY <1>1, AddAt
<1>3. Link(t, "xp", "endless", "endless") = SetPrev(t, "xp", "endless") BY Higher DEF Link, SetPrev, SetNext
<1> QED BY <1>2, <1>3, ShapeLink

LEMMA StorageSecondAt ==
  ASSUME NEW t, t = Shape("endless", NoKey, NoKey, NoKey, NoKey)
  PROVE  t \in Tree /\ Last(Path(t, "storage")) = "endless"
<1>1. t \in Tree BY Keys, ShapeIsTree DEF Links, Few
<1>2. t.root = "xp" BY ShapeWays
<1>3. Leads(t, "storage", "xp", "endless") /\ Ends(t, "storage", "endless")
  BY Keys, ShapeWays DEF Leads, Ends, Few
<1> QED BY <1>1, <1>2, <1>3, Keys, PathOf2

LEMMA StorageSecond ==
  ASSUME NEW t, t = Shape("endless", NoKey, NoKey, NoKey, NoKey)
  PROVE  Add(t, "storage") = Shape("endless", NoKey, NoKey, "storage", NoKey)
<1>1. Last(Path(t, "storage")) = "endless" BY StorageSecondAt
<1>2. Add(t, "storage") = Link(t, "endless", "storage", "storage") BY <1>1, AddAt
<1>3. Link(t, "endless", "storage", "storage") = SetNext(t, "endless", "storage") BY Higher DEF Link, SetPrev, SetNext
<1> QED BY <1>2, <1>3, ShapeLink

LEMMA ItemsThirdAt ==
  ASSUME NEW ns \in {NoKey, "units"}, NEW t, t = Shape("endless", NoKey, NoKey, "storage", ns)
  PROVE  t \in Tree /\ Last(Path(t, "items")) = "storage"
<1>1. t \in Tree BY Keys, ShapeIsTree DEF Links, Few
<1>2. t.root = "xp" BY ShapeWays
<1>3. Leads(t, "items", "xp", "endless") /\ Leads(t, "items", "endless", "storage") /\ Ends(t, "items", "storage")
  BY Keys, ShapeWays DEF Leads, Ends, Few
<1> QED BY <1>1, <1>2, <1>3, Keys, PathOf3

LEMMA ItemsThird ==
  ASSUME NEW ns \in {NoKey, "units"}, NEW t, t = Shape("endless", NoKey, NoKey, "storage", ns)
  PROVE  Add(t, "items") = Shape("endless", NoKey, "items", "storage", ns)
<1>1. Last(Path(t, "items")) = "storage" BY ItemsThirdAt
<1>2. Add(t, "items") = Link(t, "storage", "items", "items") BY <1>1, AddAt
<1>3. Link(t, "storage", "items", "items") = SetPrev(t, "storage", "items") BY Higher DEF Link, SetPrev, SetNext
<1> QED BY <1>2, <1>3, ShapeLink

LEMMA UnitsLastAt ==
  ASSUME NEW i \in Few, NEW t, t = Shape("endless", NoKey, i, "storage", NoKey)
  PROVE  t \in Tree /\ Last(Path(t, "units")) = "storage"
<1>1. t \in Tree BY Keys, ShapeIsTree DEF Links, Few
<1>2. t.root = "xp" BY ShapeWays
<1>3. Leads(t, "units", "xp", "endless") /\ Leads(t, "units", "endless", "storage") /\ Ends(t, "units", "storage")
  BY Keys, ShapeWays DEF Leads, Ends, Few
<1> QED BY <1>1, <1>2, <1>3, Keys, PathOf3

LEMMA UnitsLast ==
  ASSUME NEW i \in Few, NEW t, t = Shape("endless", NoKey, i, "storage", NoKey)
  PROVE  Add(t, "units") = Shape("endless", NoKey, i, "storage", "units")
<1>1. Last(Path(t, "units")) = "storage" BY UnitsLastAt
<1>2. Add(t, "units") = Link(t, "storage", "units", "units") BY <1>1, AddAt
<1>3. Link(t, "storage", "units", "units") = SetNext(t, "storage", "units") BY Higher DEF Link, SetPrev, SetNext
<1> QED BY <1>2, <1>3, ShapeLink

LEMMA FreshStorage ==
  ASSUME NEW i \in Few, NEW t, t = Shape("units", "endless", i, "storage", NoKey)
  PROVE  t \in Tree /\ Last(Path(t, "storage")) = "storage"
<1>1. t \in Tree BY Keys, ShapeIsTree DEF Links, Few
<1>2. t.root = "xp" BY ShapeWays
<1>3. /\ Leads(t, "storage", "xp", "units") /\ Leads(t, "storage", "units", "endless")
      /\ Leads(t, "storage", "endless", "storage") /\ Ends(t, "storage", "storage")
  BY Keys, ShapeWays DEF Leads, Ends, Few
<1>4. "units" \in Key /\ "endless" \in Key /\ "storage" \in Key BY Keys
<1>5. Last(Path(t, "storage")) = "storage" BY <1>1, <1>2, <1>3, <1>4, PathOf4
<1> QED BY <1>1, <1>5

LEMMA FreshUnits ==
  ASSUME NEW i \in Few, NEW t, t = Shape("units", "endless", i, "storage", NoKey)
  PROVE  t \in Tree /\ Last(Path(t, "units")) = "units"
         /\ Before(Path(t, "units")) = "xp"
<1>1. t \in Tree BY Keys, ShapeIsTree DEF Links, Few
<1>2. t.root = "xp" BY ShapeWays
<1>3. Leads(t, "units", "xp", "units") /\ Ends(t, "units", "units")
  BY Keys, ShapeWays DEF Leads, Ends, Few
<1> QED BY <1>1, <1>2, <1>3, Keys, PathOf2

LEMMA KeptStorage ==
  ASSUME NEW i \in Few, NEW t, t = Shape("endless", NoKey, i, "storage", "units")
  PROVE  t \in Tree /\ Last(Path(t, "storage")) = "storage"
<1>1. t \in Tree BY Keys, ShapeIsTree DEF Links, Few
<1>2. t.root = "xp" BY ShapeWays
<1>3. Leads(t, "storage", "xp", "endless") /\ Leads(t, "storage", "endless", "storage") /\ Ends(t, "storage", "storage")
  BY Keys, ShapeWays DEF Leads, Ends, Few
<1> QED BY <1>1, <1>2, <1>3, Keys, PathOf3

LEMMA KeptUnits ==
  ASSUME NEW i \in Few, NEW t, t = Shape("endless", NoKey, i, "storage", "units")
  PROVE  t \in Tree /\ Last(Path(t, "units")) = "units"
         /\ Before(Path(t, "units")) = "storage"
<1>1. t \in Tree BY Keys, ShapeIsTree DEF Links, Few
<1>2. t.root = "xp" BY ShapeWays
<1>3. /\ Leads(t, "units", "xp", "endless") /\ Leads(t, "units", "endless", "storage")
      /\ Leads(t, "units", "storage", "units") /\ Ends(t, "units", "units")
  BY Keys, ShapeWays DEF Leads, Ends, Few
<1>4. "units" \in Key /\ "endless" \in Key /\ "storage" \in Key BY Keys
<1>5. Last(Path(t, "units")) = "units" /\ Before(Path(t, "units")) = "storage"
  BY <1>1, <1>2, <1>3, <1>4, PathOf4
<1> QED BY <1>1, <1>5

LEMMA KeptItems ==
  ASSUME NEW t, t = Shape("endless", NoKey, "items", "storage", "units")
  PROVE  t \in Tree /\ Last(Path(t, "items")) = "items"
<1>1. t \in Tree BY Keys, ShapeIsTree DEF Links
<1>2. t.root = "xp" BY ShapeWays
<1>3. /\ Leads(t, "items", "xp", "endless") /\ Leads(t, "items", "endless", "storage")
      /\ Leads(t, "items", "storage", "items") /\ Ends(t, "items", "items")
  BY Keys, ShapeWays DEF Leads, Ends
<1>4. "endless" \in Key /\ "storage" \in Key /\ "items" \in Key BY Keys
<1>5. Last(Path(t, "items")) = "items" BY <1>1, <1>2, <1>3, <1>4, PathOf4
<1> QED BY <1>1, <1>5

LEMMA FreshItems ==
  ASSUME NEW t, t = Shape("units", "endless", "items", "storage", NoKey)
  PROVE  t \in Tree /\ Last(Path(t, "items")) = "items"
<1>1. t \in Tree BY Keys, ShapeIsTree DEF Links
<1>2. t.root = "xp" BY ShapeWays
<1>3. /\ Leads(t, "items", "xp", "units") /\ Leads(t, "items", "units", "endless")
      /\ Leads(t, "items", "endless", "storage") /\ Leads(t, "items", "storage", "items")
      /\ Ends(t, "items", "items")
  BY Keys, ShapeWays DEF Leads, Ends
<1>4. {"units", "endless", "storage", "items"} \subseteq Key BY Keys
<1> QED BY <1>1, <1>2, <1>3, <1>4, PathOf5

(* What a few nodes are added one after the other makes.                   *)
LEMMA AddAll0 ==
  ASSUME NEW t \in Tree
  PROVE  AddAll(t, << >>) = t
<1> PICK s : s = << >> OBVIOUS
<1>1. s \in Seq(Key) /\ Len(s) = 0 OBVIOUS
<1>2. PICK f : Adds(t, s, f) /\ AddAll(t, s) = f[Len(s)] BY <1>1, AddAllIs
<1> QED BY <1>1, <1>2 DEF Adds

LEMMA AddAll2 ==
  ASSUME NEW t \in Tree, NEW s \in Seq(Key), Len(s) = 2
  PROVE  AddAll(t, s) = Add(Add(t, s[1]), s[2])
<1>1. PICK f : Adds(t, s, f) /\ AddAll(t, s) = f[Len(s)] BY AddAllIs
<1>2. f[0] = t /\ \A i \in 1 .. 2 : f[i] = Add(f[i - 1], s[i]) BY <1>1 DEF Adds
<1>3. f[1] = Add(t, s[1]) BY <1>2
<1>4. f[2] = Add(Add(t, s[1]), s[2]) BY <1>2, <1>3
<1> QED BY <1>1, <1>4

LEMMA AddAll3 ==
  ASSUME NEW t \in Tree, NEW s \in Seq(Key), Len(s) = 3
  PROVE  AddAll(t, s) = Add(Add(Add(t, s[1]), s[2]), s[3])
<1>1. PICK f : Adds(t, s, f) /\ AddAll(t, s) = f[Len(s)] BY AddAllIs
<1>2. f[0] = t /\ \A i \in 1 .. 3 : f[i] = Add(f[i - 1], s[i]) BY <1>1 DEF Adds
<1>3. f[1] = Add(t, s[1]) BY <1>2
<1>4. f[2] = Add(Add(t, s[1]), s[2]) BY <1>2, <1>3
<1>5. f[3] = Add(Add(Add(t, s[1]), s[2]), s[3]) BY <1>2, <1>4
<1> QED BY <1>1, <1>5

LEMMA AddAll4 ==
  ASSUME NEW t \in Tree, NEW s \in Seq(Key), Len(s) = 4
  PROVE  AddAll(t, s) = Add(Add(Add(Add(t, s[1]), s[2]), s[3]), s[4])
<1>1. PICK f : Adds(t, s, f) /\ AddAll(t, s) = f[Len(s)] BY AddAllIs
<1>2. f[0] = t /\ \A i \in 1 .. 4 : f[i] = Add(f[i - 1], s[i]) BY <1>1 DEF Adds
<1>3. f[1] = Add(t, s[1]) BY <1>2
<1>4. f[2] = Add(Add(t, s[1]), s[2]) BY <1>2, <1>3
<1>5. f[3] = Add(Add(Add(t, s[1]), s[2]), s[3]) BY <1>2, <1>4
<1>6. f[4] = Add(Add(Add(Add(t, s[1]), s[2]), s[3]), s[4]) BY <1>2, <1>5
<1> QED BY <1>1, <1>6

LEMMA NewTreeIs == NewTree = Fresh(NoKey)
<1>1. PICK s : s = <<"units", "endless", "storage">> OBVIOUS
<1>2. s \in Seq(Key) /\ Len(s) = 3 /\ s[1] = "units" /\ s[2] = "endless" /\ s[3] = "storage"
  BY <1>1, Keys
<1>3. PICK t : t = Single("xp") OBVIOUS
<1>4. t = Shape(NoKey, NoKey, NoKey, NoKey, NoKey) BY <1>3 DEF Single, Shape
<1>5. t \in Tree BY <1>4, ShapeIsTree DEF Links
<1>6. AddAll(t, s) = Add(Add(Add(t, s[1]), s[2]), s[3]) BY <1>2, <1>5, AddAll3
<1>7. Add(Add(Add(t, "units"), "endless"), "storage") = Fresh(NoKey)
  BY <1>4, UnitsFirst, EndlessNext, StorageNext DEF Fresh
<1> QED BY <1>1, <1>2, <1>3, <1>6, <1>7 DEF NewTree

(* A list that items or the storage are looked for in.                     *)
LEMMA WithStorage ==
  ASSUME NEW i \in Few, NEW t \in {Fresh(i), Kept(i)}
  PROVE  WithKey(t, "storage") = t
<1>1. Last(Path(t, "storage")) = "storage" BY FreshStorage, KeptStorage DEF Fresh, Kept
<1> QED BY <1>1 DEF WithKey, Found

LEMMA WithItems ==
  ASSUME NEW i \in Few
  PROVE  /\ WithKey(Fresh(i), "items") = Fresh("items")
         /\ WithKey(Kept(i), "items") = Kept("items")
<1>1. CASE i = NoKey
  <2>1. ~Found(Fresh(i), "items") /\ ~Found(Kept(i), "items")
    BY <1>1, ItemsNextAt, ItemsThirdAt DEF Fresh, Kept, Found
  <2>2. Add(Fresh(i), "items") = Fresh("items") /\ Add(Kept(i), "items") = Kept("items")
    BY <1>1, ItemsNext, ItemsThird DEF Fresh, Kept
  <2> QED BY <2>1, <2>2 DEF WithKey
<1>2. CASE i = "items"
  <2>1. Found(Fresh(i), "items") /\ Found(Kept(i), "items")
    BY <1>2, FreshItems, KeptItems DEF Fresh, Kept, Found
  <2> QED BY <1>2, <2>1 DEF WithKey
<1> QED BY <1>1, <1>2 DEF Few

LEMMA ShapesAreTrees ==
  ASSUME NEW i \in Few
  PROVE  Fresh(i) \in Tree /\ Kept(i) \in Tree
BY Keys, ShapeIsTree DEF Fresh, Kept, Few, Links

-----------------------------------------------------------------------------
(* The nodes below a node, and the order that they are written in.         *)

Below == [Links -> Seq(Key)]

Gathers(t, f) ==
  /\ f \in [0 .. 5 -> Below]
  /\ \A m \in Links : f[0][m] = << >>
  /\ \A d \in 1 .. 5 : f[d][NoKey] = << >>
  /\ \A d \in 1 .. 5 : \A m \in Key :
       f[d][m] = <<m>> \o f[d - 1][t.prev[m]] \o f[d - 1][t.next[m]]

LEMMA PreOrderIs ==
  ASSUME NEW t \in Tree
  PROVE  \E f : Gathers(t, f) /\ \A n \in Links : PreOrder(t, n) = f[5][n]
<1> DEFINE G == [d \in 1 .. 5 |-> [b \in Below |->
                  [m \in Links |-> IF m = NoKey THEN << >>
                                   ELSE <<m>> \o b[t.prev[m]] \o b[t.next[m]]]]]
           H(f) == [d \in 0 .. 5 |-> [m \in Key \cup {NoKey} |->
                      IF d = 0 \/ m = NoKey THEN << >>
                      ELSE <<m>> \o f[d - 1][t.prev[m]] \o f[d - 1][t.next[m]]]]
           below == CHOOSE f : f = H(f)
           z == [m \in Links |-> << >>]
<1>1. \A m \in Key : t.prev[m] \in Links /\ t.next[m] \in Links BY DEF Tree, Links
<1>2. \A b \in Below, m \in Key : <<m>> \o b[t.prev[m]] \o b[t.next[m]] \in Seq(Key)
  <2> SUFFICES ASSUME NEW b \in Below, NEW m \in Key
               PROVE  <<m>> \o b[t.prev[m]] \o b[t.next[m]] \in Seq(Key)
    OBVIOUS
  <2>1. b[t.prev[m]] \in Seq(Key) /\ b[t.next[m]] \in Seq(Key) BY <1>1 DEF Below
  <2>2. <<m>> \in Seq(Key) OBVIOUS
  <2> QED BY <2>1, <2>2, ConcatProperties
<1>3. G \in [1 .. 5 -> [Below -> Below]]
  <2>1. ASSUME NEW b \in Below
        PROVE [m \in Links |-> IF m = NoKey THEN << >>
                               ELSE <<m>> \o b[t.prev[m]] \o b[t.next[m]]] \in Below
    <3>1. \A m \in Links : (IF m = NoKey THEN << >>
                            ELSE <<m>> \o b[t.prev[m]] \o b[t.next[m]]) \in Seq(Key)
      BY <1>2 DEF Links
    <3> QED BY <3>1 DEF Below
  <2> QED BY <2>1
<1>4. z \in Below BY DEF Below
<1>5. PICK f : Runs(5, Below, z, G, f)
  <2> PICK N \in Nat : N = 5 OBVIOUS
  <2> HIDE DEF G, z
  <2>1. \E f : Runs(N, Below, z, G, f) BY <1>3, <1>4, Recursion
  <2> QED BY <2>1
<1>6. \A d \in 1 .. 5 : d - 1 \in 0 .. 5 /\ d \in 0 .. 5 /\ d # 0 OBVIOUS
<1>7. f = H(f)
  <2>1. ASSUME NEW d \in 0 .. 5 PROVE f[d] = H(f)[d]
    <3>1. CASE d = 0
      <4>1. f[d] = z BY <1>5, <3>1 DEF Runs
      <4>2. H(f)[d] = z BY <3>1 DEF Links
      <4> QED BY <4>1, <4>2
    <3>2. CASE d # 0
      <4>1. d \in 1 .. 5 /\ d - 1 \in 0 .. 5 BY <3>2
      <4>2. f[d] = G[d][f[d - 1]] /\ f[d - 1] \in Below BY <1>5, <4>1 DEF Runs
      <4> PICK b \in Below : b = f[d - 1] BY <4>2
      <4>3. G[d][b] = [m \in Links |-> IF m = NoKey THEN << >>
                                       ELSE <<m>> \o b[t.prev[m]] \o b[t.next[m]]]
        BY <4>1
      <4>4. H(f)[d] = [m \in Links |-> IF m = NoKey THEN << >>
                                       ELSE <<m>> \o b[t.prev[m]] \o b[t.next[m]]]
        BY <3>2 DEF Links
      <4> HIDE DEF H, G
      <4> QED BY <4>2, <4>3, <4>4
    <3> QED BY <3>1, <3>2
  <2>2. f = [d \in 0 .. 5 |-> f[d]] BY <1>5 DEF Runs
  <2>3. H(f) = [d \in 0 .. 5 |-> H(f)[d]] OBVIOUS
  <2> HIDE DEF H, G
  <2> QED BY <2>1, <2>2, <2>3
<1>8. below = H(below)
  <2> HIDE DEF H
  <2> QED BY <1>7
<1>9. \A n : PreOrder(t, n) = below[5][n] BY Keys DEF PreOrder
<1> HIDE DEF below
<1>10. below[0] = z
  <2>1. 0 \in 0 .. 5 OBVIOUS
  <2>2. H(below)[0] = z BY <2>1 DEF Links
  <2> HIDE DEF H, z
  <2> QED BY <1>8, <2>2
<1>11. \A d \in 1 .. 5 :
         below[d] = [m \in Links |-> IF m = NoKey THEN << >>
                       ELSE <<m>> \o below[d - 1][t.prev[m]] \o below[d - 1][t.next[m]]]
  BY <1>6, <1>8 DEF Links
<1>12. \A d \in 1 .. 5 : below[d - 1] \in Below => below[d] \in Below
  <2> SUFFICES ASSUME NEW d \in 1 .. 5, below[d - 1] \in Below PROVE below[d] \in Below
    OBVIOUS
  <2> PICK b \in Below : b = below[d - 1] OBVIOUS
  <2>1. below[d] = [m \in Links |-> IF m = NoKey THEN << >>
                                    ELSE <<m>> \o b[t.prev[m]] \o b[t.next[m]]]
    BY <1>11
  <2>2. \A m \in Links : (IF m = NoKey THEN << >>
                          ELSE <<m>> \o b[t.prev[m]] \o b[t.next[m]]) \in Seq(Key)
    BY <1>2 DEF Links
  <2> QED BY <2>1, <2>2 DEF Below
<1>13. below[0] \in Below BY <1>4, <1>10
<1>14. below[1] \in Below BY <1>12, <1>13
<1>15. below[2] \in Below BY <1>12, <1>14
<1>16. below[3] \in Below BY <1>12, <1>15
<1>17. below[4] \in Below BY <1>12, <1>16
<1>18. below[5] \in Below BY <1>12, <1>17
<1>19. \A d \in 0 .. 5 : below[d] \in Below BY <1>13, <1>14, <1>15, <1>16, <1>17, <1>18
<1>20. below = [d \in 0 .. 5 |-> below[d]] BY <1>8
<1>21. below \in [0 .. 5 -> Below] BY <1>19, <1>20
<1>22. \A m \in Links : below[0][m] = << >> BY <1>10
<1>23. \A d \in 1 .. 5 : below[d][NoKey] = << >> BY <1>11 DEF Links
<1>24. \A d \in 1 .. 5 : \A m \in Key :
         below[d][m] = <<m>> \o below[d - 1][t.prev[m]] \o below[d - 1][t.next[m]]
  <2> SUFFICES ASSUME NEW d \in 1 .. 5, NEW m \in Key
               PROVE  below[d][m] = <<m>> \o below[d - 1][t.prev[m]] \o below[d - 1][t.next[m]]
    OBVIOUS
  <2>1. PICK b : b = below[d - 1] OBVIOUS
  <2>2. below[d] = [l \in Links |-> IF l = NoKey THEN << >>
                                  ELSE <<l>> \o b[t.prev[l]] \o b[t.next[l]]]
    BY <1>11, <2>1
  <2>3. m \in Links /\ m # NoKey BY Keys DEF Links
  <2>4. below[d][m] = <<m>> \o b[t.prev[m]] \o b[t.next[m]] BY <2>2, <2>3
  <2> QED BY <2>1, <2>4
<1>25. Gathers(t, below) BY <1>21, <1>22, <1>23, <1>24 DEF Gathers
<1> QED BY <1>9, <1>25

Depths == [Links -> Nat]
Deeper(p, q) == 1 + IF p > q THEN p ELSE q

Deepens(t, f) ==
  /\ f \in [0 .. 5 -> Depths]
  /\ \A m \in Links : f[0][m] = 0
  /\ \A d \in 1 .. 5 : f[d][NoKey] = 0
  /\ \A d \in 1 .. 5 : \A m \in Key :
       f[d][m] = Deeper(f[d - 1][t.prev[m]], f[d - 1][t.next[m]])

LEMMA DepthIs ==
  ASSUME NEW t \in Tree
  PROVE  \E f : Deepens(t, f) /\ \A n \in Links : Depth(t, n) = f[5][n]
<1> DEFINE G == [d \in 1 .. 5 |-> [b \in Depths |->
                  [m \in Links |-> IF m = NoKey THEN 0
                                   ELSE Deeper(b[t.prev[m]], b[t.next[m]])]]]
           H(f) == [d \in 0 .. 5 |-> [m \in Key \cup {NoKey} |->
                      IF d = 0 \/ m = NoKey THEN 0
                      ELSE LET p == f[d - 1][t.prev[m]]
                               q == f[d - 1][t.next[m]]
                           IN  1 + IF p > q THEN p ELSE q]]
           depth == CHOOSE f : f = H(f)
           z == [m \in Links |-> 0]
<1>1. \A m \in Key : t.prev[m] \in Links /\ t.next[m] \in Links BY DEF Tree, Links
<1>2. \A b \in Depths, m \in Key : Deeper(b[t.prev[m]], b[t.next[m]]) \in Nat
  <2> SUFFICES ASSUME NEW b \in Depths, NEW m \in Key
               PROVE  Deeper(b[t.prev[m]], b[t.next[m]]) \in Nat
    OBVIOUS
  <2>1. b[t.prev[m]] \in Nat /\ b[t.next[m]] \in Nat BY <1>1 DEF Depths
  <2> QED BY <2>1 DEF Deeper
<1>3. G \in [1 .. 5 -> [Depths -> Depths]]
  <2>1. ASSUME NEW b \in Depths
        PROVE [m \in Links |-> IF m = NoKey THEN 0
                               ELSE Deeper(b[t.prev[m]], b[t.next[m]])] \in Depths
    <3>1. \A m \in Links : (IF m = NoKey THEN 0
                            ELSE Deeper(b[t.prev[m]], b[t.next[m]])) \in Nat
      BY <1>2 DEF Links
    <3> QED BY <3>1 DEF Depths
  <2> QED BY <2>1
<1>4. z \in Depths BY DEF Depths
<1>5. PICK f : Runs(5, Depths, z, G, f)
  <2> PICK N \in Nat : N = 5 OBVIOUS
  <2> HIDE DEF G, z
  <2>1. \E f : Runs(N, Depths, z, G, f) BY <1>3, <1>4, Recursion
  <2> QED BY <2>1
<1>6. \A d \in 1 .. 5 : d - 1 \in 0 .. 5 /\ d \in 0 .. 5 /\ d # 0 OBVIOUS
<1>7. f = H(f)
  <2>1. ASSUME NEW d \in 0 .. 5 PROVE f[d] = H(f)[d]
    <3>1. CASE d = 0
      <4>1. f[d] = z BY <1>5, <3>1 DEF Runs
      <4>2. H(f)[d] = z BY <3>1 DEF Links
      <4> QED BY <4>1, <4>2
    <3>2. CASE d # 0
      <4>1. d \in 1 .. 5 /\ d - 1 \in 0 .. 5 BY <3>2
      <4>2. f[d] = G[d][f[d - 1]] /\ f[d - 1] \in Depths BY <1>5, <4>1 DEF Runs
      <4> PICK b \in Depths : b = f[d - 1] BY <4>2
      <4>3. G[d][b] = [m \in Links |-> IF m = NoKey THEN 0
                                       ELSE Deeper(b[t.prev[m]], b[t.next[m]])]
        BY <4>1
      <4>4. H(f)[d] = [m \in Links |-> IF m = NoKey THEN 0
                                       ELSE Deeper(b[t.prev[m]], b[t.next[m]])]
        BY <3>2 DEF Links, Deeper
      <4> HIDE DEF H, G
      <4> QED BY <4>2, <4>3, <4>4
    <3> QED BY <3>1, <3>2
  <2>2. f = [d \in 0 .. 5 |-> f[d]] BY <1>5 DEF Runs
  <2>3. H(f) = [d \in 0 .. 5 |-> H(f)[d]] OBVIOUS
  <2> HIDE DEF H, G
  <2> QED BY <2>1, <2>2, <2>3
<1>8. depth = H(depth)
  <2> HIDE DEF H
  <2> QED BY <1>7
<1>9. \A n : Depth(t, n) = depth[5][n] BY Keys DEF Depth
<1> HIDE DEF depth
<1>10. depth[0] = z
  <2>1. 0 \in 0 .. 5 OBVIOUS
  <2>2. H(depth)[0] = z BY <2>1 DEF Links
  <2> HIDE DEF H, z
  <2> QED BY <1>8, <2>2
<1>11. \A d \in 1 .. 5 :
         depth[d] = [m \in Links |-> IF m = NoKey THEN 0
                       ELSE Deeper(depth[d - 1][t.prev[m]], depth[d - 1][t.next[m]])]
  BY <1>6, <1>8 DEF Links, Deeper
<1>12. \A d \in 1 .. 5 : depth[d - 1] \in Depths => depth[d] \in Depths
  <2> SUFFICES ASSUME NEW d \in 1 .. 5, depth[d - 1] \in Depths PROVE depth[d] \in Depths
    OBVIOUS
  <2> PICK b \in Depths : b = depth[d - 1] OBVIOUS
  <2>1. depth[d] = [m \in Links |-> IF m = NoKey THEN 0
                                    ELSE Deeper(b[t.prev[m]], b[t.next[m]])]
    BY <1>11
  <2>2. \A m \in Links : (IF m = NoKey THEN 0
                          ELSE Deeper(b[t.prev[m]], b[t.next[m]])) \in Nat
    BY <1>2 DEF Links
  <2> QED BY <2>1, <2>2 DEF Depths
<1>13. depth[0] \in Depths BY <1>4, <1>10
<1>14. depth[1] \in Depths BY <1>12, <1>13
<1>15. depth[2] \in Depths BY <1>12, <1>14
<1>16. depth[3] \in Depths BY <1>12, <1>15
<1>17. depth[4] \in Depths BY <1>12, <1>16
<1>18. depth[5] \in Depths BY <1>12, <1>17
<1>19. \A d \in 0 .. 5 : depth[d] \in Depths BY <1>13, <1>14, <1>15, <1>16, <1>17, <1>18
<1>20. depth = [d \in 0 .. 5 |-> depth[d]] BY <1>8
<1>21. depth \in [0 .. 5 -> Depths] BY <1>19, <1>20
<1>22. \A m \in Links : depth[0][m] = 0 BY <1>10
<1>23. \A d \in 1 .. 5 : depth[d][NoKey] = 0 BY <1>11 DEF Links
<1>24. \A d \in 1 .. 5 : \A m \in Key :
         depth[d][m] = Deeper(depth[d - 1][t.prev[m]], depth[d - 1][t.next[m]])
  <2> SUFFICES ASSUME NEW d \in 1 .. 5, NEW m \in Key
               PROVE  depth[d][m] = Deeper(depth[d - 1][t.prev[m]], depth[d - 1][t.next[m]])
    OBVIOUS
  <2>1. PICK b : b = depth[d - 1] OBVIOUS
  <2>2. depth[d] = [l \in Links |-> IF l = NoKey THEN 0
                                  ELSE Deeper(b[t.prev[l]], b[t.next[l]])]
    BY <1>11, <2>1
  <2>3. m \in Links /\ m # NoKey BY Keys DEF Links
  <2>4. depth[d][m] = Deeper(b[t.prev[m]], b[t.next[m]]) BY <2>2, <2>3
  <2> QED BY <2>1, <2>4
<1>25. Deepens(t, depth) BY <1>21, <1>22, <1>23, <1>24 DEF Deepens
<1> QED BY <1>9, <1>25

(* A node and what is written of the two lists below it.                   *)
Joined(t, m, b) ==
  <<m>> \o IF Depth(t, t.prev[m]) <= Depth(t, t.next[m])
             THEN b[t.prev[m]] \o b[t.next[m]] ELSE b[t.next[m]] \o b[t.prev[m]]

Writes(t, f) ==
  /\ f \in [0 .. 5 -> Below]
  /\ \A m \in Links : f[0][m] = << >>
  /\ \A d \in 1 .. 5 : f[d][NoKey] = << >>
  /\ \A d \in 1 .. 5 : \A m \in Key : f[d][m] = Joined(t, m, f[d - 1])

LEMMA WriteOrderIs ==
  ASSUME NEW t \in Tree
  PROVE  \E f : Writes(t, f) /\ WriteOrder(t) = f[5][t.root]
<1> DEFINE G == [d \in 1 .. 5 |-> [b \in Below |->
                  [m \in Links |-> IF m = NoKey THEN << >>
                                   ELSE Joined(t, m, b)]]]
           H(f) == [d \in 0 .. 5 |-> [m \in Key \cup {NoKey} |->
                      IF d = 0 \/ m = NoKey THEN << >>
                      ELSE LET p == f[d - 1][t.prev[m]]
                               q == f[d - 1][t.next[m]]
                           IN  <<m>> \o IF Depth(t, t.prev[m]) <= Depth(t, t.next[m])
                                          THEN p \o q ELSE q \o p]]
           below == CHOOSE f : f = H(f)
           z == [m \in Links |-> << >>]
<1>1. \A m \in Key : t.prev[m] \in Links /\ t.next[m] \in Links BY DEF Tree, Links
<1>2. \A b \in Below, m \in Key : Joined(t, m, b) \in Seq(Key)
  <2> SUFFICES ASSUME NEW b \in Below, NEW m \in Key
               PROVE  Joined(t, m, b) \in Seq(Key)
    OBVIOUS
  <2>1. b[t.prev[m]] \in Seq(Key) /\ b[t.next[m]] \in Seq(Key) BY <1>1 DEF Below
  <2>2. <<m>> \in Seq(Key) OBVIOUS
  <2>3. b[t.prev[m]] \o b[t.next[m]] \in Seq(Key) /\ b[t.next[m]] \o b[t.prev[m]] \in Seq(Key)
    BY <2>1, ConcatProperties
  <2> QED BY <2>2, <2>3, ConcatProperties DEF Joined
<1>3. G \in [1 .. 5 -> [Below -> Below]]
  <2>1. ASSUME NEW b \in Below
        PROVE [m \in Links |-> IF m = NoKey THEN << >>
                               ELSE Joined(t, m, b)] \in Below
    <3>1. \A m \in Links : (IF m = NoKey THEN << >>
                            ELSE Joined(t, m, b)) \in Seq(Key)
      BY <1>2 DEF Links
    <3> QED BY <3>1 DEF Below
  <2> QED BY <2>1
<1>4. z \in Below BY DEF Below
<1>5. PICK f : Runs(5, Below, z, G, f)
  <2> PICK N \in Nat : N = 5 OBVIOUS
  <2> HIDE DEF G, z
  <2>1. \E f : Runs(N, Below, z, G, f) BY <1>3, <1>4, Recursion
  <2> QED BY <2>1
<1>6. \A d \in 1 .. 5 : d - 1 \in 0 .. 5 /\ d \in 0 .. 5 /\ d # 0 OBVIOUS
<1>7. f = H(f)
  <2>1. ASSUME NEW d \in 0 .. 5 PROVE f[d] = H(f)[d]
    <3>1. CASE d = 0
      <4>1. f[d] = z BY <1>5, <3>1 DEF Runs
      <4>2. H(f)[d] = z BY <3>1 DEF Links
      <4> QED BY <4>1, <4>2
    <3>2. CASE d # 0
      <4>1. d \in 1 .. 5 /\ d - 1 \in 0 .. 5 BY <3>2
      <4>2. f[d] = G[d][f[d - 1]] /\ f[d - 1] \in Below BY <1>5, <4>1 DEF Runs
      <4> PICK b \in Below : b = f[d - 1] BY <4>2
      <4>3. G[d][b] = [m \in Links |-> IF m = NoKey THEN << >>
                                       ELSE Joined(t, m, b)]
        BY <4>1
      <4>4. H(f)[d] = [m \in Links |-> IF m = NoKey THEN << >>
                                       ELSE Joined(t, m, b)]
        BY <3>2 DEF Links, Joined
      <4> HIDE DEF H, G
      <4> QED BY <4>2, <4>3, <4>4
    <3> QED BY <3>1, <3>2
  <2>2. f = [d \in 0 .. 5 |-> f[d]] BY <1>5 DEF Runs
  <2>3. H(f) = [d \in 0 .. 5 |-> H(f)[d]] OBVIOUS
  <2> HIDE DEF H, G
  <2> QED BY <2>1, <2>2, <2>3
<1>8. below = H(below)
  <2> HIDE DEF H
  <2> QED BY <1>7
<1>9. WriteOrder(t) = below[5][t.root] BY Keys DEF WriteOrder
<1> HIDE DEF below
<1>10. below[0] = z
  <2>1. \A g : H(g)[0] = z BY DEF Links
  <2>2. below[0] = H(below)[0]
    <3> HIDE DEF H
    <3> QED BY <1>8
  <2> HIDE DEF H
  <2> QED BY <2>1, <2>2
<1>11. \A d \in 1 .. 5 :
         below[d] = [m \in Links |-> IF m = NoKey THEN << >>
                       ELSE Joined(t, m, below[d - 1])]
  BY <1>6, <1>8 DEF Links, Joined
<1>12. \A d \in 1 .. 5 : below[d - 1] \in Below => below[d] \in Below
  <2> SUFFICES ASSUME NEW d \in 1 .. 5, below[d - 1] \in Below PROVE below[d] \in Below
    OBVIOUS
  <2> PICK b \in Below : b = below[d - 1] OBVIOUS
  <2>1. below[d] = [m \in Links |-> IF m = NoKey THEN << >>
                                    ELSE Joined(t, m, b)]
    BY <1>11
  <2>2. \A m \in Links : (IF m = NoKey THEN << >>
                          ELSE Joined(t, m, b)) \in Seq(Key)
    BY <1>2 DEF Links
  <2> QED BY <2>1, <2>2 DEF Below
<1>13. below[0] \in Below BY <1>4, <1>10
<1>14. below[1] \in Below BY <1>12, <1>13
<1>15. below[2] \in Below BY <1>12, <1>14
<1>16. below[3] \in Below BY <1>12, <1>15
<1>17. below[4] \in Below BY <1>12, <1>16
<1>18. below[5] \in Below BY <1>12, <1>17
<1>19. \A d \in 0 .. 5 : below[d] \in Below BY <1>13, <1>14, <1>15, <1>16, <1>17, <1>18
<1>20. below = [d \in 0 .. 5 |-> below[d]] BY <1>8
<1>21. below \in [0 .. 5 -> Below] BY <1>19, <1>20
<1>22. \A m \in Links : below[0][m] = << >> BY <1>10
<1>23. \A d \in 1 .. 5 : below[d][NoKey] = << >> BY <1>11 DEF Links
<1>24. \A d \in 1 .. 5 : \A m \in Key :
         below[d][m] = Joined(t, m, below[d - 1])
  BY <1>11, Keys DEF Links
<1>25. Writes(t, below) BY <1>21, <1>22, <1>23, <1>24 DEF Writes
<1> QED BY <1>9, <1>25

-----------------------------------------------------------------------------
(* Short sequences of keys.                                                *)

Row1(s, a) == s \in Seq(Key) /\ Len(s) = 1 /\ s[1] = a
Row2(s, a, b) == s \in Seq(Key) /\ Len(s) = 2 /\ s[1] = a /\ s[2] = b
Row3(s, a, b, c) == s \in Seq(Key) /\ Len(s) = 3 /\ s[1] = a /\ s[2] = b /\ s[3] = c
Row4(s, a, b, c, d) ==
  s \in Seq(Key) /\ Len(s) = 4 /\ s[1] = a /\ s[2] = b /\ s[3] = c /\ s[4] = d
Row5(s, a, b, c, d, e) ==
  s \in Seq(Key) /\ Len(s) = 5 /\ s[1] = a /\ s[2] = b /\ s[3] = c /\ s[4] = d /\ s[5] = e

(* s is a and then w. *)
Fronted(a, w, s) ==
  /\ s \in Seq(Key) /\ Len(s) = Len(w) + 1 /\ s[1] = a
  /\ \A i \in 1 .. Len(w) : s[i + 1] = w[i]

LEMMA ConsIs ==
  ASSUME NEW a \in Key, NEW w \in Seq(Key)
  PROVE  Fronted(a, w, Cons(a, w))
<1> PICK v : v = <<a>> OBVIOUS
<1>1. v \in Seq(Key) /\ Len(v) = 1 /\ v[1] = a OBVIOUS
<1> PICK n \in Nat : n = Len(w) OBVIOUS
<1> PICK s : s = v \o w OBVIOUS
<1>0. Cons(a, w) = s BY DEF Cons
<1>2. /\ s \in Seq(Key) /\ Len(s) = Len(v) + Len(w)
      /\ \A i \in 1 .. Len(v) + Len(w) : s[i] = IF i <= Len(v) THEN v[i] ELSE w[i - Len(v)]
  BY <1>1, ConcatProperties
<1>3. \A i \in 1 .. 1 + n : s[i] = IF i <= 1 THEN v[i] ELSE w[i - 1] BY <1>1, <1>2
<1>4. Len(s) = n + 1 BY <1>1, <1>2
<1>5. s[1] = a BY <1>1, <1>3
<1>6. ASSUME NEW i \in 1 .. n PROVE s[i + 1] = w[i]
  <2> PICK j \in 1 .. 1 + n : j = i + 1 OBVIOUS
  <2>1. ~(j <= 1) /\ j - 1 = i OBVIOUS
  <2> QED BY <1>3, <2>1
<1>7. Fronted(a, w, s) BY <1>2, <1>4, <1>5, <1>6 DEF Fronted
<1> QED BY <1>0, <1>7

LEMMA Rows ==
  ASSUME NEW x \in Key, NEW w \in Seq(Key), NEW a, NEW b, NEW c, NEW d
  PROVE  /\ w = << >> => Row1(Cons(x, w), x)
         /\ Row1(w, a) => Row2(Cons(x, w), x, a)
         /\ Row2(w, a, b) => Row3(Cons(x, w), x, a, b)
         /\ Row3(w, a, b, c) => Row4(Cons(x, w), x, a, b, c)
         /\ Row4(w, a, b, c, d) => Row5(Cons(x, w), x, a, b, c, d)
<1> PICK s : s = Cons(x, w) OBVIOUS
<1>0. Fronted(x, w, s) BY ConsIs
<1>1. /\ s \in Seq(Key) /\ Len(s) = Len(w) + 1 /\ s[1] = x
      /\ \A i \in 1 .. Len(w) : s[i + 1] = w[i]
  BY <1>0 DEF Fronted
<1>2. Len(w) >= 1 => s[2] = w[1] BY <1>1
<1>3. Len(w) >= 2 => s[3] = w[2] BY <1>1
<1>4. Len(w) >= 3 => s[4] = w[3] BY <1>1
<1>5. Len(w) >= 4 => s[5] = w[4] BY <1>1
<1>6. w = << >> => Row1(s, x) BY <1>1 DEF Row1
<1>7. Row1(w, a) => Row2(s, x, a) BY <1>1, <1>2 DEF Row1, Row2
<1>8. Row2(w, a, b) => Row3(s, x, a, b) BY <1>1, <1>2, <1>3 DEF Row2, Row3
<1>9. Row3(w, a, b, c) => Row4(s, x, a, b, c) BY <1>1, <1>2, <1>3, <1>4 DEF Row3, Row4
<1>10. Row4(w, a, b, c, d) => Row5(s, x, a, b, c, d)
  BY <1>1, <1>2, <1>3, <1>4, <1>5 DEF Row4, Row5
<1> QED BY <1>6, <1>7, <1>8, <1>9, <1>10

LEMMA Empty ==
  ASSUME NEW w \in Seq(Key)
  PROVE  << >> \o w = w /\ w \o << >> = w
OBVIOUS

(* A node with no other, or with one list, below it.                       *)
LEMMA GatherOne ==
  ASSUME NEW t \in Tree, NEW f, Gathers(t, f), NEW d \in 1 .. 5, NEW m \in Key,
         NEW e, e = d - 1
  PROVE  /\ f[e][t.prev[m]] \in Seq(Key) /\ f[e][t.next[m]] \in Seq(Key)
         /\ t.prev[m] = NoKey => f[d][m] = Cons(m, f[e][t.next[m]])
         /\ t.next[m] = NoKey => f[d][m] = Cons(m, f[e][t.prev[m]])
<1>1. t.prev[m] \in Links /\ t.next[m] \in Links BY DEF Tree, Links
<1>2. d - 1 \in 0 .. 5 /\ (d - 1 = 0 \/ d - 1 \in 1 .. 5) OBVIOUS
<1>3. f[e] \in Below BY <1>2 DEF Gathers
<1> PICK p \in Seq(Key) : p = f[e][t.prev[m]] BY <1>1, <1>3 DEF Below
<1> PICK q \in Seq(Key) : q = f[e][t.next[m]] BY <1>1, <1>3 DEF Below
<1>4. f[e][NoKey] = << >> BY <1>2 DEF Gathers, Links
<1>5. f[d][m] = <<m>> \o p \o q BY DEF Gathers
<1>6. <<m>> \in Seq(Key) OBVIOUS
<1>7. ASSUME t.prev[m] = NoKey PROVE f[d][m] = <<m>> \o q
  <2>1. p = << >> BY <1>4, <1>7
  <2>2. <<m>> \o p = <<m>> BY <1>6, <2>1, Empty
  <2> QED BY <1>5, <2>2
<1>8. ASSUME t.next[m] = NoKey PROVE f[d][m] = <<m>> \o p
  <2>1. q = << >> BY <1>4, <1>8
  <2>2. <<m>> \o p \in Seq(Key) BY <1>6, ConcatProperties
  <2>3. <<m>> \o p \o q = <<m>> \o p BY <2>1, <2>2, Empty
  <2> QED BY <1>5, <2>3
<1> QED BY <1>7, <1>8 DEF Cons

LEMMA ShapeFields ==
  ASSUME NEW px, NEW pu, NEW ps, NEW ne, NEW ns, NEW t, t = Shape(px, pu, ps, ne, ns)
  PROVE  /\ t.prev["xp"] = px /\ t.next["xp"] = NoKey
         /\ t.prev["units"] = pu /\ t.next["units"] = NoKey
         /\ t.prev["endless"] = NoKey /\ t.next["endless"] = ne
         /\ t.prev["storage"] = ps /\ t.next["storage"] = ns
         /\ t.prev["items"] = NoKey /\ t.next["items"] = NoKey
BY Keys DEF Shape

LEMMA PreOrderNoKey ==
  ASSUME NEW t \in Tree
  PROVE  PreOrder(t, NoKey) = << >>
<1>1. PICK f : Gathers(t, f) /\ \A n \in Links : PreOrder(t, n) = f[5][n] BY PreOrderIs
<1>2. 5 \in 1 .. 5 /\ NoKey \in Links BY DEF Links
<1>3. f[5][NoKey] = << >> BY <1>1, <1>2 DEF Gathers
<1> QED BY <1>1, <1>2, <1>3

(* What is below the units of a list that was never saved.                 *)
LEMMA FreshBelow ==
  ASSUME NEW i \in Few
  PROVE  IF i = NoKey THEN Row2(PreOrder(Fresh(i), "endless"), "endless", "storage")
         ELSE Row3(PreOrder(Fresh(i), "endless"), "endless", "storage", "items")
<1> PICK t : t = Fresh(i) OBVIOUS
<1>1. t \in Tree BY ShapesAreTrees
<1>2. PICK f : Gathers(t, f) /\ \A n \in Links : PreOrder(t, n) = f[5][n] BY <1>1, PreOrderIs
<1>3. /\ t.prev["endless"] = NoKey /\ t.next["endless"] = "storage"
      /\ t.prev["storage"] = i /\ t.next["storage"] = NoKey
      /\ t.prev["items"] = NoKey /\ t.next["items"] = NoKey
  BY ShapeFields DEF Fresh
<1>4. /\ "endless" \in Key /\ "storage" \in Key /\ "items" \in Key /\ "endless" \in Links
      /\ NoKey \in Links /\ NoKey # "items"
  BY Keys DEF Links
<1>5. 5 \in 1 .. 5 /\ 4 \in 1 .. 5 /\ 3 \in 1 .. 5 /\ 2 \in 1 .. 5
      /\ 5 - 1 = 4 /\ 4 - 1 = 3 /\ 3 - 1 = 2
  OBVIOUS
<1>6. f[5]["endless"] = Cons("endless", f[4]["storage"]) /\ f[4]["storage"] \in Seq(Key)
  BY <1>1, <1>2, <1>3, <1>4, <1>5, GatherOne
<1>7. f[4]["storage"] = Cons("storage", f[3][i]) /\ f[3][i] \in Seq(Key)
  BY <1>1, <1>2, <1>3, <1>4, <1>5, GatherOne
<1>8. f[3]["items"] = Cons("items", f[2][NoKey]) /\ f[2][NoKey] \in Seq(Key)
  BY <1>1, <1>2, <1>3, <1>4, <1>5, GatherOne
<1>9. f[2][NoKey] = << >> /\ f[3][NoKey] = << >> BY <1>2, <1>5 DEF Gathers
<1>10. PreOrder(t, "endless") = f[5]["endless"] BY <1>2, <1>4
<1>11. CASE i = NoKey
  <2>1. Row1(f[4]["storage"], "storage") BY <1>4, <1>7, <1>9, <1>11, Rows
  <2>2. Row2(f[5]["endless"], "endless", "storage") BY <1>4, <1>6, <2>1, Rows
  <2> QED BY <1>10, <1>11, <2>2
<1>12. CASE i = "items"
  <2>1. Row1(f[3]["items"], "items") BY <1>4, <1>8, <1>9, Rows
  <2>2. Row2(f[4]["storage"], "storage", "items") BY <1>4, <1>7, <1>12, <2>1, Rows
  <2>3. Row3(f[5]["endless"], "endless", "storage", "items") BY <1>4, <1>6, <2>2, Rows
  <2> QED BY <1>4, <1>10, <1>12, <2>3
<1> QED BY <1>11, <1>12 DEF Few

(* What is left when some of the nodes are taken out.                      *)
Freed(way, gone) == [m \in Key |-> IF m \in gone THEN NoKey ELSE way[m]]
Cut(u, gone) == [u EXCEPT !.prev = Freed(@, gone), !.next = Freed(@, gone)]

LEMMA CutOf ==
  ASSUME NEW p, NEW n, NEW gone, NEW u, u = [root |-> "xp", prev |-> p, next |-> n]
  PROVE  Cut(u, gone) = [root |-> "xp", prev |-> Freed(p, gone), next |-> Freed(n, gone)]
<1> PICK a : a = Freed(p, gone) OBVIOUS
<1> PICK b : b = Freed(n, gone) OBVIOUS
<1>1. u.prev = p /\ u.next = n OBVIOUS
<1>2. Cut(u, gone) = [u EXCEPT !.prev = a, !.next = b] BY <1>1 DEF Cut
<1> QED BY <1>2

LEMMA CutAll ==
  ASSUME NEW a, NEW b, NEW c, NEW d, NEW e, NEW gone, "xp" \notin gone,
         "units" \in gone, "endless" \in gone, "storage" \in gone
  PROVE  Cut(Shape(a, b, c, d, e), gone) = Shape(a, NoKey, NoKey, NoKey, NoKey)
<1> PICK u : u = Shape(a, b, c, d, e) OBVIOUS
<1> PICK v : v = Shape(a, NoKey, NoKey, NoKey, NoKey) OBVIOUS
<1> DEFINE P == Freed(u.prev, gone)
           N == Freed(u.next, gone)
<1>1. u.root = "xp" /\ v.root = "xp" BY DEF Shape
<1>2. Cut(u, gone) = [root |-> "xp", prev |-> P, next |-> N]
  <2>1. u = [root |-> "xp", prev |-> u.prev, next |-> u.next] BY <1>1 DEF Shape
  <2> PICK p : p = u.prev OBVIOUS
  <2> PICK n : n = u.next OBVIOUS
  <2>2. u = [root |-> "xp", prev |-> p, next |-> n] BY <2>1
  <2> QED BY <2>2, CutOf
<1>3. v = [root |-> "xp", prev |-> v.prev, next |-> v.next] BY DEF Shape
<1>4. v.prev = [m \in Key |-> v.prev[m]] /\ v.next = [m \in Key |-> v.next[m]] BY DEF Shape
<1>5. \A m \in Key : P[m] = v.prev[m] /\ N[m] = v.next[m]
  BY Keys, ShapeFields DEF Freed
<1>6. P = v.prev /\ N = v.next BY <1>4, <1>5 DEF Freed
<1> QED BY <1>2, <1>3, <1>6

LEMMA CutUnits ==
  ASSUME NEW a, NEW b, NEW c, NEW d, NEW e
  PROVE  Cut(Shape(a, b, c, d, e), {"units"}) = Shape(a, NoKey, c, d, e)
<1> PICK u : u = Shape(a, b, c, d, e) OBVIOUS
<1> PICK v : v = Shape(a, NoKey, c, d, e) OBVIOUS
<1> DEFINE P == Freed(u.prev, {"units"})
           N == Freed(u.next, {"units"})
<1>1. u.root = "xp" /\ v.root = "xp" BY DEF Shape
<1>2. Cut(u, {"units"}) = [root |-> "xp", prev |-> P, next |-> N]
  <2>1. u = [root |-> "xp", prev |-> u.prev, next |-> u.next] BY <1>1 DEF Shape
  <2> PICK p : p = u.prev OBVIOUS
  <2> PICK n : n = u.next OBVIOUS
  <2>2. u = [root |-> "xp", prev |-> p, next |-> n] BY <2>1
  <2> QED BY <2>2, CutOf
<1>3. v = [root |-> "xp", prev |-> v.prev, next |-> v.next] BY DEF Shape
<1>4. v.prev = [m \in Key |-> v.prev[m]] /\ v.next = [m \in Key |-> v.next[m]] BY DEF Shape
<1>5. \A m \in Key : P[m] = v.prev[m] /\ N[m] = v.next[m]
  BY Keys, ShapeFields DEF Freed
<1>6. P = v.prev /\ N = v.next BY <1>4, <1>5 DEF Freed
<1> QED BY <1>2, <1>3, <1>6

Again(t, k) == PreOrder(t, t.prev[k]) \o PreOrder(t, t.next[k])

LEMMA DetachIs ==
  ASSUME NEW t, NEW k, NEW n, Before(Path(t, k)) = n, NEW s, s = Again(t, k),
         NEW u, u = Link(t, n, k, NoKey)
  PROVE  Detach(t, k) = AddAll(Cut(u, ToSet(s) \cup {k}), s)
BY DEF Detach, Before, Again, Cut, Freed

LEMMA SaveFresh ==
  ASSUME NEW i \in Few
  PROVE  SaveTree(Fresh(i)) = Kept(i)
<1> PICK t : t = Fresh(i) OBVIOUS
<1>1. t \in Tree BY ShapesAreTrees
<1>2. Last(Path(t, "units")) = "units" /\ Before(Path(t, "units")) = "xp"
  BY FreshUnits DEF Fresh
<1>3. t.prev["units"] = "endless" /\ t.next["units"] = NoKey BY ShapeFields DEF Fresh
<1> PICK s : s = PreOrder(t, "endless") OBVIOUS
<1>4. IF i = NoKey THEN Row2(s, "endless", "storage")
      ELSE Row3(s, "endless", "storage", "items")
  BY FreshBelow
<1>5. s \in Seq(Key) BY <1>4 DEF Row2, Row3
<1>6. Again(t, "units") = s BY <1>1, <1>3, <1>5, PreOrderNoKey, Empty DEF Again
<1> PICK u : u = Link(t, "xp", "units", NoKey) OBVIOUS
<1>7. u = Shape(NoKey, "endless", i, "storage", NoKey)
  <2>1. u = SetPrev(t, "xp", NoKey) BY Higher DEF Link, SetPrev
  <2> QED BY <2>1, ShapeLink DEF Fresh
<1> PICK gone : gone = ToSet(s) \cup {"units"} OBVIOUS
<1>8. "xp" \notin gone /\ "units" \in gone /\ "endless" \in gone /\ "storage" \in gone
  <2>1. ToSet(s) = {s[j] : j \in DOMAIN s} BY DEF ToSet
  <2>2. DOMAIN s = 1 .. Len(s) BY <1>5
  <2>3. CASE i = NoKey
    <3>1. Len(s) = 2 /\ s[1] = "endless" /\ s[2] = "storage" BY <1>4, <2>3 DEF Row2
    <3>2. ToSet(s) = {"endless", "storage"} BY <2>1, <2>2, <3>1
    <3> QED BY <3>2
  <2>4. CASE i # NoKey
    <3>1. Len(s) = 3 /\ s[1] = "endless" /\ s[2] = "storage" /\ s[3] = "items"
      BY <1>4, <2>4 DEF Row3
    <3>2. ToSet(s) = {"endless", "storage", "items"} BY <2>1, <2>2, <3>1
    <3> QED BY <3>2
  <2> QED BY <2>3, <2>4
<1>9. Detach(t, "units") = AddAll(Cut(u, gone), s) BY <1>2, <1>6, DetachIs
<1> PICK c : c = Shape(NoKey, NoKey, NoKey, NoKey, NoKey) OBVIOUS
<1>10. Cut(u, gone) = c BY <1>7, <1>8, CutAll
<1>11. c \in Tree BY ShapeIsTree DEF Links
<1>12. Add(Add(c, "endless"), "storage") = Shape("endless", NoKey, NoKey, "storage", NoKey)
  BY EndlessFirst, StorageSecond
<1>13. AddAll(c, s) = Shape("endless", NoKey, i, "storage", NoKey)
  <2>1. CASE i = NoKey
    <3>1. Len(s) = 2 /\ s[1] = "endless" /\ s[2] = "storage" BY <1>4, <2>1 DEF Row2
    <3>2. AddAll(c, s) = Add(Add(c, s[1]), s[2]) BY <1>5, <1>11, <3>1, AddAll2
    <3> QED BY <1>12, <2>1, <3>1, <3>2
  <2>2. CASE i = "items"
    <3>1. Len(s) = 3 /\ s[1] = "endless" /\ s[2] = "storage" /\ s[3] = "items"
      BY <1>4, <2>2, Keys DEF Row3
    <3>2. AddAll(c, s) = Add(Add(Add(c, s[1]), s[2]), s[3]) BY <1>5, <1>11, <3>1, AddAll3
    <3>3. NoKey \in {NoKey, "units"} OBVIOUS
    <3>4. Add(Shape("endless", NoKey, NoKey, "storage", NoKey), "items")
            = Shape("endless", NoKey, "items", "storage", NoKey)
      BY <3>3, ItemsThird
    <3> QED BY <1>12, <2>2, <3>1, <3>2, <3>4
  <2> QED BY <2>1, <2>2 DEF Few
<1>14. Found(t, "units") BY <1>2 DEF Found
<1>15. SaveTree(t) = Add(AddAll(c, s), "units") BY <1>9, <1>10, <1>14 DEF SaveTree
<1> QED BY <1>13, <1>15, UnitsLast DEF Kept

LEMMA SaveKept ==
  ASSUME NEW i \in Few
  PROVE  SaveTree(Kept(i)) = Kept(i)
<1> PICK t : t = Kept(i) OBVIOUS
<1>1. t \in Tree BY ShapesAreTrees
<1>2. Last(Path(t, "units")) = "units" /\ Before(Path(t, "units")) = "storage"
  BY KeptUnits DEF Kept
<1>3. t.prev["units"] = NoKey /\ t.next["units"] = NoKey BY ShapeFields DEF Kept
<1> PICK s : s = << >> OBVIOUS
<1>4. s \in Seq(Key) OBVIOUS
<1>5. Again(t, "units") = s BY <1>1, <1>3, <1>4, PreOrderNoKey, Empty DEF Again
<1> PICK u : u = Link(t, "storage", "units", NoKey) OBVIOUS
<1>6. u = Shape("endless", NoKey, i, "storage", NoKey)
  <2>1. u = SetNext(t, "storage", NoKey) BY Higher DEF Link, SetNext
  <2> QED BY <2>1, ShapeLink DEF Kept
<1>7. ToSet(s) \cup {"units"} = {"units"} BY DEF ToSet
<1>8. Detach(t, "units") = AddAll(Cut(u, {"units"}), s) BY <1>2, <1>5, <1>7, DetachIs
<1>9. Cut(u, {"units"}) = u BY <1>6, CutUnits
<1>10. u \in Tree BY <1>6, Keys, ShapeIsTree DEF Few, Links
<1>11. AddAll(u, s) = u BY <1>10, AddAll0
<1>12. Found(t, "units") BY <1>2 DEF Found
<1>13. SaveTree(t) = Add(u, "units") BY <1>8, <1>9, <1>11, <1>12 DEF SaveTree
<1> QED BY <1>6, <1>13, UnitsLast DEF Kept

-----------------------------------------------------------------------------
(* The order in which a list is written that was saved, and what is read   *)
(* again.                                                                  *)

LEMMA DepthNat ==
  ASSUME NEW t \in Tree, NEW n \in Links
  PROVE  Depth(t, n) \in Nat
<1>1. PICK f : Deepens(t, f) /\ \A m \in Links : Depth(t, m) = f[5][m] BY DepthIs
<1>2. f[5] \in Depths BY <1>1 DEF Deepens
<1> QED BY <1>1, <1>2 DEF Depths

LEMMA DepthsOf ==
  ASSUME NEW t \in Tree, NEW n \in Key, t.prev[n] = NoKey, t.next[n] = NoKey
  PROVE  Depth(t, NoKey) = 0 /\ Depth(t, n) = 1
<1>1. PICK f : Deepens(t, f) /\ \A m \in Links : Depth(t, m) = f[5][m] BY DepthIs
<1>2. 5 \in 1 .. 5 /\ 4 \in 1 .. 5 /\ 5 - 1 = 4 /\ NoKey \in Links /\ n \in Links
  BY DEF Links
<1>3. f[5][NoKey] = 0 /\ f[4][NoKey] = 0 BY <1>1, <1>2 DEF Deepens
<1>4. f[5][n] = Deeper(f[4][t.prev[n]], f[4][t.next[n]]) BY <1>1, <1>2 DEF Deepens
<1>5. Deeper(0, 0) = 1 BY DEF Deeper
<1>6. f[5][n] = 1 BY <1>3, <1>4, <1>5
<1> QED BY <1>1, <1>2, <1>3, <1>6

WritesAt(t, f, d, m) == t \in Tree /\ Writes(t, f) /\ d \in 1 .. 5 /\ m \in Key

LEMMA WriteOne ==
  ASSUME NEW t, NEW f, NEW d, NEW m, WritesAt(t, f, d, m), NEW e, e = d - 1
  PROVE  /\ f[e][t.prev[m]] \in Seq(Key) /\ f[e][t.next[m]] \in Seq(Key)
         /\ t.prev[m] = NoKey => f[d][m] = Cons(m, f[e][t.next[m]])
         /\ t.next[m] = NoKey => f[d][m] = Cons(m, f[e][t.prev[m]])
         /\ Depth(t, t.prev[m]) <= Depth(t, t.next[m]) =>
              f[d][m] = Cons(m, f[e][t.prev[m]] \o f[e][t.next[m]])
<1> t \in Tree /\ Writes(t, f) /\ d \in 1 .. 5 /\ m \in Key BY DEF WritesAt
<1>1. t.prev[m] \in Links /\ t.next[m] \in Links BY DEF Tree, Links
<1>2. e \in 0 .. 5 /\ (e = 0 \/ e \in 1 .. 5) OBVIOUS
<1>3. f[e] \in Below BY <1>2 DEF Writes
<1> PICK p \in Seq(Key) : p = f[e][t.prev[m]] BY <1>1, <1>3 DEF Below
<1> PICK q \in Seq(Key) : q = f[e][t.next[m]] BY <1>1, <1>3 DEF Below
<1>4. f[e][NoKey] = << >> BY <1>2 DEF Writes, Links
<1>5. f[d][m] = Joined(t, m, f[e]) BY DEF Writes
<1>6. Joined(t, m, f[e]) = Cons(m, IF Depth(t, t.prev[m]) <= Depth(t, t.next[m])
                                     THEN p \o q ELSE q \o p)
  BY DEF Joined, Cons
<1>7. ASSUME t.prev[m] = NoKey PROVE f[d][m] = Cons(m, q)
  <2>1. p = << >> BY <1>4, <1>7
  <2>2. p \o q = q /\ q \o p = q BY <2>1, Empty
  <2> QED BY <1>5, <1>6, <2>2
<1>8. ASSUME t.next[m] = NoKey PROVE f[d][m] = Cons(m, p)
  <2>1. q = << >> BY <1>4, <1>8
  <2>2. p \o q = p /\ q \o p = p BY <2>1, Empty
  <2> QED BY <1>5, <1>6, <2>2
<1>9. ASSUME Depth(t, t.prev[m]) <= Depth(t, t.next[m]) PROVE f[d][m] = Cons(m, p \o q)
  BY <1>5, <1>6, <1>9
<1> QED BY <1>7, <1>8, <1>9

(* The keys of a file that was written whole.                              *)
Order(i, w) ==
  IF i = NoKey THEN Row4(w, "xp", "endless", "storage", "units")
  ELSE Row5(w, "xp", "endless", "storage", "items", "units")

LEMMA KeptOrder ==
  ASSUME NEW i \in Few
  PROVE  Order(i, WriteOrder(Kept(i)))
<1> PICK t : t = Kept(i) OBVIOUS
<1>1. t \in Tree BY ShapesAreTrees
<1>2. PICK f : Writes(t, f) /\ WriteOrder(t) = f[5][t.root] BY <1>1, WriteOrderIs
<1>3. /\ t.prev["xp"] = "endless" /\ t.next["xp"] = NoKey
      /\ t.prev["endless"] = NoKey /\ t.next["endless"] = "storage"
      /\ t.prev["storage"] = i /\ t.next["storage"] = "units"
      /\ t.prev["items"] = NoKey /\ t.next["items"] = NoKey
      /\ t.prev["units"] = NoKey /\ t.next["units"] = NoKey /\ t.root = "xp"
  BY ShapeFields, ShapeWays DEF Kept
<1>4. /\ "xp" \in Key /\ "endless" \in Key /\ "storage" \in Key /\ "items" \in Key
      /\ "units" \in Key /\ NoKey # "items"
  BY Keys
<1>5. /\ 5 \in 1 .. 5 /\ 4 \in 1 .. 5 /\ 3 \in 1 .. 5 /\ 2 \in 1 .. 5 /\ 1 \in 1 .. 5
      /\ 4 = 5 - 1 /\ 3 = 4 - 1 /\ 2 = 3 - 1 /\ 1 = 2 - 1
  OBVIOUS
<1>6. f[5]["xp"] = Cons("xp", f[4]["endless"]) /\ f[4]["endless"] \in Seq(Key)
  <2>1. WritesAt(t, f, 5, "xp") BY <1>1, <1>2, <1>4, <1>5 DEF WritesAt
  <2> QED BY <1>3, <1>5, <2>1, WriteOne
<1>7. f[4]["endless"] = Cons("endless", f[3]["storage"]) /\ f[3]["storage"] \in Seq(Key)
  <2>1. WritesAt(t, f, 4, "endless") BY <1>1, <1>2, <1>4, <1>5 DEF WritesAt
  <2> QED BY <1>3, <1>5, <2>1, WriteOne
<1>8. Depth(t, i) <= Depth(t, "units")
  <2>1. Depth(t, NoKey) = 0 /\ Depth(t, "items") = 1 BY <1>1, <1>3, <1>4, DepthsOf
  <2>2. Depth(t, "units") = 1 BY <1>1, <1>3, <1>4, DepthsOf
  <2>3. CASE i = NoKey BY <2>1, <2>2, <2>3
  <2>4. CASE i = "items" BY <2>1, <2>2, <2>4
  <2> QED BY <2>3, <2>4 DEF Few
<1>9. /\ f[3]["storage"] = Cons("storage", f[2][i] \o f[2]["units"])
      /\ f[2][i] \in Seq(Key) /\ f[2]["units"] \in Seq(Key)
  <2>1. WritesAt(t, f, 3, "storage") BY <1>1, <1>2, <1>4, <1>5 DEF WritesAt
  <2> QED BY <1>3, <1>5, <1>8, <2>1, WriteOne
<1>10. f[2]["units"] = Cons("units", f[1][NoKey]) /\ f[2]["items"] = Cons("items", f[1][NoKey])
  <2>1. WritesAt(t, f, 2, "units") BY <1>1, <1>2, <1>4, <1>5 DEF WritesAt
  <2>2. WritesAt(t, f, 2, "items") BY <1>1, <1>2, <1>4, <1>5 DEF WritesAt
  <2>3. f[2]["units"] = Cons("units", f[1][NoKey]) BY <1>3, <1>5, <2>1, WriteOne
  <2>4. f[2]["items"] = Cons("items", f[1][NoKey]) BY <1>3, <1>5, <2>2, WriteOne
  <2> QED BY <2>3, <2>4
<1>11. f[1][NoKey] = << >> /\ f[2][NoKey] = << >> BY <1>2, <1>5 DEF Writes
<1>12. << >> \in Seq(Key) OBVIOUS
<1>13. Row1(f[2]["units"], "units") BY <1>4, <1>10, <1>11, <1>12, Rows
<1>14. CASE i = NoKey
  <2>1. f[2][i] \o f[2]["units"] = f[2]["units"] BY <1>9, <1>11, <1>14, Empty
  <2>2. Row2(f[3]["storage"], "storage", "units") BY <1>4, <1>9, <1>13, <2>1, Rows
  <2>3. Row3(f[4]["endless"], "endless", "storage", "units") BY <1>4, <1>7, <2>2, Rows
  <2>4. Row4(f[5]["xp"], "xp", "endless", "storage", "units") BY <1>4, <1>6, <2>3, Rows
  <2> QED BY <1>2, <1>3, <1>14, <2>4 DEF Order
<1>15. CASE i = "items"
  <2>1. f[2]["items"] = <<"items">> BY <1>10, <1>11 DEF Cons
  <2>2. f[2][i] \o f[2]["units"] = Cons("items", f[2]["units"]) BY <1>15, <2>1 DEF Cons
  <2>3. Row2(Cons("items", f[2]["units"]), "items", "units") BY <1>4, <1>9, <1>13, Rows
  <2> PICK w : w = Cons("items", f[2]["units"]) OBVIOUS
  <2>4. w \in Seq(Key) /\ f[3]["storage"] = Cons("storage", w) BY <1>9, <2>2, <2>3 DEF Row2
  <2>5. Row3(f[3]["storage"], "storage", "items", "units") BY <1>4, <2>3, <2>4, Rows
  <2>6. Row4(f[4]["endless"], "endless", "storage", "items", "units")
    BY <1>4, <1>7, <2>5, Rows
  <2>7. Row5(f[5]["xp"], "xp", "endless", "storage", "items", "units")
    BY <1>4, <1>6, <2>6, Rows
  <2> QED BY <1>2, <1>3, <1>4, <1>15, <2>7 DEF Order
<1> QED BY <1>14, <1>15 DEF Few

LEMMA TailRows ==
  ASSUME NEW w, NEW a, NEW b, NEW c, NEW d, NEW e
  PROVE  /\ Row4(w, a, b, c, d) => Row3(Tail(w), b, c, d)
         /\ Row5(w, a, b, c, d, e) => Row4(Tail(w), b, c, d, e)
<1> PICK s : s = Tail(w) OBVIOUS
<1>1. ASSUME w \in Seq(Key), NEW n \in Nat, Len(w) = n + 1
      PROVE  s \in Seq(Key) /\ Len(s) = n /\ \A j \in 1 .. n : s[j] = w[j + 1]
  <2>1. w # << >> BY <1>1
  <2>2. /\ s \in Seq(Key) /\ Len(s) = Len(w) - 1
        /\ \A j \in 1 .. Len(s) : s[j] = w[j + 1]
    BY <1>1, <2>1, HeadTailProperties
  <2>3. Len(s) = n BY <1>1, <2>2
  <2> QED BY <2>2, <2>3
<1>2. 1 + 1 = 2 /\ 2 + 1 = 3 /\ 3 + 1 = 4 /\ 4 + 1 = 5 OBVIOUS
<1>3. ASSUME Row4(w, a, b, c, d) PROVE Row3(s, b, c, d)
  <2>1. w \in Seq(Key) /\ Len(w) = 4 /\ w[2] = b /\ w[3] = c /\ w[4] = d
    BY <1>3 DEF Row4
  <2>2. PICK n \in Nat : n = 3 OBVIOUS
  <2>3. Len(w) = n + 1 BY <2>1, <2>2
  <2>4. s \in Seq(Key) /\ Len(s) = n /\ \A j \in 1 .. n : s[j] = w[j + 1] BY <1>1, <2>1, <2>3
  <2>5. 1 \in 1 .. n /\ 2 \in 1 .. n /\ 3 \in 1 .. n BY <2>2
  <2>6. s[1] = w[2] /\ s[2] = w[3] /\ s[3] = w[4] BY <1>2, <2>4, <2>5
  <2> QED BY <2>1, <2>2, <2>4, <2>6 DEF Row3
<1>4. ASSUME Row5(w, a, b, c, d, e) PROVE Row4(s, b, c, d, e)
  <2>1. w \in Seq(Key) /\ Len(w) = 5 /\ w[2] = b /\ w[3] = c /\ w[4] = d /\ w[5] = e
    BY <1>4 DEF Row5
  <2>2. PICK n \in Nat : n = 4 OBVIOUS
  <2>3. Len(w) = n + 1 BY <2>1, <2>2
  <2>4. s \in Seq(Key) /\ Len(s) = n /\ \A j \in 1 .. n : s[j] = w[j + 1] BY <1>1, <2>1, <2>3
  <2>5. 1 \in 1 .. n /\ 2 \in 1 .. n /\ 3 \in 1 .. n /\ 4 \in 1 .. n BY <2>2
  <2>6. s[1] = w[2] /\ s[2] = w[3] /\ s[3] = w[4] /\ s[4] = w[5] BY <1>2, <2>4, <2>5
  <2> QED BY <2>1, <2>2, <2>4, <2>6 DEF Row4
<1> QED BY <1>3, <1>4

LEMMA ReadKept ==
  ASSUME NEW i \in Few, NEW w, Order(i, w)
  PROVE  Read(w) = Kept(i)
<1> PICK s : s = Tail(w) OBVIOUS
<1> PICK c : c = Shape(NoKey, NoKey, NoKey, NoKey, NoKey) OBVIOUS
<1>1. c \in Tree BY ShapeIsTree DEF Links
<1>2. Single("xp") = c BY DEF Single, Shape
<1>3. Add(Add(c, "endless"), "storage") = Shape("endless", NoKey, NoKey, "storage", NoKey)
  BY EndlessFirst, StorageSecond
<1>4. CASE i = NoKey
  <2>1. /\ w \in Seq(Key) /\ Len(w) = 4 /\ w[1] = "xp" /\ w[2] = "endless"
        /\ w[3] = "storage" /\ w[4] = "units"
    BY <1>4 DEF Order, Row4
  <2>2. Row3(s, "endless", "storage", "units") BY <1>4, TailRows DEF Order
  <2>3. /\ s \in Seq(Key) /\ Len(s) = 3
        /\ s[1] = "endless" /\ s[2] = "storage" /\ s[3] = "units"
    BY <2>2 DEF Row3
  <2>4. AddAll(c, s) = Add(Add(Add(c, s[1]), s[2]), s[3]) BY <1>1, <2>3, AddAll3
  <2>5. NoKey \in Few BY DEF Few
  <2>6. AddAll(c, s) = Kept(NoKey) BY <1>3, <2>3, <2>4, <2>5, UnitsLast DEF Kept
  <2> QED BY <1>2, <1>4, <2>1, <2>6 DEF Read
<1>5. CASE i = "items"
  <2>1. /\ w \in Seq(Key) /\ Len(w) = 5 /\ w[1] = "xp" /\ w[2] = "endless"
        /\ w[3] = "storage" /\ w[4] = "items" /\ w[5] = "units"
    BY <1>5, Keys DEF Order, Row5
  <2>2. Row4(s, "endless", "storage", "items", "units") BY <1>5, TailRows, Keys DEF Order
  <2>3. /\ s \in Seq(Key) /\ Len(s) = 4
        /\ s[1] = "endless" /\ s[2] = "storage" /\ s[3] = "items" /\ s[4] = "units"
    BY <2>2 DEF Row4
  <2>4. AddAll(c, s) = Add(Add(Add(Add(c, s[1]), s[2]), s[3]), s[4]) BY <1>1, <2>3, AddAll4
  <2>5. "items" \in Few /\ NoKey \in {NoKey, "units"} BY DEF Few
  <2>6. Add(Shape("endless", NoKey, NoKey, "storage", NoKey), "items")
          = Shape("endless", NoKey, "items", "storage", NoKey)
    BY <2>5, ItemsThird
  <2>7. AddAll(c, s) = Kept("items") BY <1>3, <2>3, <2>4, <2>5, <2>6, UnitsLast DEF Kept
  <2> QED BY <1>2, <1>5, <2>1, <2>7 DEF Read
<1> QED BY <1>4, <1>5 DEF Few

-----------------------------------------------------------------------------
(* The inductive invariant.  The list in memory has the shape of a new     *)
(* player's, or the one that it has after it was saved, with items or      *)
(* without; the file has the first keys of the order in which the latter   *)
(* is written; and what is in the file is a player nothing was lost of.    *)

TreeFits(p) ==
  \E i \in Few : p.tree \in {Fresh(i), Kept(i)} /\ (p.items > 0 => i = "items")

PlayerOK == Good(pd) /\ TreeFits(pd)

FilePlayer == Live(file.content, NewTree)
FileOK ==
  /\ file = [content |-> file.content, keys |-> file.keys, whole |-> file.whole]
  /\ Good(FilePlayer) /\ Content(FilePlayer) = file.content
  /\ file.whole \in BOOLEAN
  /\ \E i \in Few : \E n \in 0 .. Len(WriteOrder(Kept(i))) :
       /\ file.keys = SubSeq(WriteOrder(Kept(i)), 1, n)
       /\ file.content.items > 0 => i = "items"

MenuOK ==
  /\ menu \in {"off", "main", "units", "storage", "saving"}
  /\ cur \in Nat \ {0} /\ CursorAtUnit

SavingOK ==
  menu = "saving" => \E i \in Few : pd.tree = Kept(i) /\ (file.content.items > 0 => i = "items")

IInv == PlayerOK /\ FileOK /\ MenuOK /\ SavingOK

(* The file says nothing of what is in memory, but while it is written.    *)
LEMMA FileStays ==
  ASSUME FileOK, file' = file
  PROVE  FileOK'
BY DEF FileOK, FilePlayer

LEMMA NotSaving ==
  ASSUME PlayerOK', FileOK', MenuOK', menu' # "saving"
  PROVE  IInv'
BY DEF IInv, SavingOK

LEMMA NewPlayerOK ==
  /\ Good(NewPlayer) /\ TreeFits(NewPlayer) /\ Content(NewPlayer) = NewContent
<1>1. NewTree \in Tree /\ NewTree = Fresh(NoKey) BY NewTreeIs, ShapesAreTrees DEF Few
<1>2. Good(NewPlayer) /\ Content(NewPlayer) = NewContent BY <1>1, NewGood DEF NewPlayer
<1>3. NewPlayer.tree = Fresh(NoKey) /\ NewPlayer.items = 0
  BY <1>1 DEF NewPlayer, Live, NewContent
<1>4. TreeFits(NewPlayer) BY <1>3 DEF TreeFits, Few
<1> QED BY <1>2, <1>4

LEMMA InitHolds == Init => IInv
<1> SUFFICES ASSUME Init PROVE IInv OBVIOUS
<1>1. PlayerOK BY NewPlayerOK DEF Init, PlayerOK
<1>2. FileOK
  <2>1. /\ file = [content |-> NewContent, keys |-> << >>, whole |-> TRUE]
        /\ file.content = NewContent /\ file.keys = << >> /\ file.whole = TRUE
    BY DEF Init
  <2>2. FilePlayer = NewPlayer BY <2>1 DEF FilePlayer, NewPlayer
  <2>3. NewContent.items = 0 BY DEF NewContent
  <2>4. NoKey \in Few BY DEF Few
  <2> PICK w : w = WriteOrder(Kept(NoKey)) OBVIOUS
  <2>5. w \in Seq(Key) BY <2>4, KeptOrder DEF Order, Row4
  <2>6. SubSeq(w, 1, 0) = << >> /\ 0 \in 0 .. Len(w) BY <2>5
  <2>7. \E i \in Few : \E n \in 0 .. Len(WriteOrder(Kept(i))) :
          /\ file.keys = SubSeq(WriteOrder(Kept(i)), 1, n)
          /\ file.content.items > 0 => i = "items"
    BY <2>1, <2>3, <2>4, <2>6
  <2> QED BY <2>1, <2>2, <2>7, NewPlayerOK DEF FileOK
<1>3. MenuOK /\ SavingOK BY DEF Init, MenuOK, CursorAtUnit, SavingOK
<1> QED BY <1>1, <1>2, <1>3 DEF IInv

(* The process ends, by itself or not.                                     *)
LEMMA OffStep ==
  ASSUME IInv, Off, FileOK', cur' = cur
  PROVE  IInv'
<1>1. PlayerOK' BY NewPlayerOK DEF Off, PlayerOK, NewPlayer, NewContent, NewTree
<1>2. MenuOK' BY DEF Off, IInv, MenuOK, CursorAtUnit
<1>3. menu' # "saving" BY DEF Off
<1> QED BY <1>1, <1>2, <1>3, NotSaving

LEMMA CrashStep == ASSUME IInv, Crash PROVE IInv'
<1>1. FileOK' BY FileStays DEF Crash, IInv
<1>2. Off /\ cur' = cur BY DEF Crash
<1> QED BY <1>1, <1>2, OffStep

LEMMA WriteStep == ASSUME IInv, Write PROVE IInv'
<1> PICK i \in Few : pd.tree = Kept(i) /\ (file.content.items > 0 => i = "items")
  BY DEF IInv, SavingOK, Write
<1> PICK w : w = WriteOrder(Kept(i)) OBVIOUS
<1>1. PICK n \in 0 .. Len(w), b \in BOOLEAN :
        file' = [file EXCEPT !.keys = SubSeq(w, 1, n), !.whole = b]
  BY DEF Write
<1>2. file = [content |-> file.content, keys |-> file.keys, whole |-> file.whole]
  BY DEF IInv, FileOK
<1>3. /\ file' = [content |-> file.content, keys |-> SubSeq(w, 1, n), whole |-> b]
  BY <1>1, <1>2
<1>4. file'.content = file.content /\ file'.keys = SubSeq(w, 1, n) /\ file'.whole = b
  BY <1>3
<1>5. FilePlayer' = FilePlayer BY <1>4 DEF FilePlayer
<1>6. Good(FilePlayer') /\ Content(FilePlayer') = file'.content
  BY <1>4, <1>5 DEF IInv, FileOK
<1>7. \E j \in Few : \E m \in 0 .. Len(WriteOrder(Kept(j))) :
        /\ file'.keys = SubSeq(WriteOrder(Kept(j)), 1, m)
        /\ file'.content.items > 0 => j = "items"
  BY <1>4
<1>8. FileOK' BY <1>3, <1>4, <1>6, <1>7 DEF FileOK, FilePlayer
<1>9. Off /\ cur' = cur BY DEF Write
<1> QED BY <1>8, <1>9, OffStep

(* What is saved and loaded.                                               *)
LEMMA ContentOf ==
  ASSUME NEW p, Good(p), NEW t \in Tree
  PROVE  /\ Good(Live(Content(p), t)) /\ Content(Live(Content(p), t)) = Content(p)
         /\ Live(Content(p), t).tree = t /\ Live(Content(p), t).items = p.items
<1> PICK q : q = [p EXCEPT !.tree = t] OBVIOUS
<1>1. Live(Content(p), t) = q BY LiveContent
<1>2. p \in Player BY DEF Good
<1>3. q \in Player BY <1>2 DEF Player
<1>4. /\ q.ui = p.ui /\ q.storage = p.storage /\ q.items = p.items /\ q.xp = p.xp
      /\ q.level = p.level /\ q.highest = p.highest /\ q.won = p.won /\ q.tree = t
  BY <1>2 DEF Player
<1>5. Good(q) BY <1>3, <1>4, StaysGood DEF SameUnits, Good, HighestIsHighest
<1>6. Content(q) = Content(p) BY <1>4 DEF Content
<1> QED BY <1>1, <1>4, <1>5, <1>6

LEMMA TreeOf == NewTree \in Tree
BY NewTreeIs, ShapesAreTrees DEF Few

LEMMA ExitStep == ASSUME IInv, Exit PROVE IInv'
<1>1. CASE Off /\ UNCHANGED file
  <2>1. FileOK' BY <1>1, FileStays DEF IInv
  <2> QED BY <1>1, <2>1, OffStep DEF Exit
<1>2. CASE /\ menu' = "saving"
           /\ pd' = [pd EXCEPT !.tree = SaveTree(@)]
           /\ file' = [content |-> Content(pd), keys |-> << >>, whole |-> TRUE]
  <2>1. Good(pd) /\ TreeFits(pd) /\ pd \in Player BY DEF IInv, PlayerOK, Good
  <2>2. PICK i \in Few : pd.tree \in {Fresh(i), Kept(i)} /\ (pd.items > 0 => i = "items")
    BY <2>1 DEF TreeFits
  <2>3. SaveTree(pd.tree) = Kept(i) BY <2>2, SaveFresh, SaveKept
  <2> PICK t \in Tree : t = Kept(i) BY ShapesAreTrees
  <2> PICK q : q = [pd EXCEPT !.tree = t] OBVIOUS
  <2>4. pd' = q BY <1>2, <2>3
  <2>5. q \in Player BY <2>1 DEF Player
  <2>6. /\ q.ui = pd.ui /\ q.storage = pd.storage /\ q.items = pd.items /\ q.xp = pd.xp
        /\ q.level = pd.level /\ q.highest = pd.highest /\ q.won = pd.won /\ q.tree = t
    BY <2>1 DEF Player
  <2>7. Good(q) BY <2>1, <2>5, <2>6, StaysGood DEF SameUnits, Good, HighestIsHighest
  <2>8. TreeFits(q) BY <2>2, <2>6 DEF TreeFits
  <2>9. PlayerOK' BY <2>4, <2>7, <2>8 DEF PlayerOK
  <2>10. file'.content = Content(pd) /\ file'.keys = << >> /\ file'.whole = TRUE BY <1>2
  <2>11. FilePlayer' = Live(Content(pd), NewTree) BY <2>10 DEF FilePlayer
  <2>12. Good(FilePlayer') /\ Content(FilePlayer') = file'.content
    BY <2>1, <2>10, <2>11, ContentOf, TreeOf
  <2>13. file'.content.items = pd.items BY <2>10 DEF Content
  <2> PICK w : w = WriteOrder(Kept(i)) OBVIOUS
  <2>14. w \in Seq(Key) BY KeptOrder DEF Order, Row4, Row5
  <2>15. SubSeq(w, 1, 0) = << >> /\ 0 \in 0 .. Len(w) BY <2>14
  <2>16. \E j \in Few : \E m \in 0 .. Len(WriteOrder(Kept(j))) :
          /\ file'.keys = SubSeq(WriteOrder(Kept(j)), 1, m)
          /\ file'.content.items > 0 => j = "items"
    BY <2>2, <2>10, <2>13, <2>15
  <2>17. FileOK' BY <1>2, <2>10, <2>12, <2>16 DEF FileOK, FilePlayer
  <2>18. MenuOK' BY <1>2 DEF IInv, MenuOK, CursorAtUnit, Exit
  <2>19. SavingOK' BY <2>2, <2>4, <2>6, <2>13 DEF SavingOK
  <2> QED BY <2>9, <2>17, <2>18, <2>19 DEF IInv
<1> QED BY <1>1, <1>2 DEF Exit

(* A file that has the units has all that was to be written before them.   *)
LEMMA WholeFile ==
  ASSUME FileOK, Has("units")
  PROVE  \E i \in Few : /\ file.keys = WriteOrder(Kept(i))
                        /\ Has("storage") /\ Has("xp") /\ Has("endless")
                        /\ file.content.items > 0 => Has("items")
                        /\ file.content.items > 0 => i = "items"
<1> PICK i \in Few : \E n \in 0 .. Len(WriteOrder(Kept(i))) :
        /\ file.keys = SubSeq(WriteOrder(Kept(i)), 1, n)
        /\ file.content.items > 0 => i = "items"
  BY DEF FileOK
<1> PICK n \in 0 .. Len(WriteOrder(Kept(i))) :
        /\ file.keys = SubSeq(WriteOrder(Kept(i)), 1, n)
        /\ file.content.items > 0 => i = "items"
  OBVIOUS
<1> PICK w : w = WriteOrder(Kept(i)) OBVIOUS
<1>1. Order(i, w) BY KeptOrder
<1>2. w \in Seq(Key) BY <1>1 DEF Order, Row4, Row5
<1> PICK l \in Nat : l = Len(w) BY <1>2
<1> PICK k : k = file.keys OBVIOUS
<1>3. /\ k \in Seq(Key) /\ Len(k) = n /\ \A j \in 1 .. n : k[j] = w[j]
  <2>1. \A j \in 1 .. n : w[j] \in Key BY <1>2, ElementOfSeq
  <2>2. /\ SubSeq(w, 1, n) \in Seq(Key)
        /\ Len(SubSeq(w, 1, n)) = IF 1 <= n THEN n - 1 + 1 ELSE 0
        /\ \A j \in 1 .. n - 1 + 1 : SubSeq(w, 1, n)[j] = w[1 + j - 1]
    BY <2>1, SubSeqProperties
  <2>3. n - 1 + 1 = n /\ \A j \in 1 .. n : 1 + j - 1 = j OBVIOUS
  <2>4. Len(SubSeq(w, 1, n)) = n BY <2>2, <2>3
  <2> QED BY <2>2, <2>3, <2>4
<1>4. PICK j \in 1 .. n : k[j] = "units"
  <2>1. "units" \in ToSet(k) BY DEF Has
  <2>2. DOMAIN k = 1 .. n BY <1>3
  <2> QED BY <2>1, <2>2 DEF ToSet
<1>5. w[j] = "units" /\ j <= l BY <1>3, <1>4
<1>6. j = l
  <2>1. CASE i = NoKey
    <3>1. l = 4 /\ w[1] = "xp" /\ w[2] = "endless" /\ w[3] = "storage"
      BY <1>1, <2>1 DEF Order, Row4
    <3>2. j # 1 /\ j # 2 /\ j # 3 BY <1>5, <3>1
    <3> QED BY <1>5, <3>1, <3>2
  <2>2. CASE i # NoKey
    <3>1. l = 5 /\ w[1] = "xp" /\ w[2] = "endless" /\ w[3] = "storage" /\ w[4] = "items"
      BY <1>1, <2>2 DEF Order, Row5
    <3>2. j # 1 /\ j # 2 /\ j # 3 /\ j # 4 BY <1>5, <3>1
    <3> QED BY <1>5, <3>1, <3>2
  <2> QED BY <2>1, <2>2
<1>7. n = l BY <1>6
<1>8. k = w BY <1>2, <1>3, <1>7, SeqEqual
<1>9. DOMAIN k = 1 .. l BY <1>3, <1>7
<1>10. \A m \in 1 .. l : w[m] \in ToSet(k) BY <1>8, <1>9 DEF ToSet
<1>11. /\ Has("storage") /\ Has("xp") /\ Has("endless")
       /\ i = "items" => Has("items")
  <2>1. CASE i = NoKey
    <3>1. l = 4 /\ w[1] = "xp" /\ w[2] = "endless" /\ w[3] = "storage"
      BY <1>1, <2>1 DEF Order, Row4
    <3>2. 1 \in 1 .. l /\ 2 \in 1 .. l /\ 3 \in 1 .. l BY <3>1
    <3>3. w[1] \in ToSet(k) /\ w[2] \in ToSet(k) /\ w[3] \in ToSet(k) BY <1>10, <3>2
    <3> QED BY <2>1, <3>1, <3>3, Keys DEF Has
  <2>2. CASE i = "items"
    <3>1. l = 5 /\ w[1] = "xp" /\ w[2] = "endless" /\ w[3] = "storage" /\ w[4] = "items"
      BY <1>1, <2>2, Keys DEF Order, Row5
    <3>2. 1 \in 1 .. l /\ 2 \in 1 .. l /\ 3 \in 1 .. l /\ 4 \in 1 .. l BY <3>1
    <3>3. w[1] \in ToSet(k) /\ w[2] \in ToSet(k) /\ w[3] \in ToSet(k) /\ w[4] \in ToSet(k)
      BY <1>10, <3>2
    <3> QED BY <3>1, <3>3 DEF Has
  <2> QED BY <2>1, <2>2 DEF Few
<1> QED BY <1>8, <1>11

LEMMA LoadWhole ==
  ASSUME IInv, Readable, Asserted, pd' = Live(FileContent, Read(file.keys))
  PROVE  PlayerOK' /\ Content(pd') = file.content /\ Complete
<1>1. FileOK BY DEF IInv
<1> PICK i \in Few : /\ file.keys = WriteOrder(Kept(i))
                     /\ Has("storage") /\ Has("xp") /\ Has("endless")
                     /\ file.content.items > 0 => Has("items")
                     /\ file.content.items > 0 => i = "items"
  BY <1>1, WholeFile DEF Asserted
<1> PICK t \in Tree : t = Kept(i) BY ShapesAreTrees
<1>2. Read(file.keys) = t
  <2>1. Order(i, file.keys) BY KeptOrder
  <2> QED BY <2>1, ReadKept
<1> PICK p : p = FilePlayer OBVIOUS
<1>3. Good(p) /\ Content(p) = file.content BY <1>1 DEF FileOK
<1>4. p.items \in Nat BY <1>3, PlayerFields DEF Good
<1> PICK c : c = file.content OBVIOUS
<1>5. /\ c = [units |-> c.units, storage |-> c.storage, items |-> c.items, xp |-> c.xp,
              level |-> c.level, highest |-> c.highest, won |-> c.won]
      /\ c.items = p.items
  BY <1>3 DEF Content
<1>6. FileContent = c
  <2>1. FileContent = [c EXCEPT !.storage = IF Has("storage") THEN @ ELSE << >>,
                                !.items = IF Has("items") THEN @ ELSE 0]
    BY DEF FileContent
  <2>2. (IF Has("items") THEN c.items ELSE 0) = c.items BY <1>4, <1>5
  <2>3. FileContent = [c EXCEPT !.storage = c.storage, !.items = c.items] BY <2>1, <2>2
  <2> QED BY <1>5, <2>3
<1>7. pd' = Live(Content(p), t) BY <1>2, <1>3, <1>6
<1>8. /\ Good(pd') /\ Content(pd') = Content(p)
      /\ pd'.tree = t /\ pd'.items = p.items
  BY <1>3, <1>7, ContentOf
<1>9. TreeFits(pd') BY <1>5, <1>8 DEF TreeFits
<1>10. Complete BY DEF Complete, Asserted
<1> QED BY <1>3, <1>8, <1>9, <1>10 DEF PlayerOK

LEMMA LoadStep ==
  ASSUME IInv, Load
  PROVE  /\ IInv'
         /\ menu' = "main" => Content(pd') = IF Complete THEN file.content ELSE NewContent
<1>1. FileOK' BY FileStays DEF IInv, Load
<1>2. cur' = 1 BY DEF Load
<1>3. CASE Readable /\ Asserted /\ pd' = Live(FileContent, Read(file.keys)) /\ menu' = "main"
  <2>1. PlayerOK' /\ Content(pd') = file.content /\ Complete BY <1>3, LoadWhole
  <2>2. MenuOK' /\ menu' # "saving" BY <1>2, <1>3 DEF MenuOK, CursorAtUnit
  <2> QED BY <1>1, <2>1, <2>2, NotSaving
<1>4. CASE Off
  <2>1. PlayerOK' BY <1>4, NewPlayerOK DEF Off, PlayerOK, NewPlayer, NewContent, NewTree
  <2>2. MenuOK' /\ menu' # "saving" BY <1>2, <1>4 DEF Off, MenuOK, CursorAtUnit
  <2>3. menu' # "main" BY <1>4 DEF Off
  <2> QED BY <1>1, <2>1, <2>2, <2>3, NotSaving
<1>5. CASE ~Readable /\ pd' = NewPlayer /\ menu' = "main"
  <2>1. PlayerOK' BY <1>5, NewPlayerOK DEF PlayerOK, NewPlayer, NewContent, NewTree
  <2>2. MenuOK' /\ menu' # "saving" BY <1>2, <1>5 DEF MenuOK, CursorAtUnit
  <2>3. ~Complete BY <1>5 DEF Complete
  <2>4. Content(pd') = NewContent BY <1>5, NewPlayerOK DEF NewPlayer, NewContent, NewTree
  <2> QED BY <1>1, <2>1, <2>2, <2>3, <2>4, NotSaving
<1> QED BY <1>3, <1>4, <1>5 DEF Load

-----------------------------------------------------------------------------
(* The menus.                                                              *)

(* Only the menu and the cursor change.                                    *)
LEMMA ToStep ==
  ASSUME IInv, NEW m \in {"main", "units", "storage"}, NEW c \in Nat \ {0}, To(m, c),
         m = "units" => IsUnit(pd.ui, c) \/ Deployed(pd.ui) = {},
         m = "storage" => c \in DOMAIN pd.storage
  PROVE  IInv'
<1>1. menu' = m /\ cur' = c /\ pd' = pd /\ file' = file BY DEF To
<1>2. PlayerOK' BY <1>1 DEF IInv, PlayerOK
<1>3. FileOK' BY <1>1, FileStays DEF IInv
<1>4. MenuOK' /\ menu' # "saving" BY <1>1 DEF MenuOK, CursorAtUnit
<1> QED BY <1>2, <1>3, <1>4, NotSaving

LEMMA SlotsNat == Slots \in Nat \ {0}
BY PlayerDataAssumption

LEMMA OpenUnitsStep == ASSUME IInv, OpenUnits PROVE IInv'
BY ToStep DEF OpenUnits

LEMMA LeaveStep == ASSUME IInv, LeaveUnits \/ LeaveStorage PROVE IInv'
BY ToStep DEF LeaveUnits, LeaveStorage

LEMMA FirstIsUnit ==
  ASSUME IInv, NEW c, IsUnit(pd.ui, c)
  PROVE  IsUnit(pd.ui, 1) /\ c \in Nat \ {0} /\ c \in Deployed(pd.ui)
<1>1. c \in 1 .. Slots /\ c \in Deployed(pd.ui) BY DEF IsUnit, Deployed
<1>2. 1 \in 1 .. c /\ c \in Nat \ {0} BY <1>1, SlotsNat
<1>3. \A j \in 1 .. c : IsUnit(pd.ui, j) BY <1>1 DEF IInv, PlayerOK, Good, NoGaps
<1> QED BY <1>1, <1>2, <1>3

LEMMA UnitDownStep == ASSUME IInv, UnitDown PROVE IInv'
<1>1. IsUnit(pd.ui, cur) /\ To("units", IF IsUnit(pd.ui, cur + 1) THEN cur + 1 ELSE 1)
  BY DEF UnitDown, Here
<1>2. CASE IsUnit(pd.ui, cur + 1) BY <1>1, <1>2, FirstIsUnit, ToStep
<1>3. CASE ~IsUnit(pd.ui, cur + 1)
  <2>1. To("units", 1) BY <1>1, <1>3
  <2>2. IsUnit(pd.ui, 1) BY <1>1, FirstIsUnit
  <2> QED BY <2>1, <2>2, ToStep
<1> QED BY <1>2, <1>3

LEMMA UnitUpStep == ASSUME IInv, UnitUp PROVE IInv'
<1> DEFINE E == {n \in 1 .. Slots : \A i \in 1 .. n : IsUnit(pd.ui, i)}
<1>1. IsUnit(pd.ui, cur) /\ To("units", IF cur > 1 THEN cur - 1 ELSE Max(E))
  BY DEF UnitUp, Here
<1>2. CASE cur > 1
  <2>1. To("units", cur - 1) BY <1>1, <1>2
  <2>2. cur \in Nat \ {0} /\ cur \in Deployed(pd.ui) BY <1>1, FirstIsUnit
  <2>3. cur - 1 \in 1 .. cur /\ cur - 1 \in Nat \ {0} BY <1>2, <2>2
  <2>4. IsUnit(pd.ui, cur - 1) BY <2>2, <2>3 DEF IInv, PlayerOK, Good, NoGaps
  <2> QED BY <2>1, <2>3, <2>4, ToStep
<1>3. CASE ~(cur > 1)
  <2>1. To("units", Max(E)) BY <1>1, <1>3
  <2>2. 1 \in E
    <3>1. IsUnit(pd.ui, 1) BY <1>1, FirstIsUnit
    <3>2. 1 \in 1 .. Slots /\ \A i \in 1 .. 1 : i = 1 BY SlotsNat
    <3> QED BY <3>1, <3>2
  <2>3. E \in SUBSET (0 .. Slots) BY SlotsNat
  <2>4. Max(E) \in E
    <3> HIDE DEF E
    <3> QED BY <2>2, <2>3, SlotsNat, MaxOf
  <2>5. Max(E) \in Nat \ {0} /\ IsUnit(pd.ui, Max(E))
    <3> PICK n \in E : n = Max(E) BY <2>4
    <3>1. n \in 1 .. n /\ n \in Nat \ {0} BY SlotsNat
    <3> QED BY <3>1
  <2> HIDE DEF E
  <2> QED BY <2>1, <2>5, ToStep
<1> QED BY <1>2, <1>3

LEMMA StorageCursor ==
  ASSUME IInv, Stored
  PROVE  /\ pd.storage \in Seq(UnitRecord) /\ DOMAIN pd.storage = 1 .. Len(pd.storage)
         /\ Len(pd.storage) \in Nat \ {0} /\ cur \in 1 .. Len(pd.storage)
<1>1. pd.storage \in Seq(UnitRecord) BY PlayerFields DEF IInv, PlayerOK, Good
<1>2. DOMAIN pd.storage = 1 .. Len(pd.storage) BY <1>1
<1>3. cur \in DOMAIN pd.storage BY DEF Stored, IInv, MenuOK, CursorAtUnit
<1>4. Len(pd.storage) \in Nat \ {0} BY <1>1 DEF Stored
<1> QED BY <1>1, <1>2, <1>3, <1>4

LEMMA StorageMoveStep == ASSUME IInv, StorageDown \/ StorageUp PROVE IInv'
<1>1. Stored BY DEF StorageDown, StorageUp
<1> PICK n \in Nat \ {0} : n = Len(pd.storage) BY <1>1, StorageCursor
<1>2. DOMAIN pd.storage = 1 .. n /\ cur \in 1 .. n BY <1>1, StorageCursor
<1>3. CASE StorageDown
  <2> PICK c : c = IF cur < n THEN cur + 1 ELSE 1 OBVIOUS
  <2>1. c \in 1 .. n /\ c \in Nat \ {0} BY <1>2
  <2>2. To("storage", c) BY <1>3 DEF StorageDown
  <2> QED BY <1>2, <2>1, <2>2, ToStep
<1>4. CASE StorageUp
  <2> PICK c : c = IF cur > 1 THEN cur - 1 ELSE n OBVIOUS
  <2>1. c \in 1 .. n /\ c \in Nat \ {0} BY <1>2
  <2>2. To("storage", c) BY <1>4 DEF StorageUp
  <2> QED BY <1>2, <2>1, <2>2, ToStep
<1> QED BY <1>3, <1>4

(* A player of whom only the list, the items or the levels change.         *)
LEMMA StillOK ==
  ASSUME IInv, PlayerOK', MenuOK', file' = file, menu' # "saving"
  PROVE  IInv'
BY FileStays, NotSaving DEF IInv

LEMMA StorageTree ==
  ASSUME NEW p, TreeFits(p)
  PROVE  WithKey(p.tree, "storage") = p.tree
BY WithStorage DEF TreeFits

LEMMA OpenStorageStep == ASSUME IInv, OpenStorage PROVE IInv'
<1>1. Good(pd) /\ TreeFits(pd) /\ pd \in Player BY DEF IInv, PlayerOK, Good
<1>2. pd' = pd
  <2>1. pd' = [pd EXCEPT !.tree = pd.tree] BY <1>1, StorageTree DEF OpenStorage
  <2> QED BY <1>1, <2>1 DEF Player
<1>3. PlayerOK' BY <1>1, <1>2 DEF PlayerOK
<1>4. menu' = (IF pd.storage = << >> THEN "main" ELSE "storage") /\ cur' = 1 /\ file' = file
  BY DEF OpenStorage
<1>5. pd.storage # << >> => 1 \in DOMAIN pd.storage
  <2>1. pd.storage \in Seq(UnitRecord) BY <1>1, PlayerFields
  <2> QED BY <2>1
<1>6. MenuOK' /\ menu' # "saving" BY <1>2, <1>4, <1>5 DEF MenuOK, CursorAtUnit
<1> QED BY <1>3, <1>4, <1>6, StillOK

LEMMA MoveToStep ==
  ASSUME IInv, NEW c, MoveTo(c), IsUnit(pd.ui, c)
  PROVE  IInv'
<1>1. Good(pd) /\ TreeFits(pd) /\ pd \in Player BY DEF IInv, PlayerOK, Good
<1>2. /\ menu = "units" /\ IsUnit(pd.ui, cur) /\ c # cur
      /\ pd' = [pd EXCEPT !.ui = Swapped(@, c, cur)]
      /\ cur' = c /\ file' = file /\ menu' = menu
  BY DEF MoveTo, Here
<1>3. c \in Deployed(pd.ui) /\ cur \in Deployed(pd.ui) /\ c \in Nat \ {0}
  BY <1>2, FirstIsUnit
<1> PICK d \in Deployed(pd.ui) : d = cur BY <1>3
<1> PICK e \in Deployed(pd.ui) : e = c BY <1>3
<1>10. PICK q : q = [pd EXCEPT !.ui = Swapped(@, e, d)] OBVIOUS
<1>4. Good(q) /\ Deployed(q.ui) = Deployed(pd.ui)
  <2>1. Swaps(pd, q, e, d) BY <1>2, <1>10 DEF Swaps
  <2> QED BY <1>1, <2>1, SwapGood
<1>5. q.tree = pd.tree /\ q.items = pd.items BY <1>1, <1>10 DEF Player
<1>6. pd' = q BY <1>2, <1>10
<1>7. PlayerOK' BY <1>1, <1>4, <1>5, <1>6 DEF PlayerOK, TreeFits
<1>8. IsUnit(q.ui, c) BY <1>3, <1>4 DEF Deployed, IsUnit
<1>9. MenuOK' /\ menu' # "saving" BY <1>2, <1>3, <1>6, <1>8 DEF MenuOK, CursorAtUnit
<1> QED BY <1>2, <1>7, <1>9, StillOK

LEMMA MoveStep == ASSUME IInv, UnitTop \/ UnitRaise \/ UnitLower PROVE IInv'
<1>1. CASE UnitTop
  <2>1. IsUnit(pd.ui, cur) /\ MoveTo(1) BY <1>1 DEF UnitTop, MoveTo, Here
  <2> QED BY <2>1, FirstIsUnit, MoveToStep
<1>2. CASE UnitRaise
  <2>1. IsUnit(pd.ui, cur) /\ MoveTo(cur - 1) /\ cur > 1 BY <1>2 DEF UnitRaise, MoveTo, Here
  <2>2. cur \in Nat \ {0} /\ cur \in Deployed(pd.ui) BY <2>1, FirstIsUnit
  <2>3. cur - 1 \in 1 .. cur BY <2>1, <2>2
  <2>4. IsUnit(pd.ui, cur - 1) BY <2>2, <2>3 DEF IInv, PlayerOK, Good, NoGaps
  <2> QED BY <2>1, <2>4, MoveToStep
<1>3. CASE UnitLower
  <2>1. MoveTo(cur + 1) /\ IsUnit(pd.ui, cur + 1) BY <1>3 DEF UnitLower
  <2> QED BY <2>1, MoveToStep
<1> QED BY <1>1, <1>2, <1>3

LEMMA StoreStep == ASSUME IInv, Store PROVE IInv'
<1>1. Good(pd) /\ TreeFits(pd) /\ pd \in Player BY DEF IInv, PlayerOK, Good
<1>2. /\ menu = "units" /\ IsUnit(pd.ui, cur) /\ file' = file /\ menu' = menu
      /\ cur' = Max({c \in 1 .. cur : c = 1 \/ pd'.ui[c] # None})
  BY DEF Store, Here
<1>3. cur \in Deployed(pd.ui) /\ cur \in Nat \ {0} BY <1>2, FirstIsUnit
<1> PICK d \in Deployed(pd.ui) : d = cur BY <1>3
<1> PICK t \in Tree : t = pd.tree BY <1>1, PlayerFields
<1> PICK q : q = [pd EXCEPT !.ui = Closed(@, d), !.storage = Append(@, pd.ui[d]), !.tree = t]
  OBVIOUS
<1>4. pd' = q BY <1>1, StorageTree DEF Store
<1>5. Good(q) BY <1>1, StoreGood
<1>6. q.tree = pd.tree /\ q.items = pd.items BY <1>1 DEF Player
<1>7. PlayerOK' BY <1>1, <1>4, <1>5, <1>6 DEF PlayerOK, TreeFits
<1> DEFINE E == {c \in 1 .. cur : c = 1 \/ q.ui[c] # None}
<1>8. cur' = Max(E) BY <1>2, <1>4
<1>9. 1 \in E /\ E \in SUBSET (0 .. cur) BY <1>3
<1>10. Max(E) \in E
  <2> HIDE DEF E
  <2> QED BY <1>3, <1>9, MaxOf
<1> PICK c \in E : c = Max(E) BY <1>10
<1>11. c \in 1 .. cur /\ (c = 1 \/ q.ui[c] # None) /\ cur' = c BY <1>8
<1>12. cur \in 1 .. Slots /\ Slots \in Nat BY <1>2, SlotsNat DEF IsUnit
<1>13. c \in 1 .. Slots /\ c \in Nat \ {0} BY <1>3, <1>11, <1>12
<1>14. Deployed(q.ui) # {} => IsUnit(q.ui, c)
  <2> SUFFICES ASSUME NEW i \in Deployed(q.ui) PROVE q.ui[c] # None
    BY <1>13 DEF IsUnit
  <2>1. CASE c = 1
    <3>1. 1 \in 1 .. i BY SlotsNat DEF Deployed
    <3>2. IsUnit(q.ui, 1) BY <1>5, <3>1 DEF Good, NoGaps
    <3> QED BY <2>1, <3>2 DEF IsUnit
  <2>2. CASE c # 1 BY <1>11, <2>2
  <2> QED BY <2>1, <2>2
<1>15. MenuOK' /\ menu' # "saving"
  BY <1>2, <1>4, <1>11, <1>13, <1>14 DEF MenuOK, CursorAtUnit
<1> QED BY <1>2, <1>7, <1>15, StillOK

LEMMA LimitIs ==
  ASSUME NEW n \in Nat \ {0}, NEW c \in 1 .. n
  PROVE  /\ Limit(c, n - 1) \in Nat \ {0}
         /\ n # 1 => Limit(c, n - 1) \in 1 .. n - 1
<1>1. CASE c > n - 1 /\ n - 1 > 0
  <2>1. Limit(c, n - 1) = n - 1 BY <1>1 DEF Limit
  <2> QED BY <1>1, <2>1
<1>2. CASE ~(c > n - 1 /\ n - 1 > 0)
  <2>1. Limit(c, n - 1) = c BY <1>2 DEF Limit
  <2> QED BY <1>2, <2>1
<1> QED BY <1>1, <1>2

LEMMA DeployStep == ASSUME IInv, Deploy PROVE IInv'
<1>1. Good(pd) /\ TreeFits(pd) /\ pd \in Player BY DEF IInv, PlayerOK, Good
<1>2. Stored /\ pd.ui[Slots] = None /\ menu = "storage" /\ file' = file /\ menu' = menu
      /\ cur' = Limit(cur, Len(pd.storage) - 1)
  BY DEF Deploy, Stored
<1>3. /\ pd.storage \in Seq(UnitRecord) /\ DOMAIN pd.storage = 1 .. Len(pd.storage)
      /\ Len(pd.storage) \in Nat \ {0} /\ cur \in 1 .. Len(pd.storage)
  BY <1>2, StorageCursor
<1> PICK n \in Nat \ {0} : n = Len(pd.storage) BY <1>3
<1> PICK c \in 1 .. n : c = cur BY <1>3
<1> DEFINE E == {i \in 1 .. Slots : pd.ui[i] = None}
<1>4. E \in SUBSET Nat /\ E # {} BY <1>2, SlotsNat
<1>5. Min(E) \in E /\ \A i \in E : Min(E) <= i
  <2> HIDE DEF E
  <2> QED BY <1>4, MinOf
<1> PICK f \in E : f = Min(E) BY <1>5
<1>6. f \in 1 .. Slots /\ pd.ui[f] = None /\ \A i \in 1 .. Slots : i < f => pd.ui[i] # None
  <2> SUFFICES ASSUME NEW i \in 1 .. Slots, i < f, pd.ui[i] = None PROVE FALSE
    OBVIOUS
  <2>1. i \in E /\ i \in Nat BY SlotsNat
  <2>2. f <= i /\ f \in Nat BY <1>4, <1>5, <2>1
  <2> QED BY <2>1, <2>2
<1> PICK q : q = [pd EXCEPT !.ui[f] = pd.storage[c], !.storage = Taken(@, c)] OBVIOUS
<1>7. pd' = q BY DEF Deploy
<1>8. Good(q) /\ q.storage = Without(pd.storage, c) BY <1>1, <1>6, DeployGood
<1>9. q.tree = pd.tree /\ q.items = pd.items BY <1>1 DEF Player
<1>10. PlayerOK' BY <1>1, <1>7, <1>8, <1>9 DEF PlayerOK, TreeFits
<1>11. q.storage \in Seq(UnitRecord) /\ Len(q.storage) = n - 1
  <2>1. c \in 1 .. Len(pd.storage) BY <1>3
  <2>2. /\ Without(pd.storage, c) \in Seq(UnitRecord)
        /\ Len(Without(pd.storage, c)) = Len(pd.storage) - 1
    BY <1>3, <2>1, WithoutSeq
  <2> QED BY <1>8, <2>2
<1>12. DOMAIN q.storage = 1 .. n - 1 BY <1>11
<1>13. cur' = Limit(c, n - 1) BY <1>2
<1>14. cur' \in Nat \ {0} /\ (q.storage # << >> => cur' \in 1 .. n - 1)
  <2>1. n = 1 => q.storage = << >> BY <1>11
  <2> QED BY <1>13, <2>1, LimitIs
<1>15. MenuOK' /\ menu' # "saving" BY <1>2, <1>7, <1>12, <1>14 DEF MenuOK, CursorAtUnit
<1> QED BY <1>2, <1>10, <1>15, StillOK

(* Experience is spent on a unit, which is worth that much more.           *)
Pays(u, x) == /\ u.id = pd.ui[cur].id /\ Selected(u)
              /\ Worth(u) = Worth(pd.ui[cur]) + x

LEMMA SpendStep ==
  ASSUME IInv, Here, NEW u \in UnitRecord, NEW x \in Int, Spend(u, x), Pays(u, x)
  PROVE  IInv'
<1>1. Good(pd) /\ TreeFits(pd) /\ pd \in Player BY DEF IInv, PlayerOK, Good
<1>2. menu = "units" /\ IsUnit(pd.ui, cur) BY DEF Here
<1>3. cur \in Deployed(pd.ui) /\ cur \in Nat \ {0} BY <1>2, FirstIsUnit
<1> PICK c \in Deployed(pd.ui) : c = cur BY <1>3
<1>4. c \in 1 .. Slots /\ pd.ui \in [1 .. Slots -> UnitRecord \cup {None}]
  BY <1>1, PlayerFields, DeployedUnit
<1> PICK y \in Nat : y = pd.xp BY <1>1, PlayerFields
<1>5. /\ x <= y /\ file' = file /\ menu' = menu /\ cur' = cur
      /\ pd' = [pd EXCEPT !.ui[c] = u, !.xp = y - x]
  BY DEF Spend
<1> PICK z \in Nat : z = y - x BY <1>5
<1>6. PICK q : q = [pd EXCEPT !.ui[c] = u, !.xp = z] OBVIOUS
<1>7. pd' = q BY <1>5, <1>6
<1>8. /\ q.xp = z /\ q.ui = [pd.ui EXCEPT ![c] = u] /\ q.tree = pd.tree
      /\ q.items = pd.items
  BY <1>1, <1>4, <1>6 DEF Player
<1>9. z + Worth(u) = y + Worth(pd.ui[c])
  <2>1. u \in UnitRecord \cup {None} /\ pd.ui[c] \in UnitRecord \cup {None}
    BY <1>4
  <2> PICK v \in Nat : v = Worth(u) BY <2>1, WorthNat
  <2> PICK w \in Nat : w = Worth(pd.ui[c]) BY <2>1, WorthNat
  <2>2. v = w + x BY DEF Pays
  <2>3. z = y - x OBVIOUS
  <2> HIDE <1>5
  <2>4. z + v = y + w BY <2>2, <2>3
  <2> QED BY <2>4
<1>10. Becomes(pd, q, c, u) BY <1>6, <1>8, <1>9 DEF Becomes, Pays
<1>11. Good(q) BY <1>1, <1>10, BecomesGood
<1>12. PlayerOK' BY <1>1, <1>7, <1>8, <1>11 DEF PlayerOK, TreeFits
<1>13. IsUnit(q.ui, c) BY <1>4, <1>8, UnitFields DEF IsUnit
<1>14. MenuOK' /\ menu' # "saving" BY <1>2, <1>3, <1>5, <1>7, <1>13 DEF MenuOK, CursorAtUnit
<1> QED BY <1>5, <1>12, <1>14, StillOK

LEMMA HereUnit ==
  ASSUME IInv, Here
  PROVE  /\ pd.ui[cur] \in UnitRecord /\ Selected(pd.ui[cur]) /\ pd.ui[cur] # None
         /\ pd.xp \in Nat
<1>1. Good(pd) /\ pd \in Player BY DEF IInv, PlayerOK, Good
<1>2. cur \in Deployed(pd.ui) BY FirstIsUnit DEF Here
<1> QED BY <1>1, <1>2, DeployedUnit, PlayerFields DEF Good, AllSelected

LEMMA Distributes ==
  ASSUME NEW a \in Int, NEW b \in Int, NEW c \in Int
  PROVE  a * (b + c) = a * b + a * c /\ a * (b - c) = a * b - a * c /\ a * b \in Int
OBVIOUS

(* A unit that rises is worth what its rise costs, however far it rises.   *)
LEMMA RaisedUnit ==
  ASSUME NEW u \in UnitRecord, Selected(u), NEW n \in Nat, u.level + n <= MaxLevel
  PROVE  /\ Raised(u, n) \in UnitRecord /\ Raised(u, n).id = u.id /\ Selected(Raised(u, n))
         /\ XpRequireTo(u, n) \in Int
         /\ Worth(Raised(u, n)) = Worth(u) + XpRequireTo(u, n)
<1>1. /\ u.id \in Ids /\ u.spec \in Species /\ u.level \in 1 .. MaxLevel
      /\ u.type \in (0 .. Types) \X (0 .. Types) /\ u # None /\ MaxLevel \in Nat
      /\ XpType[u.spec] \in Nat
  BY UnitFields, PlayerDataAssumption
<1> PICK l \in 1 .. MaxLevel : l = u.level BY <1>1
<1>2. l + n \in 1 .. MaxLevel BY <1>1
<1> PICK m \in 1 .. MaxLevel : m = l + n BY <1>2
<1> PICK r : r = Raised(u, n) OBVIOUS
<1>3. r = [u EXCEPT !.level = m] BY DEF Raised
<1>4. r \in UnitRecord /\ r.id = u.id /\ r.spec = u.spec /\ r.type = u.type /\ r.level = m
  BY <1>3 DEF UnitRecord
<1>5. Selected(r) BY <1>4 DEF Selected
<1>6. FactorsTo(l) \in Nat /\ FactorsTo(m) \in Nat BY FactorsToNat
<1> PICK a \in Int : a = XpType[u.spec] BY <1>1
<1> PICK b \in Int : b = FactorsTo(m) BY <1>6
<1> PICK d \in Int : d = FactorsTo(l) BY <1>6
<1>7. a * (b - d) = a * b - a * d /\ a * b \in Int /\ a * d \in Int BY Distributes
<1>8. XpRequireTo(u, n) = a * (b - d) BY DEF XpRequireTo
<1>9. Worth(u) = a * d BY <1>1 DEF Worth
<1>10. Worth(r) = a * b BY <1>4, UnitFields DEF Worth
<1>11. a * b = a * d + a * (b - d) /\ a * (b - d) \in Int BY <1>7
<1> QED BY <1>4, <1>5, <1>8, <1>9, <1>10, <1>11

LEMMA LevelUpStep == ASSUME IInv, LevelUp PROVE IInv'
<1> PICK u : u = pd.ui[cur] OBVIOUS
<1>1. Here /\ u.level < MaxLevel /\ Spend(Raised(u, 1), XpRequire(u)) BY DEF LevelUp
<1>2. u \in UnitRecord /\ Selected(u) BY <1>1, HereUnit
<1> PICK l \in 1 .. MaxLevel : l = u.level BY <1>2, UnitFields
<1>3. MaxLevel \in Nat /\ Factor[l] \in Nat BY PlayerDataAssumption
<1>4. l + 1 <= MaxLevel BY <1>1, <1>3
<1>5. FactorsTo(l) \in Nat /\ FactorsTo(l + 1) = FactorsTo(l) + Factor[l]
  BY FactorsToNat, FactorsToNext
<1>6. FactorsTo(l + 1) - FactorsTo(l) = Factor[l]
  <2> PICK a \in Nat : a = FactorsTo(l) BY <1>5
  <2> PICK b \in Nat : b = Factor[l] BY <1>3
  <2>1. a + b - a = b OBVIOUS
  <2> QED BY <1>5, <2>1
<1>7. XpRequire(u) = XpRequireTo(u, 1) BY <1>6 DEF XpRequire, XpRequireTo
<1>8. PICK r : r = Raised(u, 1) OBVIOUS
<1>9. PICK x : x = XpRequire(u) OBVIOUS
<1> PICK k \in Nat : k = 1 OBVIOUS
<1>10. r \in UnitRecord /\ r.id = u.id /\ Selected(r) /\ x \in Int /\ Worth(r) = Worth(u) + x
  <2>1. u.level + k <= MaxLevel BY <1>4
  <2> QED BY <1>2, <1>7, <1>8, <1>9, <2>1, RaisedUnit
<1>11. Pays(r, x) BY <1>10 DEF Pays
<1>12. Spend(r, x) BY <1>1, <1>8, <1>9
<1> QED BY <1>1, <1>10, <1>11, <1>12, SpendStep

LEMMA LevelMaxStep == ASSUME IInv, LevelMax PROVE IInv'
<1>1. PICK u : u = pd.ui[cur] OBVIOUS
<1> DEFINE E == {k \in 0 .. MaxLevel - u.level : XpRequireTo(u, k) <= pd.xp}
<1>2. Here /\ Max(E) > 0 /\ Spend(Raised(u, Max(E)), XpRequireTo(u, Max(E)))
  BY <1>1 DEF LevelMax
<1>3. u \in UnitRecord /\ Selected(u) /\ pd.xp \in Nat BY <1>1, <1>2, HereUnit
<1>4. u.level \in 1 .. MaxLevel /\ MaxLevel \in Nat /\ XpType[u.spec] \in Nat
  BY <1>3, UnitFields, PlayerDataAssumption
<1> PICK l \in 1 .. MaxLevel : l = u.level BY <1>4
<1> PICK b \in Nat : b = MaxLevel - l BY <1>4
<1>5. E \in SUBSET (0 .. b) OBVIOUS
<1>6. 0 \in E
  <2> PICK f \in Nat : f = FactorsTo(l) BY FactorsToNat
  <2> PICK x \in Nat : x = XpType[u.spec] BY <1>4
  <2>1. l + 0 = l BY <1>4
  <2>2. XpRequireTo(u, 0) = x * (f - f) BY <2>1 DEF XpRequireTo
  <2>3. x * (f - f) = 0 OBVIOUS
  <2>4. XpRequireTo(u, 0) <= pd.xp BY <1>3, <2>2, <2>3
  <2> QED BY <1>4, <2>4
<1>7. Max(E) \in E
  <2> HIDE DEF E
  <2> QED BY <1>5, <1>6, MaxOf
<1>8. PICK n \in 0 .. b : n = Max(E) BY <1>5, <1>7
<1>9. n \in Nat /\ u.level + n <= MaxLevel BY <1>4
<1>10. PICK r : r = Raised(u, n) OBVIOUS
<1>11. PICK x : x = XpRequireTo(u, n) OBVIOUS
<1>12. r \in UnitRecord /\ r.id = u.id /\ Selected(r) /\ x \in Int /\ Worth(r) = Worth(u) + x
  BY <1>3, <1>9, <1>10, <1>11, RaisedUnit
<1>13. Pays(r, x) BY <1>1, <1>12 DEF Pays
<1>14. Spend(r, x) BY <1>2, <1>8, <1>10, <1>11
<1> QED BY <1>2, <1>12, <1>13, <1>14, SpendStep

(* What a unit evolves into is worth the difference of the species more,   *)
(* over all the levels that it has.                                        *)
LEMMA EvolveStep == ASSUME IInv, Evolve PROVE IInv'
<1>1. PICK u : u = pd.ui[cur] OBVIOUS
<1>2. PICK s : s = u.spec + 1 OBVIOUS
<1>3. PICK t : t = IF s \in CanSelectType THEN MaxType[s] ELSE u.type OBVIOUS
<1>4. PICK r : r = [u EXCEPT !.spec = s, !.type = t] OBVIOUS
<1>5. PICK x : x = XpRequireEvo(u) OBVIOUS
<1>6. Here /\ EvolveLevel[u.spec] > 0 /\ Spend(r, x)
  BY <1>1, <1>2, <1>3, <1>4, <1>5 DEF Evolve
<1>7. u \in UnitRecord /\ Selected(u) BY <1>1, <1>6, HereUnit
<1>8. /\ u.id \in Ids /\ u.spec \in Species /\ u.level \in 1 .. MaxLevel
      /\ u.type \in (0 .. Types) \X (0 .. Types) /\ u # None
  BY <1>7, UnitFields
<1>9. /\ s \in Species /\ XpType[u.spec] \in Nat /\ XpType[s] \in Nat
      /\ XpType[u.spec] <= XpType[s] /\ MaxType \in [Species -> (0 .. Types) \X (0 .. Types)]
      /\ \A z \in CanSelectType : MaxType[z][1] # MaxType[z][2] /\ MaxType[z][1] # 0
  BY <1>2, <1>6, <1>8, PlayerDataAssumption
<1>10. t \in (0 .. Types) \X (0 .. Types) BY <1>3, <1>8, <1>9
<1>11. /\ r \in UnitRecord /\ r.id = u.id /\ r.spec = s /\ r.type = t /\ r.level = u.level
  BY <1>4, <1>7, <1>9, <1>10 DEF UnitRecord
<1>12. Selected(r) BY <1>3, <1>9, <1>11 DEF Selected
<1>13. x \in Int /\ Worth(r) = Worth(u) + x
  <2> PICK f \in Nat : f = FactorsTo(u.level) BY <1>8, FactorsToNat
  <2> PICK a \in Nat : a = XpType[u.spec] BY <1>9
  <2> PICK b \in Nat : b = XpType[s] BY <1>9
  <2>1. Worth(u) = a * f BY <1>8 DEF Worth
  <2>2. Worth(r) = b * f BY <1>11, UnitFields DEF Worth
  <2>3. x = IF b - a > 0 THEN (b - a) * f ELSE 0 BY <1>2, <1>5 DEF XpRequireEvo
  <2>4. CASE b - a > 0
    <3>1. (b - a) * f = b * f - a * f /\ a * f \in Nat /\ b * f \in Nat OBVIOUS
    <3>2. x = b * f - a * f BY <2>3, <2>4, <3>1
    <3> QED BY <2>1, <2>2, <3>1, <3>2
  <2>5. CASE ~(b - a > 0)
    <3>1. a <= b BY <1>9
    <3>2. a = b BY <2>5, <3>1
    <3>3. x = 0 /\ a * f \in Nat BY <2>3, <2>5
    <3> QED BY <2>1, <2>2, <3>2, <3>3
  <2> QED BY <2>4, <2>5
<1>14. Pays(r, x) BY <1>1, <1>11, <1>12, <1>13 DEF Pays
<1> QED BY <1>6, <1>11, <1>13, <1>14, SpendStep

(* The types that the keys c and C come to.                                *)
LEMMA NextTypes ==
  ASSUME NEW a \in 0 .. Types, NEW b \in 0 .. Types, a # 0, a # b
  PROVE  /\ NextType0(<<a, b>>) \in 1 .. Types /\ NextType0(<<a, b>>) # b
         /\ NextType1(<<a, b>>) \in 0 .. Types /\ NextType1(<<a, b>>) # a
<1>1. Types \in Nat /\ Types >= 2 BY PlayerDataAssumption
<1> PICK n \in Nat : n = Types BY <1>1
<1>2. NextType0(<<a, b>>) \in 1 .. n /\ NextType0(<<a, b>>) # b
  <2> PICK next \in Nat : next = IF a + 1 = b THEN a + 2 ELSE a + 1 BY <1>1
  <2>1. next = Past(Shift(a), b) /\ next # b /\ next > 1
    <3>1. Shift(a) = a + 1 BY DEF Shift
    <3>2. Shift(a + 1) = a + 2 BY <1>1 DEF Shift
    <3> QED BY <1>1, <3>1, <3>2 DEF Past
  <2>2. NextType0(<<a, b>>) = Past(IF next \in 1 .. Types THEN next ELSE 1, b)
    BY <2>1 DEF NextType0
  <2>3. CASE next \in 1 .. n
    <3>1. NextType0(<<a, b>>) = next BY <2>1, <2>2, <2>3 DEF Past
    <3> QED BY <2>1, <2>3, <3>1
  <2>4. CASE next \notin 1 .. n
    <3>1. NextType0(<<a, b>>) = IF 1 = b THEN 2 ELSE 1 BY <2>2, <2>4 DEF Past, Shift
    <3> QED BY <1>1, <3>1
  <2> QED BY <2>3, <2>4
<1>3. NextType1(<<a, b>>) \in 0 .. n /\ NextType1(<<a, b>>) # a
  <2> PICK next \in Nat : next = IF b = 0 THEN 0 ELSE IF b + 1 = a THEN b + 2 ELSE b + 1
    BY <1>1
  <2>1. next = Past(Shift(b), a) /\ (b = 0 <=> next = 0) /\ next # a
    <3>1. CASE b = 0 BY <3>1 DEF Shift, Past
    <3>2. CASE b # 0
      <4>1. Shift(b) = b + 1 BY <3>2 DEF Shift
      <4>2. Shift(b + 1) = b + 2 BY <1>1 DEF Shift
      <4> QED BY <1>1, <3>2, <4>1, <4>2 DEF Past
    <3> QED BY <3>1, <3>2
  <2> PICK some \in Nat : some = IF next = 0 THEN 1 ELSE next OBVIOUS
  <2>2. NextType1(<<a, b>>) = Past(IF some \in 1 .. Types THEN some ELSE 0, a)
    BY <2>1 DEF NextType1
  <2>3. CASE some \in 1 .. n /\ some = a
    <3>1. some = 1 BY <2>1, <2>3
    <3>2. NextType1(<<a, b>>) = 2 BY <2>2, <2>3, <3>1 DEF Past, Shift
    <3> QED BY <1>1, <2>3, <3>1, <3>2
  <2>4. CASE some \in 1 .. n /\ some # a
    <3>1. NextType1(<<a, b>>) = some BY <2>2, <2>4 DEF Past
    <3> QED BY <2>4, <3>1
  <2>5. CASE some \notin 1 .. n
    <3>1. NextType1(<<a, b>>) = 0 BY <2>2, <2>5 DEF Past
    <3> QED BY <3>1
  <2> QED BY <2>3, <2>4, <2>5
<1> QED BY <1>2, <1>3

(* The types of a unit change, its worth does not.                         *)
LEMMA TypeStep ==
  ASSUME IInv, Here, NEW t \in (0 .. Types) \X (0 .. Types), t[1] # 0, t[1] # t[2],
         NEW r, r = [pd.ui[cur] EXCEPT !.type = t], Spend(r, 0)
  PROVE  IInv'
<1>1. PICK u : u = pd.ui[cur] OBVIOUS
<1>2. u \in UnitRecord BY <1>1, HereUnit
<1>3. r = [u EXCEPT !.type = t] BY <1>1
<1>4. /\ r \in UnitRecord /\ r.id = u.id /\ r.spec = u.spec /\ r.type = t
      /\ r.level = u.level
  BY <1>2, <1>3 DEF UnitRecord
<1>5. Selected(r) BY <1>4 DEF Selected
<1>6. PICK x \in Nat : x = 0 OBVIOUS
<1>7. Worth(r) = Worth(u) + x
  <2> PICK w \in Nat : w = Worth(u) BY <1>2, WorthNat
  <2>1. Worth(r) = Worth(u) BY <1>2, <1>4, UnitFields DEF Worth
  <2>2. w = w + x BY <1>6
  <2> QED BY <2>1, <2>2
<1>8. Pays(r, x) BY <1>1, <1>4, <1>5, <1>7 DEF Pays
<1>9. Spend(r, x) /\ x \in Int BY <1>6
<1> QED BY <1>4, <1>8, <1>9, SpendStep

LEMMA SelectTypeStep == ASSUME IInv, SelectType PROVE IInv'
<1>1. PICK u : u = pd.ui[cur] OBVIOUS
<1>2. Here /\ u.spec \in CanSelectType BY <1>1 DEF SelectType
<1>3. u \in UnitRecord /\ Selected(u) BY <1>1, <1>2, HereUnit
<1>4. u.type \in (0 .. Types) \X (0 .. Types) BY <1>3, UnitFields
<1>5. PICK a \in 0 .. Types : \E y \in 0 .. Types : u.type = <<a, y>> BY <1>4
<1>6. PICK b \in 0 .. Types : u.type = <<a, b>> BY <1>5
<1>7. a # 0 /\ a # b BY <1>2, <1>3, <1>6 DEF Selected
<1>8. PICK c : c = NextType0(<<a, b>>) OBVIOUS
<1>9. PICK d : d = NextType1(<<a, b>>) OBVIOUS
<1>10. c \in 0 .. Types /\ c # 0 /\ c # b /\ d \in 0 .. Types /\ d # a
  <2>1. c \in 1 .. Types /\ c # b /\ d \in 0 .. Types /\ d # a
    BY <1>7, <1>8, <1>9, NextTypes
  <2>2. Types \in Nat BY PlayerDataAssumption
  <2> QED BY <2>1, <2>2
<1>11. \/ Spend([u EXCEPT !.type[1] = c], 0)
       \/ Spend([u EXCEPT !.type[2] = d], 0)
  BY <1>1, <1>6, <1>8, <1>9 DEF SelectType
<1>12. CASE Spend([u EXCEPT !.type[1] = c], 0)
  <2>1. PICK t : t = <<c, b>> OBVIOUS
  <2>2. t \in (0 .. Types) \X (0 .. Types) /\ t[1] # 0 /\ t[1] # t[2] BY <1>10, <2>1
  <2>3. [u.type EXCEPT ![1] = c] = t BY <1>6, <2>1
  <2>4. PICK r : r = [u EXCEPT !.type = t] OBVIOUS
  <2>5. [u EXCEPT !.type[1] = c] = r BY <1>3, <2>3, <2>4 DEF UnitRecord
  <2> QED BY <1>1, <1>2, <1>12, <2>2, <2>4, <2>5, TypeStep
<1>13. CASE Spend([u EXCEPT !.type[2] = d], 0)
  <2>1. PICK t : t = <<a, d>> OBVIOUS
  <2>2. t \in (0 .. Types) \X (0 .. Types) /\ t[1] # 0 /\ t[1] # t[2]
    BY <1>7, <1>10, <2>1
  <2>3. [u.type EXCEPT ![2] = d] = t BY <1>6, <2>1
  <2>4. PICK r : r = [u EXCEPT !.type = t] OBVIOUS
  <2>5. [u EXCEPT !.type[2] = d] = r BY <1>3, <2>3, <2>4 DEF UnitRecord
  <2> QED BY <1>1, <1>2, <1>13, <2>2, <2>4, <2>5, TypeStep
<1> QED BY <1>11, <1>12, <1>13

-----------------------------------------------------------------------------
(* Battles and items.                                                      *)

(* In the main menu there is no cursor.                                    *)
LEMMA MainStep ==
  ASSUME IInv, PlayerOK', menu = "main", UNCHANGED <<file, menu, cur>>
  PROVE  IInv'
<1>1. MenuOK' /\ menu' # "saving" BY DEF IInv, MenuOK, CursorAtUnit
<1> QED BY <1>1, StillOK

LEMMA EndlessStep == ASSUME IInv, Endless PROVE IInv'
<1>1. menu = "main" /\ UNCHANGED <<file, menu, cur>> BY DEF Endless, Fights
<1>2. PICK n \in 1 .. MaxEarned : pd' = EndlessWins(pd, n) BY DEF Endless
<1>3. Good(pd) /\ TreeFits(pd) BY DEF IInv, PlayerOK
<1>4. n \in Nat OBVIOUS
<1>5. Good(pd') /\ SameThings(pd, pd') BY <1>2, <1>3, <1>4, WinsGood
<1>6. TreeFits(pd') BY <1>3, <1>5 DEF SameThings, TreeFits
<1> QED BY <1>1, <1>5, <1>6, MainStep DEF PlayerOK

(* Items are given or taken, of a player whose level may have changed.     *)
LEMMA GiveOK ==
  ASSUME NEW p, Good(p), TreeFits(p), NEW n \in Int
  PROVE  Good(GiveItem(p, n)) /\ TreeFits(GiveItem(p, n))
<1>1. p \in Player BY DEF Good
<1>2. PICK i \in Few : p.tree \in {Fresh(i), Kept(i)} BY DEF TreeFits
<1>3. PICK t : t = WithKey(p.tree, "items") OBVIOUS
<1>4. t \in {Fresh("items"), Kept("items")} BY <1>2, <1>3, WithItems
<1>5. "items" \in Few BY DEF Few
<1>6. t \in Tree BY <1>4, <1>5, ShapesAreTrees
<1> PICK m \in Nat : m = p.items BY <1>1, PlayerFields
<1> PICK k \in Nat : k = IF m + n < 0 THEN 0 ELSE m + n OBVIOUS
<1>7. PICK q : q = [p EXCEPT !.tree = t, !.items = k] OBVIOUS
<1>8. GiveItem(p, n) = q BY <1>3, <1>7 DEF GiveItem
<1>9. q \in Player BY <1>1, <1>6, <1>7 DEF Player
<1>10. /\ q.ui = p.ui /\ q.storage = p.storage /\ q.items = k /\ q.xp = p.xp
       /\ q.level = p.level /\ q.highest = p.highest /\ q.won = p.won /\ q.tree = t
  BY <1>1, <1>7 DEF Player
<1>11. Good(q) BY <1>9, <1>10, StaysGood DEF SameUnits, Good, HighestIsHighest
<1>12. TreeFits(q) BY <1>4, <1>5, <1>10 DEF TreeFits
<1> QED BY <1>8, <1>11, <1>12

LEMMA MirrorBattlingStep == ASSUME IInv, MirrorBattling PROVE IInv'
<1>1. /\ menu = "main" /\ UNCHANGED <<file, menu, cur>> /\ pd' = GiveItem(pd, 1)
  BY DEF MirrorBattling, Fights
<1>2. Good(pd) /\ TreeFits(pd) BY DEF IInv, PlayerOK
<1> PICK n \in Int : n = 1 OBVIOUS
<1>3. Good(pd') /\ TreeFits(pd') BY <1>1, <1>2, GiveOK
<1> QED BY <1>1, <1>3, MainStep DEF PlayerOK

LEMMA EndlessCreamStep == ASSUME IInv, EndlessCream PROVE IInv'
<1>1. PICK p : p = [pd EXCEPT !.level = 1] OBVIOUS
<1>2. PICK n \in Int : n = -1 OBVIOUS
<1>3. /\ menu = "main" /\ UNCHANGED <<file, menu, cur>> /\ pd' = GiveItem(p, n)
  BY <1>1, <1>2 DEF EndlessCream
<1>4. Good(pd) /\ TreeFits(pd) /\ pd \in Player BY DEF IInv, PlayerOK, Good
<1>5. p \in Player BY <1>1, <1>4 DEF Player
<1>6. /\ p.ui = pd.ui /\ p.storage = pd.storage /\ p.items = pd.items /\ p.xp = pd.xp
      /\ p.level = 1 /\ p.highest = pd.highest /\ p.won = pd.won /\ p.tree = pd.tree
  BY <1>1, <1>4 DEF Player
<1>7. HighestIsHighest(p)
  <2>1. pd.highest \in Nat /\ pd.level \in Nat \ {0} /\ pd.highest >= pd.level
    BY <1>4, PlayerFields DEF Good, HighestIsHighest
  <2>2. pd.highest >= 1 BY <2>1
  <2> QED BY <1>6, <2>2 DEF HighestIsHighest
<1>8. Good(p) BY <1>4, <1>5, <1>6, <1>7, StaysGood DEF SameUnits
<1>9. TreeFits(p) BY <1>4, <1>6 DEF TreeFits
<1>10. Good(pd') /\ TreeFits(pd') BY <1>3, <1>8, <1>9, GiveOK
<1> QED BY <1>3, <1>10, MainStep DEF PlayerOK

-----------------------------------------------------------------------------
(* The theorems.                                                           *)

LEMMA NextHolds == IInv /\ [Next]_vars => IInv'
<1> SUFFICES ASSUME IInv, [Next]_vars PROVE IInv'
  OBVIOUS
<1>1. CASE UNCHANGED vars
  <2>1. pd' = pd /\ file' = file /\ menu' = menu /\ cur' = cur BY <1>1 DEF vars
  <2>2. PlayerOK' /\ MenuOK' BY <2>1 DEF IInv, PlayerOK, MenuOK, CursorAtUnit
  <2>3. FileOK' BY <2>1, FileStays DEF IInv
  <2>4. SavingOK' BY <2>1 DEF IInv, SavingOK
  <2> QED BY <2>2, <2>3, <2>4 DEF IInv
<1>2. CASE Load \/ Exit \/ Write \/ Crash
  BY <1>2, LoadStep, ExitStep, WriteStep, CrashStep
<1>3. CASE OpenUnits \/ LeaveUnits \/ UnitDown \/ UnitUp \/ UnitTop \/ UnitRaise \/ UnitLower
  BY <1>3, OpenUnitsStep, LeaveStep, UnitDownStep, UnitUpStep, MoveStep
<1>4. CASE Store \/ LevelUp \/ LevelMax \/ Evolve \/ SelectType
  BY <1>4, StoreStep, LevelUpStep, LevelMaxStep, EvolveStep, SelectTypeStep
<1>5. CASE OpenStorage \/ LeaveStorage \/ StorageDown \/ StorageUp \/ Deploy
  BY <1>5, OpenStorageStep, LeaveStep, StorageMoveStep, DeployStep
<1>6. CASE Endless \/ MirrorBattling \/ EndlessCream
  BY <1>6, EndlessStep, MirrorBattlingStep, EndlessCreamStep
<1> QED BY <1>1, <1>2, <1>3, <1>4, <1>5, <1>6 DEF Next

LEMMA Invariant == Spec => []IInv
<1>1. Init => IInv BY InitHolds
<1>2. IInv /\ [Next]_vars => IInv' BY NextHolds
<1> QED BY <1>1, <1>2, PTL DEF Spec

LEMMA FileKeys ==
  ASSUME FileOK
  PROVE  ToSet(file.keys) \subseteq Key
<1> PICK i \in Few : \E n \in 0 .. Len(WriteOrder(Kept(i))) :
        /\ file.keys = SubSeq(WriteOrder(Kept(i)), 1, n)
        /\ file.content.items > 0 => i = "items"
  BY DEF FileOK
<1> PICK n \in 0 .. Len(WriteOrder(Kept(i))) :
        file.keys = SubSeq(WriteOrder(Kept(i)), 1, n)
  OBVIOUS
<1> PICK w : w = WriteOrder(Kept(i)) OBVIOUS
<1>1. Order(i, w) BY KeptOrder
<1>2. w \in Seq(Key) BY <1>1 DEF Order, Row4, Row5
<1>3. \A j \in 1 .. n : w[j] \in Key BY <1>2, ElementOfSeq
<1>4. SubSeq(w, 1, n) \in Seq(Key) BY <1>3, SubSeqProperties
<1> PICK k \in Seq(Key) : k = file.keys BY <1>4
<1>5. \A j \in DOMAIN k : k[j] \in Key OBVIOUS
<1> QED BY <1>5 DEF ToSet

LEMMA SelectedDiffer == ASSUME NEW p, AllSelected(p) PROVE AllTypesDiffer(p)
BY DEF AllSelected, AllTypesDiffer, Selected, TypesDiffer

LEMMA Implied == IInv => UnitsAreKept /\ XpIsKept
<1> SUFFICES ASSUME IInv PROVE UnitsAreKept /\ XpIsKept
  OBVIOUS
<1>1. Good(pd) /\ FileOK /\ MenuOK BY DEF IInv, PlayerOK
<1>2. TypeOK BY <1>1, FileKeys DEF TypeOK, Good, FileOK, MenuOK
<1>3. AllTypesDiffer(pd) BY <1>1, SelectedDiffer DEF Good
<1>4. UnitsAreKept BY <1>1, <1>2, <1>3 DEF UnitsAreKept, Good, MenuOK
<1> QED BY <1>1, <1>4 DEF XpIsKept, Good

(* However the units are moved, raised and evolved, stored and deployed,   *)
(* saved and loaded, and whenever the process dies: each unit that a new   *)
(* player got is in one slot or in the storage, and in one place only; no  *)
(* empty slot is before a unit, where pdata_save() would stop; the cursor  *)
(* of units_menu() and storage_menu() is at a unit; and the types of a     *)
(* unit that can select them differ.                                       *)
THEOREM UnitsKept == Spec => []UnitsAreKept
BY Invariant, Implied, PTL

(* The experience that endless levels gave is there or in the units, as    *)
(* xp_require(), xp_require_fromto() and xp_require_evo() charge it, in    *)
(* whatever order units rise and evolve.                                   *)
THEOREM XpKept == Spec => []XpIsKept
BY Invariant, Implied, PTL

(* pdata_load() gives back what pdata_save() was given, or a new player    *)
(* when write() did not write all of it; never a part of it.               *)
THEOREM LoadedWhole == Spec => LoadedWholeOrNew
<1>1. IInv /\ [Next]_vars =>
        [Load /\ menu' = "main" =>
           Content(pd') = IF Complete THEN file.content ELSE NewContent]_vars
  BY LoadStep
<1> QED BY <1>1, Invariant, PTL DEF Spec, LoadedWholeOrNew
=============================================================================
