---------------------------- MODULE Adapters_proofs ----------------------------
(***************************************************************************)
(* Theorems about the two stores, for every set of names, targets and       *)
(* moments, every limit of a history and every number of rows.              *)
(***************************************************************************)
EXTENDS Adapters, SequenceTheorems, FiniteSetTheorems, TLAPS

-----------------------------------------------------------------------------
(* What Pick keeps of a sequence.                                           *)

(* The rank of a member counts from 1 to the size of the set, in order, and  *)
(* every number in between is the rank of one: Nth is its inverse.           *)
LEMMA RankProperties ==
  ASSUME NEW n \in Nat, NEW I \in SUBSET (1 .. n)
  PROVE  /\ IsFiniteSet(I) /\ Cardinality(I) \in 0 .. n
         /\ \A i \in I : Rank(I, i) \in 1 .. Cardinality(I)
         /\ \A i, j \in I : i < j => Rank(I, i) < Rank(I, j)
<1>1. IsFiniteSet(I) /\ Cardinality(I) \in Nat /\ Cardinality(I) <= n
  <2>1. IsFiniteSet(1 .. n) /\ Cardinality(1 .. n) = n
    BY FS_Interval
  <2> QED BY <2>1, FS_Subset, FS_CardinalityType
<1> DEFINE Upto(i) == {j \in I : j <= i}
<1>2. \A i \in I : IsFiniteSet(Upto(i)) /\ Cardinality(Upto(i)) \in 1 .. Cardinality(I)
  <2> SUFFICES ASSUME NEW i \in I
               PROVE  IsFiniteSet(Upto(i)) /\ Cardinality(Upto(i)) \in 1 .. Cardinality(I)
    OBVIOUS
  <2>1. Upto(i) \subseteq I /\ i \in Upto(i)
    OBVIOUS
  <2> HIDE DEF Upto
  <2>2. /\ IsFiniteSet(Upto(i)) /\ Cardinality(Upto(i)) <= Cardinality(I)
        /\ Cardinality(Upto(i)) \in Nat
    BY <1>1, <2>1, FS_Subset, FS_CardinalityType
  <2>3. Cardinality(Upto(i)) # 0
    BY <2>1, <2>2, FS_EmptySet
  <2> QED BY <1>1, <2>2, <2>3
<1>3. \A i, j \in I : i < j => Cardinality(Upto(i)) < Cardinality(Upto(j))
  <2> SUFFICES ASSUME NEW i \in I, NEW j \in I, i < j
               PROVE  Cardinality(Upto(i)) < Cardinality(Upto(j))
    OBVIOUS
  <2>0. (\A l \in I : l <= i => l <= j) /\ j <= j /\ ~(j <= i)
    OBVIOUS
  <2>1. Upto(i) \subseteq Upto(j) /\ j \in Upto(j) /\ j \notin Upto(i)
    BY <2>0, Zenon
  <2>2. IsFiniteSet(Upto(j)) /\ IsFiniteSet(Upto(i))
    BY <1>2
  <2> HIDE DEF Upto
  <2>3. Upto(i) # Upto(j)
    BY <2>1
  <2> QED BY <2>1, <2>2, <2>3, FS_Subset, FS_CardinalityType
<1> QED BY <1>1, <1>2, <1>3 DEF Rank

LEMMA NthProperties ==
  ASSUME NEW n \in Nat, NEW I \in SUBSET (1 .. n)
  PROVE  /\ \A k \in 1 .. Cardinality(I) : Nth(I, k) \in I /\ Rank(I, Nth(I, k)) = k
         /\ \A i \in I : Nth(I, Rank(I, i)) = i
         /\ \A k, l \in 1 .. Cardinality(I) : k < l => Nth(I, k) < Nth(I, l)
<1> DEFINE c == Cardinality(I)
           f == [i \in I |-> Rank(I, i)]
<1>1. /\ IsFiniteSet(I) /\ c \in 0 .. n
      /\ \A i \in I : Rank(I, i) \in 1 .. c
      /\ \A i, j \in I : i < j => Rank(I, i) < Rank(I, j)
  BY RankProperties
<1>2. \A i, j \in I : Rank(I, i) = Rank(I, j) => i = j
  <2> SUFFICES ASSUME NEW i \in I, NEW j \in I, i # j PROVE Rank(I, i) # Rank(I, j)
    OBVIOUS
  <2>1. i < j \/ j < i
    OBVIOUS
  <2> QED BY <1>1, <2>1
<1>3. f \in Injection(I, 1 .. c)
  BY <1>1, <1>2 DEF Injection, IsInjective
<1>4. \A k \in 1 .. c : \E i \in I : Rank(I, i) = k
  <2>1. IsFiniteSet(1 .. c) /\ Cardinality(1 .. c) = c
    BY <1>1, FS_Interval
  <2>2. f \in Surjection(I, 1 .. c)
    BY <1>3, <2>1, FS_Injection
  <2> QED BY <2>2 DEF Surjection
<1>5. \A k \in 1 .. c : Nth(I, k) \in I /\ Rank(I, Nth(I, k)) = k
  BY <1>4 DEF Nth
<1>6. \A i \in I : Nth(I, Rank(I, i)) = i
  BY <1>1, <1>2, <1>5
<1>7. ASSUME NEW k \in 1 .. c, NEW l \in 1 .. c, k < l PROVE Nth(I, k) < Nth(I, l)
  <2> DEFINE a == Nth(I, k)
             b == Nth(I, l)
  <2>1. a \in I /\ b \in I /\ Rank(I, a) = k /\ Rank(I, b) = l
    BY <1>5
  <2> HIDE DEF a, b
  <2>2. a # b /\ ~(b < a)
    BY <1>1, <1>7, <2>1
  <2>3. a < b
    BY <2>1, <2>2
  <2> QED BY <2>3 DEF a, b
<1> QED BY <1>5, <1>6, <1>7

Image(g, J) == {g[j] : j \in J}

(* An increasing renumbering of places keeps their ranks.                   *)
LEMMA RenumberProperties ==
  ASSUME NEW m \in Nat, NEW n \in Nat, NEW J \in SUBSET (1 .. m),
         NEW g \in [1 .. m -> 1 .. n],
         \A i, j \in 1 .. m : i < j => g[i] < g[j]
  PROVE  /\ Image(g, J) \in SUBSET (1 .. n)
         /\ Cardinality(Image(g, J)) = Cardinality(J)
         /\ \A k \in 1 .. Cardinality(J) : Nth(Image(g, J), k) = g[Nth(J, k)]
<1> DEFINE M == {g[j] : j \in J}
           JUpto(j) == {l \in J : l <= j}
           MUpto(i) == {l \in M : l <= i}
<1>1. \A i, j \in J : (g[i] <= g[j] <=> i <= j) /\ (g[i] = g[j] => i = j)
  <2> SUFFICES ASSUME NEW i \in J, NEW j \in J
               PROVE  (g[i] <= g[j] <=> i <= j) /\ (g[i] = g[j] => i = j)
    OBVIOUS
  <2>1. i \in 1 .. m /\ j \in 1 .. m /\ g[i] \in 1 .. n /\ g[j] \in 1 .. n
    OBVIOUS
  <2>2. i < j \/ i = j \/ j < i
    BY <2>1
  <2> QED BY <2>1, <2>2
<1>2. M \in SUBSET (1 .. n)
  OBVIOUS
<1>3. IsFiniteSet(J)
  BY RankProperties
<1>4. ASSUME NEW T \in SUBSET J
      PROVE  Cardinality({g[j] : j \in T}) = Cardinality(T)
  <2> DEFINE f == [j \in T |-> g[j]]
  <2>1. f \in Bijection(T, {g[j] : j \in T})
    BY <1>1 DEF Bijection, Injection, Surjection, IsInjective
  <2>2. IsFiniteSet(T) /\ ExistsBijection(T, {g[j] : j \in T})
    BY <1>3, <2>1, FS_Subset DEF ExistsBijection
  <2> QED BY <2>2, FS_Bijection
<1>5. Cardinality(M) = Cardinality(J)
  BY <1>4
<1>6. \A j \in J : Rank(M, g[j]) = Rank(J, j)
  <2> SUFFICES ASSUME NEW j \in J PROVE Rank(M, g[j]) = Rank(J, j)
    OBVIOUS
  <2>1. MUpto(g[j]) = {g[l] : l \in JUpto(j)}
    BY <1>1
  <2>2. JUpto(j) \in SUBSET J
    OBVIOUS
  <2>3. Cardinality(MUpto(g[j])) = Cardinality(JUpto(j))
    BY <1>4, <2>1, <2>2
  <2> QED BY <2>3 DEF Rank
<1> HIDE DEF M
<1>7. ASSUME NEW k \in 1 .. Cardinality(J) PROVE Nth(M, k) = g[Nth(J, k)]
  <2>1. Nth(J, k) \in J /\ Rank(J, Nth(J, k)) = k
    BY NthProperties
  <2>2. g[Nth(J, k)] \in M /\ Rank(M, g[Nth(J, k)]) = k
    BY <1>6, <2>1 DEF M
  <2> QED BY <1>2, <2>2, NthProperties
<1>8. M = Image(g, J)
  BY DEF M, Image
<1> QED BY <1>2, <1>5, <1>7, <1>8

LEMMA FunctionIsSeq ==
  ASSUME NEW S, NEW n \in Nat, NEW f \in [1 .. n -> S]
  PROVE  f \in Seq(S) /\ Len(f) = n
<1>1. f \in Seq(S)
  BY SeqDef
<1>2. Len(f) \in Nat /\ DOMAIN f = 1 .. Len(f)
  BY <1>1, LenProperties
<1>3. 1 .. n = 1 .. Len(f)
  BY <1>2
<1>4. ~(n < Len(f)) /\ ~(Len(f) < n)
  BY <1>2, <1>3
<1> QED BY <1>1, <1>2, <1>4

(* Pick yields a sequence of members of s, as many as places were given.    *)
LEMMA PickProperties ==
  ASSUME NEW S, NEW s \in Seq(S), NEW I \in SUBSET (1 .. Len(s))
  PROVE  /\ Pick(s, I) \in Seq(S)
         /\ Len(Pick(s, I)) = Cardinality(I) /\ Cardinality(I) \in 0 .. Len(s)
         /\ \A k \in 1 .. Cardinality(I) : Pick(s, I)[k] = s[Nth(I, k)]
         /\ \A k \in 1 .. Cardinality(I) : Nth(I, k) \in I
<1>1. Len(s) \in Nat /\ s \in [1 .. Len(s) -> S]
  BY LenProperties
<1>2. Cardinality(I) \in 0 .. Len(s)
  BY <1>1, RankProperties
<1>3. \A k \in 1 .. Cardinality(I) : Nth(I, k) \in I
  BY <1>1, NthProperties
<1>4. \A k \in 1 .. Cardinality(I) : s[Nth(I, k)] \in S
  BY <1>1, <1>3
<1>5. Pick(s, I) \in [1 .. Cardinality(I) -> S]
  BY <1>4 DEF Pick
<1>6. Pick(s, I) \in Seq(S) /\ Len(Pick(s, I)) = Cardinality(I)
  BY <1>2, <1>5, FunctionIsSeq
<1> QED BY <1>2, <1>3, <1>6 DEF Pick

(* One more element, kept or not.                                           *)
LEMMA PickAppend ==
  ASSUME NEW S, NEW s \in Seq(S), NEW x \in S, NEW I \in SUBSET (1 .. Len(s))
  PROVE  /\ Pick(Append(s, x), I) = Pick(s, I)
         /\ Pick(Append(s, x), I \union {Len(s) + 1}) = Append(Pick(s, I), x)
<1> DEFINE n == Len(s)
           c == Cardinality(I)
           a == Append(s, x)
           J == I \union {n + 1}
<1>1. /\ n \in Nat /\ a \in Seq(S) /\ Len(a) = n + 1 /\ a[n + 1] = x
      /\ \A i \in 1 .. n : a[i] = s[i]
  BY AppendProperties, LenProperties
<1>2. c \in 0 .. n /\ IsFiniteSet(I) /\ \A i \in I : Rank(I, i) \in 1 .. c
  BY <1>1, RankProperties
<1>3. \A k \in 1 .. c : Nth(I, k) \in I /\ Rank(I, Nth(I, k)) = k
  BY <1>1, NthProperties
<1>4. n + 1 \notin I /\ J \in SUBSET (1 .. n + 1) /\ Cardinality(J) = c + 1
  <2>1. \A i \in I : i \in 1 .. n
    OBVIOUS
  <2>2. n + 1 \notin I
    BY <1>1, <2>1
  <2>3. \A i \in J : i \in 1 .. n + 1
    BY <1>1, <2>1
  <2>4. Cardinality(J) = c + 1
    BY <1>2, <2>2, FS_AddElement
  <2> HIDE DEF J, n
  <2>5. J \in SUBSET (1 .. n + 1)
    BY <2>3
  <2> QED BY <2>2, <2>4, <2>5
<1>5. \A k \in 1 .. c : Nth(J, k) = Nth(I, k)
  <2> SUFFICES ASSUME NEW k \in 1 .. c PROVE Nth(J, k) = Nth(I, k)
    OBVIOUS
  <2>1. PICK i \in I : i = Nth(I, k) /\ Rank(I, i) = k
    BY <1>3
  <2>2. {j \in J : j <= i} = {j \in I : j <= i}
    BY <1>1
  <2>3. i \in J /\ Rank(J, i) = k
    BY <2>1, <2>2 DEF Rank
  <2>4. n + 1 \in Nat
    BY <1>1
  <2> HIDE DEF J, n
  <2> QED BY <1>4, <2>1, <2>3, <2>4, NthProperties
<1>6. Nth(J, c + 1) = n + 1
  <2>1. \A j \in J : j \in 1 .. n + 1
    BY <1>4
  <2>2. n + 1 \in J /\ n + 1 \in Nat
    BY <1>1
  <2> HIDE DEF J, n
  <2>3. {j \in J : j <= n + 1} = J
    BY <2>1, <2>2
  <2>4. Rank(J, n + 1) = c + 1
    BY <1>4, <2>3 DEF Rank
  <2> QED BY <1>4, <2>2, <2>4, NthProperties
<1> HIDE DEF a, J
<1>7. \A k \in 1 .. c : a[Nth(I, k)] = s[Nth(I, k)]
  BY <1>1, <1>3
<1>8. Pick(a, I) = Pick(s, I)
  BY <1>7 DEF Pick
<1>9. Pick(a, J) = Append(Pick(s, I), x)
  <2> DEFINE p == Pick(s, I)
             q == Pick(a, J)
  <2>1. /\ p \in Seq(S) /\ Len(p) = c
        /\ \A k \in 1 .. c : p[k] = s[Nth(I, k)]
    BY PickProperties
  <2>2. /\ q \in Seq(S) /\ Len(q) = c + 1
        /\ \A k \in 1 .. c + 1 : q[k] = a[Nth(J, k)]
    BY <1>1, <1>4, PickProperties
  <2> HIDE DEF p, q
  <2>3. /\ Append(p, x) \in Seq(S) /\ Len(Append(p, x)) = c + 1
        /\ Append(p, x)[c + 1] = x /\ \A k \in 1 .. c : Append(p, x)[k] = p[k]
    BY <2>1, AppendProperties
  <2>4. \A k \in 1 .. c + 1 : q[k] = Append(p, x)[k]
    <3>1. \A k \in 1 .. c : q[k] = Append(p, x)[k]
      BY <1>2, <1>5, <1>7, <2>1, <2>2, <2>3
    <3>2. q[c + 1] = Append(p, x)[c + 1]
      BY <1>1, <1>2, <1>6, <2>2, <2>3
    <3>3. \A k \in 1 .. c + 1 : k \in 1 .. c \/ k = c + 1
      BY <1>1, <1>2
    <3> QED BY <3>1, <3>2, <3>3
  <2>5. q = Append(p, x)
    BY <2>2, <2>3, <2>4, SeqEqual
  <2> QED BY <2>5 DEF p, q
<1> QED BY <1>8, <1>9 DEF a, J

(* Picking from what was picked.                                            *)
LEMMA PickPick ==
  ASSUME NEW S, NEW s \in Seq(S), NEW K \in SUBSET (1 .. Len(s)),
         NEW J \in SUBSET (1 .. Cardinality(K))
  PROVE  /\ {Nth(K, j) : j \in J} \in SUBSET K
         /\ Pick(Pick(s, K), J) = Pick(s, {Nth(K, j) : j \in J})
<1> DEFINE m == Cardinality(K)
           g == [k \in 1 .. m |-> Nth(K, k)]
           M == {g[j] : j \in J}
<1>1. Len(s) \in Nat /\ m \in 0 .. Len(s)
  BY LenProperties, RankProperties
<1>2. /\ \A k \in 1 .. m : Nth(K, k) \in K
      /\ \A k, l \in 1 .. m : k < l => Nth(K, k) < Nth(K, l)
  BY <1>1, NthProperties
<1>3. /\ M \in SUBSET (1 .. Len(s)) /\ Cardinality(M) = Cardinality(J)
      /\ \A k \in 1 .. Cardinality(J) : Nth(M, k) = g[Nth(J, k)]
  <2>1. \A i, j \in 1 .. m : i < j => g[i] < g[j]
    BY <1>2
  <2>2. g \in [1 .. m -> 1 .. Len(s)]
    BY <1>2
  <2>3. m \in Nat
    BY <1>1
  <2>4. M = Image(g, J)
    BY Zenon DEF Image
  <2>5. J \in SUBSET (1 .. m)
    OBVIOUS
  <2> HIDE DEF g, m, M
  <2>6. /\ Image(g, J) \in SUBSET (1 .. Len(s))
        /\ Cardinality(Image(g, J)) = Cardinality(J)
        /\ \A k \in 1 .. Cardinality(J) : Nth(Image(g, J), k) = g[Nth(J, k)]
    BY <1>1, <2>1, <2>2, <2>3, <2>5, RenumberProperties
  <2> QED BY <2>4, <2>6
<1>4. M = {Nth(K, j) : j \in J} /\ M \in SUBSET K
  BY <1>2
<1>5. /\ Cardinality(J) \in 0 .. m
      /\ \A k \in 1 .. Cardinality(J) : Nth(J, k) \in J
  <2> m \in Nat
    BY <1>1
  <2> HIDE DEF m
  <2> J \in SUBSET (1 .. m)
    BY DEF m
  <2> QED BY RankProperties, NthProperties
<1>6. \A k \in 1 .. Cardinality(J) :
        Pick(s, K)[Nth(J, k)] = s[Nth(M, k)]
  BY <1>3, <1>5 DEF Pick
<1>7. Pick(Pick(s, K), J) = Pick(s, M)
  BY <1>3, <1>6 DEF Pick
<1> QED BY <1>4, <1>7

(* The newest of what was picked, when nothing newer is left out.           *)
LEMMA PickNewest ==
  ASSUME NEW S, NEW s \in Seq(S), NEW I \in SUBSET (1 .. Len(s)), NEW J \in SUBSET I,
         \A i \in I, j \in J : j < i => i \in J
  PROVE  /\ Cardinality(J) <= Cardinality(I)
         /\ \A k \in 1 .. Cardinality(J) :
              Pick(s, J)[k] = Pick(s, I)[Cardinality(I) - Cardinality(J) + k]
         /\ \A k \in 1 .. Cardinality(I) :
              Nth(I, k) \in J <=> k > Cardinality(I) - Cardinality(J)
<1> DEFINE n == Len(s)
           c == Cardinality(I)
           d == Cardinality(J)
<1>1. n \in Nat /\ J \in SUBSET (1 .. n) /\ \A i \in I : i \in Int
  BY LenProperties
<1>2. /\ c \in Nat /\ d \in Nat /\ IsFiniteSet(I) /\ IsFiniteSet(J)
      /\ d <= c
  <2>1. IsFiniteSet(I)
    BY <1>1, RankProperties
  <2> QED BY <2>1, FS_Subset, FS_CardinalityType
<1>3. ASSUME NEW j \in J PROVE Rank(I, j) = c - d + Rank(J, j)
  <2> DEFINE old == I \ J
             new == {i \in J : i <= j}
             all == {i \in I : i <= j}
  <2>1. all = old \union new /\ old \intersect new = {}
    <3>1. \A i \in old : i <= j
      BY <1>1
    <3>2. all \subseteq old \union new /\ new \subseteq all
      OBVIOUS
    <3>3. old \subseteq all
      BY <3>1, Zenon
    <3>4. old \intersect new = {}
      OBVIOUS
    <3> HIDE DEF old, new, all
    <3> QED BY <3>2, <3>3, <3>4
  <2>2. IsFiniteSet(old) /\ Cardinality(old) = c - d
    <3>1. I \intersect J = J
      OBVIOUS
    <3> QED BY <1>2, <3>1, FS_Difference
  <2>3. new \in SUBSET J
    OBVIOUS
  <2>4. IsFiniteSet(new) /\ Cardinality(new) \in Nat
    BY <1>2, <2>3, FS_Subset, FS_CardinalityType
  <2> HIDE DEF old, new, all
  <2>5. Cardinality(all) = Cardinality(old) + Cardinality(new)
    <3>1. Cardinality(all) = Cardinality(old) + Cardinality(new) - Cardinality({})
      BY <2>1, <2>2, <2>4, FS_Union
    <3> QED BY <1>2, <2>2, <2>4, <3>1, FS_EmptySet
  <2> QED BY <2>2, <2>5 DEF all, new, Rank
<1>4. ASSUME NEW k \in 1 .. d PROVE Nth(J, k) = Nth(I, c - d + k)
  <2>1. Nth(J, k) \in J /\ Rank(J, Nth(J, k)) = k
    BY <1>1, NthProperties
  <2>2. Nth(J, k) \in I /\ Rank(I, Nth(J, k)) = c - d + k
    BY <1>3, <2>1
  <2> QED BY <1>1, <2>2, NthProperties
<1>5. \A k \in 1 .. d : c - d + k \in 1 .. c
  BY <1>2
<1>6. ASSUME NEW k \in 1 .. c PROVE Nth(I, k) \in J <=> k > c - d
  <2>1. ASSUME Nth(I, k) \in J PROVE k > c - d
    <3>1. Rank(J, Nth(I, k)) \in 1 .. d
      BY <1>1, <2>1, RankProperties
    <3>2. Rank(I, Nth(I, k)) = k
      BY <1>1, NthProperties
    <3>3. Rank(I, Nth(I, k)) = c - d + Rank(J, Nth(I, k))
      BY <1>3, <2>1
    <3> HIDE DEF c, d
    <3>4. c - d + Rank(J, Nth(I, k)) > c - d
      BY <1>2, <3>1
    <3> QED BY <3>2, <3>3, <3>4
  <2>2. ASSUME k > c - d PROVE Nth(I, k) \in J
    <3>1. k - (c - d) \in 1 .. d /\ c - d + (k - (c - d)) = k
      BY <1>2, <2>2
    <3>2. Nth(J, k - (c - d)) = Nth(I, k)
      BY <1>4, <3>1
    <3>3. \A i \in 1 .. d : Nth(J, i) \in J
      BY <1>1, NthProperties
    <3>4. Nth(J, k - (c - d)) \in J
      BY <3>1, <3>3, Zenon
    <3> QED BY <3>2, <3>4
  <2> QED BY <2>1, <2>2
<1> QED BY <1>2, <1>4, <1>5, <1>6 DEF Pick

(* Picking every place.                                                     *)
LEMMA NthOfAll ==
  ASSUME NEW n \in Nat
  PROVE  Cardinality(1 .. n) = n /\ \A k \in 1 .. n : Nth(1 .. n, k) = k
<1>1. Cardinality(1 .. n) = n
  BY FS_Interval
<1>2. ASSUME NEW k \in 1 .. n PROVE Nth(1 .. n, k) = k
  <2>1. {j \in 1 .. n : j <= k} = 1 .. k
    OBVIOUS
  <2>2. Cardinality(1 .. k) = k
    BY FS_Interval
  <2>3. Rank(1 .. n, k) = k
    BY <2>1, <2>2 DEF Rank
  <2> DEFINE I == 1 .. n
  <2>4. I \in SUBSET (1 .. n) /\ k \in I
    OBVIOUS
  <2>5. Rank(I, k) = k
    BY <2>3
  <2> HIDE DEF I
  <2>6. Nth(I, k) = k
    BY <2>4, <2>5, NthProperties
  <2> QED BY <2>6 DEF I
<1> QED BY <1>1, <1>2

-----------------------------------------------------------------------------
(* The seconds by which the port knows results, and the newest of them.     *)

LEMMA SecondProperties ==
  /\ \A a \in Nat : Second(a) \in Nat
  /\ \A a, b \in Nat : a <= b => Second(a) <= Second(b)
BY DEF Second

(* LastN is the newest part of a sequence: LIMIT in sqlite.go, h[len-60:] in *)
(* memory.go.                                                               *)
LEMMA LastNProperties ==
  ASSUME NEW S, NEW s \in Seq(S), NEW n \in Nat
  PROVE  /\ LastN(s, n) \in Seq(S)
         /\ Len(LastN(s, n)) = IF Len(s) > n THEN n ELSE Len(s)
         /\ \A i \in 1 .. Len(LastN(s, n)) :
              LastN(s, n)[i] = s[Len(s) - Len(LastN(s, n)) + i]
<1>1. CASE Len(s) > n
  <2>1. LastN(s, n) = SubSeq(s, Len(s) - n + 1, Len(s))
    BY <1>1 DEF LastN
  <2>2. /\ Len(s) \in Nat
        /\ Len(s) - n + 1 \in 1 .. Len(s) + 1
        /\ Len(s) \in Len(s) - n .. Len(s)
    BY <1>1, LenProperties
  <2>3. /\ SubSeq(s, Len(s) - n + 1, Len(s)) \in Seq(S)
        /\ Len(SubSeq(s, Len(s) - n + 1, Len(s))) = n
        /\ \A i \in 1 .. n :
             SubSeq(s, Len(s) - n + 1, Len(s))[i] = s[Len(s) - n + i]
    BY <1>1, <2>2, SubSeqProperties
  <2> QED BY <1>1, <2>1, <2>3
<1>2. CASE ~(Len(s) > n)
  <2>1. LastN(s, n) = s
    BY <1>2 DEF LastN
  <2>2. Len(s) \in Nat /\ \A i \in 1 .. Len(s) : Len(s) - Len(s) + i = i
    BY LenProperties
  <2> QED BY <1>2, <2>1, <2>2
<1> QED BY <1>1, <1>2

Seconds(h) == [i \in 1 .. Len(h) |-> Second(h[i])]

LEMMA SecondsProperties ==
  ASSUME NEW h \in Seq(Nat)
  PROVE  /\ Seconds(h) \in Seq(Nat) /\ Len(Seconds(h)) = Len(h)
         /\ \A i \in 1 .. Len(h) : Seconds(h)[i] = Second(h[i])
<1>1. Len(h) \in Nat /\ \A i \in 1 .. Len(h) : h[i] \in Nat
  BY LenProperties
<1>2. Seconds(h) \in [1 .. Len(h) -> Nat]
  BY <1>1, SecondProperties DEF Seconds
<1> QED BY <1>1, <1>2, FunctionIsSeq DEF Seconds

(* A history that is cut when it is saved ends as one cut when it is read.  *)
LEMMA LastNOfAppend ==
  ASSUME NEW S, NEW s \in Seq(S), NEW x \in S, NEW n \in Nat \ {0}
  PROVE  LastN(Append(LastN(s, n), x), n) = LastN(Append(s, x), n)
<1> DEFINE a == LastN(s, n)
           b == Append(a, x)
           c == Append(s, x)
           p == LastN(b, n)
           q == LastN(c, n)
           l == Len(s)
           k == IF l > n THEN n ELSE l
<1>1. /\ l \in Nat /\ a \in Seq(S) /\ Len(a) = k
      /\ \A i \in 1 .. k : a[i] = s[l - k + i]
  <2>1. l \in Nat
    BY LenProperties
  <2>2. /\ a \in Seq(S) /\ Len(a) = k
        /\ \A i \in 1 .. Len(a) : a[i] = s[l - Len(a) + i]
    BY LastNProperties
  <2> HIDE DEF a, l, k
  <2> QED BY <2>1, <2>2
<1> HIDE DEF a
<1>2. /\ b \in Seq(S) /\ Len(b) = k + 1 /\ b[k + 1] = x
      /\ \A i \in 1 .. k : b[i] = a[i]
  BY <1>1, AppendProperties
<1>3. /\ c \in Seq(S) /\ Len(c) = l + 1 /\ c[l + 1] = x
      /\ \A i \in 1 .. l : c[i] = s[i]
  BY AppendProperties
<1> HIDE DEF b, c
<1>4. /\ p \in Seq(S) /\ Len(p) = IF Len(b) > n THEN n ELSE Len(b)
      /\ \A i \in 1 .. Len(p) : p[i] = b[Len(b) - Len(p) + i]
  BY <1>2, LastNProperties
<1>5. /\ q \in Seq(S) /\ Len(q) = IF Len(c) > n THEN n ELSE Len(c)
      /\ \A i \in 1 .. Len(q) : q[i] = c[Len(c) - Len(q) + i]
  BY <1>3, LastNProperties
<1> HIDE DEF p, q, l
<1>6. Len(p) = Len(q) /\ Len(p) \in Nat /\ Len(p) <= k + 1 /\ k \in 0 .. l
  BY <1>1, <1>2, <1>3, <1>4, <1>5
<1>7. ASSUME NEW i \in 1 .. Len(p) PROVE p[i] = q[i]
  <2>1. CASE i = Len(p)
    <3>1. Len(b) - Len(p) + i = k + 1 /\ Len(c) - Len(q) + i = l + 1
      BY <1>1, <1>2, <1>3, <1>6, <2>1
    <3>2. p[i] = b[k + 1] /\ q[i] = c[l + 1]
      BY <1>4, <1>5, <1>6, <3>1
    <3> QED BY <1>2, <1>3, <3>2
  <2>2. CASE i # Len(p)
    <3> DEFINE j == k + 1 - Len(p) + i
    <3>1. j \in 1 .. k /\ l - k + j \in 1 .. l /\ l - k + j = l + 1 - Len(p) + i
      BY <1>1, <1>6, <2>2
    <3>2. Len(b) - Len(p) + i = j /\ Len(c) - Len(q) + i = l - k + j
      BY <1>1, <1>2, <1>3, <1>6
    <3> HIDE DEF j, k
    <3>3. p[i] = b[j] /\ q[i] = c[l - k + j]
      BY <1>4, <1>5, <1>6, <3>2
    <3> QED BY <1>1, <1>2, <1>3, <3>1, <3>3
  <2> QED BY <2>1, <2>2
<1>8. p = q
  BY <1>4, <1>5, <1>6, <1>7, SeqEqual
<1> QED BY <1>8 DEF p, q, b, c, a

(* Counting in seconds and cutting can be done in either order.             *)
LEMMA SecondsOfSave ==
  ASSUME NEW h \in Seq(Nat), NEW at \in Nat, NEW n \in Nat
  PROVE  Seconds(LastN(Append(h, at), n)) = LastN(Append(Seconds(h), Second(at)), n)
<1> DEFINE a == Append(h, at)
           b == Append(Seconds(h), Second(at))
           p == LastN(a, n)
           q == LastN(b, n)
           l == Len(h)
<1>1. /\ l \in Nat /\ a \in Seq(Nat) /\ Len(a) = l + 1 /\ a[l + 1] = at
      /\ \A i \in 1 .. l : a[i] = h[i]
  BY AppendProperties, LenProperties
<1>2. /\ Seconds(h) \in Seq(Nat) /\ Len(Seconds(h)) = l /\ Second(at) \in Nat
      /\ \A i \in 1 .. l : Seconds(h)[i] = Second(h[i])
  BY SecondsProperties, SecondProperties
<1>3. /\ b \in Seq(Nat) /\ Len(b) = l + 1 /\ b[l + 1] = Second(at)
      /\ \A i \in 1 .. l : b[i] = Seconds(h)[i]
  BY <1>2, AppendProperties
<1>4. \A i \in 1 .. l + 1 : b[i] = Second(a[i])
  <2>1. \A i \in 1 .. l : b[i] = Second(a[i])
    BY <1>1, <1>2, <1>3
  <2>2. \A i \in 1 .. l + 1 : i \in 1 .. l \/ i = l + 1
    BY <1>1
  <2> HIDE DEF a, b
  <2> QED BY <1>1, <1>3, <2>1, <2>2
<1> HIDE DEF a, b
<1>5. /\ p \in Seq(Nat) /\ Len(p) = IF Len(a) > n THEN n ELSE Len(a)
      /\ \A i \in 1 .. Len(p) : p[i] = a[Len(a) - Len(p) + i]
  BY <1>1, LastNProperties
<1>6. /\ q \in Seq(Nat) /\ Len(q) = IF Len(b) > n THEN n ELSE Len(b)
      /\ \A i \in 1 .. Len(q) : q[i] = b[Len(b) - Len(q) + i]
  BY <1>3, LastNProperties
<1> HIDE DEF p, q, l
<1>7. /\ Seconds(p) \in Seq(Nat) /\ Len(Seconds(p)) = Len(p)
      /\ \A i \in 1 .. Len(p) : Seconds(p)[i] = Second(p[i])
  BY <1>5, SecondsProperties
<1>8. Len(p) = Len(q) /\ Len(p) \in Nat /\ Len(p) <= l + 1
  BY <1>1, <1>3, <1>5, <1>6
<1>9. ASSUME NEW i \in 1 .. Len(p) PROVE Seconds(p)[i] = q[i]
  <2>1. l + 1 - Len(p) + i \in 1 .. l + 1
    BY <1>1, <1>8
  <2>2. q[i] = b[l + 1 - Len(p) + i] /\ p[i] = a[l + 1 - Len(p) + i]
    BY <1>1, <1>3, <1>5, <1>6, <1>8
  <2> QED BY <1>4, <1>7, <2>1, <2>2
<1>10. Seconds(p) = q
  BY <1>6, <1>7, <1>8, <1>9, SeqEqual
<1> QED BY <1>10 DEF p, q, a, b

-----------------------------------------------------------------------------
(* What a sweep does to a sequence in order of time: it cuts off a first     *)
(* part, which is all of what is older than the cut-off.                     *)

Ascending(s) == \A i, j \in 1 .. Len(s) : i < j => s[i] <= s[j]

CutAt(s, t, d, x) ==
  /\ t \in Seq(Nat) /\ d \in 0 .. Len(s) /\ Len(t) = Len(s) - d
  /\ \A i \in 1 .. Len(t) : t[i] = s[d + i]
  /\ \A i \in 1 .. d : s[i] < x
  /\ \A i \in d + 1 .. Len(s) : s[i] >= x

(* The loop of memory.go that keeps what is not before the cut-off.          *)
LEMMA PickIsCut ==
  ASSUME NEW h \in Seq(Nat), Ascending(h), NEW x \in Nat
  PROVE  \E d \in Nat : CutAt(h, Pick(h, {i \in DOMAIN h : h[i] >= x}), d, x)
<1> DEFINE n == Len(h)
           I == 1 .. n
           J == {i \in DOMAIN h : h[i] >= x}
           t == Pick(h, J)
           d == n - Cardinality(J)
<1>1. n \in Nat /\ DOMAIN h = 1 .. n /\ \A i \in 1 .. n : h[i] \in Nat
  BY LenProperties
<1>2. I \in SUBSET (1 .. Len(h)) /\ J \in SUBSET I
  BY <1>1
<1>3. \A i \in I, j \in J : j < i => i \in J
  BY <1>1 DEF Ascending
<1>4. Cardinality(I) = n /\ \A k \in 1 .. n : Nth(I, k) = k
  BY <1>1, NthOfAll
<1>5. /\ t \in Seq(Nat) /\ Len(t) = Cardinality(J) /\ Cardinality(J) \in 0 .. n
      /\ \A k \in 1 .. Cardinality(J) : t[k] = h[Nth(J, k)]
  BY <1>1, <1>2, PickProperties
<1>6. \A k \in 1 .. n : k \in J <=> k > d
  <2> HIDE DEF I, J
  <2>1. \A k \in 1 .. Cardinality(I) : Nth(I, k) \in J <=> k > Cardinality(I) - Cardinality(J)
    BY <1>2, <1>3, PickNewest
  <2> QED BY <1>4, <2>1
<1>7. \A k \in 1 .. Cardinality(J) : t[k] = h[d + k]
  <2>1. \A k \in 1 .. Cardinality(J) :
          Pick(h, J)[k] = Pick(h, I)[Cardinality(I) - Cardinality(J) + k]
    <3> HIDE DEF I, J
    <3> QED BY <1>2, <1>3, PickNewest
  <2>2. \A k \in 1 .. n : Pick(h, I)[k] = h[k]
    <3> HIDE DEF I
    <3> QED BY <1>4 DEF Pick
  <2>3. \A k \in 1 .. Cardinality(J) : d + k \in 1 .. n
    BY <1>1, <1>5
  <2> HIDE DEF I, J
  <2> QED BY <1>4, <2>1, <2>2, <2>3
<1>8. \A k \in 1 .. n : k \in J <=> h[k] >= x
  BY <1>1
<1> HIDE DEF I, J, t
<1>9. d \in 0 .. n /\ Len(t) = n - d
  BY <1>1, <1>5
<1> HIDE DEF d
<1>10. \A i \in 1 .. d : h[i] < x
  BY <1>1, <1>6, <1>8, <1>9
<1>11. \A i \in d + 1 .. n : h[i] >= x
  BY <1>1, <1>6, <1>8, <1>9
<1>12. CutAt(h, t, d, x)
  BY <1>5, <1>7, <1>9, <1>10, <1>11 DEF CutAt
<1>13. d \in Nat
  BY <1>1, <1>9
<1> QED BY <1>12, <1>13 DEF t, J

\* The first c places go: what is before x, and nothing else.
DropsFirst(s, t, c, x) ==
  /\ c <= Len(s)
  /\ \A i \in 1 .. c : s[i] < x
  /\ \A i \in c + 1 .. Len(s) : s[i] >= x
  /\ t = SubSeq(s, c + 1, Len(s))

(* Cutting first and showing the newest n then is cutting what was shown.    *)
LEMMA LastNOfCut ==
  ASSUME NEW s \in Seq(Nat), NEW t, NEW d \in Nat, NEW x \in Nat, CutAt(s, t, d, x),
         NEW n \in Nat \ {0}
  PROVE  \E c \in 0 .. n : DropsFirst(LastN(s, n), LastN(t, n), c, x)
<1> DEFINE l == Len(s)
           p == LastN(s, n)
           q == LastN(t, n)
           e == l - Len(p)
           c == IF d > e THEN d - e ELSE 0
           r == SubSeq(p, c + 1, Len(p))
<1>1. /\ l \in Nat /\ p \in Seq(Nat) /\ Len(p) = IF l > n THEN n ELSE l
      /\ \A i \in 1 .. Len(p) : p[i] = s[e + i] /\ p[i] \in Nat
  BY LenProperties, LastNProperties
<1>2. /\ t \in Seq(Nat) /\ d \in 0 .. l /\ Len(t) = l - d
      /\ \A i \in 1 .. Len(t) : t[i] = s[d + i]
  BY DEF CutAt
<1>3. (\A i \in 1 .. d : s[i] < x) /\ (\A i \in d + 1 .. l : s[i] >= x)
  BY DEF CutAt
<1>4. /\ q \in Seq(Nat) /\ Len(q) = IF Len(t) > n THEN n ELSE Len(t)
      /\ \A i \in 1 .. Len(q) : q[i] = t[Len(t) - Len(q) + i]
  BY <1>2, LastNProperties
<1> HIDE DEF p, q, l
<1>5. e \in 0 .. l /\ Len(p) \in 0 .. n /\ l = e + Len(p)
  BY <1>1
<1>6. /\ c \in 0 .. n /\ c <= Len(p) /\ Len(q) = Len(p) - c
      /\ d <= e + c /\ (c > 0 => d = e + c)
  <2>1. Len(q) = IF l - d > n THEN n ELSE l - d
    BY <1>2, <1>4
  <2>2. Len(p) = (IF l > n THEN n ELSE l) /\ l \in Nat /\ d \in 0 .. l
    BY <1>1, <1>2
  <2>3. CASE d > e
    <3>1. c = d - e
      BY <2>3
    <3>2. l - d <= n
      BY <2>2, <2>3
    <3> QED BY <2>1, <2>2, <2>3, <3>1, <3>2
  <2>4. CASE ~(d > e)
    <3>1. c = 0
      BY <2>4
    <3>2. Len(q) = Len(p)
      BY <2>1, <2>2, <2>4
    <3> QED BY <2>2, <2>4, <3>1, <3>2
  <2> QED BY <2>3, <2>4
<1> HIDE DEF e, c
<1>7. \A i \in 1 .. c : p[i] < x
  <2> SUFFICES ASSUME NEW i \in 1 .. c PROVE p[i] < x
    OBVIOUS
  <2>1. i \in 1 .. Len(p) /\ e + i \in 1 .. d
    BY <1>2, <1>5, <1>6
  <2> QED BY <1>1, <1>3, <2>1
<1>8. \A i \in c + 1 .. Len(p) : p[i] >= x
  <2> SUFFICES ASSUME NEW i \in c + 1 .. Len(p) PROVE p[i] >= x
    OBVIOUS
  <2>1. i \in 1 .. Len(p) /\ e + i \in d + 1 .. l
    <3>1. d \in Int /\ l \in Int /\ i \in Int
      BY <1>2, <1>5, <1>6
    <3>2. i >= 1 /\ i <= Len(p)
      BY <1>5, <1>6
    <3>3. e + i >= d + 1 /\ e + i <= l
      BY <1>2, <1>5, <1>6
    <3> QED BY <1>5, <3>1, <3>2, <3>3
  <2> QED BY <1>1, <1>3, <2>1
<1>9. /\ r \in Seq(Nat) /\ Len(r) = Len(p) - c
      /\ \A i \in 1 .. Len(p) - c : r[i] = p[c + i]
  <2>1. c + 1 \in Int /\ Len(p) \in Int /\ \A i \in c + 1 .. Len(p) : p[i] \in Nat
    BY <1>1, <1>5, <1>6
  <2>2. /\ r \in Seq(Nat) /\ Len(r) = IF c + 1 <= Len(p) THEN Len(p) - (c + 1) + 1 ELSE 0
        /\ \A i \in 1 .. Len(p) - (c + 1) + 1 : r[i] = p[c + 1 + i - 1]
    BY <2>1, SubSeqProperties
  <2> HIDE DEF r
  <2>3. Len(r) = Len(p) - c
    BY <1>5, <1>6, <2>2
  <2>4. ASSUME NEW i \in 1 .. Len(p) - c PROVE r[i] = p[c + i]
    <3>1. i \in 1 .. Len(p) - (c + 1) + 1 /\ c + 1 + i - 1 = c + i
      BY <1>5, <1>6
    <3> QED BY <2>2, <3>1
  <2> QED BY <2>2, <2>3, <2>4
<1>10. \A i \in 1 .. Len(q) : q[i] = r[i]
  <2> SUFFICES ASSUME NEW i \in 1 .. Len(q) PROVE q[i] = r[i]
    OBVIOUS
  <2>1. /\ Len(t) - Len(q) + i \in 1 .. Len(t)
        /\ d + (Len(t) - Len(q) + i) = e + (c + i)
        /\ c + i \in 1 .. Len(p) /\ i \in 1 .. Len(p) - c
    <3>1. /\ Len(t) \in Nat /\ Len(p) \in Nat /\ Len(q) \in Nat
          /\ c \in Int /\ d \in Int /\ e \in Int /\ i \in Int
      BY <1>2, <1>5, <1>6
    <3>2. i >= 1 /\ i <= Len(q)
      BY <3>1
    <3>3. Len(t) - Len(q) + i >= 1 /\ Len(t) - Len(q) + i <= Len(t)
      BY <1>2, <1>5, <1>6, <3>1, <3>2
    <3>4. d + (Len(t) - Len(q) + i) = e + (c + i)
      BY <1>2, <1>5, <1>6, <3>1
    <3>5. c + i >= 1 /\ c + i <= Len(p)
      BY <1>2, <1>5, <1>6, <3>1, <3>2
    <3> HIDE DEF p, q, c, e
    <3> QED BY <3>1, <3>2, <3>3, <3>4, <3>5
  <2> HIDE DEF r
  <2>2. q[i] = s[e + (c + i)]
    BY <1>2, <1>4, <2>1
  <2> QED BY <1>1, <1>9, <2>1, <2>2
<1> HIDE DEF r
<1>11. q = r
  BY <1>4, <1>6, <1>9, <1>10, SeqEqual
<1>12. DropsFirst(p, q, c, x)
  BY <1>6, <1>7, <1>8, <1>11 DEF DropsFirst, r
<1> QED BY <1>6, <1>12 DEF p, q
-----------------------------------------------------------------------------
(* The rows of table results.                                               *)

Row == [name : Names, checked_at : Nat]

\* When the results of n still in the table were checked, oldest first.
SecondsOf(rows, n) ==
  LET mine == Pick(rows, SQL!RowsOf(rows, n))
  IN  [i \in 1 .. Len(mine) |-> mine[i].checked_at]

LEMMA SecondsOfProperties ==
  ASSUME NEW rows \in Seq(Row), NEW n
  PROVE  /\ SQL!RowsOf(rows, n) \in SUBSET (1 .. Len(rows))
         /\ SecondsOf(rows, n) \in Seq(Nat)
         /\ Len(SecondsOf(rows, n)) = Cardinality(SQL!RowsOf(rows, n))
         /\ \A k \in 1 .. Cardinality(SQL!RowsOf(rows, n)) :
              SecondsOf(rows, n)[k] = rows[Nth(SQL!RowsOf(rows, n), k)].checked_at
<1> DEFINE I == SQL!RowsOf(rows, n)
           mine == Pick(rows, I)
           c == Cardinality(I)
<1>1. I \in SUBSET (1 .. Len(rows))
  BY LenProperties DEF SQL!RowsOf
<1> HIDE DEF I
<1>2. /\ mine \in Seq(Row) /\ Len(mine) = c /\ c \in 0 .. Len(rows)
      /\ \A k \in 1 .. c : mine[k] = rows[Nth(I, k)]
  BY <1>1, PickProperties
<1>3. c \in Nat /\ \A k \in 1 .. c : mine[k] \in Row
  BY <1>2, LenProperties
<1> HIDE DEF mine, c
<1> DEFINE secs == [k \in 1 .. c |-> mine[k].checked_at]
<1>4. secs \in [1 .. c -> Nat] /\ \A k \in 1 .. c : secs[k] = mine[k].checked_at
  BY <1>3 DEF Row
<1> HIDE DEF secs
<1>5. secs \in Seq(Nat) /\ Len(secs) = c
  BY <1>3, <1>4, FunctionIsSeq
<1>6. SecondsOf(rows, n) = secs
  BY <1>2 DEF SecondsOf, I, mine, secs
<1>7. \A k \in 1 .. c : secs[k] = rows[Nth(I, k)].checked_at
  BY <1>2, <1>4
<1> QED BY <1>1, <1>5, <1>6, <1>7 DEF I, c

(* A row is inserted behind all others.                                     *)
LEMMA SecondsOfAppend ==
  ASSUME NEW rows \in Seq(Row), NEW r \in Row, NEW n
  PROVE  SecondsOf(Append(rows, r), n) =
           IF r.name = n THEN Append(SecondsOf(rows, n), r.checked_at)
           ELSE SecondsOf(rows, n)
<1> DEFINE l == Len(rows)
           a == Append(rows, r)
           I == SQL!RowsOf(rows, n)
           mine == Pick(rows, I)
<1>1. /\ l \in Nat /\ a \in Seq(Row) /\ Len(a) = l + 1 /\ a[l + 1] = r
      /\ \A i \in 1 .. l : a[i] = rows[i]
      /\ DOMAIN rows = 1 .. l /\ DOMAIN a = 1 .. l + 1
  BY AppendProperties, LenProperties
<1>2. I \in SUBSET (1 .. l) /\ I = {i \in 1 .. l : rows[i].name = n}
  BY <1>1 DEF SQL!RowsOf
<1>3. Pick(a, I) = mine /\ Pick(a, I \union {l + 1}) = Append(mine, r)
  <2>1. I \in SUBSET (1 .. Len(rows))
    BY <1>2
  <2> HIDE DEF I
  <2>2. /\ Pick(Append(rows, r), I) = Pick(rows, I)
        /\ Pick(Append(rows, r), I \union {Len(rows) + 1}) = Append(Pick(rows, I), r)
    BY ONLY rows \in Seq(Row), r \in Row, <2>1, PickAppend
  <2> QED BY <2>2
<1>4. mine \in Seq(Row)
  <2> HIDE DEF I
  <2> QED BY <1>2, PickProperties
<1> HIDE DEF a, I, mine
<1>5. CASE r.name = n
  <2>1. SQL!RowsOf(a, n) = I \union {l + 1}
    BY <1>1, <1>2, <1>5 DEF SQL!RowsOf
  <2> DEFINE b == Append(mine, r)
             old == [i \in 1 .. Len(mine) |-> mine[i].checked_at]
             new == [i \in 1 .. Len(b) |-> b[i].checked_at]
             m == Len(mine)
  <2>2. /\ m \in Nat /\ Len(b) = m + 1 /\ b[m + 1] = r
        /\ \A i \in 1 .. m : b[i] = mine[i]
        /\ \A i \in 1 .. m : mine[i] \in Row
    BY <1>4, AppendProperties, LenProperties
  <2> HIDE DEF b, m
  <2>3. old \in [1 .. m -> Nat]
    BY <2>2 DEF Row, m
  <2>4. \A i \in 1 .. m : old[i] = mine[i].checked_at
    BY DEF m
  <2> HIDE DEF old
  <2>5. old \in Seq(Nat) /\ Len(old) = m
    BY <2>2, <2>3, FunctionIsSeq
  <2>6. /\ Append(old, r.checked_at) \in Seq(Nat)
        /\ Len(Append(old, r.checked_at)) = m + 1
        /\ Append(old, r.checked_at)[m + 1] = r.checked_at
        /\ \A i \in 1 .. m : Append(old, r.checked_at)[i] = old[i]
    BY <2>5, AppendProperties DEF Row
  <2>7. \A i \in 1 .. m + 1 : b[i].checked_at = Append(old, r.checked_at)[i]
    <3>1. \A i \in 1 .. m + 1 : i \in 1 .. m \/ i = m + 1
      BY <2>2
    <3> QED BY <2>2, <2>4, <2>6, <3>1
  <2>8. new \in [1 .. m + 1 -> Nat]
    BY <2>2, <2>6, <2>7, LenProperties
  <2>9. new \in Seq(Nat) /\ Len(new) = m + 1
    BY <2>2, <2>8, FunctionIsSeq
  <2>10. new = Append(old, r.checked_at)
    BY <2>2, <2>6, <2>7, <2>9, SeqEqual
  <2>11. SecondsOf(a, n) = new
    BY <1>3, <2>1 DEF SecondsOf, b
  <2>12. SecondsOf(rows, n) = old
    BY DEF SecondsOf, mine, I, old
  <2> QED BY <1>5, <2>10, <2>11, <2>12 DEF a
<1>6. CASE r.name # n
  <2>1. SQL!RowsOf(a, n) = I
    BY <1>1, <1>2, <1>6 DEF SQL!RowsOf
  <2>2. SecondsOf(a, n) = SecondsOf(rows, n)
    BY <1>3, <2>1 DEF SecondsOf, mine, I
  <2> QED BY <1>6, <2>2 DEF a
<1> QED BY <1>5, <1>6

(* What DELETE leaves of the rows of n are the rows of n it leaves.          *)
LEMMA RowsOfPick ==
  ASSUME NEW rows \in Seq(Row), NEW K \in SUBSET (1 .. Len(rows)), NEW n
  PROVE  /\ Pick(rows, K) \in Seq(Row)
         /\ K \intersect SQL!RowsOf(rows, n) \in SUBSET (1 .. Len(rows))
         /\ Pick(Pick(rows, K), SQL!RowsOf(Pick(rows, K), n))
              = Pick(rows, K \intersect SQL!RowsOf(rows, n))
<1> DEFINE c == Cardinality(K)
           p == Pick(rows, K)
           J == SQL!RowsOf(p, n)
           M == K \intersect SQL!RowsOf(rows, n)
<1>1. /\ p \in Seq(Row) /\ Len(p) = c
      /\ \A k \in 1 .. c : p[k] = rows[Nth(K, k)]
  BY PickProperties
<1>2. Len(rows) \in Nat /\ DOMAIN rows = 1 .. Len(rows) /\ DOMAIN p = 1 .. c
  BY <1>1, LenProperties
<1>3. /\ \A k \in 1 .. c : Nth(K, k) \in K
      /\ \A i \in K : Rank(K, i) \in 1 .. c /\ Nth(K, Rank(K, i)) = i
  BY <1>2, NthProperties, RankProperties
<1> HIDE DEF p
<1>4. J = {k \in 1 .. c : rows[Nth(K, k)].name = n}
  BY <1>1, <1>2 DEF SQL!RowsOf
<1>5. M = {i \in K : rows[i].name = n}
  BY <1>2 DEF SQL!RowsOf
<1>6. {Nth(K, j) : j \in J} = M
  BY <1>3, <1>4, <1>5
<1>7. J \in SUBSET (1 .. c)
  BY <1>4
<1> HIDE DEF J, M
<1>8. Pick(Pick(rows, K), J) = Pick(rows, {Nth(K, j) : j \in J})
  BY <1>7, PickPick
<1>9. M \in SUBSET (1 .. Len(rows))
  BY <1>5
<1> QED BY <1>1, <1>6, <1>8, <1>9 DEF p, J, M

(* DELETE ... NOT IN: the names kept keep all of their results.             *)
LEMMA SecondsOfKeep ==
  ASSUME NEW rows \in Seq(Row), NEW names, NEW n
  PROVE  LET K == {i \in DOMAIN rows : rows[i].name \in names}
         IN  SecondsOf(Pick(rows, K), n) = IF n \in names THEN SecondsOf(rows, n) ELSE <<>>
<1> DEFINE K == {i \in DOMAIN rows : rows[i].name \in names}
           M == K \intersect SQL!RowsOf(rows, n)
           mine == Pick(rows, M)
<1>1. DOMAIN rows = 1 .. Len(rows)
  BY LenProperties
<1>2. K \in SUBSET (1 .. Len(rows))
  BY <1>1
<1>3. M = IF n \in names THEN SQL!RowsOf(rows, n) ELSE {}
  BY DEF SQL!RowsOf
<1> HIDE DEF K
<1>4. Pick(Pick(rows, K), SQL!RowsOf(Pick(rows, K), n)) = mine
  BY <1>2, RowsOfPick
<1> HIDE DEF M
<1>5. CASE n \in names
  BY <1>3, <1>4, <1>5 DEF SecondsOf, K
<1>6. CASE n \notin names
  <2>1. Cardinality({}) = 0
    BY FS_EmptySet
  <2>2. mine = <<>>
    BY <1>3, <1>6, <2>1 DEF Pick
  <2>3. Len(<<>>) = 0
    OBVIOUS
  <2>4. SecondsOf(Pick(rows, K), n) = <<>>
    BY <1>4, <2>2, <2>3 DEF SecondsOf
  <2> QED BY <1>6, <2>4 DEF K
<1> QED BY <1>5, <1>6

(* DELETE ... WHERE checked_at < ?: of the results of each name, which are   *)
(* in order of time, a first part.                                          *)
LEMMA SecondsOfDrop ==
  ASSUME NEW rows \in Seq(Row), NEW n, Ascending(SecondsOf(rows, n)), NEW x \in Nat
  PROVE  LET K == {i \in DOMAIN rows : rows[i].checked_at >= x}
         IN  \E d \in Nat : CutAt(SecondsOf(rows, n), SecondsOf(Pick(rows, K), n), d, x)
<1> DEFINE K == {i \in DOMAIN rows : rows[i].checked_at >= x}
           I == SQL!RowsOf(rows, n)
           M == K \intersect I
           s == SecondsOf(rows, n)
           t == SecondsOf(Pick(rows, K), n)
           c == Cardinality(I)
           e == Cardinality(M)
<1>1. DOMAIN rows = 1 .. Len(rows) /\ Len(rows) \in Nat
      /\ \A i \in 1 .. Len(rows) : rows[i].checked_at \in Nat
  <2>1. \A i \in 1 .. Len(rows) : rows[i] \in Row
    BY LenProperties
  <2> QED BY <2>1, LenProperties DEF Row
<1>2. K \in SUBSET (1 .. Len(rows)) /\ \A i \in 1 .. Len(rows) : i \in K <=> rows[i].checked_at >= x
  BY <1>1
<1>3. /\ I \in SUBSET (1 .. Len(rows)) /\ s \in Seq(Nat) /\ Len(s) = c
      /\ \A k \in 1 .. c : s[k] = rows[Nth(I, k)].checked_at
  BY SecondsOfProperties
<1> HIDE DEF K, I
<1>4. /\ Pick(rows, K) \in Seq(Row) /\ M \in SUBSET (1 .. Len(rows))
      /\ Pick(Pick(rows, K), SQL!RowsOf(Pick(rows, K), n)) = Pick(rows, M)
  BY <1>2, RowsOfPick DEF I
<1>5. /\ \A k \in 1 .. c : Nth(I, k) \in I
      /\ \A i \in I : Rank(I, i) \in 1 .. c /\ Nth(I, Rank(I, i)) = i
      /\ \A i, j \in I : i < j => Rank(I, i) < Rank(I, j)
  BY <1>1, <1>3, NthProperties, RankProperties
<1>6. \A i \in I, j \in M : j < i => i \in M
  <2> SUFFICES ASSUME NEW i \in I, NEW j \in M, j < i PROVE i \in K
    BY DEF M
  <2>1. j \in I /\ j \in K
    OBVIOUS
  <2>2. /\ Rank(I, j) \in 1 .. Len(s) /\ Rank(I, i) \in 1 .. Len(s)
        /\ Rank(I, j) < Rank(I, i)
    BY <1>3, <1>5, <2>1
  <2>3. s[Rank(I, j)] <= s[Rank(I, i)]
    BY <2>2 DEF Ascending
  <2>4. s[Rank(I, j)] = rows[j].checked_at /\ s[Rank(I, i)] = rows[i].checked_at
    BY <1>3, <1>5, <2>1
  <2>5. i \in 1 .. Len(rows) /\ j \in 1 .. Len(rows)
    BY <1>3, <2>1
  <2>6. rows[j].checked_at >= x /\ rows[j].checked_at \in Nat /\ rows[i].checked_at \in Nat
    BY <1>1, <1>2, <2>1, <2>5
  <2>7. rows[i].checked_at >= x
    BY <2>3, <2>4, <2>6
  <2> QED BY <1>2, <2>5, <2>7
<1>7. M \in SUBSET I
  OBVIOUS
<1> HIDE DEF M
<1>8. /\ e <= c
      /\ \A k \in 1 .. e : Pick(rows, M)[k] = Pick(rows, I)[c - e + k]
      /\ \A k \in 1 .. c : Nth(I, k) \in M <=> k > c - e
  BY <1>3, <1>6, <1>7, PickNewest
<1>9. /\ Pick(rows, M) \in Seq(Row) /\ Len(Pick(rows, M)) = e
  BY <1>4, PickProperties
<1>10. /\ \A k \in 1 .. c : Pick(rows, I)[k] = rows[Nth(I, k)]
       /\ c \in Nat
  BY <1>3, PickProperties
<1>11. e \in Nat
  BY <1>9, LenProperties
<1>12. /\ t \in Seq(Nat) /\ Len(t) = e /\ \A k \in 1 .. e : t[k] = s[c - e + k]
  <2>1. t \in Seq(Nat)
    BY <1>4, SecondsOfProperties
  <2>2. t = [k \in 1 .. e |-> Pick(rows, M)[k].checked_at]
    BY <1>4, <1>9 DEF SecondsOf
  <2>3. DOMAIN t = 1 .. Len(t) /\ Len(t) \in Nat
    BY <2>1, LenProperties
  <2>4. Len(t) = e
    BY <1>11, <2>2, <2>3
  <2>5. \A k \in 1 .. e : t[k] = Pick(rows, I)[c - e + k].checked_at
    BY <1>8, <2>2
  <2>6. \A k \in 1 .. e : c - e + k \in 1 .. c
    BY <1>8, <1>10, <1>11
  <2> QED BY <1>3, <1>10, <2>1, <2>4, <2>5, <2>6
<1> DEFINE d == c - e
<1>13. d \in 0 .. c /\ d \in Nat /\ e = c - d
  BY <1>8, <1>10, <1>11
<1> HIDE DEF s, t
<1>14. \A k \in 1 .. c : s[k] >= x <=> k > d
  <2> SUFFICES ASSUME NEW k \in 1 .. c PROVE s[k] >= x <=> k > d
    OBVIOUS
  <2>1. Nth(I, k) \in I /\ Nth(I, k) \in 1 .. Len(rows)
    BY <1>3, <1>5
  <2>2. Nth(I, k) \in M <=> rows[Nth(I, k)].checked_at >= x
    BY <1>2, <2>1 DEF M
  <2> QED BY <1>3, <1>8, <2>2
<1>15. \A k \in 1 .. c : s[k] \in Nat
  BY <1>3, LenProperties
<1> HIDE DEF d
<1>16. \A k \in 1 .. d : s[k] < x
  BY <1>10, <1>13, <1>14, <1>15
<1>17. \A k \in d + 1 .. c : s[k] >= x
  BY <1>10, <1>13, <1>14
<1>18. \A k \in 1 .. Len(t) : t[k] = s[d + k]
  BY <1>12 DEF d
<1>19. CutAt(s, t, d, x)
  BY <1>3, <1>12, <1>13, <1>16, <1>17, <1>18 DEF CutAt
<1> QED BY <1>13, <1>19 DEF s, t, K
-----------------------------------------------------------------------------
(* The results of one name in the two stores: in both they are in order of   *)
(* time, and the in-memory ones are the newest of SQLite's.                  *)

NewestOf(t, s) ==
  /\ Len(t) <= Len(s)
  /\ \A i \in 1 .. Len(t) : t[i] = s[Len(s) - Len(t) + i]

UpTo(s, x) == Ascending(s) /\ \A i \in 1 .. Len(s) : s[i] <= x

Matched(all, mem, due) ==
  /\ UpTo(all, Second(due))
  /\ UpTo(mem, due)
  /\ Len(mem) <= Limit
  /\ NewestOf(Seconds(mem), all)

\* What the in-memory store lacks is of the second of the latest cut-off, as
\* long as its ring has not let go of anything.
Lacking(all, mem, cutoff) ==
  Len(mem) = Limit \/ \A i \in 1 .. Len(all) - Len(mem) : all[i] = cutoff

LEMMA NewestUpTo ==
  ASSUME NEW s \in Seq(Nat), NEW t \in Seq(Nat), NewestOf(t, s), NEW x \in Nat, UpTo(s, x)
  PROVE  UpTo(t, x)
<1>1. Len(s) \in Nat /\ Len(t) \in Nat
  BY LenProperties
<1>2. \A i \in 1 .. Len(t) : Len(s) - Len(t) + i \in 1 .. Len(s)
  BY <1>1 DEF NewestOf
<1>3. \A i \in 1 .. Len(t) : t[i] <= x
  BY <1>2 DEF NewestOf, UpTo
<1>4. ASSUME NEW i \in 1 .. Len(t), NEW j \in 1 .. Len(t), i < j PROVE t[i] <= t[j]
  <2>1. Len(s) - Len(t) + i < Len(s) - Len(t) + j
    BY <1>1, <1>4
  <2>2. s[Len(s) - Len(t) + i] <= s[Len(s) - Len(t) + j]
    BY <1>2, <2>1 DEF UpTo, Ascending
  <2> QED BY <2>2 DEF NewestOf
<1> QED BY <1>3, <1>4 DEF UpTo, Ascending

LEMMA AppendUpTo ==
  ASSUME NEW s \in Seq(Nat), NEW x \in Nat, UpTo(s, x)
  PROVE  UpTo(Append(s, x), x)
<1>1. /\ Len(s) \in Nat /\ Len(Append(s, x)) = Len(s) + 1
      /\ Append(s, x)[Len(s) + 1] = x
      /\ \A i \in 1 .. Len(s) : Append(s, x)[i] = s[i]
  BY AppendProperties, LenProperties
<1>2. \A i \in 1 .. Len(s) + 1 : i \in 1 .. Len(s) \/ i = Len(s) + 1
  BY <1>1
<1>3. \A i \in 1 .. Len(s) + 1 : Append(s, x)[i] <= x
  BY <1>1, <1>2 DEF UpTo
<1>4. ASSUME NEW i \in 1 .. Len(s) + 1, NEW j \in 1 .. Len(s) + 1, i < j
      PROVE  Append(s, x)[i] <= Append(s, x)[j]
  <2>1. i \in 1 .. Len(s)
    BY <1>1, <1>4
  <2>2. CASE j \in 1 .. Len(s)
    BY <1>1, <1>4, <2>1, <2>2 DEF UpTo, Ascending
  <2>3. CASE j = Len(s) + 1
    BY <1>1, <2>1, <2>3 DEF UpTo
  <2> QED BY <1>2, <2>2, <2>3
<1> QED BY <1>1, <1>3, <1>4 DEF UpTo, Ascending

LEMMA NewestOfAppend ==
  ASSUME NEW s \in Seq(Nat), NEW t \in Seq(Nat), NewestOf(t, s), NEW x \in Nat
  PROVE  NewestOf(Append(t, x), Append(s, x))
<1> DEFINE a == Append(s, x)
           b == Append(t, x)
<1>1. /\ Len(s) \in Nat /\ Len(a) = Len(s) + 1 /\ a[Len(s) + 1] = x
      /\ \A i \in 1 .. Len(s) : a[i] = s[i]
  BY AppendProperties, LenProperties
<1>2. /\ Len(t) \in Nat /\ Len(b) = Len(t) + 1 /\ b[Len(t) + 1] = x
      /\ \A i \in 1 .. Len(t) : b[i] = t[i]
  BY AppendProperties, LenProperties
<1> HIDE DEF a, b
<1>3. Len(a) - Len(b) = Len(s) - Len(t) /\ Len(t) <= Len(s)
  BY <1>1, <1>2 DEF NewestOf
<1>4. ASSUME NEW i \in 1 .. Len(b) PROVE b[i] = a[Len(s) - Len(t) + i]
  <2>1. CASE i = Len(t) + 1
    <3>1. Len(s) - Len(t) + i = Len(s) + 1
      BY <1>1, <1>2, <2>1
    <3> QED BY <1>1, <1>2, <2>1, <3>1
  <2>2. CASE i # Len(t) + 1
    <3>1. i \in 1 .. Len(t) /\ Len(s) - Len(t) + i \in 1 .. Len(s)
      BY <1>1, <1>2, <1>3, <2>2
    <3> QED BY <1>1, <1>2, <3>1 DEF NewestOf
  <2> QED BY <2>1, <2>2
<1>5. Len(b) <= Len(a)
  BY <1>1, <1>2, <1>3
<1>6. NewestOf(b, a)
  BY <1>3, <1>4, <1>5 DEF NewestOf
<1> QED BY <1>6 DEF a, b

LEMMA NewestTransitive ==
  ASSUME NEW s \in Seq(Nat), NEW t \in Seq(Nat), NEW u \in Seq(Nat),
         NewestOf(t, s), NewestOf(u, t)
  PROVE  NewestOf(u, s)
<1>1. Len(s) \in Nat /\ Len(t) \in Nat /\ Len(u) \in Nat
  BY LenProperties
<1>2. Len(t) <= Len(s) /\ Len(u) <= Len(t)
  BY DEF NewestOf
<1>3. ASSUME NEW i \in 1 .. Len(u) PROVE u[i] = s[Len(s) - Len(u) + i]
  <2> DEFINE j == Len(t) - Len(u) + i
  <2>1. j \in 1 .. Len(t) /\ Len(s) - Len(t) + j = Len(s) - Len(u) + i
    BY <1>1, <1>2
  <2>2. u[i] = t[j]
    BY DEF NewestOf
  <2> HIDE DEF j
  <2>3. t[j] = s[Len(s) - Len(t) + j]
    BY <2>1 DEF NewestOf
  <2> QED BY <2>1, <2>2, <2>3
<1> QED BY <1>1, <1>2, <1>3 DEF NewestOf

LEMMA LastNIsNewest ==
  ASSUME NEW s \in Seq(Nat), NEW n \in Nat
  PROVE  LastN(s, n) \in Seq(Nat) /\ Len(LastN(s, n)) <= n /\ NewestOf(LastN(s, n), s)
<1>1. Len(s) \in Nat
  BY LenProperties
<1>2. /\ LastN(s, n) \in Seq(Nat)
      /\ Len(LastN(s, n)) = IF Len(s) > n THEN n ELSE Len(s)
      /\ \A i \in 1 .. Len(LastN(s, n)) :
           LastN(s, n)[i] = s[Len(s) - Len(LastN(s, n)) + i]
  BY LastNProperties
<1>3. Len(LastN(s, n)) <= n /\ Len(LastN(s, n)) <= Len(s)
  BY <1>1, <1>2
<1> QED BY <1>2, <1>3 DEF NewestOf

LEMMA MatchedLater ==
  ASSUME NEW all \in Seq(Nat), NEW mem \in Seq(Nat), NEW due \in Nat,
         Matched(all, mem, due), NEW later \in Nat, due <= later
  PROVE  Matched(all, mem, later)
<1>1. Second(due) <= Second(later) /\ Second(due) \in Nat /\ Second(later) \in Nat
  BY SecondProperties
<1>2. (\A i \in 1 .. Len(all) : all[i] \in Nat) /\ (\A i \in 1 .. Len(mem) : mem[i] \in Nat)
  BY LenProperties
<1>3. UpTo(all, Second(later))
  BY <1>1, <1>2 DEF Matched, UpTo
<1>4. UpTo(mem, later)
  BY <1>2 DEF Matched, UpTo
<1> QED BY <1>3, <1>4 DEF Matched

(* Both stores save the result probed last.                                 *)
LEMMA MatchedSave ==
  ASSUME NEW all \in Seq(Nat), NEW mem \in Seq(Nat), NEW at \in Nat, Matched(all, mem, at)
  PROVE  Matched(Append(all, Second(at)), LastN(Append(mem, at), Limit), at)
<1> DEFINE a == Append(all, Second(at))
           b == Append(mem, at)
           v == LastN(b, Limit)
           w == Append(Seconds(mem), Second(at))
<1>1. Limit \in Nat /\ Second(at) \in Nat
  BY LimitAssumption, SecondProperties
<1>2. a \in Seq(Nat) /\ UpTo(a, Second(at))
  BY <1>1, AppendUpTo, AppendProperties DEF Matched
<1>3. b \in Seq(Nat) /\ UpTo(b, at)
  BY AppendUpTo, AppendProperties DEF Matched
<1> HIDE DEF b
<1>4. v \in Seq(Nat) /\ Len(v) <= Limit /\ UpTo(v, at)
  BY <1>1, <1>3, LastNIsNewest, NewestUpTo
<1>5. Seconds(mem) \in Seq(Nat) /\ NewestOf(Seconds(mem), all)
  BY SecondsProperties DEF Matched
<1>6. w \in Seq(Nat) /\ NewestOf(w, a)
  BY <1>1, <1>5, NewestOfAppend, AppendProperties
<1>7. Seconds(v) = LastN(w, Limit)
  BY <1>1, SecondsOfSave DEF b
<1> HIDE DEF a, v, w
<1>8. NewestOf(Seconds(v), a)
  BY <1>1, <1>2, <1>6, <1>7, LastNIsNewest, NewestTransitive
<1>9. Matched(a, v, at)
  BY <1>2, <1>4, <1>8 DEF Matched
<1> QED BY <1>9 DEF a, v, b

(* Both stores are swept.  Whatever the in-memory store still holds is not   *)
(* before the cut-off, so not before its second.                            *)
LEMMA MatchedPrune ==
  ASSUME NEW all \in Seq(Nat), NEW mem \in Seq(Nat), NEW due \in Nat, Matched(all, mem, due),
         NEW before \in Nat, NEW all1, NEW mem1, NEW d \in Nat, NEW c \in Nat,
         CutAt(all, all1, d, Second(before)), CutAt(mem, mem1, c, before)
  PROVE  Matched(all1, mem1, due)
<1> DEFINE s == Seconds(mem)
           s1 == Seconds(mem1)
<1>1. /\ Len(all) \in Nat /\ Len(mem) \in Nat /\ Second(before) \in Nat /\ Second(due) \in Nat
      /\ all1 \in Seq(Nat) /\ Len(all1) = Len(all) - d /\ d \in 0 .. Len(all)
      /\ mem1 \in Seq(Nat) /\ Len(mem1) = Len(mem) - c /\ c \in 0 .. Len(mem)
  BY LenProperties, SecondProperties DEF CutAt
<1>2. NewestOf(all1, all) /\ NewestOf(mem1, mem)
  BY <1>1 DEF CutAt, NewestOf
<1>3. UpTo(all1, Second(due)) /\ UpTo(mem1, due)
  BY <1>1, <1>2, NewestUpTo DEF Matched
<1>4. /\ s \in Seq(Nat) /\ Len(s) = Len(mem)
      /\ \A i \in 1 .. Len(mem) : s[i] = Second(mem[i])
  BY SecondsProperties
<1>5. /\ s1 \in Seq(Nat) /\ Len(s1) = Len(mem1)
      /\ \A i \in 1 .. Len(mem1) : s1[i] = Second(mem1[i])
  BY <1>1, SecondsProperties
<1>6. NewestOf(s, all)
  BY DEF Matched
<1> HIDE DEF s, s1
<1>7. NewestOf(s1, s)
  <2>1. Len(s) - Len(s1) = c /\ Len(s1) <= Len(s)
    BY <1>1, <1>4, <1>5
  <2>2. ASSUME NEW i \in 1 .. Len(s1) PROVE s1[i] = s[c + i]
    <3>1. i \in 1 .. Len(mem1) /\ c + i \in 1 .. Len(mem)
      BY <1>1, <1>5
    <3>2. mem1[i] = mem[c + i]
      BY <3>1 DEF CutAt
    <3> QED BY <1>4, <1>5, <3>1, <3>2
  <2> QED BY <2>1, <2>2 DEF NewestOf
<1>8. NewestOf(s1, all)
  BY <1>4, <1>5, <1>6, <1>7, NewestTransitive
<1>9. Len(s1) <= Len(all1)
  <2>1. CASE Len(s1) = 0
    BY <1>1, <2>1
  <2>2. CASE Len(s1) # 0
    <3> DEFINE k == Len(all) - Len(s1) + 1
    <3>0. Len(s1) <= Len(all) /\ Len(s1) \in Nat
      BY <1>1, <1>5, <1>8 DEF NewestOf
    <3>1. 1 \in 1 .. Len(s1) /\ k \in 1 .. Len(all)
      BY <1>1, <2>2, <3>0
    <3>2. all[k] = s1[1]
      BY <1>8, <3>1 DEF NewestOf
    <3> HIDE DEF k
    <3>3. c + 1 \in c + 1 .. Len(mem)
      BY <1>1, <1>5, <2>2
    <3>4. mem1[1] = mem[c + 1] /\ mem[c + 1] >= before
      BY <1>5, <3>1, <3>3 DEF CutAt
    <3>5. mem1[1] \in Nat
      BY <1>1, <1>5, <3>1, LenProperties
    <3>6. s1[1] >= Second(before) /\ s1[1] \in Nat
      BY <1>5, <3>1, <3>4, <3>5, SecondProperties
    <3>7. ~(k \in 1 .. d)
      <4>1. \A i \in 1 .. d : all[i] < Second(before)
        BY DEF CutAt
      <4>2. ~(s1[1] < Second(before))
        BY <1>1, <3>6
      <4> QED BY <3>2, <4>1, <4>2
    <3>8. ~(k <= d)
      BY <1>1, <3>1, <3>7
    <3> QED BY <1>1, <3>0, <3>8 DEF k
  <2> QED BY <2>1, <2>2
<1>10. NewestOf(s1, all1)
  <2> SUFFICES ASSUME NEW i \in 1 .. Len(s1) PROVE s1[i] = all1[Len(all1) - Len(s1) + i]
    BY <1>9 DEF NewestOf
  <2> DEFINE k == Len(all1) - Len(s1) + i
  <2>0. Len(s1) \in Nat
    BY <1>1, <1>5
  <2>1. k \in 1 .. Len(all1) /\ d + k = Len(all) - Len(s1) + i
    BY <1>1, <1>9, <2>0
  <2>2. s1[i] = all[d + k]
    BY <1>8, <2>1 DEF NewestOf
  <2> HIDE DEF k
  <2>3. all1[k] = all[d + k]
    BY <2>1 DEF CutAt
  <2> QED BY <2>2, <2>3 DEF k
<1>11. Len(mem1) <= Limit
  <2>1. Len(mem) <= Limit
    BY DEF Matched
  <2> QED BY <1>1, <2>1, LimitAssumption
<1> QED BY <1>3, <1>10, <1>11 DEF Matched, s1

(* A Save adds nothing to what the in-memory store lacks, or fills its ring.  *)
LEMMA LackingSave ==
  ASSUME NEW all \in Seq(Nat), NEW mem \in Seq(Nat), NEW cutoff, NEW x \in Nat, NEW at \in Nat,
         Len(mem) <= Limit, Len(mem) <= Len(all), Lacking(all, mem, cutoff)
  PROVE  Lacking(Append(all, x), LastN(Append(mem, at), Limit), cutoff)
<1> DEFINE a == Append(all, x)
           b == Append(mem, at)
           v == LastN(b, Limit)
<1>1. Limit \in Nat /\ Len(all) \in Nat /\ Len(mem) \in Nat
  BY LimitAssumption, LenProperties
<1>2. Len(a) = Len(all) + 1 /\ \A i \in 1 .. Len(all) : a[i] = all[i]
  BY AppendProperties
<1>3. b \in Seq(Nat) /\ Len(b) = Len(mem) + 1
  BY AppendProperties
<1> HIDE DEF a, b
<1>4. Len(v) = IF Len(b) > Limit THEN Limit ELSE Len(b)
  BY <1>1, <1>3, LastNProperties
<1> HIDE DEF v
<1>5. CASE Len(mem) + 1 >= Limit
  <2>1. Len(v) = Limit
    BY <1>1, <1>3, <1>4, <1>5
  <2> QED BY <2>1 DEF Lacking, a, b, v
<1>6. CASE ~(Len(mem) + 1 >= Limit)
  <2>1. Len(v) = Len(mem) + 1 /\ Len(mem) # Limit
    BY <1>1, <1>3, <1>4, <1>6
  <2>2. ASSUME NEW i \in 1 .. Len(a) - Len(v) PROVE a[i] = cutoff
    <3>1. i \in 1 .. Len(all) - Len(mem) /\ i \in 1 .. Len(all)
      BY <1>1, <1>2, <2>1
    <3> QED BY <1>2, <2>1, <3>1 DEF Lacking
  <2> QED BY <2>2 DEF Lacking, a, b, v
<1> QED BY <1>5, <1>6

(* After a sweep, what SQLite keeps and the in-memory store lacks is of the   *)
(* second of the cut-off: it was already lacking and is not older, or the    *)
(* sweep took it, and what came before it, from the in-memory store.         *)
LEMMA LackingPrune ==
  ASSUME NEW all \in Seq(Nat), NEW mem \in Seq(Nat), NEW due \in Nat, Matched(all, mem, due),
         NEW before \in Nat, NEW all1, NEW mem1, NEW d \in Nat, NEW c \in Nat,
         CutAt(all, all1, d, Second(before)), CutAt(mem, mem1, c, before),
         NEW cutoff \in Int, cutoff <= Second(before), Lacking(all, mem, cutoff)
  PROVE  Lacking(all1, mem1, Second(before))
<1> DEFINE x == Second(before)
<1>1. /\ Len(all) \in Nat /\ Len(mem) \in Nat /\ x \in Nat
      /\ Len(all1) = Len(all) - d /\ d \in 0 .. Len(all)
      /\ Len(mem1) = Len(mem) - c /\ c \in 0 .. Len(mem)
      /\ \A i \in 1 .. Len(all) : all[i] \in Nat
  BY LenProperties, SecondProperties DEF CutAt
<1>2. Len(mem) <= Len(all) /\ Ascending(all)
  <2>1. Len(Seconds(mem)) = Len(mem)
    BY SecondsProperties
  <2> QED BY <2>1 DEF Matched, NewestOf, UpTo
<1>3. CASE c = 0 /\ Len(mem) = Limit
  BY <1>1, <1>3 DEF Lacking
<1>4. CASE ~(c = 0 /\ Len(mem) = Limit)
  <2>1. ASSUME NEW i \in 1 .. Len(all1) - Len(mem1) PROVE all1[i] = x
    <3> DEFINE j == d + i
    <3>1. /\ j \in 1 .. Len(all) /\ j \in d + 1 .. Len(all)
          /\ j <= Len(all) - Len(mem) + c /\ i \in 1 .. Len(all1)
      BY <1>1
    <3>2. all1[i] = all[j]
      BY <3>1 DEF CutAt
    <3> HIDE DEF j
    <3>3. all[j] >= x /\ all[j] \in Nat
      BY <1>1, <3>1 DEF CutAt
    <3>4. all[j] <= x
      <4>1. CASE c = 0
        <5>1. Len(mem) # Limit /\ j \in 1 .. Len(all) - Len(mem)
          BY <1>1, <1>4, <3>1, <4>1
        <5> QED BY <5>1 DEF Lacking
      <4>2. CASE c # 0
        <5> DEFINE k == Len(all) - Len(mem) + c
        <5>0. /\ Len(all) \in Nat /\ Len(mem) \in Nat /\ c \in 1 .. Len(mem)
              /\ Len(mem) <= Len(all) /\ j \in Nat /\ j <= Len(all) - Len(mem) + c
          BY <1>1, <1>2, <3>1, <4>2
        <5>1. k \in 1 .. Len(all) /\ (j = k \/ j < k)
          <6>1. \A a, m, p, q \in Nat : m <= a /\ p \in 1 .. m /\ q <= a - m + p =>
                  a - m + p \in 1 .. a /\ (q = a - m + p \/ q < a - m + p)
            OBVIOUS
          <6>2. c \in Nat
            OBVIOUS
          <6> QED BY <5>0, <6>1, <6>2, Zenon
        <5>2. Len(Seconds(mem)) = Len(mem) /\ Seconds(mem)[c] = Second(mem[c])
          BY <5>0, SecondsProperties
        <5>3. all[k] = Second(mem[c])
          BY <5>0, <5>2 DEF Matched, NewestOf
        <5> HIDE DEF k
        <5>4. mem[c] \in Nat /\ mem[c] < before
          <6>1. mem[c] \in Nat
            BY <5>0, LenProperties
          <6>2. c \in 1 .. c
            BY <5>0
          <6>3. \A i1 \in 1 .. c : mem[i1] < before
            BY DEF CutAt
          <6> QED BY <6>1, <6>2, <6>3
        <5>5. mem[c] <= before
          BY <5>4
        <5>6. Second(mem[c]) <= x
          BY <5>4, <5>5, SecondProperties
        <5>7. all[j] <= all[k]
          <6>1. CASE j = k
            BY <1>1, <3>3, <6>1
          <6>2. CASE j < k
            BY <1>2, <3>1, <5>1, <6>2 DEF Ascending
          <6> QED BY <5>1, <6>1, <6>2
        <5>8. all[k] \in Nat
          BY <1>1, <5>1
        <5>9. all[k] <= x
          BY <5>3, <5>6
        <5> HIDE DEF x
        <5> QED BY <1>1, <3>3, <5>7, <5>8, <5>9
      <4> QED BY <4>1, <4>2
    <3> HIDE DEF x
    <3> QED BY <1>1, <3>2, <3>3, <3>4
  <2> QED BY <2>1 DEF Lacking
<1> QED BY <1>3, <1>4

LEMMA LackingEmpty ==
  ASSUME NEW cutoff
  PROVE  Lacking(<<>>, <<>>, cutoff)
<1>1. Len(<<>>) = 0
  BY EmptySeq
<1> QED BY <1>1 DEF Lacking

LEMMA MatchedEmpty ==
  ASSUME NEW due \in Nat
  PROVE  Matched(<<>>, <<>>, due)
<1>1. <<>> \in Seq(Nat) /\ Len(<<>>) = 0
  BY EmptySeq
<1>2. Len(Seconds(<<>>)) = 0
  BY <1>1, SecondsProperties
<1>3. \A x : UpTo(<<>>, x)
  BY <1>1 DEF UpTo, Ascending
<1>4. NewestOf(Seconds(<<>>), <<>>)
  BY <1>1, <1>2 DEF NewestOf
<1> QED BY <1>1, <1>3, <1>4, LimitAssumption DEF Matched
-----------------------------------------------------------------------------
(* Both stores and the port use the same operators of StoreTypes.           *)

LEMMA SamePick ==
  ASSUME NEW s, NEW I
  PROVE  SQL!Pick(s, I) = Pick(s, I) /\ Mem!Pick(s, I) = Pick(s, I)
BY DEF SQL!Pick, SQL!Nth, SQL!Rank, SQL!Cardinality, Mem!Pick, Mem!Nth, Mem!Rank,
       Mem!Cardinality, Pick, Nth, Rank, Cardinality

LEMMA SameLastN ==
  ASSUME NEW s, NEW n
  PROVE  /\ SQL!LastN(s, n) = LastN(s, n) /\ SQL!Store!LastN(s, n) = LastN(s, n)
         /\ Mem!LastN(s, n) = LastN(s, n) /\ Mem!Store!LastN(s, n) = LastN(s, n)
BY DEF SQL!LastN, SQL!Store!LastN, Mem!LastN, Mem!Store!LastN, LastN

LEMMA SameSecond ==
  ASSUME NEW t
  PROVE  /\ SQL!Second(t) = Second(t) /\ SQL!Store!Second(t) = Second(t)
         /\ Mem!Second(t) = Second(t) /\ Mem!Store!Second(t) = Second(t)
BY DEF SQL!Second, SQL!Store!Second, Mem!Second, Mem!Store!Second, Second

LEMMA SameListed ==
  ASSUME NEW l
  PROVE  /\ SQL!Listed(l) = Listed(l) /\ SQL!Store!Listed(l) = Listed(l)
         /\ Mem!Listed(l) = Listed(l) /\ Mem!Store!Listed(l) = Listed(l)
BY DEF SQL!Listed, SQL!Store!Listed, Mem!Listed, Mem!Store!Listed, Listed

LEMMA SameConfigs ==
  /\ SQL!Configs = Configs /\ SQL!Store!Configs = Configs
  /\ Mem!Configs = Configs /\ Mem!Store!Configs = Configs
BY DEF SQL!Configs, SQL!Entries, SQL!Cardinality,
       SQL!Store!Configs, SQL!Store!Entries, SQL!Store!Cardinality,
       Mem!Configs, Mem!Entries, Mem!Cardinality,
       Mem!Store!Configs, Mem!Store!Entries, Mem!Store!Cardinality,
       Configs, Entries, Cardinality

(* What History returns are the newest seconds.                             *)
LEMMA HistoryIsNewest ==
  ASSUME NEW rows \in Seq(Row), NEW n
  PROVE  SQL!History(rows, n) = LastN(SecondsOf(rows, n), Limit)
<1> DEFINE I == SQL!RowsOf(rows, n)
           mine == Pick(rows, I)
           s == SecondsOf(rows, n)
           p == LastN(mine, Limit)
           q == LastN(s, Limit)
           h == [i \in DOMAIN p |-> p[i].checked_at]
<1>1. I \in SUBSET (1 .. Len(rows)) /\ s \in Seq(Nat) /\ Limit \in Nat
  BY SecondsOfProperties, LimitAssumption
<1>2. mine \in Seq(Row)
  <2> HIDE DEF I
  <2> QED BY <1>1, PickProperties
<1>3. s = [i \in 1 .. Len(mine) |-> mine[i].checked_at]
  BY DEF SecondsOf
<1> HIDE DEF mine, s
<1>4. Len(mine) \in Nat /\ Len(s) = Len(mine)
  <2>1. Len(mine) \in Nat
    BY <1>2, LenProperties
  <2>2. s \in [1 .. Len(mine) -> Nat]
    <3>1. DOMAIN s = 1 .. Len(mine) /\ DOMAIN s = 1 .. Len(s) /\ s \in [1 .. Len(s) -> Nat]
      BY <1>1, <1>3, LenProperties
    <3> QED BY <3>1
  <2> QED BY <2>1, <2>2, FunctionIsSeq
<1>5. /\ p \in Seq(Row) /\ Len(p) = IF Len(mine) > Limit THEN Limit ELSE Len(mine)
      /\ \A i \in 1 .. Len(p) : p[i] = mine[Len(mine) - Len(p) + i]
  BY <1>1, <1>2, LastNProperties
<1>6. /\ q \in Seq(Nat) /\ Len(q) = IF Len(s) > Limit THEN Limit ELSE Len(s)
      /\ \A i \in 1 .. Len(q) : q[i] = s[Len(s) - Len(q) + i]
  BY <1>1, LastNProperties
<1> HIDE DEF p, q
<1>7. /\ Len(p) = Len(q) /\ Len(p) \in Nat /\ Len(p) <= Len(mine)
      /\ DOMAIN p = 1 .. Len(p) /\ DOMAIN q = 1 .. Len(p)
  BY <1>1, <1>4, <1>5, <1>6, LenProperties
<1>8. ASSUME NEW i \in 1 .. Len(p) PROVE p[i].checked_at = q[i]
  <2>1. Len(mine) - Len(p) + i \in 1 .. Len(mine)
    BY <1>4, <1>7
  <2>2. p[i] = mine[Len(mine) - Len(p) + i] /\ q[i] = s[Len(mine) - Len(p) + i]
    BY <1>4, <1>5, <1>6, <1>7
  <2> QED BY <1>3, <2>1, <2>2
<1>9. q = [i \in 1 .. Len(p) |-> q[i]]
  BY <1>6, <1>7, LenProperties
<1>10. h = q
  BY <1>7, <1>8, <1>9
<1>11. SQL!History(rows, n) = h
  BY SamePick, SameLastN DEF SQL!History, p, mine
<1> QED BY <1>10, <1>11 DEF q, s

-----------------------------------------------------------------------------
(* The list of monitors.                                                    *)

\* Table monitors holds the list l, in its order.
Tabled(t, l) ==
  /\ DOMAIN t = Listed(l)
  /\ \A i \in 1 .. Len(l) : t[l[i].name] = [url |-> l[i].url, pos |-> i - 1]

Lists == Configs \union {<<>>}

LEMMA ListProperties ==
  ASSUME NEW l \in Lists
  PROVE  /\ l \in Seq(Entries) /\ Len(l) \in 0 .. Cardinality(Names)
         /\ Cardinality(Names) \in Nat
         /\ DOMAIN l = 1 .. Len(l)
         /\ \A i \in 1 .. Len(l) :
              /\ l[i].name \in Names /\ l[i].url \in URLs
              /\ l[i] = [name |-> l[i].name, url |-> l[i].url]
         /\ \A i, j \in 1 .. Len(l) : l[i].name = l[j].name => i = j
<1>1. Cardinality(Names) \in Nat
  BY NamesAssumption, FS_CardinalityType
<1>2. l \in Seq(Entries) /\ Len(l) \in 0 .. Cardinality(Names)
  <2>1. CASE l = <<>>
    BY <1>1, <2>1, EmptySeq
  <2>2. CASE l \in Configs
    <3>1. PICK k \in 1 .. Cardinality(Names) : l \in [1 .. k -> Entries]
      BY <2>2 DEF Configs
    <3>2. k \in Nat
      OBVIOUS
    <3>3. l \in Seq(Entries) /\ Len(l) = k
      BY <3>1, <3>2, FunctionIsSeq
    <3> QED BY <1>1, <3>3
  <2> QED BY <2>1, <2>2 DEF Lists
<1>3. DOMAIN l = 1 .. Len(l) /\ \A i \in 1 .. Len(l) : l[i] \in Entries
  BY <1>2, LenProperties
<1>4. \A i, j \in 1 .. Len(l) : l[i].name = l[j].name => i = j
  <2>1. CASE l = <<>>
    <3>1. Len(l) = 0
      BY <2>1, EmptySeq
    <3> QED BY <3>1
  <2>2. CASE l \in Configs
    BY <1>3, <2>2 DEF Configs
  <2> QED BY <2>1, <2>2 DEF Lists
<1>5. \A i \in 1 .. Len(l) :
        /\ l[i].name \in Names /\ l[i].url \in URLs
        /\ l[i] = [name |-> l[i].name, url |-> l[i].url]
  BY <1>3 DEF Entries
<1> QED BY <1>1, <1>2, <1>3, <1>4, <1>5

(* ORDER BY pos gives the list back that Sync wrote.                        *)
LEMMA ListOfTable ==
  ASSUME NEW l \in Lists, NEW t, Tabled(t, l)
  PROVE  SQL!List(t) = l
<1> DEFINE n == Len(l)
           D == DOMAIN t
           Place(m) == Cardinality({k \in D : t[k].pos <= t[m].pos})
           At(i) == CHOOSE m \in D : Place(m) = i
           r == [i \in 1 .. Cardinality(D) |-> [name |-> At(i), url |-> t[At(i)].url]]
           name == [i \in 1 .. n |-> l[i].name]
<1>1. /\ l \in Seq(Entries) /\ n \in Nat /\ DOMAIN l = 1 .. n
      /\ \A i \in 1 .. n : l[i] = [name |-> l[i].name, url |-> l[i].url]
      /\ \A i, j \in 1 .. n : l[i].name = l[j].name => i = j
  BY ListProperties
<1>2. D = {l[i].name : i \in 1 .. n}
  BY <1>1 DEF Tabled, Listed
<1>3. \A i \in 1 .. n : l[i].name \in D /\ t[l[i].name].pos = i - 1 /\ t[l[i].name].url = l[i].url
  <2> SUFFICES ASSUME NEW i \in 1 .. n
               PROVE  l[i].name \in D /\ t[l[i].name].pos = i - 1 /\ t[l[i].name].url = l[i].url
    OBVIOUS
  <2>1. t[l[i].name] = [url |-> l[i].url, pos |-> i - 1]
    BY DEF Tabled
  <2>2. t[l[i].name].pos = i - 1 /\ t[l[i].name].url = l[i].url
    BY <2>1
  <2>3. l[i].name \in D
    BY <1>2
  <2> QED BY <2>2, <2>3
<1>4. ASSUME NEW i \in 0 .. n
      PROVE  Cardinality({l[j].name : j \in 1 .. i}) = i
  <2> DEFINE f == [j \in 1 .. i |-> l[j].name]
             N == {l[j].name : j \in 1 .. i}
  <2>1. f \in Bijection(1 .. i, N)
    <3>1. \A a, b \in 1 .. i : f[a] = f[b] => a = b
      BY <1>1
    <3>2. f \in [1 .. i -> N] /\ \A m \in N : \E j \in 1 .. i : f[j] = m
      OBVIOUS
    <3> QED BY <3>1, <3>2 DEF Bijection, Injection, Surjection, IsInjective
  <2>2. IsFiniteSet(1 .. i) /\ Cardinality(1 .. i) = i
    BY <1>1, FS_Interval
  <2>3. ExistsBijection(1 .. i, N)
    BY <2>1 DEF ExistsBijection
  <2> HIDE DEF N
  <2>4. Cardinality(N) = i
    BY <2>2, <2>3, FS_Bijection
  <2> QED BY <2>4 DEF N
<1>5. Cardinality(D) = n
  BY <1>1, <1>2, <1>4
<1> HIDE DEF D
<1>6. \A i \in 1 .. n : Place(l[i].name) = i
  <2> SUFFICES ASSUME NEW i \in 1 .. n PROVE Place(l[i].name) = i
    OBVIOUS
  <2>1. \A k \in D : t[k].pos <= t[l[i].name].pos <=> k \in {l[j].name : j \in 1 .. i}
    <3> SUFFICES ASSUME NEW k \in D
                 PROVE  t[k].pos <= t[l[i].name].pos <=> k \in {l[j].name : j \in 1 .. i}
      OBVIOUS
    <3>1. PICK j \in 1 .. n : k = l[j].name
      BY <1>2
    <3>2. t[k].pos = j - 1 /\ t[l[i].name].pos = i - 1
      BY <1>3, <3>1
    <3>3. t[k].pos <= t[l[i].name].pos <=> j \in 1 .. i
      BY <3>2
    <3>4. \A m \in 1 .. i : m \in 1 .. n
      BY <1>1
    <3> QED BY <1>1, <3>1, <3>3, <3>4
  <2>2. {k \in D : t[k].pos <= t[l[i].name].pos} = {l[j].name : j \in 1 .. i}
    <3>1. \A j \in 1 .. i : l[j].name \in D
      BY <1>1, <1>3
    <3>2. {l[j].name : j \in 1 .. i} \subseteq D
      BY <3>1
    <3> QED BY <2>1, <3>2
  <2> QED BY <1>1, <1>4, <2>2
<1>7. ASSUME NEW i \in 1 .. n PROVE At(i) = l[i].name
  <2>1. l[i].name \in D /\ Place(l[i].name) = i
    BY <1>3, <1>6
  <2>2. At(i) \in D /\ Place(At(i)) = i
    BY <2>1
  <2> HIDE DEF At, Place
  <2>3. PICK j \in 1 .. n : At(i) = l[j].name
    BY <1>2, <2>2
  <2>4. Place(l[j].name) = j
    BY <1>6
  <2>5. i = j
    BY <2>2, <2>3, <2>4
  <2> QED BY <2>3, <2>5
<1> HIDE DEF Place
<1>8. r = [i \in 1 .. n |-> l[i]]
  <2>1. \A i \in 1 .. n : t[At(i)].url = l[i].url /\ At(i) = l[i].name
    BY <1>3, <1>7
  <2> HIDE DEF At
  <2>2. \A i \in 1 .. n : [name |-> At(i), url |-> t[At(i)].url] = l[i]
    BY <1>1, <2>1
  <2> QED BY <1>5, <2>2
<1>9. r = l
  BY <1>1, <1>8, LenProperties
<1>10. SQL!List(t) = r
  BY DEF SQL!List, SQL!Cardinality, Cardinality, D, Place
<1> QED BY <1>9, <1>10
-----------------------------------------------------------------------------
(* The inductive invariant.                                                 *)

\* The moment the next result of n saved will bear, or one before it.
Due(n) == IF stamp[n] = SQL!Unsaved THEN clock ELSE stamp[n]

Base ==
  /\ results \in Seq(Row)
  /\ stamp \in [Names -> Times \union {SQL!Unsaved}]
  /\ clock \in Times
  /\ memMonitors \in Lists
  /\ DOMAIN memHistory \subseteq Names
  /\ \A n \in DOMAIN memHistory :
       memHistory[n] \in Seq(Times) /\ Len(memHistory[n]) \in 1 .. Limit
  /\ step = 0 => tx = SQL!NoTx /\ config = <<>>
  /\ swept \in Nat \union {Unswept}

Alike ==
  /\ Tabled(monitors, memMonitors)
  /\ \A n \in Names :
       /\ Due(n) <= clock
       /\ Matched(SecondsOf(results, n), Mem!HistoryOf(n), Due(n))
       /\ Lacking(SecondsOf(results, n), Mem!HistoryOf(n), swept)

\* The transaction has written the first step - 1 entries of the list, then
\* dropped the other names, then their results.
SyncInv ==
  step # 0 =>
    /\ config \in Configs
    /\ step \in 1 .. Len(config) + 3
    /\ DOMAIN tx = {"monitors", "results"}
    /\ \A i \in 1 .. Len(config) :
         i < step => /\ config[i].name \in DOMAIN tx.monitors
                     /\ tx.monitors[config[i].name] = [url |-> config[i].url, pos |-> i - 1]
    /\ step > Len(config) + 1 => DOMAIN tx.monitors = Listed(config)
    /\ tx.results = IF step > Len(config) + 2 THEN SQL!KeepRows(results, Listed(config))
                    ELSE results

IInv == Base /\ Alike /\ SyncInv

LEMMA TimesAreNat ==
  /\ Times \subseteq Nat
  /\ \A h : h \in Seq(Times) => h \in Seq(Nat)
<1>1. Times \subseteq Nat
  BY TimesAssumption
<1>2. ASSUME NEW h \in Seq(Times) PROVE h \in Seq(Nat)
  <2>1. h \in [1 .. Len(h) -> Times] /\ Len(h) \in Nat
    BY LenProperties
  <2>2. h \in [1 .. Len(h) -> Nat]
    BY <1>1, <2>1
  <2> QED BY <2>1, <2>2, FunctionIsSeq
<1> QED BY <1>1, <1>2

LEMMA BaseTypes ==
  ASSUME Base, NEW n \in Names
  PROVE  /\ SecondsOf(results, n) \in Seq(Nat)
         /\ Mem!HistoryOf(n) \in Seq(Times) /\ Mem!HistoryOf(n) \in Seq(Nat)
         /\ Due(n) \in Times /\ Due(n) \in Nat /\ clock \in Nat
         /\ stamp[n] # SQL!Unsaved => stamp[n] = Due(n)
<1>1. SecondsOf(results, n) \in Seq(Nat)
  BY SecondsOfProperties DEF Base
<1>2. Mem!HistoryOf(n) \in Seq(Times)
  BY EmptySeq DEF Base, Mem!HistoryOf
<1>3. Mem!HistoryOf(n) \in Seq(Nat)
  BY <1>2, TimesAreNat
<1>4. clock \in Times /\ stamp[n] \in Times \union {SQL!Unsaved}
  BY DEF Base
<1>5. Due(n) \in Times /\ (stamp[n] # SQL!Unsaved => stamp[n] = Due(n))
  BY <1>4 DEF Due
<1>6. Due(n) \in Nat /\ clock \in Nat
  BY <1>4, <1>5, TimesAreNat
<1> QED BY <1>1, <1>2, <1>3, <1>5, <1>6

-----------------------------------------------------------------------------
(* What the operations do to the results of each name.                      *)

LEMMA SaveEffect ==
  ASSUME Base, NEW n \in Names, Save(n)
  PROVE  /\ results' \in Seq(Row)
         /\ stamp[n] \in Times /\ Due(n) = stamp[n]
         /\ SecondsOf(results', n) = Append(SecondsOf(results, n), Second(stamp[n]))
         /\ \A k \in Names : k # n => SecondsOf(results', k) = SecondsOf(results, k)
         /\ Mem!HistoryOf(n)' = LastN(Append(Mem!HistoryOf(n), stamp[n]), Limit)
         /\ \A k \in Names : k # n => Mem!HistoryOf(k)' = Mem!HistoryOf(k)
<1> DEFINE r == [name |-> n, checked_at |-> Second(stamp[n])]
<1>1. stamp[n] # SQL!Unsaved
  BY DEF Save, SQL!Save
<1>2. stamp[n] \in Times /\ Due(n) = stamp[n]
  BY <1>1 DEF Base, Due
<1>3. Second(stamp[n]) \in Nat
  BY <1>2, TimesAreNat, SecondProperties
<1>4. r \in Row
  BY <1>3 DEF Row
<1>5. results' = Append(results, r)
  BY SameSecond DEF Save, SQL!Save
<1>6. results \in Seq(Row)
  BY DEF Base
<1>7. r.name = n /\ r.checked_at = Second(stamp[n])
  OBVIOUS
<1> HIDE DEF r
<1>8. results' \in Seq(Row)
  BY <1>4, <1>5, <1>6, AppendProperties
<1>9. \A k : SecondsOf(results', k) = IF r.name = k THEN Append(SecondsOf(results, k), r.checked_at)
                                      ELSE SecondsOf(results, k)
  BY <1>4, <1>5, <1>6, SecondsOfAppend
<1>10. memHistory' = [k \in DOMAIN memHistory \union {n} |->
                        IF k = n THEN Mem!LastN(Append(Mem!HistoryOf(n), stamp[n]), Limit)
                        ELSE memHistory[k]]
  BY DEF Save, Mem!Save
<1>11. Mem!HistoryOf(n)' = LastN(Append(Mem!HistoryOf(n), stamp[n]), Limit)
  <2>1. Mem!LastN(Append(Mem!HistoryOf(n), stamp[n]), Limit)
          = LastN(Append(Mem!HistoryOf(n), stamp[n]), Limit)
    BY SameLastN
  <2>2. Mem!HistoryOf(n)' = memHistory'[n]
    BY <1>10 DEF Mem!HistoryOf
  <2> QED BY <1>10, <2>1, <2>2
<1>12. \A k \in Names : k # n => Mem!HistoryOf(k)' = Mem!HistoryOf(k)
  BY <1>10 DEF Mem!HistoryOf
<1> QED BY <1>2, <1>7, <1>8, <1>9, <1>11, <1>12

LEMMA PruneEffect ==
  ASSUME Base, Alike, NEW before \in Times, Prune(before)
  PROVE  /\ results' \in Seq(Row)
         /\ \A n \in Names :
              /\ \E d \in Nat : CutAt(SecondsOf(results, n), SecondsOf(results', n), d, Second(before))
              /\ \E c \in Nat : CutAt(Mem!HistoryOf(n), Mem!HistoryOf(n)', c, before)
<1> DEFINE K == {i \in DOMAIN results : results[i].checked_at >= Second(before)}
<1>1. results \in Seq(Row) /\ DOMAIN results = 1 .. Len(results)
  BY LenProperties DEF Base
<1>2. before \in Nat /\ Second(before) \in Nat
  BY TimesAreNat, SecondProperties
<1>3. results' = Pick(results, K)
  BY SamePick, SameSecond DEF Prune, SQL!Prune, SQL!DropBefore
<1>4. results' \in Seq(Row)
  BY <1>1, <1>3, PickProperties
<1>5. ASSUME NEW n \in Names
      PROVE  \E d \in Nat : CutAt(SecondsOf(results, n), SecondsOf(results', n), d, Second(before))
  <2>1. Ascending(SecondsOf(results, n))
    BY DEF Alike, Matched, UpTo
  <2> QED BY <1>1, <1>2, <1>3, <2>1, SecondsOfDrop
<1>6. ASSUME NEW n \in Names
      PROVE  \E c \in Nat : CutAt(Mem!HistoryOf(n), Mem!HistoryOf(n)', c, before)
  <2> DEFINE h == Mem!HistoryOf(n)
             kept(k) == Pick(memHistory[k], {i \in DOMAIN memHistory[k] : memHistory[k][i] >= before})
  <2>1. memHistory' = [k \in {m \in DOMAIN memHistory : kept(m) # <<>>} |-> kept(k)]
    BY SamePick DEF Prune, Mem!Prune
  <2>2. CASE n \in DOMAIN memHistory
    <3>1. h = memHistory[n]
      BY <2>2 DEF Mem!HistoryOf
    <3>2. Mem!HistoryOf(n)' = kept(n)
      <4> HIDE DEF kept
      <4> QED BY <2>1, <2>2 DEF Mem!HistoryOf
    <3>3. h \in Seq(Nat) /\ Ascending(h)
      BY BaseTypes DEF Alike, Matched, UpTo
    <3> QED BY <1>2, <3>1, <3>2, <3>3, PickIsCut
  <2>3. CASE n \notin DOMAIN memHistory
    <3>1. h = <<>> /\ Mem!HistoryOf(n)' = <<>>
      <4> HIDE DEF kept
      <4> QED BY <2>1, <2>3 DEF Mem!HistoryOf
    <3>2. CutAt(<<>>, <<>>, 0, before)
      BY EmptySeq DEF CutAt
    <3> QED BY <3>1, <3>2
  <2> QED BY <2>2, <2>3
<1> QED BY <1>4, <1>5, <1>6

(* The transaction commits what the list asks for.                          *)
LEMMA SyncEffect ==
  ASSUME Base, SyncInv, SyncSucceeds
  PROVE  /\ config \in Configs /\ memMonitors' = config /\ Tabled(monitors', config)
         /\ results' \in Seq(Row)
         /\ \A n \in Names :
              /\ SecondsOf(results', n)
                   = IF n \in Listed(config) THEN SecondsOf(results, n) ELSE <<>>
              /\ Mem!HistoryOf(n)' = IF n \in Listed(config) THEN Mem!HistoryOf(n) ELSE <<>>
<1> DEFINE K == {i \in DOMAIN results : results[i].name \in Listed(config)}
<1>1. /\ step # 0 /\ step = Len(config) + 3
      /\ monitors' = tx.monitors /\ results' = tx.results
  BY DEF SyncSucceeds, SQL!Commit, SQL!Free
<1>2. config \in Configs
  BY <1>1 DEF SyncInv
<1>3. Len(config) \in Nat
  BY <1>2, ListProperties DEF Lists
<1>4. Tabled(monitors', config)
  <2>1. DOMAIN tx.monitors = Listed(config)
    BY <1>1, <1>3 DEF SyncInv
  <2>2. \A i \in 1 .. Len(config) : i < step
    BY <1>1, <1>3
  <2>3. \A i \in 1 .. Len(config) :
          tx.monitors[config[i].name] = [url |-> config[i].url, pos |-> i - 1]
    BY <1>1, <2>2 DEF SyncInv
  <2> QED BY <1>1, <2>1, <2>3 DEF Tabled
<1>5. results' = Pick(results, K)
  <2>1. tx.results = SQL!KeepRows(results, Listed(config))
    BY <1>1, <1>3 DEF SyncInv
  <2> QED BY <1>1, <2>1, SamePick DEF SQL!KeepRows
<1>6. results \in Seq(Row) /\ K \in SUBSET (1 .. Len(results))
  BY LenProperties DEF Base
<1>7. \A n : SecondsOf(results', n) = IF n \in Listed(config) THEN SecondsOf(results, n) ELSE <<>>
  BY <1>5, <1>6, SecondsOfKeep
<1>8. results' \in Seq(Row)
  <2> HIDE DEF K
  <2> QED BY <1>5, <1>6, PickProperties
<1>9. memMonitors' = config /\ memHistory' = [n \in DOMAIN memHistory \intersect Listed(config) |-> memHistory[n]]
  BY SameListed DEF SyncSucceeds, Mem!Sync
<1>10. \A n \in Names : Mem!HistoryOf(n)' = IF n \in Listed(config) THEN Mem!HistoryOf(n) ELSE <<>>
  BY <1>9 DEF Mem!HistoryOf
<1> QED BY <1>2, <1>4, <1>7, <1>8, <1>9, <1>10
-----------------------------------------------------------------------------
(* The invariant holds at first, and every step keeps it.                   *)

LEMMA IInvInit == Init => IInv
<1> SUFFICES ASSUME Init PROVE IInv
  OBVIOUS
<1>1. /\ monitors = SQL!NoMonitors /\ results = <<>> /\ tx = SQL!NoTx /\ step = 0
      /\ config = <<>> /\ stamp = [n \in Names |-> SQL!Unsaved] /\ clock \in Times
  BY DEF Init, SQL!Init
<1>2. memMonitors = <<>> /\ memHistory = [n \in {} |-> <<>>] /\ swept = Unswept
  BY DEF Init, Mem!Init
<1>3. Base
  <2>1. <<>> \in Seq(Row)
    BY EmptySeq
  <2>2. DOMAIN memHistory = {}
    BY <1>2
  <2> QED BY <1>1, <1>2, <2>1, <2>2 DEF Base, Lists
<1>4. Tabled(monitors, memMonitors)
  <2>1. Len(memMonitors) = 0 /\ DOMAIN memMonitors = {}
    BY <1>2, EmptySeq
  <2>2. DOMAIN monitors = {}
    BY <1>1 DEF SQL!NoMonitors
  <2> QED BY <2>1, <2>2 DEF Tabled, Listed
<1>5. ASSUME NEW n \in Names
      PROVE  /\ Due(n) <= clock /\ Matched(SecondsOf(results, n), Mem!HistoryOf(n), Due(n))
             /\ Lacking(SecondsOf(results, n), Mem!HistoryOf(n), swept)
  <2>1. Due(n) = clock /\ clock \in Nat
    BY <1>1, <1>3, BaseTypes DEF Due
  <2>2. Mem!HistoryOf(n) = <<>>
    BY <1>2 DEF Mem!HistoryOf
  <2>3. SecondsOf(results, n) = <<>>
    <3>1. Len(results) = 0 /\ <<>> \in Seq(Row)
      BY <1>1, EmptySeq
    <3>2. SQL!RowsOf(results, n) \in SUBSET (1 .. 0)
      BY <1>1, <3>1, SecondsOfProperties
    <3>3. SQL!RowsOf(results, n) = {}
      BY <3>2
    <3>4. SecondsOf(results, n) \in Seq(Nat) /\ Len(SecondsOf(results, n)) = 0
      BY <1>1, <3>1, <3>3, SecondsOfProperties, FS_EmptySet
    <3> QED BY <3>4, EmptySeq
  <2> QED BY <2>1, <2>2, <2>3, MatchedEmpty, LackingEmpty
<1>6. SyncInv
  BY <1>1 DEF SyncInv
<1> QED BY <1>3, <1>4, <1>5, <1>6 DEF IInv, Alike

(* What the clock and the stamps may do without disturbing what is saved.   *)
LEMMA AlikeLater ==
  ASSUME Base, Alike, Base',
         UNCHANGED <<monitors, memMonitors, results, memHistory, swept>>,
         \A n \in Names : Due(n) <= Due(n)' /\ Due(n)' <= clock'
  PROVE  Alike'
<1>1. Tabled(monitors, memMonitors)'
  BY DEF Alike, Tabled, Listed
<1>2. ASSUME NEW n \in Names
      PROVE  Matched(SecondsOf(results, n), Mem!HistoryOf(n), Due(n))'
  <2>1. SecondsOf(results, n)' = SecondsOf(results, n) /\ Mem!HistoryOf(n)' = Mem!HistoryOf(n)
    BY DEF Mem!HistoryOf
  <2>2. SecondsOf(results, n) \in Seq(Nat) /\ Mem!HistoryOf(n) \in Seq(Nat) /\ Due(n) \in Nat
    BY BaseTypes
  <2>3. Due(n)' \in Nat
    BY TimesAreNat DEF Base, Due
  <2>4. Matched(SecondsOf(results, n), Mem!HistoryOf(n), Due(n))
    BY DEF Alike
  <2>5. Matched(SecondsOf(results, n), Mem!HistoryOf(n), Due(n)')
    BY <2>2, <2>3, <2>4, MatchedLater
  <2>6. Matched(SecondsOf(results, n), Mem!HistoryOf(n), Due(n))'
          <=> Matched(SecondsOf(results, n)', Mem!HistoryOf(n)', Due(n)')
    BY DEF Matched, UpTo, Ascending, NewestOf, Seconds, Second
  <2> QED BY <2>1, <2>5, <2>6
<1>3. ASSUME NEW n \in Names
      PROVE  Lacking(SecondsOf(results, n), Mem!HistoryOf(n), swept)'
  <2>1. SecondsOf(results, n)' = SecondsOf(results, n) /\ Mem!HistoryOf(n)' = Mem!HistoryOf(n)
    BY DEF Mem!HistoryOf
  <2>2. Lacking(SecondsOf(results, n), Mem!HistoryOf(n), swept)
    BY DEF Alike
  <2> QED BY <2>1, <2>2 DEF Lacking
<1> QED BY <1>1, <1>2, <1>3 DEF Alike

LEMMA StampKeeps ==
  ASSUME IInv, NEW n \in Names, Stamp(n)
  PROVE  IInv'
<1>1. /\ stamp[n] = SQL!Unsaved /\ stamp' = [stamp EXCEPT ![n] = clock]
      /\ UNCHANGED <<monitors, results, tx, step, config, clock, memMonitors, memHistory, swept>>
  BY DEF Stamp, SQL!Stamp, SQL!tables, SQL!txVars, memVars
<1>2. Base'
  BY <1>1 DEF IInv, Base
<1>3. ASSUME NEW k \in Names PROVE Due(k) <= Due(k)' /\ Due(k)' <= clock'
  <2>1. Due(k) <= clock /\ clock \in Nat /\ Due(k) \in Nat
    BY BaseTypes DEF IInv, Alike
  <2>2. clock # SQL!Unsaved
    BY <2>1 DEF SQL!Unsaved
  <2>3. Due(k)' = IF k = n THEN clock ELSE Due(k)
    BY <1>1, <2>2 DEF IInv, Base, Due
  <2> QED BY <1>1, <2>1, <2>3
<1>4. Alike'
  BY <1>1, <1>2, <1>3, AlikeLater DEF IInv
<1>5. SyncInv'
  BY <1>1 DEF IInv, SyncInv, SQL!KeepRows
<1> QED BY <1>2, <1>4, <1>5 DEF IInv

LEMMA TickKeeps ==
  ASSUME IInv, ClockTick
  PROVE  IInv'
<1>1. /\ clock' \in Times /\ clock' > clock
      /\ UNCHANGED <<monitors, results, tx, step, config, stamp, memMonitors, memHistory, swept>>
  BY DEF ClockTick, SQL!ClockTick, SQL!tables, SQL!txVars, memVars
<1>2. Base'
  BY <1>1 DEF IInv, Base
<1>3. ASSUME NEW k \in Names PROVE Due(k) <= Due(k)' /\ Due(k)' <= clock'
  <2>1. Due(k) <= clock /\ clock \in Nat /\ Due(k) \in Nat
    BY BaseTypes DEF IInv, Alike
  <2>2. clock' \in Nat
    BY <1>1, TimesAreNat
  <2>3. Due(k)' = IF stamp[k] = SQL!Unsaved THEN clock' ELSE Due(k)
    BY <1>1 DEF Due
  <2>4. stamp[k] = SQL!Unsaved => Due(k) = clock
    BY DEF Due
  <2> QED BY <1>1, <2>1, <2>2, <2>3, <2>4
<1>4. Alike'
  BY <1>1, <1>2, <1>3, AlikeLater DEF IInv
<1>5. SyncInv'
  BY <1>1 DEF IInv, SyncInv, SQL!KeepRows
<1> QED BY <1>2, <1>4, <1>5 DEF IInv

(* The steps of a transaction before it ends leave alone what is saved.     *)
LEMMA TxKeeps ==
  ASSUME IInv, UNCHANGED <<monitors, results, stamp, clock, memMonitors, memHistory, swept>>,
         step' = 0 => tx' = SQL!NoTx /\ config' = <<>>, SyncInv'
  PROVE  IInv'
<1>1. Base'
  BY DEF IInv, Base
<1>2. ASSUME NEW k \in Names PROVE Due(k) <= Due(k)' /\ Due(k)' <= clock'
  <2>1. Due(k) <= clock /\ clock \in Nat /\ Due(k) \in Nat
    BY BaseTypes DEF IInv, Alike
  <2> QED BY <2>1 DEF Due
<1>3. Alike'
  BY <1>1, <1>2, AlikeLater DEF IInv
<1> QED BY <1>1, <1>3 DEF IInv
LEMMA BeginKeeps ==
  ASSUME IInv, NEW l \in Configs, SyncBegins(l)
  PROVE  IInv'
<1>1. /\ step' = 1 /\ config' = l /\ tx' = [monitors |-> monitors, results |-> results]
      /\ UNCHANGED <<monitors, results, stamp, clock, memMonitors, memHistory, swept>>
  BY DEF SyncBegins, SQL!Begin, SQL!tables, memVars
<1>2. l \in Configs
  BY SameConfigs
<1>3. Len(l) \in Nat
  BY <1>2, ListProperties DEF Lists
<1>4. DOMAIN tx' = {"monitors", "results"} /\ tx'.results = results' /\ tx'.monitors = monitors
  BY <1>1
<1>5. step' \in 1 .. Len(config') + 3 /\ ~(step' > Len(config') + 1) /\ ~(step' > Len(config') + 2)
  BY <1>1, <1>3
<1>6. \A i \in 1 .. Len(config') : ~(i < step')
  BY <1>1, <1>3
<1>7. SyncInv'
  BY <1>1, <1>2, <1>4, <1>5, <1>6 DEF SyncInv
<1> QED BY <1>1, <1>7, TxKeeps

LEMMA UpsertKeeps ==
  ASSUME IInv, SQL!UpsertOne, UNCHANGED <<memVars, swept>>
  PROVE  IInv'
<1> DEFINE e == config[step]
           t == tx.monitors
           u == SQL!Upsert(t, step - 1, e)
<1>1. /\ step \in 1 .. Len(config) /\ tx' = [tx EXCEPT !.monitors = u] /\ step' = step + 1
      /\ UNCHANGED <<monitors, results, config, stamp, clock, memMonitors, memHistory, swept>>
  BY DEF SQL!UpsertOne, SQL!tables, memVars
<1>2. step # 0 /\ config \in Configs
  <2>1. step # 0
    BY <1>1
  <2> QED BY <2>1 DEF IInv, SyncInv
<1>3. /\ Len(config) \in Nat
      /\ \A i \in 1 .. Len(config) : config[i].name = e.name => i = step
  BY <1>1, <1>2, ListProperties DEF Lists
<1>4. /\ DOMAIN u = DOMAIN t \union {e.name}
      /\ u[e.name] = [url |-> e.url, pos |-> step - 1]
      /\ \A n \in DOMAIN t : n # e.name => u[n] = t[n]
  BY DEF SQL!Upsert
<1>5. tx'.monitors = u /\ tx'.results = tx.results /\ DOMAIN tx' = {"monitors", "results"}
  <2>1. DOMAIN tx = {"monitors", "results"}
    BY <1>2 DEF IInv, SyncInv
  <2> QED BY <1>1, <2>1
<1> HIDE DEF u
<1>6. ASSUME NEW i \in 1 .. Len(config), i < step + 1
      PROVE  config[i].name \in DOMAIN u /\ u[config[i].name] = [url |-> config[i].url, pos |-> i - 1]
  <2>1. CASE i = step
    BY <1>4, <2>1
  <2>2. CASE i # step
    <3>1. i < step
      BY <1>1, <1>6, <2>2
    <3>2. /\ config[i].name \in DOMAIN t
          /\ t[config[i].name] = [url |-> config[i].url, pos |-> i - 1]
      BY <1>2, <3>1 DEF IInv, SyncInv
    <3>3. config[i].name # e.name
      BY <1>3, <2>2
    <3> QED BY <1>4, <3>2, <3>3
  <2> QED BY <2>1, <2>2
<1>7. /\ step' \in 1 .. Len(config) + 3 /\ ~(step' > Len(config) + 1) /\ ~(step' > Len(config) + 2)
      /\ ~(step > Len(config) + 2) /\ step' # 0
  BY <1>1, <1>3
<1>8. tx'.results = results'
  BY <1>1, <1>2, <1>5, <1>7 DEF IInv, SyncInv
<1>9. SyncInv'
  BY <1>1, <1>2, <1>5, <1>6, <1>7, <1>8 DEF SyncInv
<1> QED BY <1>1, <1>7, <1>9, TxKeeps DEF IInv

LEMMA PruneMonitorsKeeps ==
  ASSUME IInv, SQL!PruneMonitors, UNCHANGED <<memVars, swept>>
  PROVE  IInv'
<1> DEFINE t == tx.monitors
           u == SQL!KeepMonitors(t, Listed(config))
<1>1. /\ step # 0 /\ step = Len(config) + 1 /\ step' = step + 1
      /\ tx' = [tx EXCEPT !.monitors = u]
      /\ UNCHANGED <<monitors, results, config, stamp, clock, memMonitors, memHistory, swept>>
  BY SameListed DEF SQL!PruneMonitors, SQL!Free, SQL!tables, memVars
<1>2. config \in Configs
  BY <1>1 DEF IInv, SyncInv
<1>3. Len(config) \in Nat /\ DOMAIN config = 1 .. Len(config)
  BY <1>2, ListProperties DEF Lists
<1>4. DOMAIN u = DOMAIN t \intersect Listed(config) /\ \A n \in DOMAIN u : u[n] = t[n]
  BY DEF SQL!KeepMonitors
<1>5. tx'.monitors = u /\ tx'.results = tx.results /\ DOMAIN tx' = {"monitors", "results"}
  <2>1. DOMAIN tx = {"monitors", "results"}
    BY <1>1 DEF IInv, SyncInv
  <2> QED BY <1>1, <2>1
<1>6. ASSUME NEW i \in 1 .. Len(config)
      PROVE  /\ config[i].name \in Listed(config) /\ config[i].name \in DOMAIN t
             /\ t[config[i].name] = [url |-> config[i].url, pos |-> i - 1]
  <2>1. i < step
    BY <1>1, <1>3
  <2> QED BY <1>1, <1>3, <2>1 DEF IInv, SyncInv, Listed
<1> HIDE DEF u
<1>7. DOMAIN u = Listed(config)
  BY <1>3, <1>4, <1>6 DEF Listed
<1>8. \A i \in 1 .. Len(config) : /\ config[i].name \in DOMAIN u
                                  /\ u[config[i].name] = [url |-> config[i].url, pos |-> i - 1]
  BY <1>4, <1>6, <1>7
<1>9. /\ step' \in 1 .. Len(config) + 3 /\ ~(step' > Len(config) + 2)
      /\ ~(step > Len(config) + 2) /\ step' # 0
  BY <1>1, <1>3
<1>10. tx'.results = results'
  BY <1>1, <1>5, <1>9 DEF IInv, SyncInv
<1>11. SyncInv'
  BY <1>1, <1>2, <1>5, <1>7, <1>8, <1>9, <1>10 DEF SyncInv, Listed
<1> QED BY <1>1, <1>9, <1>11, TxKeeps DEF IInv

LEMMA PruneResultsKeeps ==
  ASSUME IInv, SQL!PruneResults, UNCHANGED <<memVars, swept>>
  PROVE  IInv'
<1>1. /\ step # 0 /\ step = Len(config) + 2 /\ step' = step + 1
      /\ tx' = [tx EXCEPT !.results = SQL!KeepRows(@, Listed(config))]
      /\ UNCHANGED <<monitors, results, config, stamp, clock, memMonitors, memHistory, swept>>
  BY SameListed DEF SQL!PruneResults, SQL!Free, SQL!tables, memVars
<1>2. config \in Configs
  BY <1>1 DEF IInv, SyncInv
<1>3. Len(config) \in Nat
  BY <1>2, ListProperties DEF Lists
<1>4. ~(step > Len(config) + 2) /\ step > Len(config) + 1
  BY <1>1, <1>3
<1>5. tx.results = results /\ DOMAIN tx.monitors = Listed(config)
  BY <1>1, <1>4 DEF IInv, SyncInv
<1>6. DOMAIN tx = {"monitors", "results"}
  BY <1>1 DEF IInv, SyncInv
<1>7. /\ tx'.monitors = tx.monitors /\ tx'.results = SQL!KeepRows(results, Listed(config))
      /\ DOMAIN tx' = {"monitors", "results"}
  BY <1>1, <1>5, <1>6
<1>8. /\ step' \in 1 .. Len(config) + 3 /\ step' > Len(config) + 2 /\ step' # 0
      /\ \A i \in 1 .. Len(config) : i < step
  BY <1>1, <1>3
<1>9. \A i \in 1 .. Len(config) :
        /\ config[i].name \in DOMAIN tx.monitors
        /\ tx.monitors[config[i].name] = [url |-> config[i].url, pos |-> i - 1]
  BY <1>1, <1>8 DEF IInv, SyncInv
<1>10. SyncInv'
  BY <1>1, <1>2, <1>5, <1>7, <1>8, <1>9 DEF SyncInv, Listed, SQL!KeepRows
<1> QED BY <1>1, <1>8, <1>10, TxKeeps DEF IInv

LEMMA AbortKeeps ==
  ASSUME IInv, SyncFails
  PROVE  IInv'
<1>1. /\ tx' = SQL!NoTx /\ step' = 0 /\ config' = <<>>
      /\ UNCHANGED <<monitors, results, stamp, clock, memMonitors, memHistory, swept>>
  BY DEF SyncFails, SQL!Abort, SQL!EndTx, SQL!tables, memVars
<1>2. SyncInv'
  BY <1>1 DEF SyncInv
<1> QED BY <1>1, <1>2, TxKeeps

LEMMA SaveKeeps ==
  ASSUME IInv, NEW n \in Names, Save(n)
  PROVE  IInv'
<1>1. /\ step = 0 /\ stamp' = [stamp EXCEPT ![n] = SQL!Unsaved]
      /\ UNCHANGED <<monitors, tx, step, config, clock, memMonitors, swept>>
  BY DEF Save, SQL!Save, Mem!Save, SQL!txVars, SQL!Free
<1>2. /\ results' \in Seq(Row)
      /\ stamp[n] \in Times /\ Due(n) = stamp[n]
      /\ SecondsOf(results', n) = Append(SecondsOf(results, n), Second(stamp[n]))
      /\ \A k \in Names : k # n => SecondsOf(results', k) = SecondsOf(results, k)
      /\ Mem!HistoryOf(n)' = LastN(Append(Mem!HistoryOf(n), stamp[n]), Limit)
      /\ \A k \in Names : k # n => Mem!HistoryOf(k)' = Mem!HistoryOf(k)
  BY SaveEffect DEF IInv
<1>3. Base'
  <2>1. DOMAIN memHistory' = DOMAIN memHistory \union {n}
    BY DEF Save, Mem!Save
  <2>2. ASSUME NEW k \in DOMAIN memHistory'
        PROVE  memHistory'[k] \in Seq(Times) /\ Len(memHistory'[k]) \in 1 .. Limit
    <3>1. CASE k # n
      <4>1. k \in DOMAIN memHistory /\ memHistory'[k] = memHistory[k]
        BY <2>1, <2>2, <3>1 DEF Save, Mem!Save
      <4> QED BY <4>1 DEF IInv, Base
    <3>2. CASE k = n
      <4> DEFINE h == Mem!HistoryOf(n)
                 a == Append(h, stamp[n])
                 v == LastN(a, Limit)
      <4>1. memHistory'[n] = v
        BY <1>2, <2>1 DEF Mem!HistoryOf
      <4>2. h \in Seq(Times)
        BY BaseTypes DEF IInv
      <4>3. a \in Seq(Times) /\ Len(a) = Len(h) + 1 /\ Len(h) \in Nat
        BY <1>2, <4>2, AppendProperties, LenProperties
      <4>4. Limit \in Nat /\ Limit # 0
        BY LimitAssumption
      <4> HIDE DEF a, h
      <4>5. v \in Seq(Times) /\ Len(v) = IF Len(a) > Limit THEN Limit ELSE Len(a)
        BY <4>3, <4>4, LastNProperties
      <4>6. Len(v) \in 1 .. Limit
        BY <4>3, <4>4, <4>5
      <4> QED BY <3>2, <4>1, <4>5, <4>6
    <3> QED BY <3>1, <3>2
  <2>3. DOMAIN memHistory' \subseteq Names
    BY <2>1 DEF IInv, Base
  <2> QED BY <1>1, <1>2, <2>2, <2>3 DEF IInv, Base
<1>4. Tabled(monitors, memMonitors)'
  BY <1>1 DEF IInv, Alike, Tabled, Listed
<1>5. ASSUME NEW k \in Names
      PROVE  Due(k)' <= clock' /\ Matched(SecondsOf(results', k), Mem!HistoryOf(k)', Due(k)')
  <2>1. /\ SecondsOf(results, k) \in Seq(Nat) /\ Mem!HistoryOf(k) \in Seq(Nat)
        /\ Due(k) \in Nat /\ clock \in Nat
    BY BaseTypes DEF IInv
  <2>2. Due(k) <= clock /\ Matched(SecondsOf(results, k), Mem!HistoryOf(k), Due(k))
    BY DEF IInv, Alike
  <2>3. Due(k)' = IF k = n THEN clock ELSE Due(k)
    BY <1>1 DEF IInv, Base, Due
  <2>4. CASE k = n
    <3>1. Matched(SecondsOf(results', k), Mem!HistoryOf(k)', Due(k))
      BY <1>2, <2>1, <2>2, <2>4, MatchedSave
    <3>2. SecondsOf(results', k) \in Seq(Nat) /\ Mem!HistoryOf(k)' \in Seq(Nat)
      <4>1. SecondsOf(results', k) \in Seq(Nat)
        BY <1>2, SecondsOfProperties
      <4>2. stamp[n] \in Nat
        BY <1>2, TimesAreNat
      <4>3. Append(Mem!HistoryOf(n), stamp[n]) \in Seq(Nat)
        BY <2>1, <2>4, <4>2, AppendProperties
      <4>4. Mem!HistoryOf(n)' \in Seq(Nat)
        BY <1>2, <4>3, LastNIsNewest, LimitAssumption
      <4> QED BY <2>4, <4>1, <4>4
    <3>3. Matched(SecondsOf(results', k), Mem!HistoryOf(k)', clock)
      BY <2>1, <2>2, <3>1, <3>2, MatchedLater
    <3> QED BY <1>1, <2>1, <2>3, <2>4, <3>3
  <2>5. CASE k # n
    BY <1>1, <1>2, <2>2, <2>3, <2>5
  <2> QED BY <2>4, <2>5
<1>6. ASSUME NEW k \in Names
      PROVE  Lacking(SecondsOf(results', k), Mem!HistoryOf(k)', swept')
  <2>1. Lacking(SecondsOf(results, k), Mem!HistoryOf(k), swept)
    BY DEF IInv, Alike
  <2>2. CASE k = n
    <3>1. SecondsOf(results, k) \in Seq(Nat) /\ Mem!HistoryOf(k) \in Seq(Nat)
      BY BaseTypes DEF IInv
    <3>2. stamp[n] \in Nat /\ Second(stamp[n]) \in Nat
      BY <1>2, TimesAreNat, SecondProperties
    <3>3. Matched(SecondsOf(results, k), Mem!HistoryOf(k), Due(k))
      BY DEF IInv, Alike
    <3>4. Len(Mem!HistoryOf(k)) <= Limit
      BY <3>3 DEF Matched
    <3>5. Len(Seconds(Mem!HistoryOf(k))) <= Len(SecondsOf(results, k))
      BY <3>3 DEF Matched, NewestOf
    <3>6. Len(Seconds(Mem!HistoryOf(k))) = Len(Mem!HistoryOf(k))
      BY <3>1, SecondsProperties
    <3>7. Lacking(Append(SecondsOf(results, k), Second(stamp[n])),
                  LastN(Append(Mem!HistoryOf(k), stamp[n]), Limit), swept)
      BY <2>1, <3>1, <3>2, <3>4, <3>5, <3>6, LackingSave
    <3> QED BY <1>1, <1>2, <2>2, <3>7
  <2>3. CASE k # n
    BY <1>1, <1>2, <2>1, <2>3
  <2> QED BY <2>2, <2>3
<1>7. Alike'
  BY <1>4, <1>5, <1>6 DEF Alike
<1>8. SyncInv'
  BY <1>1 DEF SyncInv
<1> QED BY <1>3, <1>7, <1>8 DEF IInv
LEMMA PruneKeeps ==
  ASSUME IInv, NEW before \in Times, Prune(before)
  PROVE  IInv'
<1>1. /\ step = 0 /\ UNCHANGED <<monitors, tx, step, config, stamp, clock, memMonitors>>
      /\ swept <= Second(before) /\ swept' = Second(before)
  BY SameSecond DEF Prune, SQL!Prune, Mem!Prune, SQL!txVars, SQL!Free
<1>2. results' \in Seq(Row)
  BY PruneEffect DEF IInv
<1>3. ASSUME NEW k \in Names
      PROVE  /\ Due(k)' <= clock' /\ Matched(SecondsOf(results', k), Mem!HistoryOf(k)', Due(k)')
             /\ Len(Mem!HistoryOf(k)') <= Limit
             /\ Lacking(SecondsOf(results', k), Mem!HistoryOf(k)', swept')
  <2>1. /\ SecondsOf(results, k) \in Seq(Nat) /\ Mem!HistoryOf(k) \in Seq(Nat)
        /\ Due(k) \in Nat
    BY BaseTypes DEF IInv
  <2>2. Due(k) <= clock /\ Matched(SecondsOf(results, k), Mem!HistoryOf(k), Due(k))
    BY DEF IInv, Alike
  <2>3. PICK d \in Nat : CutAt(SecondsOf(results, k), SecondsOf(results', k), d, Second(before))
    BY PruneEffect DEF IInv
  <2>4. PICK c \in Nat : CutAt(Mem!HistoryOf(k), Mem!HistoryOf(k)', c, before)
    BY PruneEffect DEF IInv
  <2>5. before \in Nat
    BY TimesAreNat
  <2>6. Matched(SecondsOf(results', k), Mem!HistoryOf(k)', Due(k))
    BY <2>1, <2>2, <2>3, <2>4, <2>5, MatchedPrune
  <2>7. Due(k)' = Due(k) /\ clock' = clock
    BY <1>1 DEF Due
  <2>8. Len(Mem!HistoryOf(k)') <= Limit
    BY <2>6 DEF Matched
  <2>9. swept \in Int /\ Lacking(SecondsOf(results, k), Mem!HistoryOf(k), swept)
    BY DEF IInv, Base, Alike, Unswept
  <2>10. Lacking(SecondsOf(results', k), Mem!HistoryOf(k)', Second(before))
    BY <1>1, <2>1, <2>2, <2>3, <2>4, <2>5, <2>9, LackingPrune
  <2> QED BY <1>1, <2>2, <2>6, <2>7, <2>8, <2>10
<1>4. Base'
  <2> DEFINE Places(m) == {i \in DOMAIN memHistory[m] : memHistory[m][i] >= before}
             kept(m) == Pick(memHistory[m], Places(m))
  <2>1. memHistory' = [k \in {m \in DOMAIN memHistory : kept(m) # <<>>} |-> kept(k)]
    BY SamePick DEF Prune, Mem!Prune
  <2>2. ASSUME NEW k \in DOMAIN memHistory'
        PROVE  memHistory'[k] \in Seq(Times) /\ Len(memHistory'[k]) \in 1 .. Limit
    <3>1. k \in DOMAIN memHistory /\ memHistory'[k] = kept(k) /\ kept(k) # <<>>
      <4> HIDE DEF kept
      <4> QED BY <2>1, <2>2
    <3>2. memHistory[k] \in Seq(Times) /\ k \in Names
      BY <3>1 DEF IInv, Base
    <3>3. Places(k) \in SUBSET (1 .. Len(memHistory[k]))
      BY <3>2, LenProperties
    <3> HIDE DEF Places
    <3>4. kept(k) \in Seq(Times)
      BY <3>2, <3>3, PickProperties
    <3> HIDE DEF kept
    <3>5. Mem!HistoryOf(k)' = memHistory'[k]
      BY <2>2 DEF Mem!HistoryOf
    <3>6. Len(kept(k)) <= Limit
      BY <1>3, <3>1, <3>2, <3>5
    <3>7. Len(kept(k)) \in Nat /\ Len(kept(k)) # 0
      BY <3>1, <3>4, LenProperties, EmptySeq
    <3> QED BY <3>1, <3>4, <3>6, <3>7, LimitAssumption
  <2> HIDE DEF kept
  <2>3. DOMAIN memHistory' \subseteq DOMAIN memHistory
    BY <2>1
  <2>4. swept' \in Nat \union {Unswept}
    BY <1>1, TimesAreNat, SecondProperties
  <2> QED BY <1>1, <1>2, <2>2, <2>3, <2>4 DEF IInv, Base
<1>5. Tabled(monitors, memMonitors)'
  BY <1>1 DEF IInv, Alike, Tabled, Listed
<1>6. Alike'
  BY <1>3, <1>5 DEF Alike
<1>7. SyncInv'
  BY <1>1 DEF SyncInv
<1> QED BY <1>4, <1>6, <1>7 DEF IInv

LEMMA SyncKeeps ==
  ASSUME IInv, SyncSucceeds
  PROVE  IInv'
<1>1. /\ config \in Configs /\ memMonitors' = config /\ Tabled(monitors', config)
      /\ results' \in Seq(Row)
      /\ \A n \in Names :
           /\ SecondsOf(results', n) = IF n \in Listed(config) THEN SecondsOf(results, n) ELSE <<>>
           /\ Mem!HistoryOf(n)' = IF n \in Listed(config) THEN Mem!HistoryOf(n) ELSE <<>>
  BY SyncEffect DEF IInv
<1>2. /\ tx' = SQL!NoTx /\ step' = 0 /\ config' = <<>> /\ UNCHANGED <<stamp, clock, swept>>
  BY DEF SyncSucceeds, SQL!Commit, SQL!EndTx
<1>3. memHistory' = [n \in DOMAIN memHistory \intersect Listed(config) |-> memHistory[n]]
  BY SameListed DEF SyncSucceeds, Mem!Sync
<1>4. Base'
  BY <1>1, <1>2, <1>3 DEF IInv, Base, Lists
<1>5. ASSUME NEW n \in Names
      PROVE  /\ Due(n)' <= clock' /\ Matched(SecondsOf(results', n), Mem!HistoryOf(n)', Due(n)')
             /\ Lacking(SecondsOf(results', n), Mem!HistoryOf(n)', swept')
  <2>1. Due(n)' = Due(n) /\ clock' = clock
    BY <1>2 DEF Due
  <2>2. Due(n) \in Nat
    BY BaseTypes DEF IInv
  <2>3. Due(n) <= clock /\ Matched(SecondsOf(results, n), Mem!HistoryOf(n), Due(n))
    BY DEF IInv, Alike
  <2>4. Matched(<<>>, <<>>, Due(n))
    BY <2>2, MatchedEmpty
  <2>5. Lacking(SecondsOf(results, n), Mem!HistoryOf(n), swept) /\ Lacking(<<>>, <<>>, swept)
    BY LackingEmpty DEF IInv, Alike
  <2> QED BY <1>1, <1>2, <2>1, <2>3, <2>4, <2>5
<1>6. Tabled(monitors, memMonitors)'
  <2>1. Tabled(monitors', memMonitors')
    BY <1>1
  <2> QED BY <2>1 DEF Tabled, Listed
<1>7. Alike'
  BY <1>5, <1>6 DEF Alike
<1>8. SyncInv'
  BY <1>2 DEF SyncInv
<1> QED BY <1>4, <1>7, <1>8 DEF IInv

LEMMA IInvNext == IInv /\ [Next]_vars => IInv'
<1> SUFFICES ASSUME IInv, [Next]_vars PROVE IInv'
  OBVIOUS
<1>1. ASSUME NEW n \in Names, Stamp(n) PROVE IInv'
  BY <1>1, StampKeeps
<1>2. ASSUME NEW n \in Names, Save(n) PROVE IInv'
  BY <1>2, SaveKeeps
<1>3. ASSUME NEW before \in Times, Prune(before) PROVE IInv'
  BY <1>3, PruneKeeps
<1>4. ASSUME NEW l \in Configs, SyncBegins(l) PROVE IInv'
  BY <1>4, BeginKeeps
<1>5. ASSUME SyncGoesOn PROVE IInv'
  BY <1>5, UpsertKeeps, PruneMonitorsKeeps, PruneResultsKeeps DEF SyncGoesOn
<1>6. ASSUME SyncFails PROVE IInv'
  BY <1>6, AbortKeeps
<1>7. ASSUME SyncSucceeds PROVE IInv'
  BY <1>7, SyncKeeps
<1>8. ASSUME ClockTick PROVE IInv'
  BY <1>8, TickKeeps
<1>9. ASSUME UNCHANGED vars PROVE IInv'
  <2>1. /\ UNCHANGED <<monitors, results, stamp, clock, memMonitors, memHistory, swept>>
        /\ UNCHANGED <<tx, step, config>>
    BY <1>9 DEF vars, memVars
  <2>2. SyncInv'
    BY <2>1 DEF IInv, SyncInv, Listed, SQL!KeepRows
  <2>3. step' = 0 => tx' = SQL!NoTx /\ config' = <<>>
    BY <2>1 DEF IInv, Base
  <2> QED BY <2>1, <2>2, <2>3, TxKeeps
<1> QED BY <1>1, <1>2, <1>3, <1>4, <1>5, <1>6, <1>7, <1>8, <1>9 DEF Next

THEOREM Invariant == Spec => []IInv
<1>1. Init => IInv
  BY IInvInit
<1>2. IInv /\ [Next]_vars => IInv'
  BY IInvNext
<1> QED BY <1>1, <1>2, PTL DEF Spec

-----------------------------------------------------------------------------
(* Type correctness: both stores hold what their types allow, a history is   *)
(* neither empty nor longer than the limit, and no two monitors have the     *)
(* same position, so that ORDER BY pos is an order.                         *)
THEOREM TypeCorrect == Spec => []TypeOK
<1>1. ASSUME IInv PROVE TypeOK
  <2> DEFINE l == memMonitors
  <2>1. l \in Lists /\ Tabled(monitors, l)
    BY <1>1 DEF IInv, Base, Alike
  <2>2. /\ Len(l) \in 0 .. Cardinality(Names) /\ Cardinality(Names) \in Nat
        /\ DOMAIN l = 1 .. Len(l)
        /\ \A i \in 1 .. Len(l) : l[i].name \in Names /\ l[i].url \in URLs
    BY <2>1, ListProperties
  <2>3. ASSUME NEW n \in DOMAIN monitors
        PROVE  \E i \in 1 .. Len(l) : n = l[i].name /\ monitors[n] = [url |-> l[i].url, pos |-> i - 1]
    BY <2>1, <2>2 DEF Tabled, Listed
  <2>4. ASSUME NEW n \in DOMAIN monitors
        PROVE  n \in Names /\ monitors[n] \in [url : URLs, pos : 0 .. Cardinality(Names) - 1]
    <3>1. PICK i \in 1 .. Len(l) : n = l[i].name /\ monitors[n] = [url |-> l[i].url, pos |-> i - 1]
      BY <2>3
    <3>2. i - 1 \in 0 .. Cardinality(Names) - 1
      BY <2>2
    <3> QED BY <2>2, <3>1, <3>2
  <2>5. ASSUME NEW n \in DOMAIN monitors, NEW k \in DOMAIN monitors,
               monitors[n].pos = monitors[k].pos
        PROVE  n = k
    <3>1. PICK i \in 1 .. Len(l) : n = l[i].name /\ monitors[n] = [url |-> l[i].url, pos |-> i - 1]
      BY <2>3
    <3>2. PICK j \in 1 .. Len(l) : k = l[j].name /\ monitors[k] = [url |-> l[j].url, pos |-> j - 1]
      BY <2>3
    <3>3. i - 1 = j - 1
      BY <2>5, <3>1, <3>2
    <3>4. i = j
      BY <2>2, <3>3
    <3> QED BY <3>1, <3>2, <3>4
  <2>6. step \in 0 .. Cardinality(Names) + 3
    <3>1. CASE step = 0
      BY <2>2, <3>1
    <3>2. CASE step # 0
      <4>1. config \in Configs /\ step \in 1 .. Len(config) + 3
        BY <1>1, <3>2 DEF IInv, SyncInv
      <4>2. Len(config) \in 0 .. Cardinality(Names)
        BY <4>1, ListProperties DEF Lists
      <4> QED BY <2>2, <4>1, <4>2
    <3> QED BY <3>1, <3>2
  <2>7. SQL!Cardinality(Names) = Cardinality(Names)
    BY DEF SQL!Cardinality, Cardinality
  <2>8. SQL!TypeOK
    BY <1>1, <2>4, <2>5, <2>6, <2>7 DEF IInv, Base, SQL!TypeOK, SQL!Free, Row
  <2>9. Mem!TypeOK
    BY <1>1, SameConfigs DEF IInv, Base, Lists, Mem!TypeOK, Mem!Unsaved, SQL!Unsaved
  <2>10. swept \in Nat \union {Unswept}
    BY <1>1 DEF IInv, Base
  <2> QED BY <2>8, <2>9, <2>10 DEF TypeOK
<1>2. IInv => TypeOK
  BY <1>1
<1> QED BY <1>2, Invariant, PTL

(* The adapters can be exchanged: they list the same monitors, the results   *)
(* the in-memory store shows are the newest SQLite shows, and what SQLite     *)
(* shows besides is of the second of the latest cut-off.                     *)
THEOREM InterchangeableHolds == Spec => []Interchangeable
<1>1. ASSUME IInv PROVE Interchangeable
  <2>1. SQL!List(monitors) = memMonitors
    BY <1>1, ListOfTable DEF IInv, Base, Alike
  <2>2. ASSUME NEW n \in Names
        PROVE  LET sql == SQL!History(results, n)
                   mem == Mem!HistoryOf(n)
               IN  /\ Len(mem) <= Len(sql)
                   /\ \A i \in DOMAIN mem : Second(mem[i]) = sql[Len(sql) - Len(mem) + i]
                   /\ \A i \in 1 .. Len(sql) - Len(mem) : sql[i] = swept
    <3> DEFINE all == SecondsOf(results, n)
               mem == Mem!HistoryOf(n)
               sql == LastN(all, Limit)
    <3>1. all \in Seq(Nat) /\ mem \in Seq(Nat)
      BY <1>1, BaseTypes DEF IInv
    <3>2. NewestOf(Seconds(mem), all) /\ Len(mem) <= Limit /\ Lacking(all, mem, swept)
      BY <1>1 DEF IInv, Alike, Matched
    <3>3. SQL!History(results, n) = sql
      BY <1>1, HistoryIsNewest DEF IInv, Base
    <3>4. /\ DOMAIN mem = 1 .. Len(mem) /\ Len(mem) \in Nat
          /\ Len(Seconds(mem)) = Len(mem)
          /\ \A i \in 1 .. Len(mem) : Seconds(mem)[i] = Second(mem[i])
      BY <3>1, LenProperties, SecondsProperties
    <3> HIDE DEF all, mem
    <3>5. /\ Len(all) \in Nat /\ Limit \in Nat
          /\ Len(sql) = IF Len(all) > Limit THEN Limit ELSE Len(all)
          /\ \A i \in 1 .. Len(sql) : sql[i] = all[Len(all) - Len(sql) + i]
      BY <3>1, LimitAssumption, LastNProperties, LenProperties
    <3> HIDE DEF sql
    <3>6. Len(mem) <= Len(all)
      BY <3>2, <3>4 DEF NewestOf
    <3>7. Len(mem) <= Len(sql) /\ Len(sql) \in Nat
      BY <3>2, <3>4, <3>5, <3>6
    <3>8. ASSUME NEW i \in 1 .. Len(mem)
          PROVE  Second(mem[i]) = sql[Len(sql) - Len(mem) + i]
      <4>1. Len(sql) - Len(mem) + i \in 1 .. Len(sql)
        BY <3>4, <3>7
      <4>2. sql[Len(sql) - Len(mem) + i] = all[Len(all) - Len(sql) + (Len(sql) - Len(mem) + i)]
        BY <3>5, <4>1
      <4>3. Len(all) - Len(sql) + (Len(sql) - Len(mem) + i) = Len(all) - Len(mem) + i
        <5>1. \A a, b, c \in Nat : a - b + (b - c + i) = a - c + i
          OBVIOUS
        <5>2. Len(all) \in Nat /\ Len(sql) \in Nat /\ Len(mem) \in Nat
          BY <3>4, <3>5, <3>7
        <5> QED BY <5>1, <5>2, Zenon
      <4>4. Seconds(mem)[i] = all[Len(all) - Len(mem) + i]
        BY <3>2, <3>4 DEF NewestOf
      <4> QED BY <3>4, <4>2, <4>3, <4>4
    <3>9. ASSUME NEW i \in 1 .. Len(sql) - Len(mem) PROVE sql[i] = swept
      <4>1. Len(mem) # Limit
        <5>1. Len(sql) <= Limit /\ Len(sql) \in Nat /\ Limit \in Nat
          BY <3>5, <3>7
        <5>2. Len(sql) - Len(mem) >= 1
          BY <3>4, <3>9, <5>1
        <5>3. \A a, b, c \in Nat : a <= c /\ a - b >= 1 => b # c
          OBVIOUS
        <5>4. Len(mem) \in Nat
          BY <3>4
        <5> QED BY <5>1, <5>2, <5>3, <5>4, Zenon
      <4>2. i \in 1 .. Len(sql) /\ Len(all) - Len(sql) + i \in 1 .. Len(all) - Len(mem)
        BY <3>4, <3>5, <3>7
      <4>3. sql[i] = all[Len(all) - Len(sql) + i]
        BY <3>5, <4>2
      <4> QED BY <3>2, <4>1, <4>2, <4>3 DEF Lacking
    <3> QED BY <3>3, <3>4, <3>7, <3>8, <3>9 DEF mem, sql
  <2> HIDE DEF Interchangeable
  <2>3. \A n \in Names :
          LET sql == SQL!History(results, n)
              mem == Mem!HistoryOf(n)
          IN  /\ Len(mem) <= Len(sql)
              /\ \A i \in DOMAIN mem : Second(mem[i]) = sql[Len(sql) - Len(mem) + i]
              /\ \A i \in 1 .. Len(sql) - Len(mem) : sql[i] = swept
    BY <2>2
  <2> QED BY <2>1, <2>3, Zenon DEF Interchangeable
<1>2. IInv => Interchangeable
  BY <1>1
<1> QED BY <1>2, Invariant, PTL
-----------------------------------------------------------------------------
(* Both adapters implement the port.  Save, Prune and the step by which a    *)
(* Sync succeeds are steps of a store; every other step is none.            *)

\* What the two show of a name, now and after the step.
Shown(n) == LastN(SecondsOf(results, n), Limit)
Held(n) == Seconds(Mem!HistoryOf(n))

LEMMA ShownAndHeld ==
  ASSUME IInv, IInv'
  PROVE  /\ SQL!List(monitors) = memMonitors /\ SQL!List(monitors') = memMonitors'
         /\ \A n \in Names : SQL!History(results, n) = Shown(n)
         /\ \A n \in Names : SQL!History(results', n) = Shown(n)'
         /\ \A n \in Names : Shown(n) \in Seq(Nat) /\ Len(Shown(n)) <= Limit
<1>1. /\ results \in Seq(Row) /\ results' \in Seq(Row)
      /\ memMonitors \in Lists /\ memMonitors' \in Lists
  BY DEF IInv, Base
<1>2. Tabled(monitors, memMonitors) /\ Tabled(monitors', memMonitors')
  BY DEF IInv, Alike
<1>3. SQL!List(monitors) = memMonitors
  BY <1>1, <1>2, ListOfTable
<1>4. SQL!List(monitors') = memMonitors'
  BY <1>1, <1>2, ListOfTable
<1>5. ASSUME NEW n \in Names
      PROVE  SQL!History(results, n) = Shown(n) /\ SQL!History(results', n) = Shown(n)'
  BY <1>1, HistoryIsNewest DEF Shown
<1>6. ASSUME NEW n \in Names PROVE Shown(n) \in Seq(Nat) /\ Len(Shown(n)) <= Limit
  BY <1>1, SecondsOfProperties, LastNIsNewest, LimitAssumption DEF Shown
<1> QED BY <1>3, <1>4, <1>5, <1>6

LEMMA SQLSaves ==
  ASSUME IInv, IInv', NEW n \in Names, Save(n)
  PROVE  SQL!Store!Next
<1> DEFINE at == stamp[n]
           before == [k \in Names |-> SQL!History(results, k)]
           after == [k \in Names |-> SQL!History(results', k)]
<1>1. /\ stamp[n] \in Times
      /\ SecondsOf(results', n) = Append(SecondsOf(results, n), Second(stamp[n]))
      /\ \A k \in Names : k # n => SecondsOf(results', k) = SecondsOf(results, k)
  BY SaveEffect DEF IInv
<1>2. SecondsOf(results, n) \in Seq(Nat) /\ Second(at) \in Nat /\ Limit \in Nat \ {0}
  BY <1>1, BaseTypes, TimesAreNat, SecondProperties, LimitAssumption DEF IInv
<1>3. Shown(n)' = LastN(Append(Shown(n), Second(at)), Limit)
  BY <1>1, <1>2, LastNOfAppend DEF Shown
<1>4. \A k \in Names : k # n => Shown(k)' = Shown(k)
  BY <1>1 DEF Shown
<1>5. after = [before EXCEPT ![n] = SQL!Store!LastN(Append(@, SQL!Store!Second(at)), Limit)]
  <2>1. /\ \A k \in Names : before[k] = Shown(k) /\ after[k] = Shown(k)'
        /\ DOMAIN before = Names
    BY ShownAndHeld
  <2>2. SQL!Store!LastN(Append(before[n], SQL!Store!Second(at)), Limit)
          = LastN(Append(before[n], Second(at)), Limit)
    BY SameLastN, SameSecond
  <2>3. \A k \in Names :
          after[k] = IF k = n THEN SQL!Store!LastN(Append(before[n], SQL!Store!Second(at)), Limit)
                     ELSE before[k]
    BY <1>3, <1>4, <2>1, <2>2
  <2>4. after = [k \in Names |-> after[k]]
    OBVIOUS
  <2> HIDE DEF before, after
  <2> QED BY <2>1, <2>3, <2>4
<1>6. SQL!List(monitors)' = SQL!List(monitors)
  BY DEF Save, SQL!Save
<1>7. SQL!Store!Save(n, at)
  BY <1>5, <1>6 DEF SQL!Store!Save
<1> QED BY <1>1, <1>7 DEF SQL!Store!Next

LEMMA SQLPrunes ==
  ASSUME IInv, IInv', NEW before \in Times, Prune(before)
  PROVE  SQL!Store!Next
<1> DEFINE x == Second(before)
<1>1. x \in Nat /\ Limit \in Nat \ {0}
  BY TimesAreNat, SecondProperties, LimitAssumption
<1>2. ASSUME NEW n \in Names PROVE \E c \in 0 .. Limit : DropsFirst(Shown(n), Shown(n)', c, x)
  <2>1. PICK d \in Nat : CutAt(SecondsOf(results, n), SecondsOf(results', n), d, x)
    BY PruneEffect DEF IInv
  <2>2. SecondsOf(results, n) \in Seq(Nat)
    BY BaseTypes DEF IInv
  <2> HIDE DEF x
  <2> QED BY <1>1, <2>1, <2>2, LastNOfCut DEF Shown
<1>3. ASSUME NEW n \in Names
      PROVE  LET past == SQL!History(results, n)
             IN  \E cut \in 0 .. Len(past) :
                   /\ \A i \in 1 .. cut : past[i] <= SQL!Store!Second(before)
                   /\ \A i \in cut + 1 .. Len(past) : past[i] >= SQL!Store!Second(before)
                   /\ SQL!History(results', n) = SubSeq(past, cut + 1, Len(past))
  <2>1. SQL!History(results, n) = Shown(n) /\ SQL!History(results', n) = Shown(n)'
    BY ShownAndHeld
  <2>2. SQL!Store!Second(before) = x
    BY SameSecond
  <2>3. Shown(n) \in Seq(Nat)
    BY ShownAndHeld
  <2>4. PICK c \in 0 .. Limit : DropsFirst(Shown(n), Shown(n)', c, x)
    BY <1>2
  <2>5. /\ c \in 0 .. Len(Shown(n))
        /\ \A i \in 1 .. c : Shown(n)[i] < x
        /\ \A i \in c + 1 .. Len(Shown(n)) : Shown(n)[i] >= x
        /\ Shown(n)' = SubSeq(Shown(n), c + 1, Len(Shown(n)))
    BY <1>1, <2>3, <2>4, LenProperties DEF DropsFirst
  <2> HIDE DEF x
  <2>6. \A i \in 1 .. c : Shown(n)[i] <= x
    <3>1. \A i \in 1 .. c : i \in 1 .. Len(Shown(n))
      BY <1>1, <2>3, <2>5, LenProperties
    <3>2. \A i \in 1 .. Len(Shown(n)) : Shown(n)[i] \in Nat
      BY <2>3, LenProperties
    <3> QED BY <1>1, <2>5, <3>1, <3>2
  <2> QED BY <2>1, <2>2, <2>5, <2>6
<1>4. SQL!List(monitors)' = SQL!List(monitors)
  BY DEF Prune, SQL!Prune
<1>5. SQL!Store!Prune(before)
  BY <1>3, <1>4 DEF SQL!Store!Prune
<1> QED BY <1>5 DEF SQL!Store!Next

LEMMA SQLSyncs ==
  ASSUME IInv, IInv', SyncSucceeds
  PROVE  SQL!Store!Next
<1>1. /\ config \in Configs /\ memMonitors' = config
      /\ \A n \in Names :
           SecondsOf(results', n) = IF n \in Listed(config) THEN SecondsOf(results, n) ELSE <<>>
  BY SyncEffect DEF IInv
<1>2. SQL!List(monitors') = config
  BY <1>1, ShownAndHeld
<1>3. ASSUME NEW n \in Names
      PROVE  SQL!History(results', n)
               = IF n \in SQL!Store!Listed(config) THEN SQL!History(results, n) ELSE <<>>
  <2>1. LastN(<<>>, Limit) = <<>>
    <3>1. Len(<<>>) = 0
      BY EmptySeq
    <3> QED BY <3>1, LimitAssumption DEF LastN
  <2>2. Shown(n)' = IF n \in Listed(config) THEN Shown(n) ELSE <<>>
    BY <1>1, <2>1 DEF Shown
  <2>3. SQL!Store!Listed(config) = Listed(config)
    BY SameListed
  <2> QED BY <2>2, <2>3, ShownAndHeld
<1>4. SQL!Store!Sync(config)
  <2>1. [n \in Names |-> SQL!History(results', n)]
          = [n \in Names |-> IF n \in SQL!Store!Listed(config) THEN SQL!History(results, n) ELSE <<>>]
    BY <1>3
  <2>2. \A n \in Names : [k \in Names |-> SQL!History(results, k)][n] = SQL!History(results, n)
    OBVIOUS
  <2> QED BY <1>2, <2>1, <2>2 DEF SQL!Store!Sync
<1> QED BY <1>1, <1>4, SameConfigs DEF SQL!Store!Next

THEOREM SQLiteIsStoreHolds == Spec => SQLiteIsStore
<1>1. Init => SQL!Store!Init
  <2> SUFFICES ASSUME Init PROVE SQL!Store!Init
    OBVIOUS
  <2>1. results = <<>> /\ memMonitors = <<>> /\ IInv
    BY IInvInit DEF Init, SQL!Init, Mem!Init
  <2>2. SQL!List(monitors) = <<>>
    BY <2>1, ListOfTable DEF IInv, Base, Alike
  <2>3. ASSUME NEW n \in Names PROVE SQL!History(results, n) = <<>>
    <3>1. SQL!RowsOf(results, n) = {} /\ results \in Seq(Row)
      BY <2>1, EmptySeq DEF SQL!RowsOf
    <3>2. SecondsOf(results, n) \in Seq(Nat) /\ Len(SecondsOf(results, n)) = 0
      BY <3>1, SecondsOfProperties, FS_EmptySet
    <3>3. SecondsOf(results, n) = <<>> /\ Len(<<>>) = 0
      BY <3>2, EmptySeq
    <3>4. LastN(<<>>, Limit) = <<>>
      BY <3>3, LimitAssumption DEF LastN
    <3> QED BY <3>1, <3>3, <3>4, HistoryIsNewest
  <2> QED BY <2>2, <2>3 DEF SQL!Store!Init
<1>2. IInv /\ IInv' /\ [Next]_vars => [SQL!Store!Next]_(SQL!Store!vars)
  <2> SUFFICES ASSUME IInv, IInv', [Next]_vars
               PROVE  SQL!Store!Next \/ UNCHANGED SQL!Store!vars
    OBVIOUS
  <2>1. ASSUME NEW n \in Names, Save(n) PROVE SQL!Store!Next
    BY <2>1, SQLSaves
  <2>2. ASSUME NEW before \in Times, Prune(before) PROVE SQL!Store!Next
    BY <2>2, SQLPrunes
  <2>3. ASSUME SyncSucceeds PROVE SQL!Store!Next
    BY <2>3, SQLSyncs
  <2>4. UNCHANGED <<monitors, results>> => UNCHANGED SQL!Store!vars
    BY DEF SQL!Store!vars
  <2>5. ASSUME NEW n \in Names, Stamp(n) PROVE UNCHANGED <<monitors, results>>
    BY <2>5 DEF Stamp, SQL!Stamp, SQL!tables
  <2>6. ASSUME NEW l \in Configs, SyncBegins(l) PROVE UNCHANGED <<monitors, results>>
    BY <2>6 DEF SyncBegins, SQL!Begin, SQL!tables
  <2>7. ASSUME SyncGoesOn PROVE UNCHANGED <<monitors, results>>
    BY <2>7 DEF SyncGoesOn, SQL!UpsertOne, SQL!PruneMonitors, SQL!PruneResults, SQL!tables
  <2>8. ASSUME SyncFails PROVE UNCHANGED <<monitors, results>>
    BY <2>8 DEF SyncFails, SQL!Abort, SQL!tables
  <2>9. ASSUME ClockTick PROVE UNCHANGED <<monitors, results>>
    BY <2>9 DEF ClockTick, SQL!ClockTick, SQL!tables
  <2>10. UNCHANGED vars => UNCHANGED <<monitors, results>>
    BY DEF vars
  <2> QED BY <2>1, <2>2, <2>3, <2>4, <2>5, <2>6, <2>7, <2>8, <2>9, <2>10 DEF Next
<1> QED BY <1>1, <1>2, Invariant, PTL DEF Spec, SQLiteIsStore, SQL!IsStore, SQL!Store!Spec
(* The in-memory store shows the seconds of the moments it holds.           *)
LEMMA HeldIsShown ==
  /\ \A n \in Names :
       [i \in 1 .. Len(Mem!HistoryOf(n)) |-> Mem!Second(Mem!HistoryOf(n)[i])] = Held(n)
  /\ \A n \in Names :
       [i \in 1 .. Len(Mem!HistoryOf(n)) |-> Mem!Second(Mem!HistoryOf(n)[i])]' = Held(n)'
<1>1. \A t : Mem!Second(t) = Second(t)
  BY SameSecond
<1> QED BY <1>1 DEF Held, Seconds

LEMMA MemoryNext ==
  ASSUME \/ \E n \in Names, at \in Times :
              /\ \A k \in Names : Held(k)' = IF k = n THEN LastN(Append(Held(n), Second(at)), Limit)
                                             ELSE Held(k)
              /\ memMonitors' = memMonitors
         \/ \E before \in Times :
              /\ \A n \in Names : \E cut \in 0 .. Len(Held(n)) :
                   /\ \A i \in 1 .. cut : Held(n)[i] <= Second(before)
                   /\ \A i \in cut + 1 .. Len(Held(n)) : Held(n)[i] >= Second(before)
                   /\ Held(n)' = SubSeq(Held(n), cut + 1, Len(Held(n)))
              /\ memMonitors' = memMonitors
         \/ \E l \in Configs :
              /\ \A n \in Names : Held(n)' = IF n \in Listed(l) THEN Held(n) ELSE <<>>
              /\ memMonitors' = l
  PROVE  Mem!Store!Next
<1> DEFINE now(n) == [i \in 1 .. Len(Mem!HistoryOf(n)) |-> Mem!Second(Mem!HistoryOf(n)[i])]
           later(n) == [i \in 1 .. Len(Mem!HistoryOf(n)) |-> Mem!Second(Mem!HistoryOf(n)[i])]'
           before0 == [n \in Names |-> now(n)]
           after0 == [n \in Names |-> later(n)]
<1>1. \A n \in Names : now(n) = Held(n) /\ later(n) = Held(n)'
  BY HeldIsShown
<1>2. ASSUME NEW n \in Names, NEW at \in Times, memMonitors' = memMonitors,
             \A k \in Names : Held(k)' = IF k = n THEN LastN(Append(Held(n), Second(at)), Limit)
                                         ELSE Held(k)
      PROVE  Mem!Store!Next
  <2>1. after0 = [before0 EXCEPT ![n] = Mem!Store!LastN(Append(@, Mem!Store!Second(at)), Limit)]
    <3> HIDE DEF now, later
    <3>1. Mem!Store!LastN(Append(before0[n], Mem!Store!Second(at)), Limit)
            = LastN(Append(Held(n), Second(at)), Limit)
      BY <1>1, SameLastN, SameSecond
    <3>2. \A k \in Names :
            after0[k] = IF k = n THEN Mem!Store!LastN(Append(before0[n], Mem!Store!Second(at)), Limit)
                        ELSE before0[k]
      BY <1>1, <1>2, <3>1
    <3>3. after0 = [k \in Names |-> after0[k]] /\ DOMAIN before0 = Names
      OBVIOUS
    <3> HIDE DEF before0, after0
    <3> QED BY <3>2, <3>3
  <2>2. Mem!Store!Save(n, at)
    BY <1>2, <2>1 DEF Mem!Store!Save
  <2> QED BY <2>2 DEF Mem!Store!Next
<1>3. ASSUME NEW before \in Times, memMonitors' = memMonitors,
             \A n \in Names : \E cut \in 0 .. Len(Held(n)) :
               /\ \A i \in 1 .. cut : Held(n)[i] <= Second(before)
               /\ \A i \in cut + 1 .. Len(Held(n)) : Held(n)[i] >= Second(before)
               /\ Held(n)' = SubSeq(Held(n), cut + 1, Len(Held(n)))
      PROVE  Mem!Store!Next
  <2>1. Mem!Store!Second(before) = Second(before)
    BY SameSecond
  <2>2. \A n \in Names : \E cut \in 0 .. Len(now(n)) :
          /\ \A i \in 1 .. cut : now(n)[i] <= Mem!Store!Second(before)
          /\ \A i \in cut + 1 .. Len(now(n)) : now(n)[i] >= Mem!Store!Second(before)
          /\ later(n) = SubSeq(now(n), cut + 1, Len(now(n)))
    <3> HIDE DEF now, later
    <3> QED BY <1>1, <1>3, <2>1
  <2>3. Mem!Store!Prune(before)
    BY <1>3, <2>2 DEF Mem!Store!Prune
  <2> QED BY <2>3 DEF Mem!Store!Next
<1>4. ASSUME NEW l \in Configs, memMonitors' = l,
             \A n \in Names : Held(n)' = IF n \in Listed(l) THEN Held(n) ELSE <<>>
      PROVE  Mem!Store!Next
  <2>1. Mem!Store!Listed(l) = Listed(l)
    BY SameListed
  <2>2. after0 = [n \in Names |-> IF n \in Mem!Store!Listed(l) THEN before0[n] ELSE <<>>]
    <3> HIDE DEF now, later
    <3> QED BY <1>1, <1>4, <2>1
  <2>3. Mem!Store!Sync(l)
    BY <1>4, <2>2 DEF Mem!Store!Sync
  <2> QED BY <2>3, SameConfigs DEF Mem!Store!Next
<1> QED BY <1>2, <1>3, <1>4
LEMMA MemorySaves ==
  ASSUME IInv, NEW n \in Names, Save(n)
  PROVE  Mem!Store!Next
<1> DEFINE at == stamp[n]
<1>1. /\ at \in Times
      /\ Mem!HistoryOf(n)' = LastN(Append(Mem!HistoryOf(n), at), Limit)
      /\ \A k \in Names : k # n => Mem!HistoryOf(k)' = Mem!HistoryOf(k)
  BY SaveEffect DEF IInv
<1>2. Mem!HistoryOf(n) \in Seq(Nat) /\ at \in Nat /\ Limit \in Nat
  BY <1>1, BaseTypes, TimesAreNat, LimitAssumption DEF IInv
<1>3. Held(n)' = LastN(Append(Held(n), Second(at)), Limit)
  <2>1. Seconds(LastN(Append(Mem!HistoryOf(n), at), Limit))
          = LastN(Append(Seconds(Mem!HistoryOf(n)), Second(at)), Limit)
    BY <1>2, SecondsOfSave
  <2>2. Held(n)' = Seconds(Mem!HistoryOf(n)')
    BY DEF Held, Seconds, Second
  <2> QED BY <1>1, <2>1, <2>2 DEF Held
<1>4. \A k \in Names : k # n => Held(k)' = Held(k)
  BY <1>1 DEF Held, Seconds, Second
<1>5. memMonitors' = memMonitors
  BY DEF Save, Mem!Save
<1> HIDE DEF at
<1>6. \A k \in Names : Held(k)' = IF k = n THEN LastN(Append(Held(n), Second(at)), Limit)
                                  ELSE Held(k)
  BY <1>3, <1>4
<1> QED BY <1>1, <1>5, <1>6, MemoryNext

LEMMA MemoryPrunes ==
  ASSUME IInv, NEW before \in Times, Prune(before)
  PROVE  Mem!Store!Next
<1> DEFINE x == Second(before)
<1>1. before \in Nat /\ x \in Nat /\ \A t \in Nat : Second(t) \in Nat
  BY TimesAreNat, SecondProperties
<1>2. ASSUME NEW n \in Names
      PROVE  \E cut \in 0 .. Len(Held(n)) :
               /\ \A i \in 1 .. cut : Held(n)[i] <= x
               /\ \A i \in cut + 1 .. Len(Held(n)) : Held(n)[i] >= x
               /\ Held(n)' = SubSeq(Held(n), cut + 1, Len(Held(n)))
  <2>0. PICK c \in Nat : CutAt(Mem!HistoryOf(n), Mem!HistoryOf(n)', c, before)
    BY PruneEffect DEF IInv
  <2> DEFINE h == Mem!HistoryOf(n)
             t == Mem!HistoryOf(n)'
             s == Seconds(h)
             u == Seconds(t)
             r == SubSeq(s, c + 1, Len(s))
  <2>1. h \in Seq(Nat) /\ Len(h) <= Limit
    BY BaseTypes DEF IInv, Alike, Matched
  <2>2. CutAt(h, t, c, before)
    BY <2>0
  <2>3. Held(n) = s /\ Held(n)' = u
    BY DEF Held, Seconds, Second
  <2> HIDE DEF h, t
  <2>4. /\ Len(h) \in Nat /\ c \in 0 .. Len(h) /\ Limit \in Nat
        /\ t \in Seq(Nat) /\ Len(t) = Len(h) - c
        /\ \A i \in 1 .. Len(h) : h[i] \in Nat
    BY <2>1, <2>2, LenProperties, LimitAssumption DEF CutAt
  <2>5. s \in Seq(Nat) /\ Len(s) = Len(h) /\ \A i \in 1 .. Len(h) : s[i] = Second(h[i])
    BY <2>1, SecondsProperties
  <2>6. u \in Seq(Nat) /\ Len(u) = Len(t) /\ \A i \in 1 .. Len(t) : u[i] = Second(t[i])
    BY <2>4, SecondsProperties
  <2> HIDE DEF s, u
  <2>7. c \in 0 .. Len(s)
    BY <2>4, <2>5
  <2>8. ASSUME NEW i \in 1 .. c PROVE s[i] <= x
    <3>1. i \in 1 .. Len(h) /\ h[i] < before
      BY <2>2, <2>4 DEF CutAt
    <3>2. h[i] \in Nat /\ h[i] <= before
      BY <1>1, <2>4, <3>1
    <3> QED BY <1>1, <2>5, <3>1, <3>2, SecondProperties
  <2>9. ASSUME NEW i \in c + 1 .. Len(s) PROVE s[i] >= x
    <3>1. i \in 1 .. Len(h) /\ i \in c + 1 .. Len(h)
      BY <2>4, <2>5
    <3>2. h[i] >= before /\ h[i] \in Nat
      BY <2>2, <2>4, <3>1 DEF CutAt
    <3>3. Second(before) <= Second(h[i]) /\ Second(h[i]) \in Nat
      BY <1>1, <3>2, SecondProperties
    <3> QED BY <1>1, <2>5, <3>1, <3>3
  <2>10. u = r
    <3>1. c \in Int /\ Len(s) \in Int /\ c <= Len(s)
      BY <2>4, <2>5
    <3>2. /\ r \in Seq(Nat) /\ Len(r) = Len(s) - c
          /\ \A i \in 1 .. Len(s) - c : r[i] = s[c + i]
      <4>1. \A i \in c + 1 .. Len(s) : s[i] \in Nat
        BY <2>4, <2>5, LenProperties
      <4>2. c + 1 \in Int /\ Len(s) \in Int
        BY <2>4, <2>5
      <4>3. /\ r \in Seq(Nat) /\ Len(r) = IF c + 1 <= Len(s) THEN Len(s) - (c + 1) + 1 ELSE 0
            /\ \A i \in 1 .. Len(s) - (c + 1) + 1 : r[i] = s[c + 1 + i - 1]
        BY <4>1, <4>2, SubSeqProperties
      <4> HIDE DEF r
      <4>4. Len(r) = Len(s) - c
        <5>1. Len(r) = IF c + 1 <= Len(s) THEN Len(s) - (c + 1) + 1 ELSE 0
          BY <4>3
        <5>2. CASE c + 1 <= Len(s)
          BY <3>1, <5>1, <5>2
        <5>3. CASE ~(c + 1 <= Len(s))
          BY <3>1, <5>1, <5>3
        <5> QED BY <5>2, <5>3
      <4>5. ASSUME NEW i \in 1 .. Len(s) - c PROVE r[i] = s[c + i]
        <5>1. i \in 1 .. Len(s) - (c + 1) + 1 /\ c + 1 + i - 1 = c + i
          BY <2>4, <4>2
        <5> QED BY <4>3, <5>1
      <4> QED BY <4>3, <4>4, <4>5
    <3> HIDE DEF r
    <3>3. Len(u) = Len(r)
      BY <2>4, <2>5, <2>6, <3>2
    <3>4. ASSUME NEW i \in 1 .. Len(u) PROVE u[i] = r[i]
      <4>1. i \in 1 .. Len(t) /\ i \in 1 .. Len(s) - c /\ c + i \in 1 .. Len(h)
        BY <2>4, <2>5, <2>6
      <4>2. t[i] = h[c + i]
        BY <2>2, <4>1 DEF CutAt
      <4> QED BY <2>5, <2>6, <3>2, <4>1, <4>2
    <3> QED BY <2>6, <3>2, <3>3, <3>4, SeqEqual
  <2> QED BY <2>3, <2>7, <2>8, <2>9, <2>10
<1>3. memMonitors' = memMonitors
  BY DEF Prune, Mem!Prune
<1> QED BY <1>2, <1>3, MemoryNext

LEMMA MemorySyncs ==
  ASSUME IInv, SyncSucceeds
  PROVE  Mem!Store!Next
<1>1. /\ config \in Configs /\ memMonitors' = config
      /\ \A n \in Names :
           Mem!HistoryOf(n)' = IF n \in Listed(config) THEN Mem!HistoryOf(n) ELSE <<>>
  BY SyncEffect DEF IInv
<1>2. Seconds(<<>>) = <<>>
  <2>1. <<>> \in Seq(Nat) /\ Len(<<>>) = 0
    BY EmptySeq
  <2>2. Seconds(<<>>) \in Seq(Nat) /\ Len(Seconds(<<>>)) = 0
    BY <2>1, SecondsProperties
  <2> QED BY <2>2, EmptySeq
<1>3. ASSUME NEW n \in Names PROVE Held(n)' = IF n \in Listed(config) THEN Held(n) ELSE <<>>
  <2>1. Held(n)' = Seconds(Mem!HistoryOf(n)')
    BY DEF Held, Seconds, Second
  <2> QED BY <1>1, <1>2, <2>1 DEF Held
<1> QED BY <1>1, <1>3, MemoryNext

THEOREM MemoryIsStoreHolds == Spec => MemoryIsStore
<1>1. Init => Mem!Store!Init
  <2> SUFFICES ASSUME Init PROVE Mem!Store!Init
    OBVIOUS
  <2>1. memMonitors = <<>> /\ \A n \in Names : Mem!HistoryOf(n) = <<>>
    BY DEF Init, Mem!Init, Mem!HistoryOf
  <2>2. \A n \in Names :
          [i \in 1 .. Len(Mem!HistoryOf(n)) |-> Mem!Second(Mem!HistoryOf(n)[i])] = <<>>
    <3>1. Len(<<>>) = 0
      BY EmptySeq
    <3> QED BY <2>1, <3>1
  <2> QED BY <2>1, <2>2 DEF Mem!Store!Init
<1>2. IInv /\ [Next]_vars => [Mem!Store!Next]_(Mem!Store!vars)
  <2> SUFFICES ASSUME IInv, [Next]_vars
               PROVE  Mem!Store!Next \/ UNCHANGED Mem!Store!vars
    OBVIOUS
  <2>1. ASSUME NEW n \in Names, Save(n) PROVE Mem!Store!Next
    BY <2>1, MemorySaves
  <2>2. ASSUME NEW before \in Times, Prune(before) PROVE Mem!Store!Next
    BY <2>2, MemoryPrunes
  <2>3. ASSUME SyncSucceeds PROVE Mem!Store!Next
    BY <2>3, MemorySyncs
  <2>4. UNCHANGED memVars => UNCHANGED Mem!Store!vars
    BY DEF Mem!Store!vars, memVars, Mem!HistoryOf, Mem!Second
  <2>5. ASSUME \/ \E n \in Names : Stamp(n)
               \/ \E l \in Configs : SyncBegins(l)
               \/ SyncGoesOn \/ SyncFails \/ ClockTick \/ UNCHANGED vars
        PROVE  UNCHANGED memVars
    BY <2>5 DEF Stamp, SyncBegins, SyncGoesOn, SyncFails, ClockTick, vars
  <2> QED BY <2>1, <2>2, <2>3, <2>4, <2>5 DEF Next
<1> QED BY <1>1, <1>2, Invariant, PTL DEF Spec, MemoryIsStore, Mem!IsStore, Mem!Store!Spec
=============================================================================
