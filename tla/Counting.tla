------------------------------ MODULE Counting ------------------------------
(***************************************************************************)
(* How many things there are when each of some keys has a number of them:  *)
(* counted as a set of coins, each the key it belongs to and its place among *)
(* that key's, so that a sum over keys needs no order to be added up in.    *)
(***************************************************************************)
EXTENDS Integers, FiniteSets, FiniteSetTheorems, TLAPS

CoinsOf(f) == UNION {{k} \X (1 .. f[k]) : k \in DOMAIN f}

LEMMA CoinsAre ==
  ASSUME NEW Keys, NEW f \in [Keys -> Nat]
  PROVE  \A x : x \in CoinsOf(f) <=> \E k \in Keys : \E i \in 1 .. f[k] : x = <<k, i>>
BY DEF CoinsOf

More(f, g, k, d) ==
  /\ f \in [DOMAIN f -> Nat] /\ g \in [DOMAIN f -> Nat] /\ k \in DOMAIN f /\ d \in Nat
  /\ g[k] = f[k] + d /\ (\A j \in DOMAIN f : j # k => g[j] = f[j])

\* So many more are so many coins more.
LEMMA MoreCoins ==
  ASSUME NEW f, NEW g, NEW k, NEW d, More(f, g, k, d), IsFiniteSet(CoinsOf(f))
  PROVE  /\ IsFiniteSet(CoinsOf(g))
         /\ Cardinality(CoinsOf(g)) = Cardinality(CoinsOf(f)) + d
<1> DEFINE more == {k} \X (f[k] + 1 .. f[k] + d)
           Keys == DOMAIN f
<1>1. /\ f[k] \in Nat /\ f \in [Keys -> Nat] /\ g \in [Keys -> Nat] /\ k \in Keys /\ d \in Nat
      /\ g[k] = f[k] + d /\ (\A j \in Keys : j # k => g[j] = f[j])
  BY DEF More
<1> HIDE DEF Keys
<1>2. IsFiniteSet(more) /\ Cardinality(more) = d
  <2>1. /\ IsFiniteSet(f[k] + 1 .. f[k] + d)
        /\ Cardinality(f[k] + 1 .. f[k] + d) = d
    <3>1. f[k] + 1 \in Int /\ f[k] + d \in Int
      BY <1>1
    <3> DEFINE lo == f[k] + 1
               hi == f[k] + d
    <3>2. (IF lo > hi THEN 0 ELSE hi - lo + 1) = d
      BY <1>1
    <3> HIDE DEF lo, hi
    <3>3. IsFiniteSet(lo .. hi) /\ Cardinality(lo .. hi) = d
      BY <3>1, <3>2, FS_Interval DEF lo, hi
    <3> QED
      BY <3>3 DEF lo, hi
  <2>2. IsFiniteSet({k}) /\ Cardinality({k}) = 1
    BY FS_Singleton
  <2> DEFINE T == f[k] + 1 .. f[k] + d
  <2> HIDE DEF T
  <2>3. IsFiniteSet(T) /\ Cardinality(T) = d
    BY <2>1 DEF T
  <2>4. IsFiniteSet({k} \X T) /\ Cardinality({k} \X T) = 1 * d
    BY <2>2, <2>3, FS_Product
  <2> QED
    BY <1>1, <2>4 DEF T
<1>3. \A x : x \in more <=> \E i \in f[k] + 1 .. f[k] + d : x = <<k, i>>
  OBVIOUS
<1>4. CoinsOf(g) = CoinsOf(f) \cup more
  <2>1. \A x : x \in CoinsOf(g) <=> \E j \in Keys : \E i \in 1 .. g[j] : x = <<j, i>>
    BY <1>1, CoinsAre
  <2>2. \A x : x \in CoinsOf(f) <=> \E j \in Keys : \E i \in 1 .. f[j] : x = <<j, i>>
    BY <1>1, CoinsAre
  <2>3. g[k] = f[k] + d /\ \A j \in Keys : j # k => g[j] = f[j]
    BY <1>1
  <2> HIDE DEF more
  <2>4. ASSUME NEW x \in CoinsOf(g) PROVE x \in CoinsOf(f) \/ x \in more
    <3>1. PICK j \in Keys : \E i \in 1 .. g[j] : x = <<j, i>>
      BY <2>1
    <3>2. PICK i \in 1 .. g[j] : x = <<j, i>>
      BY <3>1
    <3>3. CASE j # k
      BY <2>2, <2>3, <3>2, <3>3
    <3>4. CASE j = k /\ i <= f[k]
      <4>1. i \in 1 .. f[k]
        BY <1>1, <3>2, <3>4
      <4> QED
        BY <2>2, <3>2, <3>4, <4>1
    <3>5. CASE j = k /\ ~(i <= f[k])
      <4>1. i \in f[k] + 1 .. f[k] + d
        BY <1>1, <2>3, <3>2, <3>5
      <4> QED
        BY <1>3, <3>2, <3>5, <4>1
    <3> QED
      BY <3>3, <3>4, <3>5
  <2>5. ASSUME NEW x \in CoinsOf(f) PROVE x \in CoinsOf(g)
    <3>1. PICK j \in Keys : \E i \in 1 .. f[j] : x = <<j, i>>
      BY <2>2
    <3>2. PICK i \in 1 .. f[j] : x = <<j, i>>
      BY <3>1
    <3>3. f[j] \in Nat /\ g[j] \in Nat /\ f[j] <= g[j]
      BY <1>1, <2>3
    <3>4. i \in 1 .. g[j]
      BY <3>2, <3>3
    <3> QED
      BY <2>1, <3>2, <3>4
  <2>6. ASSUME NEW x \in more PROVE x \in CoinsOf(g)
    <3>1. PICK i \in f[k] + 1 .. f[k] + d : x = <<k, i>>
      BY <1>3
    <3>2. i \in 1 .. g[k]
      BY <1>1, <2>3, <3>1
    <3> QED
      BY <1>1, <2>1, <3>1, <3>2
  <2> QED
    BY <2>4, <2>5, <2>6
<1>5. CoinsOf(f) \cap more = {}
  <2>1. ASSUME NEW x \in CoinsOf(f), x \in more PROVE FALSE
    <3>1. PICK i \in f[k] + 1 .. f[k] + d : x = <<k, i>>
      BY <1>3, <2>1
    <3>2. PICK j \in Keys : \E h \in 1 .. f[j] : x = <<j, h>>
      BY <1>1, CoinsAre
    <3>3. PICK h \in 1 .. f[j] : x = <<j, h>>
      BY <3>2
    <3>4. j = k /\ h = i
      BY <3>1, <3>3
    <3> QED
      BY <1>1, <3>1, <3>3, <3>4
  <2> QED
    BY <2>1
<1> HIDE DEF more
<1>6. /\ IsFiniteSet(CoinsOf(f) \cup more)
      /\ Cardinality(CoinsOf(f) \cup more) = Cardinality(CoinsOf(f)) + d - Cardinality({})
  BY <1>2, <1>5, FS_Union
<1>7. Cardinality({}) = 0
  BY FS_EmptySet
<1>8. Cardinality(CoinsOf(f) \cup more) = Cardinality(CoinsOf(f)) + d
  <2> DEFINE n == Cardinality(CoinsOf(f))
  <2>1. n \in Nat
    BY FS_CardinalityType
  <2>2. Cardinality(CoinsOf(f) \cup more) = n + d - 0
    BY <1>6, <1>7, Zenon
  <2> HIDE DEF n
  <2>3. n + d - 0 = n + d
    BY <1>1, <2>1
  <2>4. Cardinality(CoinsOf(f) \cup more) = n + d
    BY <2>2, <2>3, Zenon
  <2> QED
    BY <2>4 DEF n
<1> QED
  BY <1>1, <1>4, <1>6, <1>8, Zenon

\* One for each of some keys.
LEMMA FirstCoins ==
  ASSUME NEW Keys, NEW F \in SUBSET Keys, IsFiniteSet(F), NEW f,
         f = [k \in Keys |-> IF k \in F THEN 1 ELSE 0]
  PROVE  IsFiniteSet(CoinsOf(f)) /\ Cardinality(CoinsOf(f)) = Cardinality(F)
<1>1. CoinsOf(f) = F \X (1 .. 1)
  <2>1. f \in [Keys -> Nat]
    OBVIOUS
  <2>2. \A x : x \in CoinsOf(f) <=> \E k \in Keys : \E i \in 1 .. f[k] : x = <<k, i>>
    BY <2>1, CoinsAre
  <2>3. ASSUME NEW x \in CoinsOf(f) PROVE x \in F \X (1 .. 1)
    <3>1. PICK k \in Keys : \E i \in 1 .. f[k] : x = <<k, i>>
      BY <2>2
    <3>2. PICK i \in 1 .. f[k] : x = <<k, i>>
      BY <3>1
    <3>3. k \in F /\ i \in 1 .. 1
      BY <3>2
    <3> QED
      BY <3>2, <3>3
  <2>4. ASSUME NEW x \in F \X (1 .. 1) PROVE x \in CoinsOf(f)
    <3>1. PICK k \in F, i \in 1 .. 1 : x = <<k, i>>
      OBVIOUS
    <3>2. k \in Keys /\ i \in 1 .. f[k]
      OBVIOUS
    <3> QED
      BY <2>2, <3>1, <3>2
  <2> QED
    BY <2>3, <2>4
<1>2. IsFiniteSet(1 .. 1) /\ Cardinality(1 .. 1) = 1
  <2>1. 1 .. 1 = {1}
    OBVIOUS
  <2> QED
    BY <2>1, FS_Singleton, ZenonT(30)
<1>3. IsFiniteSet(F \X (1 .. 1)) /\ Cardinality(F \X (1 .. 1)) = Cardinality(F) * 1
  BY <1>2, FS_Product
<1>4. Cardinality(F) * 1 = Cardinality(F)
  <2>1. Cardinality(F) \in Nat
    BY FS_CardinalityType
  <2> QED
    BY <2>1
<1> QED
  BY <1>1, <1>3, <1>4, Zenon

-----------------------------------------------------------------------------
(* How the count changes. *)

Counted(f, n) == IsFiniteSet(CoinsOf(f)) /\ Cardinality(CoinsOf(f)) = n

LEMMA NoCoins ==
  ASSUME NEW Keys, NEW f \in [Keys -> Nat], \A k \in Keys : f[k] = 0
  PROVE  Counted(f, 0)
<1>1. CoinsOf(f) = {}
  BY CoinsAre
<1> QED
  BY <1>1, FS_EmptySet DEF Counted

\* One key has more, or fewer, than it had.
LEMMA OneChanged ==
  ASSUME NEW Keys, NEW f \in [Keys -> Nat], NEW g \in [Keys -> Nat], NEW k \in Keys,
         \A j \in Keys : j # k => g[j] = f[j],
         NEW n \in Int, Counted(f, n)
  PROVE  Counted(g, n + (g[k] - f[k]))
<1>1. /\ f[k] \in Nat /\ g[k] \in Nat /\ DOMAIN f = Keys /\ DOMAIN g = Keys
      /\ IsFiniteSet(CoinsOf(f)) /\ Cardinality(CoinsOf(f)) = n
  BY DEF Counted
<1>2. CASE g[k] >= f[k]
  <2> DEFINE d == g[k] - f[k]
  <2>1. d \in Nat /\ g[k] = f[k] + d
    BY <1>1, <1>2
  <2>2. More(f, g, k, d)
    <3> HIDE DEF d
    <3> QED
      BY <1>1, <2>1 DEF More
  <2> HIDE DEF d
  <2>3. IsFiniteSet(CoinsOf(g)) /\ Cardinality(CoinsOf(g)) = Cardinality(CoinsOf(f)) + d
    BY <1>1, <2>2, MoreCoins
  <2>4. Counted(g, n + d)
    BY <1>1, <2>3, Zenon DEF Counted
  <2> QED
    BY <2>4 DEF d
<1>3. CASE ~(g[k] >= f[k])
  <2> DEFINE d == f[k] - g[k]
  <2>1. d \in Nat /\ f[k] = g[k] + d /\ n + (g[k] - f[k]) = n - d
    BY <1>1, <1>3
  <2>2. More(g, f, k, d)
    <3> HIDE DEF d
    <3> QED
      BY <1>1, <2>1 DEF More
  <2>3. CoinsOf(g) \in SUBSET CoinsOf(f)
    <3>1. \A j \in Keys : \A i \in 1 .. g[j] : i \in 1 .. f[j]
      <4> SUFFICES ASSUME NEW j \in Keys, NEW i \in 1 .. g[j] PROVE i \in 1 .. f[j]
        OBVIOUS
      <4>1. CASE j = k
        BY <1>1, <1>3, <4>1
      <4>2. CASE j # k
        BY <4>2
      <4> QED
        BY <4>1, <4>2
    <3>2. /\ \A x : x \in CoinsOf(f) <=> \E j \in Keys : \E i \in 1 .. f[j] : x = <<j, i>>
          /\ \A x : x \in CoinsOf(g) <=> \E j \in Keys : \E i \in 1 .. g[j] : x = <<j, i>>
      BY CoinsAre
    <3> QED
      BY <3>1, <3>2
  <2> HIDE DEF d
  <2>4. IsFiniteSet(CoinsOf(g)) /\ Cardinality(CoinsOf(g)) \in Nat
    BY <1>1, <2>3, FS_Subset, FS_CardinalityType
  <2>5. Cardinality(CoinsOf(f)) = Cardinality(CoinsOf(g)) + d
    BY <2>2, <2>4, MoreCoins
  <2> DEFINE c == Cardinality(CoinsOf(g))
  <2>6. c = n - d
    <3>1. c \in Nat /\ n = c + d
      BY <1>1, <2>4, <2>5
    <3> HIDE DEF c
    <3> QED
      BY <2>1, <3>1
  <2> QED
    BY <2>1, <2>4, <2>6, Zenon DEF Counted, c
<1> QED
  BY <1>2, <1>3

LEMMA TwoChanged ==
  ASSUME NEW Keys, NEW f \in [Keys -> Nat], NEW g \in [Keys -> Nat],
         NEW k \in Keys, NEW l \in Keys, k # l,
         \A j \in Keys : j # k /\ j # l => g[j] = f[j],
         NEW n \in Int, Counted(f, n)
  PROVE  Counted(g, n + (g[k] - f[k]) + (g[l] - f[l]))
<1> DEFINE h == [j \in Keys |-> IF j = k THEN g[j] ELSE f[j]]
<1>1. /\ h \in [Keys -> Nat] /\ h[k] = g[k] /\ h[l] = f[l]
      /\ \A j \in Keys : j # k => h[j] = f[j]
      /\ \A j \in Keys : j # l => g[j] = h[j]
  OBVIOUS
<1> HIDE DEF h
<1>2. Counted(h, n + (g[k] - f[k]))
  <2>1. Counted(h, n + (h[k] - f[k]))
    BY <1>1, OneChanged
  <2> QED
    BY <1>1, <2>1
<1>3. n + (g[k] - f[k]) \in Int
  BY <1>1
<1> DEFINE m == n + (g[k] - f[k])
<1> HIDE DEF m
<1>4. Counted(g, m + (g[l] - h[l]))
  BY <1>1, <1>2, <1>3, OneChanged DEF m
<1> QED
  BY <1>1, <1>4 DEF m

LEMMA ThreeChanged ==
  ASSUME NEW Keys, NEW f \in [Keys -> Nat], NEW g \in [Keys -> Nat],
         NEW k \in Keys, NEW l \in Keys, NEW m \in Keys, k # l, k # m, l # m,
         \A j \in Keys : j # k /\ j # l /\ j # m => g[j] = f[j],
         NEW n \in Int, Counted(f, n)
  PROVE  Counted(g, n + (g[k] - f[k]) + (g[l] - f[l]) + (g[m] - f[m]))
<1> DEFINE h == [j \in Keys |-> IF j = k \/ j = l THEN g[j] ELSE f[j]]
<1>1. /\ h \in [Keys -> Nat] /\ h[k] = g[k] /\ h[l] = g[l] /\ h[m] = f[m]
      /\ \A j \in Keys : j # k /\ j # l => h[j] = f[j]
      /\ \A j \in Keys : j # m => g[j] = h[j]
  OBVIOUS
<1> HIDE DEF h
<1> DEFINE o == n + (g[k] - f[k]) + (g[l] - f[l])
<1>2. Counted(h, o)
  <2>1. Counted(h, n + (h[k] - f[k]) + (h[l] - f[l]))
    BY <1>1, TwoChanged
  <2> QED
    BY <1>1, <2>1
<1>3. o \in Int
  BY <1>1
<1> HIDE DEF o
<1>4. Counted(g, o + (g[m] - h[m]))
  BY <1>1, <1>2, <1>3, OneChanged
<1> QED
  BY <1>1, <1>4 DEF o

=============================================================================
