---------------------------- MODULE CarrierProofs -----------------------------
(***************************************************************************)
(* Facts about texts and about weaving runs into them, for every text and  *)
(* every number and size of shards.                                        *)
(***************************************************************************)
EXTENDS Carrier, FiniteSetTheorems, SequenceTheorems, WellFoundedInduction, TLAPS

(* The least-number principle, in a form that takes the set itself: this   *)
(* is where the proofs get their induction from.                           *)
LEMMA LeastNumber ==
  ASSUME NEW N \in SUBSET Nat, N # {}
  PROVE  \E m \in N : \A k \in N : m <= k
<1> DEFINE Upto == {0..n : n \in N}
<1>1. /\ Upto \subseteq FiniteSubsetsOf(Nat)
      /\ Upto # {}
  <2>1. ASSUME NEW n \in N PROVE 0..n \in FiniteSubsetsOf(Nat)
    BY FS_Interval DEF FiniteSubsetsOf
  <2> QED BY <2>1
<1>2. PICK X \in Upto :
        \A Y \in Upto : ~(<<Y, X>> \in StrictSubsetOrdering(Nat))
  <2> HIDE DEF Upto
  <2> QED BY <1>1, WFMin, FS_StrictSubsetOrderingWellFounded
<1>3. PICK m \in N : X = 0..m  OBVIOUS
<1>4. ASSUME NEW k \in N, ~(m <= k) PROVE FALSE
  <2>1. /\ 0..k \in SUBSET Nat /\ 0..m \in SUBSET Nat
        /\ 0..k \subseteq 0..m
    BY <1>4
  <2>2. m \in 0..m /\ m \notin 0..k  BY <1>4
  <2>3. <<0..k, 0..m>> \in StrictSubsetOrdering(Nat)
    BY <2>1, <2>2 DEF StrictSubsetOrdering
  <2>4. 0..k \in Upto  OBVIOUS
  <2> QED BY <1>2, <1>3, <2>3, <2>4
<1> QED BY <1>4

(* A set of the numbers 1..n that holds, with a number, all smaller ones.  *)
LEMMA InitialSegment ==
  ASSUME NEW n \in Nat, NEW B \in SUBSET (1..n),
         \A j, k \in 1..n : j < k /\ k \in B => j \in B
  PROVE  /\ Cardinality(B) \in 0..n
         /\ \A j \in 1..n : j \in B <=> j <= Cardinality(B)
<1>1. CASE B = 1..n
  <2>1. Cardinality(1..n) = n  BY FS_Interval
  <2> QED BY <1>1, <2>1
<1>2. CASE B # 1..n
  <2> DEFINE Gone == (1..n) \ B
  <2>1. PICK m \in Gone : \A k \in Gone : m <= k
    <3>1. \A j \in 1..n : j \in Nat  OBVIOUS
    <3>2. Gone \in SUBSET Nat  BY <3>1
    <3>3. Gone # {}  BY <1>2
    <3> HIDE DEF Gone
    <3> QED BY <3>2, <3>3, LeastNumber
  <2>2. m \in 1..n /\ m - 1 \in 0..n  OBVIOUS
  <2>3. B = 1..(m - 1)
    <3>1. ASSUME NEW k \in B PROVE k \in 1..(m - 1)
      <4>1. k \in 1..n  OBVIOUS
      <4>2. k # m /\ ~(m < k)  BY <4>1, <2>2
      <4> QED BY <4>1, <4>2, <2>2
    <3>2. ASSUME NEW k \in 1..(m - 1) PROVE k \in B
      BY <2>1, <2>2
    <3> QED BY <3>1, <3>2
  <2>4. Cardinality(B) = m - 1  BY <2>2, <2>3, FS_Interval
  <2> QED BY <2>2, <2>3, <2>4
<1> QED BY <1>1, <1>2

LEMMA PositionsFinite ==
  ASSUME NEW n \in Nat, NEW P \in SUBSET (1..n)
  PROVE  /\ IsFiniteSet(P) /\ Cardinality(P) \in Nat
         /\ \A i \in P : i \in Nat /\ 1 <= i /\ i <= n
<1>1. IsFiniteSet(1..n)  BY FS_Interval
<1>2. IsFiniteSet(P)  BY <1>1, FS_Subset
<1>3. Cardinality(P) \in Nat  BY <1>2, FS_CardinalityType
<1>4. \A i \in P : i \in 1..n  OBVIOUS
<1> QED BY <1>2, <1>3, <1>4

(* There is a k-th smallest number. *)
LEMMA NthExists ==
  ASSUME NEW n \in Nat, NEW P \in SUBSET (1..n), NEW k \in 1..Cardinality(P)
  PROVE  Nth(P, k) \in P /\ Cardinality({j \in P : j <= Nth(P, k)}) = k
<1> DEFINE upto(i) == {j \in P : j <= i}
           c(i) == Cardinality(upto(i))
           Enough == {i \in Nat : c(i) >= k}
<1>1. /\ IsFiniteSet(P) /\ Cardinality(P) \in Nat
      /\ \A i \in P : i \in Nat /\ 1 <= i /\ i <= n
      /\ k \in Nat /\ 1 <= k /\ k <= Cardinality(P)
  BY PositionsFinite
<1>2. ASSUME NEW i \in Nat PROVE IsFiniteSet(upto(i)) /\ c(i) \in Nat
  <2>1. upto(i) \in SUBSET P  OBVIOUS
  <2>2. IsFiniteSet(upto(i))  BY <1>1, <2>1, FS_Subset
  <2> QED BY <2>2, FS_CardinalityType
<1>3. upto(n) = P  BY <1>1
<1>4. c(0) = 0
  <2>1. ASSUME NEW j \in upto(0) PROVE FALSE
    <3>1. j \in P /\ j <= 0  OBVIOUS
    <3> QED BY <3>1, <1>1
  <2>2. upto(0) = {}  BY <2>1
  <2> QED BY <2>2, FS_EmptySet
<1>5. ASSUME NEW i \in Nat
      PROVE  IF i + 1 \in P THEN c(i + 1) = c(i) + 1 ELSE c(i + 1) = c(i)
  <2>1. CASE i + 1 \notin P
    <3>1. \A j \in P : j <= i + 1 <=> j <= i  BY <2>1, <1>1
    <3>2. upto(i + 1) = upto(i)  BY <3>1
    <3> QED BY <3>2, <2>1
  <2>2. CASE i + 1 \in P
    <3>0. \A j \in P : j <= i + 1 <=> j <= i \/ j = i + 1  BY <1>1
    <3>1. upto(i + 1) = upto(i) \cup {i + 1}  BY <3>0, <2>2
    <3>2. i + 1 \notin upto(i)  OBVIOUS
    <3>3. c(i + 1) = c(i) + 1
      <4> HIDE DEF upto
      <4> QED BY <3>1, <3>2, <1>2, FS_AddElement
    <3> QED BY <3>3, <2>2
  <2> QED BY <2>1, <2>2
<1>6. c(n) = Cardinality(P)  BY <1>3
<1>7. \A j \in Nat : c(j) \in Nat  BY <1>2
<1> HIDE DEF c
<1>8. PICK m \in Enough : \A i \in Enough : m <= i
  <2>1. Enough \in SUBSET Nat /\ n \in Enough  BY <1>1, <1>6
  <2> HIDE DEF Enough
  <2> QED BY <2>1, LeastNumber
<1>9. m \in Nat /\ c(m) >= k  OBVIOUS
<1>10. m # 0  BY <1>1, <1>4, <1>9
<1>11. PICK i \in Nat : m = i + 1
  <2>1. m - 1 \in Nat /\ m = (m - 1) + 1  BY <1>9, <1>10
  <2> QED BY <2>1
<1>12. c(i) < k
  <2>1. i \notin Enough  BY <1>8, <1>11
  <2> QED BY <2>1, <1>1, <1>7
<1>13. m \in P /\ c(m) = k
  BY <1>1, <1>5, <1>9, <1>11, <1>7, <1>12
<1>14. \E p \in P : Cardinality({j \in P : j <= p}) = k
  BY <1>13 DEF c
<1> QED BY <1>14 DEF Nth

(* S and T as plain naturals, with the products the positions are made of. *)
LEMMA ShardArithmetic ==
  /\ TOTAL_SHARDS \in Nat /\ TOTAL_SHARDS > 0
  /\ SYMBOLS_PER_SHARD \in Nat /\ SYMBOLS_PER_SHARD > 0
  /\ \A a \in Nat : /\ a * SYMBOLS_PER_SHARD \in Nat
                    /\ (a + 1) * SYMBOLS_PER_SHARD
                         = a * SYMBOLS_PER_SHARD + SYMBOLS_PER_SHARD
  /\ \A a, b \in Nat :
       a <= b => a * SYMBOLS_PER_SHARD <= b * SYMBOLS_PER_SHARD
<1>1. /\ TOTAL_SHARDS \in Nat /\ TOTAL_SHARDS > 0
      /\ SYMBOLS_PER_SHARD \in Nat /\ SYMBOLS_PER_SHARD > 0
  BY ShardsAssumption
<1>2. ASSUME NEW a \in Nat, NEW b \in Nat, a <= b
      PROVE  a * SYMBOLS_PER_SHARD <= b * SYMBOLS_PER_SHARD
  <2> DEFINE x == a * SYMBOLS_PER_SHARD
             y == b * SYMBOLS_PER_SHARD
             z == (b - a) * SYMBOLS_PER_SHARD
  <2>1. b - a \in Nat  BY <1>2
  <2>2. x \in Int /\ y \in Int /\ z \in Nat  BY <1>1, <2>1
  <2>3. y = x + z  BY <1>1
  <2> HIDE DEF x, y, z
  <2>4. x <= y  BY <2>2, <2>3
  <2> QED BY <2>4 DEF x, y
<1>3. \A a \in Nat : /\ a * SYMBOLS_PER_SHARD \in Nat
                     /\ (a + 1) * SYMBOLS_PER_SHARD
                          = a * SYMBOLS_PER_SHARD + SYMBOLS_PER_SHARD
  BY <1>1
<1> QED BY <1>1, <1>2, <1>3

(* Stripping a text adds no characters. *)
LEMMA StripType ==
  ASSUME NEW S, NEW t \in Seq(S)
  PROVE  Strip(t) \in Seq(S)
<1> DEFINE kept == {i \in 1..Len(t) : ~IsZeroWidth(t[i])}
<1>1. Len(t) \in Nat /\ kept \in SUBSET (1..Len(t))  OBVIOUS
<1>2. Cardinality(kept) \in Nat
  <2> HIDE DEF kept
  <2> QED BY <1>1, PositionsFinite
<1>3. \A k \in 1..Cardinality(kept) : t[Nth(kept, k)] \in S
  <2> HIDE DEF kept
  <2>1. ASSUME NEW k \in 1..Cardinality(kept) PROVE t[Nth(kept, k)] \in S
    <3>1. Nth(kept, k) \in kept  BY <1>1, NthExists
    <3>2. Nth(kept, k) \in 1..Len(t)  BY <1>1, <3>1
    <3> QED BY <3>2
  <2> QED BY <2>1
<1>4. At(t, kept) \in Seq(S)
  <2> HIDE DEF kept
  <2> QED BY <1>2, <1>3 DEF At
<1> QED BY <1>4 DEF Strip

(* A number is the k-th smallest of a set for its own k. *)
LEMMA NthIs ==
  ASSUME NEW n \in Nat, NEW P \in SUBSET (1..n), NEW x \in P
  PROVE  Nth(P, Cardinality({j \in P : j <= x})) = x
<1> DEFINE upto(y) == {j \in P : j <= y}
<1>1. IsFiniteSet(P) /\ \A y \in P : y \in Nat  BY PositionsFinite
<1>2. \A y \in P : IsFiniteSet(upto(y)) /\ Cardinality(upto(y)) \in Nat
  <2> SUFFICES ASSUME NEW y \in P
               PROVE  IsFiniteSet(upto(y)) /\ Cardinality(upto(y)) \in Nat
    OBVIOUS
  <2>1. upto(y) \in SUBSET P  OBVIOUS
  <2> HIDE DEF upto
  <2> QED BY <1>1, <2>1, FS_Subset, FS_CardinalityType
<1>3. ASSUME NEW y \in P, NEW z \in P, y < z
      PROVE  Cardinality(upto(y)) < Cardinality(upto(z))
  <2>1. upto(y) \subseteq upto(z) /\ z \in upto(z) /\ z \notin upto(y)
    <3>1. y \in Nat /\ z \in Nat /\ z <= z /\ ~(z <= y)  BY <1>1, <1>3
    <3>2. \A j \in P : j <= y => j <= z  BY <1>1, <1>3, <3>1
    <3> QED BY <3>1, <3>2
  <2>2. upto(y) \in SUBSET (upto(z) \ {z})  BY <2>1
  <2> HIDE DEF upto
  <2>3. /\ IsFiniteSet(upto(z) \ {z})
        /\ Cardinality(upto(z) \ {z}) = Cardinality(upto(z)) - 1
    BY <1>2, <2>1, FS_RemoveElement
  <2>4. Cardinality(upto(y)) <= Cardinality(upto(z) \ {z})
    BY <2>2, <2>3, FS_Subset
  <2> QED BY <1>2, <2>3, <2>4
<1>4. ASSUME NEW y \in P, Cardinality(upto(y)) = Cardinality(upto(x))
      PROVE  y = x
  <2>1. y \in Nat /\ x \in Nat  BY <1>1
  <2>2. ~(y < x)
    <3> HIDE DEF upto
    <3> QED BY <1>2, <1>3, <1>4
  <2>3. ~(x < y)
    <3> HIDE DEF upto
    <3> QED BY <1>2, <1>3, <1>4
  <2> QED BY <2>1, <2>2, <2>3
<1>5. \A y \in P : Cardinality({j \in P : j <= y}) = Cardinality(upto(x)) => y = x
  BY <1>4
<1> QED BY <1>5 DEF Nth

(* At reads the positions it is given, and no others. *)
LEMMA AtSame ==
  ASSUME NEW n \in Nat, NEW P \in SUBSET (1..n), NEW t, NEW u,
         \A j \in P : t[j] = u[j]
  PROVE  At(t, P) = At(u, P)
<1>1. \A k \in 1..Cardinality(P) : t[Nth(P, k)] = u[Nth(P, k)]
  BY NthExists
<1> QED BY <1>1 DEF At

(* A position after all others gives one character more. *)
LEMMA AtAppend ==
  ASSUME NEW n \in Nat, NEW P \in SUBSET (1..n), NEW t
  PROVE  At(t, P \cup {n + 1}) = Append(At(t, P), t[n + 1])
<1> DEFINE Q == P \cup {n + 1}
           m == Cardinality(P)
<1>1. /\ IsFiniteSet(P) /\ m \in Nat /\ n + 1 \notin P
      /\ \A j \in P : j \in Nat /\ j < n + 1
  BY PositionsFinite
<1>2. Cardinality(Q) = m + 1  BY <1>1, FS_AddElement
<1>3. Q \in SUBSET (1..(n + 1)) /\ n + 1 \in Nat /\ n + 1 \in Q  OBVIOUS
<1>4. Nth(Q, m + 1) = n + 1
  <2>0. \A j \in Q : j <= n + 1  BY <1>1
  <2>1. {j \in Q : j <= n + 1} = Q  BY <2>0
  <2> HIDE DEF Q, m
  <2> QED BY <1>2, <1>3, <2>1, NthIs
<1>5. ASSUME NEW k \in 1..m PROVE Nth(Q, k) = Nth(P, k)
  <2> DEFINE x == Nth(P, k)
  <2>1. x \in P /\ Cardinality({j \in P : j <= x}) = k  BY NthExists
  <2> HIDE DEF x
  <2>2. {j \in Q : j <= x} = {j \in P : j <= x} /\ x \in Q  BY <1>1, <2>1
  <2> HIDE DEF Q
  <2>3. Nth(Q, Cardinality({j \in Q : j <= x})) = x  BY <1>3, <2>2, NthIs
  <2> QED BY <2>1, <2>2, <2>3 DEF x
<1> HIDE DEF m, Q
<1>6. At(t, Q) = [k \in 1..(m + 1) |-> t[Nth(Q, k)]]  BY <1>2 DEF At
<1>7. At(t, P) = [k \in 1..m |-> t[Nth(P, k)]]  BY DEF At, m
<1>8. Append(At(t, P), t[n + 1])
        = [k \in 1..(m + 1) |-> IF k = m + 1 THEN t[n + 1] ELSE At(t, P)[k]]
  <2>1. At(t, P) \in Seq({t[Nth(P, k)] : k \in 1..m}) /\ Len(At(t, P)) = m
    BY <1>1, <1>7
  <2> QED BY <1>1, <2>1
<1>9. ASSUME NEW k \in 1..(m + 1)
      PROVE  t[Nth(Q, k)] = IF k = m + 1 THEN t[n + 1] ELSE At(t, P)[k]
  <2>1. CASE k = m + 1  BY <1>4, <2>1
  <2>2. CASE k \in 1..m
    <3>1. k # m + 1  BY <1>1, <2>2
    <3> QED BY <1>5, <1>7, <2>2, <3>1
  <2> QED BY <1>1, <2>1, <2>2
<1>10. At(t, Q) = Append(At(t, P), t[n + 1])  BY <1>6, <1>8, <1>9
<1> QED BY <1>10 DEF Q

-----------------------------------------------------------------------------
(* Counting and listing. *)

(* A bijection carries the size of a set over. *)
LEMMA SameSize ==
  ASSUME NEW A, NEW B, IsFiniteSet(A), NEW f \in [A -> B],
         \A x, y \in A : f[x] = f[y] => x = y,
         \A b \in B : \E x \in A : f[x] = b
  PROVE  IsFiniteSet(B) /\ Cardinality(B) = Cardinality(A)
<1>1. f \in Bijection(A, B)
  BY DEF Bijection, Injection, Surjection, IsInjective
<1>2. ExistsBijection(A, B)  BY <1>1 DEF ExistsBijection
<1> QED BY <1>2, FS_Bijection

(* An injection bounds the size of a set; between sets of one size it      *)
(* reaches every member.                                                   *)
LEMMA NoLarger ==
  ASSUME NEW A, NEW B, IsFiniteSet(B), NEW f \in [A -> B],
         \A x, y \in A : f[x] = f[y] => x = y
  PROVE  /\ IsFiniteSet(A) /\ Cardinality(A) <= Cardinality(B)
         /\ Cardinality(A) = Cardinality(B) =>
              \A b \in B : \E x \in A : f[x] = b
<1>1. f \in Injection(A, B)  BY DEF Injection, IsInjective
<1>2. /\ IsFiniteSet(A) /\ Cardinality(A) <= Cardinality(B)
      /\ Cardinality(A) = Cardinality(B) <=> f \in Surjection(A, B)
  BY <1>1, FS_Injection
<1>3. f \in Surjection(A, B) => \A b \in B : \E x \in A : f[x] = b
  BY DEF Surjection
<1> QED BY <1>2, <1>3

(* The greatest-number principle, for a bounded set. *)
LEMMA GreatestNumber ==
  ASSUME NEW n \in Nat, NEW N \in SUBSET (0..n), N # {}
  PROVE  \E m \in N : \A k \in N : k <= m
<1> DEFINE M == {k \in Nat : k <= n /\ n - k \in N}
<1>1. M \in SUBSET Nat /\ M # {}
  <2>1. PICK x \in N : TRUE  OBVIOUS
  <2>2. x \in 0..n  OBVIOUS
  <2>3. n - x \in Nat /\ n - x <= n /\ n - (n - x) = x  BY <2>2
  <2> QED BY <2>1, <2>3
<1>2. PICK m \in M : \A k \in M : m <= k
  <2> HIDE DEF M
  <2> QED BY <1>1, LeastNumber
<1>3. n - m \in N /\ m \in Nat /\ m <= n  OBVIOUS
<1>4. ASSUME NEW k \in N PROVE k <= n - m
  <2>1. k \in 0..n  OBVIOUS
  <2>2. n - k \in Nat /\ n - k <= n /\ n - (n - k) = k  BY <2>1
  <2>3. n - k \in M  BY <2>2
  <2>4. m <= n - k  BY <1>2, <2>3
  <2> QED BY <1>3, <2>1, <2>4
<1> QED BY <1>3, <1>4

(* An increasing function keeps the order both ways. *)
Rising(f, m) == \A j, k \in 1..m : j < k => f[j] < f[k]

LEMMA RisingFacts ==
  ASSUME NEW m \in Nat, NEW f, Rising(f, m),
         \A k \in 1..m : f[k] \in Int
  PROVE  \A j, k \in 1..m : /\ f[j] < f[k] <=> j < k
                            /\ f[j] <= f[k] <=> j <= k
                            /\ f[j] = f[k] <=> j = k
<1> SUFFICES ASSUME NEW j \in 1..m, NEW k \in 1..m
             PROVE  /\ f[j] < f[k] <=> j < k
                    /\ f[j] <= f[k] <=> j <= k
                    /\ f[j] = f[k] <=> j = k
  OBVIOUS
<1>0. f[j] \in Int /\ f[k] \in Int  OBVIOUS
<1>1. CASE j < k
  <2>1. f[j] < f[k]  BY <1>1 DEF Rising
  <2> QED BY <1>0, <1>1, <2>1
<1>2. CASE k < j
  <2>1. f[k] < f[j]  BY <1>2 DEF Rising
  <2> QED BY <1>0, <1>2, <2>1
<1>3. CASE k = j
  BY <1>0, <1>3
<1> QED BY <1>1, <1>2, <1>3

(* Nth lists a set of positions, each once, in order. *)
LEMMA NthLists ==
  ASSUME NEW n \in Nat, NEW P \in SUBSET (1..n)
  PROVE  /\ Cardinality(P) \in Nat
         /\ \A k \in 1..Cardinality(P) : Nth(P, k) \in P
         /\ \A j, k \in 1..Cardinality(P) : j < k => Nth(P, j) < Nth(P, k)
         /\ \A x \in P : \E k \in 1..Cardinality(P) : Nth(P, k) = x
<1> DEFINE upto(y) == {j \in P : j <= y}
<1>0. /\ IsFiniteSet(P) /\ Cardinality(P) \in Nat
      /\ \A i \in P : i \in Nat /\ 1 <= i /\ i <= n
  BY PositionsFinite
<1>1. ASSUME NEW y
      PROVE  /\ IsFiniteSet(upto(y)) /\ Cardinality(upto(y)) \in Nat
             /\ Cardinality(upto(y)) <= Cardinality(P)
  <2>1. upto(y) \in SUBSET P  OBVIOUS
  <2> HIDE DEF upto
  <2> QED BY <1>0, <2>1, FS_Subset, FS_CardinalityType
<1>2. \A k \in 1..Cardinality(P) :
        Nth(P, k) \in P /\ Cardinality(upto(Nth(P, k))) = k
  BY NthExists
<1>3. ASSUME NEW j \in 1..Cardinality(P), NEW k \in 1..Cardinality(P), j < k
      PROVE  Nth(P, j) < Nth(P, k)
  <2> DEFINE a == Nth(P, j)
             b == Nth(P, k)
  <2>1. a \in P /\ b \in P /\ a \in Nat /\ b \in Nat  BY <1>0, <1>2
  <2>2. Cardinality(upto(a)) = j /\ Cardinality(upto(b)) = k  BY <1>2
  <2>3. SUFFICES ASSUME b <= a PROVE FALSE  BY <2>1
  <2>4. upto(b) \in SUBSET upto(a)
    <3> HIDE DEF a, b
    <3>1. \A x \in P : x <= b => x <= a  BY <1>0, <2>1, <2>3
    <3> QED BY <3>1
  <2>5. Cardinality(upto(b)) <= Cardinality(upto(a))
    <3>1. IsFiniteSet(upto(a))  BY <1>1
    <3> HIDE DEF upto, a, b
    <3> QED BY <3>1, <2>4, FS_Subset
  <2> QED BY <1>3, <2>2, <2>5
<1>4. ASSUME NEW x \in P
      PROVE  \E k \in 1..Cardinality(P) : Nth(P, k) = x
  <2> DEFINE k == Cardinality(upto(x))
  <2>1. Nth(P, k) = x  BY NthIs
  <2>2. x \in upto(x)  BY <1>0
  <2>3. upto(x) # {} /\ IsFiniteSet(upto(x))  BY <1>1, <2>2
  <2>4. k # 0
    <3> HIDE DEF upto
    <3> QED BY <2>3, FS_EmptySet
  <2>5. k \in 1..Cardinality(P)
    <3>1. k \in Nat /\ k <= Cardinality(P)  BY <1>1
    <3> HIDE DEF k, upto
    <3> QED BY <3>1, <2>4, <1>0
  <2> QED BY <2>1, <2>5
<1> QED BY <1>0, <1>2, <1>3, <1>4

(* The first m entries of f are the numbers in P, in increasing order. *)
Enumerates(f, m, P) ==
  /\ \A k \in 1..m : f[k] \in P
  /\ Rising(f, m)
  /\ \A x \in P : \E k \in 1..m : f[k] = x

(* An increasing list of the members of a set: its k-th entry is the k-th  *)
(* smallest member, which has k - 1 members below it.                      *)
LEMMA EnumerationBelow ==
  ASSUME NEW m \in Nat, NEW P \in SUBSET Nat, NEW f, Enumerates(f, m, P)
  PROVE  /\ IsFiniteSet(P) /\ Cardinality(P) = m
         /\ \A k \in 1..m : Nth(P, k) = f[k]
         /\ \A k \in 1..m : Cardinality({x \in P : x < f[k]}) = k - 1
<1>0. /\ \A j, k \in 1..m : /\ f[j] < f[k] <=> j < k
                            /\ f[j] <= f[k] <=> j <= k
                            /\ f[j] = f[k] <=> j = k
      /\ \A k \in 1..m : f[k] \in P /\ f[k] \in Nat
      /\ \A x \in P : \E k \in 1..m : x = f[k]
  <2>0. \A x \in P : x \in Nat /\ x \in Int  OBVIOUS
  <2>1. \A k \in 1..m : f[k] \in P /\ f[k] \in Nat /\ f[k] \in Int
    BY <2>0 DEF Enumerates
  <2>2. Rising(f, m) /\ \A x \in P : \E k \in 1..m : x = f[k]
    BY DEF Enumerates
  <2> QED BY <2>1, <2>2, RisingFacts
<1>1. ASSUME NEW n \in 0..m
      PROVE  /\ IsFiniteSet({f[j] : j \in 1..n})
             /\ Cardinality({f[j] : j \in 1..n}) = n
  <2> DEFINE S == {f[j] : j \in 1..n}
             D == 1..n
             h == [j \in D |-> f[j]]
  <2>1. n \in Nat /\ \A j \in 1..n : j \in 1..m  OBVIOUS
  <2>2. IsFiniteSet(D) /\ Cardinality(D) = n
    BY <2>1, FS_Interval
  <2>3. /\ h \in [D -> S]
        /\ \A j, k \in D : h[j] = h[k] => j = k
        /\ \A x \in S : \E j \in D : h[j] = x
    BY <1>0, <2>1
  <2> HIDE DEF S, D, h
  <2>4. IsFiniteSet(S) /\ Cardinality(S) = n  BY <2>2, <2>3, SameSize
  <2> QED BY <2>4 DEF S
<1>2. P = {f[j] : j \in 1..m} /\ m \in 0..m
  <2>1. \A x \in P : x \in {f[j] : j \in 1..m}  BY <1>0
  <2>2. \A x \in {f[j] : j \in 1..m} : x \in P  BY <1>0
  <2>3. m \in 0..m  OBVIOUS
  <2> QED BY <2>1, <2>2, <2>3
<1>3. ASSUME NEW k \in 1..m
      PROVE  /\ {x \in P : x < f[k]} = {f[j] : j \in 1..(k - 1)}
             /\ {x \in P : x <= f[k]} = {f[j] : j \in 1..k}
  <2>1. \A j \in 1..m : /\ j \in 1..(k - 1) <=> j < k
                        /\ j \in 1..k <=> j <= k
    OBVIOUS
  <2>2. 1..(k - 1) \subseteq 1..m /\ 1..k \subseteq 1..m  OBVIOUS
  <2>3. {x \in P : x < f[k]} = {f[j] : j \in 1..(k - 1)}
    BY <1>0, <1>2, <2>1, <2>2
  <2>4. {x \in P : x <= f[k]} = {f[j] : j \in 1..k}
    BY <1>0, <1>2, <2>1, <2>2
  <2> QED BY <2>3, <2>4
<1>4. ASSUME NEW k \in 1..m
      PROVE  /\ Cardinality({x \in P : x < f[k]}) = k - 1
             /\ Cardinality({x \in P : x <= f[k]}) = k
  <2>1. k \in 0..m /\ k - 1 \in 0..m  OBVIOUS
  <2> QED BY <1>1, <1>3, <2>1
<1>5. ASSUME NEW k \in 1..m PROVE Nth(P, k) = f[k]
  <2>1. f[k] \in P /\ Cardinality({x \in P : x <= f[k]}) = k
    BY <1>0, <1>4
  <2>2. ASSUME NEW y \in P, Cardinality({x \in P : x <= y}) = k
        PROVE  y = f[k]
    <3>1. PICK j \in 1..m : y = f[j]  BY <1>0
    <3>2. Cardinality({x \in P : x <= f[j]}) = j  BY <1>4
    <3> QED BY <2>2, <3>1, <3>2
  <2> QED BY <2>1, <2>2 DEF Nth
<1> QED BY <1>1, <1>2, <1>4, <1>5

LEMMA Enumeration ==
  ASSUME NEW m \in Nat, NEW P \in SUBSET Nat, NEW f, Enumerates(f, m, P)
  PROVE  /\ IsFiniteSet(P) /\ Cardinality(P) = m
         /\ \A k \in 1..m : Nth(P, k) = f[k]
BY EnumerationBelow

-----------------------------------------------------------------------------
(* A text inside another. *)

(* The characters of s are those of t at the positions that f lists. *)
Embeds(f, s, t) ==
  /\ Len(s) \in Nat /\ Len(t) \in Nat
  /\ f \in [1..Len(s) -> 1..Len(t)]
  /\ Rising(f, Len(s))
  /\ \A i \in 1..Len(s) : s[i] = t[f[i]]

(* The positions of t that s has nothing of. *)
Missing(f, s, t) == {p \in 1..Len(t) : \A i \in 1..Len(s) : f[i] # p}

LEMMA EmbedsFacts ==
  ASSUME NEW f, NEW s, NEW t, Embeds(f, s, t)
  PROVE  /\ \A i \in 1..Len(s) : f[i] \in 1..Len(t) /\ f[i] \in Nat
         /\ \A i, j \in 1..Len(s) : /\ f[i] < f[j] <=> i < j
                                    /\ f[i] <= f[j] <=> i <= j
                                    /\ f[i] = f[j] <=> i = j
<1> DEFINE m == Len(s)
<1>1. \A i \in 1..m : f[i] \in 1..Len(t)  BY DEF Embeds
<1>2. \A i \in 1..m : f[i] \in Int /\ f[i] \in Nat
  <2>1. Len(t) \in Nat  BY DEF Embeds
  <2> QED BY <1>1, <2>1
<1>3. m \in Nat /\ Rising(f, m)  BY DEF Embeds
<1> HIDE DEF m
<1>4. \A i, j \in 1..m : /\ f[i] < f[j] <=> i < j
                         /\ f[i] <= f[j] <=> i <= j
                         /\ f[i] = f[j] <=> i = j
  BY <1>2, <1>3, RisingFacts
<1> QED BY <1>1, <1>2, <1>4 DEF m

(* What is read at some positions of the one is read at the positions of   *)
(* the other that they stand for.                                          *)
LEMMA EmbeddedAt ==
  ASSUME NEW f, NEW s, NEW t, Embeds(f, s, t), NEW P \in SUBSET (1..Len(s)),
         NEW Q, Q = {f[i] : i \in P}
  PROVE  /\ Cardinality(Q) = Cardinality(P)
         /\ \A k \in 1..Cardinality(P) : Nth(Q, k) = f[Nth(P, k)]
         /\ At(t, Q) = At(s, P)
<1> DEFINE m == Cardinality(P)
           h == [k \in 1..m |-> f[Nth(P, k)]]
<1>1. Len(s) \in Nat /\ Len(t) \in Nat  BY DEF Embeds
<1>2. /\ m \in Nat
      /\ \A k \in 1..m : Nth(P, k) \in P
      /\ \A j, k \in 1..m : j < k => Nth(P, j) < Nth(P, k)
      /\ \A x \in P : \E k \in 1..m : Nth(P, k) = x
  BY <1>1, NthLists
<1> HIDE DEF m
<1>3. Q \in SUBSET Nat  BY EmbedsFacts
<1>4. Enumerates(h, m, Q)
  <2>1. \A j, k \in 1..m : j < k => f[Nth(P, j)] < f[Nth(P, k)]
    BY <1>2, EmbedsFacts
  <2>2. \A x \in Q : \E k \in 1..m : f[Nth(P, k)] = x
    BY <1>2
  <2> QED BY <1>2, <2>1, <2>2 DEF Enumerates, Rising
<1>6. Cardinality(Q) = m /\ \A k \in 1..m : Nth(Q, k) = h[k]
  <2> HIDE DEF h
  <2> QED BY <1>2, <1>3, <1>4, Enumeration
<1>7. \A k \in 1..m : Nth(Q, k) = f[Nth(P, k)]  BY <1>6
<1>8. \A k \in 1..m : t[Nth(Q, k)] = s[Nth(P, k)]
  BY <1>2, <1>7 DEF Embeds
<1>9. At(t, Q) = At(s, P)
  BY <1>6, <1>8 DEF At, m
<1> QED BY <1>6, <1>7, <1>9 DEF m

(* How many positions are missing. *)
LEMMA MissingCount ==
  ASSUME NEW f, NEW s, NEW t, Embeds(f, s, t)
  PROVE  /\ IsFiniteSet(Missing(f, s, t))
         /\ Cardinality(Missing(f, s, t)) = Len(t) - Len(s)
<1> DEFINE R == {f[i] : i \in 1..Len(s)}
           M == Missing(f, s, t)
<1>1. Len(s) \in Nat /\ Len(t) \in Nat /\ f \in [1..Len(s) -> 1..Len(t)]
  BY DEF Embeds
<1>2. /\ IsFiniteSet(1..Len(s)) /\ Cardinality(1..Len(s)) = Len(s)
      /\ IsFiniteSet(1..Len(t)) /\ Cardinality(1..Len(t)) = Len(t)
  <2>1. \A n \in Nat : IsFiniteSet(1..n) /\ Cardinality(1..n) = n
    BY FS_Interval
  <2> QED BY <1>1, <2>1
<1>3. Cardinality(R) = Len(s)
  <2> DEFINE h == [i \in 1..Len(s) |-> f[i]]
             D == 1..Len(s)
  <2>1. h \in [D -> R]  OBVIOUS
  <2>2. \A x, y \in D : h[x] = h[y] => x = y  BY EmbedsFacts
  <2>3. \A b \in R : \E x \in D : h[x] = b  OBVIOUS
  <2>4. IsFiniteSet(D)  BY <1>2
  <2> HIDE DEF h, R, D
  <2>5. Cardinality(R) = Cardinality(D)  BY <2>1, <2>2, <2>3, <2>4, SameSize
  <2> QED BY <2>5, <1>2 DEF D
<1>4. M = (1..Len(t)) \ R /\ (1..Len(t)) \cap R = R
  BY <1>1 DEF Missing
<1>5. IsFiniteSet(M) /\ Cardinality(M) = Len(t) - Cardinality(R)
  <2> DEFINE T == 1..Len(t)
  <2>1. IsFiniteSet(T) /\ M = T \ R /\ T \cap R = R /\ Cardinality(T) = Len(t)
    BY <1>2, <1>4
  <2> HIDE DEF M, R, T
  <2>2. /\ IsFiniteSet(T \ R)
        /\ Cardinality(T \ R) = Cardinality(T) - Cardinality(T \cap R)
    BY <2>1, FS_Difference
  <2> QED BY <2>1, <2>2
<1> QED BY <1>3, <1>5

(* A text embeds in itself, and one character short. *)
LEMMA SelfEmbeds ==
  ASSUME NEW t, Len(t) \in Nat
  PROVE  \E g : Embeds(g, t, t) /\ Missing(g, t, t) = {}
<1> DEFINE g == [i \in 1..Len(t) |-> i]
<1>1. Len(t) \in Nat  OBVIOUS
<1>2. Embeds(g, t, t)  BY <1>1 DEF Embeds, Rising
<1>3. Missing(g, t, t) = {}  BY DEF Missing
<1> QED BY <1>2, <1>3

LEMMA ShortEmbeds ==
  ASSUME NEW S, NEW t \in Seq(S), NEW k \in 1..Len(t)
  PROVE  \E g : /\ Embeds(g, RemoveAt(t, k), t)
                /\ Missing(g, RemoveAt(t, k), t) = {k}
<1> DEFINE n == Len(t)
           u == RemoveAt(t, k)
           g == [i \in 1..(n - 1) |-> IF i < k THEN i ELSE i + 1]
<1>1. n \in Nat /\ k \in 1..n  OBVIOUS
<1> DEFINE a == SubSeq(t, 1, k - 1)
           b == SubSeq(t, k + 1, n)
<1>2. /\ a \in Seq(S) /\ Len(a) = k - 1
      /\ \A i \in 1..(k - 1) : a[i] = t[i]
  BY <1>1
<1>3. /\ b \in Seq(S) /\ Len(b) = n - k
      /\ \A i \in 1..(n - k) : b[i] = t[k + i]
  BY <1>1
<1>4. u = a \o b  BY DEF RemoveAt
<1> HIDE DEF n, a, b, u
<1>5. /\ Len(u) = Len(a) + Len(b)
      /\ \A i \in 1..Len(u) :
           u[i] = IF i <= Len(a) THEN a[i] ELSE b[i - Len(a)]
  <2>1. a \in Seq(S) /\ b \in Seq(S)  BY <1>2, <1>3
  <2> QED BY <1>4, <2>1
<1>6. /\ Len(u) = n - 1
      /\ \A i \in 1..(n - 1) : u[i] = t[g[i]]
  <2>1. Len(u) = n - 1  BY <1>1, <1>2, <1>3, <1>5
  <2>2. ASSUME NEW i \in 1..(n - 1), i < k PROVE u[i] = t[i]
    <3>1. i \in 1..Len(u) /\ i <= Len(a) /\ i \in 1..(k - 1)
      BY <1>1, <1>2, <2>1, <2>2
    <3> QED BY <1>2, <1>5, <3>1
  <2>3. ASSUME NEW i \in 1..(n - 1), ~(i < k) PROVE u[i] = t[i + 1]
    <3>1. /\ i \in 1..Len(u) /\ ~(i <= Len(a)) /\ i - Len(a) \in 1..(n - k)
          /\ k + (i - Len(a)) = i + 1
      BY <1>1, <1>2, <2>1, <2>3
    <3> QED BY <1>3, <1>5, <3>1
  <2> QED BY <2>1, <2>2, <2>3
<1>7. Embeds(g, u, t)
  <2>1. g \in [1..(n - 1) -> 1..n]  BY <1>1
  <2>2. \A i, j \in 1..(n - 1) : i < j => g[i] < g[j]  BY <1>1
  <2> HIDE DEF g
  <2> QED BY <1>1, <1>6, <2>1, <2>2 DEF Embeds, Rising, n
<1>8. Missing(g, u, t) = {k}
  <2>1. \A i \in 1..(n - 1) : g[i] # k  BY <1>1
  <2>2. ASSUME NEW p \in 1..n, p # k PROVE \E i \in 1..(n - 1) : g[i] = p
    <3>1. CASE p < k
      <4>1. p \in 1..(n - 1) /\ g[p] = p  BY <1>1, <3>1
      <4> QED BY <4>1
    <3>2. CASE p > k
      <4>1. p - 1 \in 1..(n - 1) /\ g[p - 1] = p  BY <1>1, <3>2
      <4> QED BY <4>1
    <3> QED BY <1>1, <2>2, <3>1, <3>2
  <2> HIDE DEF g
  <2>3. Missing(g, u, t) = {p \in 1..n : \A i \in 1..(n - 1) : g[i] # p}
    BY <1>6 DEF Missing, n
  <2> QED BY <1>1, <2>1, <2>2, <2>3
<1> HIDE DEF g
<1> QED BY <1>7, <1>8 DEF u
(* The characters that show of t. *)
Shown(t) == {i \in 1..Len(t) : ~IsZeroWidth(t[i])}

LEMMA ShownEmbeds ==
  ASSUME NEW f, NEW s, NEW t, Embeds(f, s, t),
         \A p \in Missing(f, s, t) : IsZeroWidth(t[p])
  PROVE  Shown(t) = {f[i] : i \in Shown(s)}
<1>1. ASSUME NEW p \in Shown(t) PROVE p \in {f[i] : i \in Shown(s)}
  <2>1. p \in 1..Len(t) /\ ~IsZeroWidth(t[p])  BY DEF Shown
  <2>2. PICK i \in 1..Len(s) : f[i] = p  BY <2>1 DEF Missing
  <2>3. i \in Shown(s)  BY <2>1, <2>2 DEF Shown, Embeds
  <2> QED BY <2>2, <2>3
<1>2. ASSUME NEW i \in Shown(s) PROVE f[i] \in Shown(t)
  BY DEF Shown, Embeds
<1> QED BY <1>1, <1>2

(* Nothing that shows is missing: the stripped texts are the same. *)
LEMMA StripEmbeds ==
  ASSUME NEW f, NEW s, NEW t, Embeds(f, s, t),
         \A p \in Missing(f, s, t) : IsZeroWidth(t[p])
  PROVE  Strip(t) = Strip(s)
<1>1. Shown(t) = {f[i] : i \in Shown(s)}  BY ShownEmbeds
<1>2. Shown(s) \in SUBSET (1..Len(s))  BY DEF Shown
<1>3. At(t, Shown(t)) = At(s, Shown(s))  BY <1>1, <1>2, EmbeddedAt
<1> QED BY <1>3 DEF Strip, Shown

(* A text without zero-width characters is its own stripped text. *)
(* That s is t less some of the zero-width characters of t.                *)
ShortOf(s, t) ==
  \E g : Embeds(g, s, t) /\ \A p \in Missing(g, s, t) : IsZeroWidth(t[p])

LEMMA StripShort ==
  ASSUME NEW s, NEW t, ShortOf(s, t)
  PROVE  Strip(t) = Strip(s)
BY StripEmbeds DEF ShortOf

LEMMA ShortOfSelf ==
  ASSUME NEW S, NEW t \in Seq(S)
  PROVE  ShortOf(t, t)
<1>1. Len(t) \in Nat  OBVIOUS
<1> QED BY <1>1, SelfEmbeds DEF ShortOf

LEMMA ShortByOne ==
  ASSUME NEW S, NEW t \in Seq(S), NEW k \in 1..Len(t), IsZeroWidth(t[k])
  PROVE  ShortOf(RemoveAt(t, k), t)
<1>1. PICK g : /\ Embeds(g, RemoveAt(t, k), t)
               /\ Missing(g, RemoveAt(t, k), t) = {k}
  BY ShortEmbeds
<1>2. \A p \in Missing(g, RemoveAt(t, k), t) : IsZeroWidth(t[p])
  BY <1>1
<1> QED BY <1>1, <1>2 DEF ShortOf

LEMMA StripSame ==
  ASSUME NEW S, NEW t \in Seq(S), NoZeroWidth(t)
  PROVE  Strip(t) = t
<1> DEFINE n == Len(t)
           h == [k \in 1..n |-> k]
<1>1. n \in Nat /\ t = [k \in 1..n |-> t[k]]  OBVIOUS
<1>2. Shown(t) = 1..n  BY DEF Shown, NoZeroWidth
<1>3. 1..n \in SUBSET Nat /\ Enumerates(h, n, 1..n)
  <2> HIDE DEF n
  <2> QED BY <1>1 DEF Enumerates, Rising
<1> HIDE DEF h, n
<1>4. Cardinality(1..n) = n /\ \A k \in 1..n : Nth(1..n, k) = h[k]
  BY <1>1, <1>3, Enumeration
<1>5. \A k \in 1..n : Nth(1..n, k) = k  BY <1>4 DEF h
<1>6. At(t, 1..n) = t  BY <1>1, <1>4, <1>5 DEF At
<1> QED BY <1>2, <1>6 DEF Strip, Shown

(* A text is embedded in what it was stripped from. *)
LEMMA StripsTo ==
  ASSUME NEW S, NEW t \in Seq(S)
  PROVE  /\ Len(Strip(t)) = Cardinality(Shown(t))
         /\ \E f : /\ Embeds(f, Strip(t), t)
                   /\ \A p \in Missing(f, Strip(t), t) : IsZeroWidth(t[p])
                   /\ \A i \in 1..Len(Strip(t)) : ~IsZeroWidth(Strip(t)[i])
                   /\ \A p \in Shown(t) : \E i \in 1..Len(Strip(t)) : f[i] = p
<1> DEFINE V == Shown(t)
           m == Cardinality(V)
           f == [k \in 1..m |-> Nth(V, k)]
<1>1. Len(t) \in Nat /\ V \in SUBSET (1..Len(t))  BY DEF Shown
<1>2. /\ m \in Nat
      /\ \A k \in 1..m : Nth(V, k) \in V
      /\ \A j, k \in 1..m : j < k => Nth(V, j) < Nth(V, k)
      /\ \A x \in V : \E k \in 1..m : Nth(V, k) = x
  <2> HIDE DEF V
  <2> QED BY <1>1, NthLists
<1>3. Strip(t) = [k \in 1..m |-> t[Nth(V, k)]]
  BY DEF Strip, At, Shown
<1>4. Len(Strip(t)) = m
  <2> HIDE DEF m
  <2> QED BY <1>2, <1>3
<1>5. \A k \in 1..m : /\ f[k] = Nth(V, k) /\ Strip(t)[k] = t[Nth(V, k)]
                      /\ Nth(V, k) \in 1..Len(t) /\ ~IsZeroWidth(t[Nth(V, k)])
  <2>1. \A x \in V : x \in 1..Len(t) /\ ~IsZeroWidth(t[x])  BY DEF Shown
  <2> HIDE DEF m, V
  <2> QED BY <1>2, <1>3, <2>1
<1>6. f \in [1..m -> 1..Len(t)]  BY <1>5
<1>7. \A x \in V : \E k \in 1..m : f[k] = x  BY <1>2, <1>5
<1> HIDE DEF m, f
<1>8. Embeds(f, Strip(t), t)
  <2>1. \A j, k \in 1..m : j < k => f[j] < f[k]  BY <1>2, <1>5
  <2> QED BY <1>1, <1>2, <1>4, <1>5, <1>6, <2>1 DEF Embeds, Rising
<1>9. ASSUME NEW p \in Missing(f, Strip(t), t) PROVE IsZeroWidth(t[p])
  <2>1. p \in 1..Len(t) /\ p \notin V  BY <1>4, <1>7 DEF Missing
  <2> QED BY <2>1 DEF Shown
<1>10. \A i \in 1..Len(Strip(t)) : ~IsZeroWidth(Strip(t)[i])
  BY <1>4, <1>5
<1> QED BY <1>4, <1>7, <1>8, <1>9, <1>10 DEF m

-----------------------------------------------------------------------------
(* Where the parts of a woven text are. *)

(* Where the characters of t are in the text woven from it. *)
HostAt(t, ins) ==
  [i \in 1..Len(t) |->
     i + Cardinality({j \in 1..TOTAL_SHARDS : ins[j].off < i})
           * SYMBOLS_PER_SHARD]

LEMMA InsertionFacts ==
  ASSUME NEW S, NEW t \in Seq(S), NEW ord, NEW run,
         NEW ins \in SortedInsertions(t, ord, run)
  PROVE  /\ \A j \in 1..TOTAL_SHARDS :
              /\ ins[j].off \in WordEnds(t) /\ ins[j].run \in Range(run)
              /\ ins[j].off \in Nat /\ 1 <= ins[j].off
              /\ ins[j].off <= Len(t)
              /\ RunStart(ins, j) \in Nat
         /\ \A j, k \in 1..TOTAL_SHARDS : j < k =>
              /\ ins[j].off < ins[k].off
              /\ RunStart(ins, j) + SYMBOLS_PER_SHARD < RunStart(ins, k)
<1> DEFINE Z == SYMBOLS_PER_SHARD
           T == TOTAL_SHARDS
           m(j) == (j - 1) * Z
<1>1. T \in Nat /\ Z \in Nat /\ Len(t) \in Nat  BY ShardArithmetic
<1>2. ASSUME NEW j \in 1..T
      PROVE  /\ ins[j].off \in WordEnds(t) /\ ins[j].run \in Range(run)
             /\ ins[j].off \in Nat /\ 1 <= ins[j].off
             /\ ins[j].off <= Len(t)
  <2>1. ins[j] \in Insertions(t, ord, run)  BY DEF SortedInsertions
  <2>2. ins[j].off \in WordEnds(t) /\ ins[j].run \in Range(run)
    BY <2>1 DEF Insertions
  <2>3. ins[j].off \in 1..Len(t)  BY <2>2 DEF WordEnds
  <2> QED BY <2>2, <2>3, <1>1
<1>3. \A j, k \in 1..T : j < k => ins[j].off < ins[k].off
  BY DEF SortedInsertions
<1>4. \A j \in 1..T : m(j) \in Nat /\ RunStart(ins, j) = ins[j].off + m(j)
  <2>1. ASSUME NEW j \in 1..T PROVE m(j) \in Nat
    <3>1. j - 1 \in Nat  BY <1>1
    <3> QED BY <3>1, ShardArithmetic
  <2> QED BY <2>1 DEF RunStart
<1>5. ASSUME NEW j \in 1..T, NEW k \in 1..T, j < k
      PROVE  m(j) + Z <= m(k)
  <2>1. j - 1 \in Nat /\ k - 1 \in Nat /\ j \in Nat /\ (j - 1) + 1 = j
        /\ j <= k - 1
    BY <1>1, <1>5
  <2>2. ((j - 1) + 1) * Z = m(j) + Z /\ j * Z <= (k - 1) * Z
    BY <2>1, ShardArithmetic
  <2> QED BY <2>1, <2>2
<1> HIDE DEF m
<1>6. ASSUME NEW j \in 1..T, NEW k \in 1..T, j < k
      PROVE  RunStart(ins, j) + Z < RunStart(ins, k)
  <2>1. ins[j].off < ins[k].off /\ m(j) + Z <= m(k)  BY <1>3, <1>5, <1>6
  <2> DEFINE oj == ins[j].off
             ok == ins[k].off
             sj == RunStart(ins, j)
             sk == RunStart(ins, k)
             mj == m(j)
             mk == m(k)
  <2>2. oj \in Nat /\ ok \in Nat /\ mj \in Nat /\ mk \in Nat
    BY <1>2, <1>4
  <2>3. sj = oj + mj /\ sk = ok + mk /\ oj < ok /\ mj + Z <= mk
    BY <1>4, <2>1
  <2> HIDE DEF Z, T, oj, ok, sj, sk, mj, mk
  <2>4. sj + Z < sk  BY <1>1, <2>2, <2>3
  <2> QED BY <2>4 DEF sj, sk
<1>7. \A j \in 1..T : RunStart(ins, j) \in Nat
  <2>1. ASSUME NEW j \in 1..T PROVE RunStart(ins, j) \in Nat
    BY <1>2, <1>4
  <2> QED BY <2>1
<1> QED BY <1>2, <1>3, <1>6, <1>7

(* Runs that begin before a position, characters of t before it: the parts *)
(* of the woven text, and how they lie to one another.                     *)
LEMMA WovenParts ==
  ASSUME NEW S, NEW t \in Seq(S), NEW ord, NEW run,
         NEW ins \in SortedInsertions(t, ord, run)
  PROVE  LET w == Woven(t, ins)
             f == HostAt(t, ins)
         IN  /\ Len(w) = Len(t) + TOTAL_SHARDS * SYMBOLS_PER_SHARD
             /\ Len(w) \in Nat
             /\ w = [p \in 1..Len(w) |-> w[p]]
             /\ Embeds(f, t, w)
             /\ \A j \in 1..TOTAL_SHARDS, k \in 1..SYMBOLS_PER_SHARD :
                  /\ RunStart(ins, j) + k \in 1..Len(w)
                  /\ w[RunStart(ins, j) + k] = ins[j].run[k]
                  /\ \A i \in 1..Len(t) :
                       /\ f[i] # RunStart(ins, j) + k
                       /\ f[i] < RunStart(ins, j) + k <=> i <= ins[j].off
             /\ \A p \in 1..Len(w) :
                  \/ \E i \in 1..Len(t) : p = f[i]
                  \/ \E j \in 1..TOTAL_SHARDS, k \in 1..SYMBOLS_PER_SHARD :
                       p = RunStart(ins, j) + k
<1> DEFINE Z == SYMBOLS_PER_SHARD
           T == TOTAL_SHARDS
           N == Len(t) + T * Z
           w == Woven(t, ins)
           f == HostAt(t, ins)
           off(j) == ins[j].off
           m(j) == (j - 1) * Z
           start(j) == RunStart(ins, j)
           c(i) == Cardinality({j \in 1..T : off(j) < i})
           b(p) == Begun(ins, p)
<1>1. /\ T \in Nat /\ T > 0 /\ Z \in Nat /\ Z > 0 /\ Len(t) \in Nat
      /\ T * Z \in Nat /\ N \in Nat
  BY ShardArithmetic
<1>2. /\ \A j \in 1..T : /\ off(j) \in Nat /\ 1 <= off(j) /\ off(j) <= Len(t)
                         /\ start(j) \in Nat
      /\ \A j, k \in 1..T : j < k => /\ off(j) < off(k)
                                     /\ start(j) + Z < start(k)
  BY InsertionFacts
<1>3. \A j \in 1..T : /\ m(j) \in Nat /\ start(j) = off(j) + m(j)
                      /\ j * Z \in Nat /\ j * Z = m(j) + Z
                      /\ j < T => m(j + 1) = j * Z
  <2> SUFFICES ASSUME NEW j \in 1..T
               PROVE  /\ m(j) \in Nat /\ start(j) = off(j) + m(j)
                      /\ j * Z \in Nat /\ j * Z = m(j) + Z
                      /\ m(j + 1) = j * Z
    OBVIOUS
  <2>1. j - 1 \in Nat /\ (j - 1) + 1 = j /\ (j + 1) - 1 = j /\ j \in Nat
    BY <1>1
  <2>2. ((j - 1) + 1) * Z = (j - 1) * Z + Z /\ (j - 1) * Z \in Nat
        /\ j * Z \in Nat
    BY <2>1, ShardArithmetic
  <2> QED BY <2>1, <2>2 DEF RunStart
<1>4. 0 * Z = 0  BY <1>1
<1>5. \A i \in 1..Len(t) : f[i] = i + c(i) * Z  BY DEF HostAt
<1>6. \A p \in 1..N :
        w[p] = IF b(p) > 0 /\ p <= start(b(p)) + Z
                 THEN ins[b(p)].run[p - start(b(p))] ELSE t[p - b(p) * Z]
  BY DEF Woven
<1>7. w = [p \in 1..N |-> w[p]]  BY DEF Woven
<1>8. Len(w) = N
  <2> HIDE DEF w, N
  <2> QED BY <1>1, <1>7
<1>9. ASSUME NEW p \in Int
      PROVE  b(p) \in 0..T /\ \A j \in 1..T : start(j) < p <=> j <= b(p)
  <2> DEFINE B == {j \in 1..T : start(j) < p}
  <2>1. \A j, k \in 1..T : j < k /\ k \in B => j \in B
    <3>1. ASSUME NEW j \in 1..T, NEW k \in 1..T, j < k, start(k) < p
          PROVE  start(j) < p
      <4>1. start(j) \in Nat /\ start(k) \in Nat /\ start(j) + Z < start(k)
        BY <1>2, <3>1
      <4> HIDE DEF start, Z
      <4> QED BY <3>1, <4>1, <1>1
    <3> QED BY <3>1
  <2>2. b(p) = Cardinality(B)  BY DEF Begun
  <2>3. /\ Cardinality(B) \in 0..T
        /\ \A j \in 1..T : j \in B <=> j <= Cardinality(B)
    <3>1. B \in SUBSET (1..T)  OBVIOUS
    <3> HIDE DEF B
    <3> QED BY <1>1, <2>1, <3>1, InitialSegment
  <2> QED BY <2>2, <2>3
<1>10. ASSUME NEW i \in Int
       PROVE  c(i) \in 0..T /\ \A j \in 1..T : off(j) < i <=> j <= c(i)
  <2> DEFINE B == {j \in 1..T : off(j) < i}
  <2>1. \A j, k \in 1..T : j < k /\ k \in B => j \in B
    <3>1. ASSUME NEW j \in 1..T, NEW k \in 1..T, j < k, off(k) < i
          PROVE  off(j) < i
      <4>1. off(j) \in Nat /\ off(k) \in Nat /\ off(j) < off(k)
        BY <1>2, <3>1
      <4> HIDE DEF off
      <4> QED BY <3>1, <4>1
    <3> QED BY <3>1
  <2>2. /\ Cardinality(B) \in 0..T
        /\ \A j \in 1..T : j \in B <=> j <= Cardinality(B)
    <3>1. B \in SUBSET (1..T)  OBVIOUS
    <3> HIDE DEF B
    <3> QED BY <1>1, <2>1, <3>1, InitialSegment
  <2> QED BY <2>2
<1>11. \A i, k \in 0..T : i <= k => i * Z <= k * Z /\ i * Z \in Nat
  <2> SUFFICES ASSUME NEW i \in 0..T, NEW k \in 0..T, i <= k
               PROVE  i * Z <= k * Z /\ i * Z \in Nat
    OBVIOUS
  <2>1. i \in Nat /\ k \in Nat  BY <1>1
  <2> QED BY <2>1, ShardArithmetic
<1> HIDE DEF off, m, start, c, b, w, f
(* How a character of t lies to a run. *)
<1>12. ASSUME NEW i \in 1..Len(t), NEW j \in 1..T
       PROVE  /\ i <= off(j) => f[i] <= start(j)
              /\ ~(i <= off(j)) => start(j) + Z < f[i]
              /\ f[i] \in Nat /\ c(i) * Z \in Nat
  <2> DEFINE x == c(i) * Z
  <2>1. i \in Int /\ i \in Nat  BY <1>1
  <2>2. c(i) \in 0..T /\ (off(j) < i <=> j <= c(i))  BY <1>10, <2>1
  <2>3. x \in Nat /\ f[i] = i + x  BY <1>5, <1>11, <2>2
  <2>4. off(j) \in Nat /\ m(j) \in Nat /\ start(j) = off(j) + m(j)
    BY <1>2, <1>3
  <2>7. j * Z = m(j) + Z /\ j * Z \in Nat  BY <1>3
  <2>5. ASSUME i <= off(j) PROVE f[i] <= start(j)
    <3>1. ~(j <= c(i))  BY <2>1, <2>2, <2>4, <2>5
    <3>2. c(i) <= j - 1 /\ j - 1 \in 0..T  BY <1>1, <2>2, <3>1
    <3>3. x <= m(j)  BY <1>11, <2>2, <3>2 DEF m
    <3> HIDE DEF x
    <3> QED BY <2>1, <2>3, <2>4, <2>5, <3>3
  <2>6. ASSUME ~(i <= off(j)) PROVE start(j) + Z < f[i]
    <3>1. j <= c(i) /\ j \in 0..T  BY <1>1, <2>1, <2>2, <2>4, <2>6
    <3>2. j * Z <= x  BY <1>11, <2>2, <3>1
    <3> HIDE DEF x
    <3>4. start(j) + Z < i + x
      <4> DEFINE y == j * Z
                 z == Z
      <4>1. y <= x /\ y \in Nat /\ y = m(j) + z /\ z \in Nat
        BY <1>1, <2>7, <3>2
      <4> HIDE DEF y, z
      <4>2. start(j) + z < i + x  BY <2>1, <2>3, <2>4, <2>6, <4>1
      <4> QED BY <4>2 DEF z
    <3> QED BY <2>3, <3>4
  <2>8. f[i] \in Nat  BY <2>1, <2>3
  <2> QED BY <2>3, <2>5, <2>6, <2>8
<1>13. ASSUME NEW j \in 1..T, NEW k \in 1..Z
       PROVE  /\ start(j) + k \in 1..N
              /\ w[start(j) + k] = ins[j].run[k]
  <2> DEFINE p == start(j) + k
  <2>1. k \in Nat /\ 1 <= k /\ k <= Z /\ start(j) \in Nat  BY <1>1, <1>2
  <2>2. p \in Int /\ p \in Nat /\ 1 <= p  BY <2>1
  <2>3. p <= N
    <3>1. /\ start(j) = off(j) + m(j) /\ j * Z = m(j) + Z /\ j * Z \in Nat
          /\ m(j) \in Nat /\ off(j) \in Nat /\ off(j) <= Len(t)
      BY <1>2, <1>3
    <3>2. j \in 0..T /\ T \in 0..T /\ j <= T  BY <1>1
    <3>3. j * Z <= T * Z  BY <1>11, <3>2
    <3>4. p <= off(j) + j * Z  BY <2>1, <3>1, <1>1
    <3> DEFINE y == j * Z
               z == T * Z
    <3>5. y <= z /\ y \in Nat /\ z \in Nat /\ p <= off(j) + y
      BY <1>1, <3>1, <3>3, <3>4
    <3> HIDE DEF y, z, p
    <3>6. p <= Len(t) + z  BY <1>1, <2>2, <3>1, <3>5
    <3> QED BY <3>6 DEF z
  <2>4. p \in 1..N  BY <1>1, <2>2, <2>3
  <2>5. start(j) < p  BY <2>1
  <2>6. b(p) = j
    <3>1. b(p) \in 0..T /\ \A l \in 1..T : start(l) < p <=> l <= b(p)
      BY <1>9, <2>2
    <3>2. j <= b(p)  BY <2>5, <3>1
    <3>3. ASSUME j < b(p) PROVE FALSE
      <4>1. j + 1 \in 1..T /\ j < j + 1 /\ j + 1 <= b(p)
        BY <1>1, <3>1, <3>3
      <4>2. start(j + 1) < p /\ start(j) + Z < start(j + 1)
            /\ start(j + 1) \in Nat
        BY <1>2, <3>1, <4>1
      <4> QED BY <1>1, <2>1, <4>2
    <3> QED BY <1>1, <3>1, <3>2, <3>3
  <2>7. b(p) > 0 /\ p <= start(b(p)) + Z /\ p - start(b(p)) = k
    BY <1>1, <2>1, <2>6
  <2> HIDE DEF p
  <2>8. w[p] = ins[j].run[k]  BY <1>6, <2>4, <2>6, <2>7
  <2> QED BY <2>4, <2>8 DEF p
<1>14. ASSUME NEW i \in 1..Len(t)
       PROVE  f[i] \in 1..N /\ w[f[i]] = t[i]
  <2> DEFINE x == c(i) * Z
             p == f[i]
  <2>1. i \in Int /\ i \in Nat /\ 1 <= i /\ i <= Len(t)  BY <1>1
  <2>2. c(i) \in 0..T  BY <1>10, <2>1
  <2>3. x \in Nat /\ p = i + x /\ x <= T * Z
    <3>1. T \in 0..T /\ c(i) <= T  BY <1>1, <2>2
    <3> QED BY <1>5, <1>11, <2>2, <3>1
  <2>4. p \in Nat /\ p - x = i /\ p \in 1..N
    <3> DEFINE z == T * Z
    <3>1. z \in Nat /\ x <= z  BY <1>1, <2>3
    <3> HIDE DEF x, z, p
    <3>2. p \in Nat /\ p - x = i /\ p \in 1..(Len(t) + z)
      BY <1>1, <2>1, <2>3, <3>1
    <3> QED BY <3>2 DEF z
  <2>9. p \in Nat  BY <2>4
  <2>5. b(p) = c(i)
    <3>1. b(p) \in 0..T /\ \A j \in 1..T : start(j) < p <=> j <= b(p)
      <4>1. p \in Int  BY <2>9
      <4> HIDE DEF p
      <4> QED BY <1>9, <4>1
    <3>2. ASSUME NEW j \in 1..T PROVE j <= c(i) <=> j <= b(p)
      <4>1. off(j) < i <=> j <= c(i)  BY <1>10, <2>1
      <4>2. start(j) < p <=> j <= b(p)  BY <3>1
      <4>3. off(j) \in Nat /\ start(j) \in Nat  BY <1>2
      <4>4. CASE i <= off(j)
        <5>1. p <= start(j)  BY <1>12, <4>4
        <5> HIDE DEF p
        <5> QED BY <2>1, <2>9, <4>1, <4>2, <4>3, <4>4, <5>1
      <4>5. CASE ~(i <= off(j))
        <5>1. start(j) + Z < p  BY <1>12, <4>5
        <5> HIDE DEF p
        <5>2. start(j) < p  BY <5>1, <4>3, <2>9, <1>1
        <5> QED BY <2>1, <4>1, <4>2, <4>3, <4>5, <5>2
      <4> QED BY <4>4, <4>5
    <3>3. ASSUME b(p) < c(i) PROVE FALSE
      <4>1. c(i) \in 1..T  BY <1>1, <2>2, <3>1, <3>3
      <4>2. c(i) <= b(p)  BY <2>2, <3>2, <4>1
      <4> QED BY <1>1, <2>2, <3>1, <3>3, <4>2
    <3>4. ASSUME c(i) < b(p) PROVE FALSE
      <4>1. b(p) \in 1..T  BY <1>1, <2>2, <3>1, <3>4
      <4>2. b(p) <= c(i)  BY <3>1, <3>2, <4>1
      <4> QED BY <1>1, <2>2, <3>1, <3>4, <4>2
    <3> QED BY <1>1, <2>2, <3>1, <3>3, <3>4
  <2>6. ~(b(p) > 0 /\ p <= start(b(p)) + Z)
    <3>1. SUFFICES ASSUME b(p) > 0, p <= start(b(p)) + Z PROVE FALSE
      OBVIOUS
    <3>2. c(i) \in 1..T  BY <1>1, <2>2, <2>5, <3>1
    <3>3. off(c(i)) < i /\ off(c(i)) \in Nat  BY <1>2, <1>10, <2>1, <2>2, <3>2
    <3>4. ~(i <= off(c(i)))  BY <2>1, <3>3
    <3>5. start(c(i)) + Z < p  BY <1>12, <3>2, <3>4
    <3>6. start(c(i)) \in Nat  BY <1>2, <3>2
    <3> QED BY <1>1, <2>4, <2>5, <3>1, <3>5, <3>6
  <2>7. p - b(p) * Z = i  BY <2>4, <2>5
  <2> HIDE DEF p
  <2>8. w[p] = t[i]  BY <1>6, <2>4, <2>6, <2>7
  <2> QED BY <2>4, <2>8 DEF p
<1>15. ASSUME NEW p \in 1..N
       PROVE  \/ \E i \in 1..Len(t) : p = f[i]
              \/ \E j \in 1..T, k \in 1..Z : p = start(j) + k
  <2> DEFINE n == b(p)
             x == n * Z
             i == p - x
  <2>1. p \in Int /\ 1 <= p /\ p <= N  BY <1>1
  <2>2. n \in 0..T /\ \A j \in 1..T : start(j) < p <=> j <= n
    BY <1>9, <2>1
  <2>3. x \in Nat  BY <1>11, <2>2
  <2>4. CASE n > 0 /\ p <= start(n) + Z
    <3>1. n \in 1..T  BY <1>1, <2>2, <2>4
    <3>2. start(n) < p /\ start(n) \in Nat  BY <1>2, <2>2, <3>1
    <3>3. p - start(n) \in 1..Z /\ p = start(n) + (p - start(n))
      BY <1>1, <2>1, <2>4, <3>2
    <3> QED BY <3>1, <3>3
  <2>5. CASE ~(n > 0 /\ p <= start(n) + Z)
    <3>1. \A j \in 1..T : j <= n => off(j) < i
      <4> SUFFICES ASSUME NEW j \in 1..T, j <= n PROVE off(j) < i
        OBVIOUS
      <4>1. n \in 1..T /\ n > 0  BY <1>1, <2>2
      <4>2. start(n) + Z < p
        <5>1. start(n) \in Nat  BY <1>2, <4>1
        <5>2. ~(p <= start(n) + Z)  BY <2>5, <4>1
        <5> HIDE DEF start
        <5> QED BY <1>1, <2>1, <5>1, <5>2
      <4>3. /\ start(n) = off(n) + m(n) /\ x = m(n) + Z /\ m(n) \in Nat
            /\ off(n) \in Nat /\ off(j) \in Nat
        BY <1>2, <1>3, <4>1
      <4>4. off(n) < i
        <5> HIDE DEF x, n
        <5> QED BY <1>1, <2>1, <2>3, <4>2, <4>3
      <4>5. j = n \/ off(j) < off(n)  BY <1>2, <2>2, <4>1
      <4> HIDE DEF i, n
      <4> QED BY <4>3, <4>4, <4>5, <2>1, <2>3 DEF i
    <3>2. \A j \in 1..T : ~(j <= n) => ~(off(j) < i)
      <4> SUFFICES ASSUME NEW j \in 1..T, ~(j <= n) PROVE i <= off(j)
        <5>1. \A j \in 1..T : off(j) \in Nat /\ i \in Int
          BY <1>2, <2>1, <2>3
        <5> QED BY <5>1
      <4>1. p <= start(j)  BY <1>2, <2>1, <2>2
      <4>2. n + 1 \in 1..T /\ n + 1 <= j /\ ~(n + 1 <= n)  BY <1>1, <2>2
      <4>3. p <= start(n + 1)  BY <1>2, <2>1, <2>2, <4>2
      <4>4. start(n + 1) = off(n + 1) + x
        <5>1. start(n + 1) = off(n + 1) + m(n + 1)  BY <1>3, <4>2
        <5>2. m(n + 1) = x  BY <2>2 DEF m
        <5> QED BY <5>1, <5>2
      <4>5. n + 1 = j \/ off(n + 1) < off(j)  BY <1>2, <2>2, <4>2
      <4>6. off(n + 1) \in Nat /\ off(j) \in Nat  BY <1>2, <4>2
      <4>7. i <= off(n + 1)
        <5> HIDE DEF x, n
        <5> QED BY <2>1, <2>3, <4>3, <4>4, <4>6
      <4> HIDE DEF i, n
      <4> QED BY <4>5, <4>6, <4>7, <2>1, <2>3 DEF i
    <3>3. i \in 1..Len(t)
      <4>1. i >= 1
        <5>1. CASE n = 0
          BY <1>4, <2>1, <5>1
        <5>2. CASE n > 0
          <6>1. n \in 1..T /\ n <= n  BY <1>1, <2>2, <5>2
          <6>2. off(n) < i /\ off(n) \in Nat  BY <1>2, <3>1, <6>1
          <6> HIDE DEF i, n
          <6> QED BY <6>2, <2>1, <2>3 DEF i
        <5> QED BY <2>2, <5>1, <5>2
      <4>2. i <= Len(t)
        <5>1. CASE n = T
          <6>1. x = T * Z  BY <5>1
          <6> HIDE DEF n
          <6> QED BY <1>1, <2>1, <6>1
        <5>2. CASE n < T
          <6>1. n + 1 \in 1..T /\ ~(n + 1 <= n)  BY <1>1, <2>2, <5>2
          <6>2. off(n + 1) \in Nat /\ off(n + 1) <= Len(t)
                /\ ~(off(n + 1) < i)
            BY <1>2, <3>2, <6>1
          <6> HIDE DEF i, n
          <6> QED BY <1>1, <2>1, <2>3, <6>2 DEF i
        <5> QED BY <1>1, <2>2, <5>1, <5>2
      <4> HIDE DEF i
      <4>3. i \in Int  BY <2>1, <2>3 DEF i
      <4> QED BY <1>1, <4>1, <4>2, <4>3
    <3>4. c(i) = n
      <4>1. i \in Int  BY <1>1, <3>3
      <4>2. c(i) \in 0..T /\ \A j \in 1..T : off(j) < i <=> j <= c(i)
        BY <1>10, <4>1
      <4>3. \A j \in 1..T : j <= c(i) <=> j <= n
        BY <3>1, <3>2, <4>2
      <4> HIDE DEF n, i
      <4>4. ASSUME n < c(i) PROVE FALSE
        <5>1. c(i) \in 1..T /\ c(i) <= c(i)  BY <1>1, <2>2, <4>2, <4>4
        <5> QED BY <1>1, <2>2, <4>2, <4>3, <4>4, <5>1
      <4>5. ASSUME c(i) < n PROVE FALSE
        <5>1. n \in 1..T /\ n <= n  BY <1>1, <2>2, <4>2, <4>5
        <5> QED BY <1>1, <2>2, <4>2, <4>3, <4>5, <5>1
      <4> QED BY <1>1, <2>2, <4>2, <4>4, <4>5
    <3>5. f[i] = i + x  BY <1>5, <3>3, <3>4
    <3>6. p = f[i]
      <4> HIDE DEF x
      <4> QED BY <2>1, <2>3, <3>5
    <3> QED BY <3>3, <3>6
  <2> QED BY <2>4, <2>5
<1>16. Embeds(f, t, w)
  <2>1. f = [i \in 1..Len(t) |-> f[i]]  BY DEF f, HostAt
  <2>2. f \in [1..Len(t) -> 1..N]  BY <1>14, <2>1
  <2>3. ASSUME NEW i \in 1..Len(t), NEW k \in 1..Len(t), i < k
        PROVE  f[i] < f[k]
    <3> DEFINE x == c(i) * Z
               y == c(k) * Z
    <3>1. i \in Int /\ k \in Int  BY <1>1
    <3>2. c(i) \in 0..T /\ c(k) \in 0..T  BY <1>10, <3>1
    <3>3. c(i) <= c(k)
      <4>1. CASE c(i) = 0  BY <1>1, <3>2, <4>1
      <4>2. CASE c(i) # 0
        <5>1. c(i) \in 1..T /\ c(i) <= c(i)  BY <1>1, <3>2, <4>2
        <5>2. off(c(i)) < i /\ off(c(i)) \in Nat  BY <1>2, <1>10, <3>1, <5>1
        <5>3. off(c(i)) < k  BY <2>3, <3>1, <5>2
        <5> QED BY <1>10, <3>1, <5>1, <5>3
      <4> QED BY <4>1, <4>2
    <3>4. x <= y /\ x \in Nat /\ y \in Nat  BY <1>11, <3>2, <3>3
    <3>5. f[i] = i + x /\ f[k] = k + y  BY <1>5
    <3> HIDE DEF x, y
    <3> QED BY <2>3, <3>1, <3>4, <3>5
  <2>4. Rising(f, Len(t))  BY <2>3 DEF Rising
  <2> HIDE DEF N
  <2> QED BY <1>1, <1>8, <1>14, <2>2, <2>4 DEF Embeds
<1>17. ASSUME NEW j \in 1..T, NEW k \in 1..Z, NEW i \in 1..Len(t)
       PROVE  /\ f[i] # start(j) + k
              /\ f[i] < start(j) + k <=> i <= off(j)
  <2>1. k \in Nat /\ 1 <= k /\ k <= Z /\ start(j) \in Nat /\ f[i] \in Nat
    BY <1>1, <1>2, <1>12
  <2>2. CASE i <= off(j)
    <3>1. f[i] <= start(j)  BY <1>12, <2>2
    <3> QED BY <2>1, <2>2, <3>1
  <2>3. CASE ~(i <= off(j))
    <3>1. start(j) + Z < f[i]  BY <1>12, <2>3
    <3> QED BY <1>1, <2>1, <2>3, <3>1
  <2> QED BY <2>2, <2>3
<1>18. /\ Len(w) = Len(t) + T * Z /\ Len(w) \in Nat
       /\ w = [p \in 1..Len(w) |-> w[p]]
  BY <1>1, <1>7, <1>8
<1>19. ASSUME NEW j \in 1..T, NEW k \in 1..Z
       PROVE  /\ start(j) + k \in 1..Len(w)
              /\ w[start(j) + k] = ins[j].run[k]
              /\ \A i \in 1..Len(t) :
                   /\ f[i] # start(j) + k
                   /\ f[i] < start(j) + k <=> i <= ins[j].off
  BY <1>8, <1>13, <1>17 DEF off
<1>20. ASSUME NEW p \in 1..Len(w)
       PROVE  \/ \E i \in 1..Len(t) : p = f[i]
              \/ \E j \in 1..T, k \in 1..Z : p = start(j) + k
  BY <1>8, <1>15
<1> QED BY <1>16, <1>18, <1>19, <1>20 DEF w, f, start

(* Weaving runs into a text adds no characters but those of the runs.      *)
LEMMA WovenType ==
  ASSUME NEW S, NEW t \in Seq(S), NEW ord, NEW run,
         \A r \in Range(run) : \A k \in 1..SYMBOLS_PER_SHARD : r[k] \in S,
         NEW ins \in SortedInsertions(t, ord, run)
  PROVE  Woven(t, ins) \in Seq(S)
<1> DEFINE w == Woven(t, ins)
           f == HostAt(t, ins)
<1>1. /\ Len(w) \in Nat /\ w = [p \in 1..Len(w) |-> w[p]]
      /\ Embeds(f, t, w)
      /\ \A j \in 1..TOTAL_SHARDS, k \in 1..SYMBOLS_PER_SHARD :
           w[RunStart(ins, j) + k] = ins[j].run[k]
      /\ \A p \in 1..Len(w) :
           \/ \E i \in 1..Len(t) : p = f[i]
           \/ \E j \in 1..TOTAL_SHARDS, k \in 1..SYMBOLS_PER_SHARD :
                p = RunStart(ins, j) + k
  BY WovenParts
<1>2. \A j \in 1..TOTAL_SHARDS : ins[j].run \in Range(run)
  BY InsertionFacts
<1>3. \A i \in 1..Len(t) : w[f[i]] = t[i] /\ t[i] \in S
  BY <1>1 DEF Embeds
<1> HIDE DEF w, f
<1>4. \A p \in 1..Len(w) : w[p] \in S
  BY <1>1, <1>2, <1>3
<1> QED BY <1>1, <1>4 DEF w

-----------------------------------------------------------------------------
(* The words of a text, as word_gaps and as read_runs count them. *)

LEMMA CharKinds ==
  \A c : /\ IsSymbol(c) => IsZeroWidth(c)
         /\ IsZeroWidth(c) => ~IsSpace(c)
         /\ IsSep(c) <=> IsSpace(c) \/ IsZeroWidth(c)
BY DEF IsSymbol, IsZeroWidth, IsSpace, IsSep

(* The characters at the end of a word of the stripped text. *)
ShownEnds(t) ==
  {e \in 1..Len(t) :
     /\ ~IsSep(t[e])
     /\ \A j \in (e + 1)..Len(t) :
          ~IsSep(t[j]) => \E k \in (e + 1)..(j - 1) : IsSpace(t[k])}

(* The words of the stripped text. *)
LEMMA StrippedEnds ==
  ASSUME NEW S, NEW t \in Seq(S)
  PROVE  /\ Cardinality(WordEnds(Strip(t))) = Cardinality(ShownEnds(t))
         /\ ShownEnds(t) \subseteq WordEnds(t)
<1>1. PICK f : /\ Embeds(f, Strip(t), t)
               /\ \A i \in 1..Len(Strip(t)) : ~IsZeroWidth(Strip(t)[i])
               /\ \A p \in Shown(t) : \E i \in 1..Len(Strip(t)) : f[i] = p
  BY StripsTo
<1> DEFINE s == Strip(t)
           m == Len(s)
           n == Len(t)
<1>2. /\ m \in Nat /\ n \in Nat
      /\ \A i \in 1..m : s[i] = t[f[i]] /\ f[i] \in 1..n /\ f[i] \in Nat
      /\ \A i, j \in 1..m : f[i] < f[j] <=> i < j
  BY <1>1, EmbedsFacts DEF Embeds
<1>3. \A p \in 1..n : ~IsZeroWidth(t[p]) => \E i \in 1..m : f[i] = p
  BY <1>1 DEF Shown
<1>4. \A i \in 1..m : IsSep(s[i]) <=> IsSpace(s[i])
  BY <1>1, CharKinds
<1>5. WordEnds(s) = {i \in 1..m : ~IsSep(s[i]) /\ (i < m => IsSep(s[i + 1]))}
  BY DEF WordEnds
<1>6. ShownEnds(t) =
        {e \in 1..n :
           /\ ~IsSep(t[e])
           /\ \A j \in (e + 1)..n :
                ~IsSep(t[j]) => \E k \in (e + 1)..(j - 1) : IsSpace(t[k])}
  BY DEF ShownEnds
<1> HIDE DEF s, m, n
<1>7. ASSUME NEW i \in WordEnds(s) PROVE f[i] \in ShownEnds(t)
  <2>1. i \in 1..m /\ ~IsSep(s[i]) /\ (i < m => IsSep(s[i + 1]))
    BY <1>5
  <2>2. ASSUME NEW j \in (f[i] + 1)..n, ~IsSep(t[j])
        PROVE  \E k \in (f[i] + 1)..(j - 1) : IsSpace(t[k])
    <3>1. j \in 1..n /\ f[i] < j  BY <1>2, <2>1
    <3>2. PICK l \in 1..m : f[l] = j  BY <1>3, <2>2, <3>1, CharKinds
    <3>3. i < l  BY <1>2, <2>1, <3>1, <3>2
    <3>4. i + 1 \in 1..m /\ i < m  BY <1>2, <2>1, <3>3
    <3>5. IsSpace(s[i + 1])  BY <1>4, <2>1, <3>4
    <3>6. l # i + 1  BY <1>2, <2>1, <2>2, <3>2, <3>4
    <3>7. i + 1 < l /\ i < i + 1  BY <2>1, <3>3, <3>6
    <3>8. f[i] < f[i + 1] /\ f[i + 1] < j /\ f[i + 1] \in Nat
      BY <1>2, <2>1, <3>2, <3>4, <3>7
    <3>9. f[i + 1] \in (f[i] + 1)..(j - 1)
      BY <1>2, <2>1, <3>1, <3>8
    <3>10. IsSpace(t[f[i + 1]])  BY <1>2, <3>4, <3>5
    <3> QED BY <3>9, <3>10
  <2>3. f[i] \in 1..n /\ ~IsSep(t[f[i]])  BY <1>2, <2>1
  <2> QED BY <1>6, <2>2, <2>3
<1>8. ASSUME NEW e \in ShownEnds(t)
      PROVE  e \in {f[i] : i \in WordEnds(s)}
  <2>1. /\ e \in 1..n /\ ~IsSep(t[e])
        /\ \A j \in (e + 1)..n :
             ~IsSep(t[j]) => \E k \in (e + 1)..(j - 1) : IsSpace(t[k])
    BY <1>6
  <2>2. PICK i \in 1..m : f[i] = e  BY <1>3, <2>1, CharKinds
  <2>3. ASSUME i < m, ~IsSep(s[i + 1]) PROVE FALSE
    <3>1. i + 1 \in 1..m /\ i < i + 1  BY <1>2, <2>3
    <3> DEFINE j == f[i + 1]
    <3>2. j \in 1..n /\ e < j /\ ~IsSep(t[j]) /\ j \in Nat
      BY <1>2, <2>2, <2>3, <3>1
    <3> HIDE DEF j
    <3>3. j \in (e + 1)..n  BY <1>2, <2>1, <3>2
    <3>4. PICK k \in (e + 1)..(j - 1) : IsSpace(t[k])
      BY <2>1, <3>2, <3>3
    <3>5. k \in 1..n /\ e < k /\ k < j  BY <1>2, <2>1, <3>2
    <3>6. PICK l \in 1..m : f[l] = k  BY <1>3, <3>4, <3>5, CharKinds
    <3>7. i < l /\ l < i + 1  BY <1>2, <2>2, <3>1, <3>5, <3>6 DEF j
    <3> QED BY <3>7
  <2>4. ~IsSep(s[i])  BY <1>2, <2>1, <2>2
  <2>5. i \in WordEnds(s)  BY <1>5, <2>3, <2>4
  <2> QED BY <2>2, <2>5
<1>9. ShownEnds(t) = {f[i] : i \in WordEnds(s)}  BY <1>7, <1>8
<1>10. WordEnds(s) \in SUBSET (1..m)  BY <1>5
<1>11. Cardinality(ShownEnds(t)) = Cardinality(WordEnds(s))
  BY <1>1, <1>9, <1>10, EmbeddedAt DEF s, m
<1>12. ASSUME NEW e \in ShownEnds(t) PROVE e \in WordEnds(t)
  <2>1. e \in 1..n /\ ~IsSep(t[e])  BY <1>6
  <2>2. ASSUME e < n, ~IsSep(t[e + 1]) PROVE FALSE
    <3>1. e + 1 \in (e + 1)..n  BY <1>2, <2>1, <2>2
    <3>2. PICK k \in (e + 1)..((e + 1) - 1) : TRUE  BY <1>6, <2>2, <3>1
    <3> QED BY <2>1, <3>2
  <2> QED BY <2>1, <2>2 DEF WordEnds, n
<1> QED BY <1>11, <1>12 DEF s

(* A word ends inside another exactly when a zero-width character splits   *)
(* it.                                                                     *)
LEMMA SplitEnds ==
  ASSUME NEW S, NEW t \in Seq(S)
  PROVE  ShownEnds(t) = WordEnds(t) <=> ~SplitsWord(t)
<1> DEFINE n == Len(t)
<1>1. n \in Nat /\ ShownEnds(t) \subseteq WordEnds(t)  BY StrippedEnds
<1>2. /\ WordEnds(t) = {e \in 1..n : ~IsSep(t[e]) /\ (e < n => IsSep(t[e + 1]))}
      /\ SplitsWord(t) <=>
           \E i, j \in 1..n : /\ i + 1 < j
                              /\ ~IsSep(t[i]) /\ ~IsSep(t[j])
                              /\ \A k \in (i + 1)..(j - 1) : IsZeroWidth(t[k])
  BY DEF WordEnds, SplitsWord
<1>3. ShownEnds(t) =
        {e \in 1..n :
           /\ ~IsSep(t[e])
           /\ \A j \in (e + 1)..n :
                ~IsSep(t[j]) => \E k \in (e + 1)..(j - 1) : IsSpace(t[k])}
  BY DEF ShownEnds
<1> HIDE DEF n
<1>4. ASSUME NEW e \in WordEnds(t), e \notin ShownEnds(t)
      PROVE  SplitsWord(t)
  <2>1. e \in 1..n /\ ~IsSep(t[e]) /\ (e < n => IsSep(t[e + 1]))
    BY <1>2
  <2> DEFINE J == {j \in (e + 1)..n :
                     ~IsSep(t[j]) /\ \A k \in (e + 1)..(j - 1) : ~IsSpace(t[k])}
  <2>2. J # {}  BY <1>3, <1>4, <2>1
  <2>3. J \in SUBSET Nat
    <3>1. \A x \in (e + 1)..n : x \in Nat  BY <1>1, <2>1
    <3> QED BY <3>1
  <2>4. PICK j \in J : \A k \in J : j <= k
    <3> HIDE DEF J
    <3> QED BY <2>2, <2>3, LeastNumber
  <2>5. /\ j \in (e + 1)..n /\ ~IsSep(t[j])
        /\ \A k \in (e + 1)..(j - 1) : ~IsSpace(t[k])
    OBVIOUS
  <2>6. j \in 1..n /\ e < j /\ e < n  BY <1>1, <2>1, <2>5
  <2>7. ASSUME NEW k \in (e + 1)..(j - 1) PROVE IsZeroWidth(t[k])
    <3>1. k \in (e + 1)..n /\ k < j /\ ~IsSpace(t[k])
      BY <1>1, <2>1, <2>5, <2>6
    <3>2. k \notin J  BY <2>4, <2>6, <3>1
    <3>3. \A l \in (e + 1)..(k - 1) : l \in (e + 1)..(j - 1)
      BY <1>1, <2>1, <2>6, <3>1
    <3>4. IsSep(t[k])  BY <2>5, <3>1, <3>2, <3>3
    <3> QED BY <3>1, <3>4, CharKinds
  <2>8. e + 1 < j
    <3>1. e + 1 # j  BY <2>1, <2>5, <2>6
    <3> QED BY <1>1, <2>1, <2>6, <3>1
  <2> QED BY <1>2, <2>1, <2>5, <2>6, <2>7, <2>8
<1>5. ASSUME SplitsWord(t) PROVE ShownEnds(t) # WordEnds(t)
  <2>1. PICK i \in 1..n, j \in 1..n :
          /\ i + 1 < j /\ ~IsSep(t[i]) /\ ~IsSep(t[j])
          /\ \A k \in (i + 1)..(j - 1) : IsZeroWidth(t[k])
    BY <1>2, <1>5
  <2>2. i + 1 \in (i + 1)..(j - 1)  BY <1>1, <2>1
  <2>3. IsSep(t[i + 1])  BY <2>1, <2>2, CharKinds
  <2>4. i \in WordEnds(t)  BY <1>2, <2>1, <2>3
  <2>5. j \in (i + 1)..n  BY <1>1, <2>1
  <2>6. i \notin ShownEnds(t)  BY <1>3, <2>1, <2>5, CharKinds
  <2> QED BY <2>4, <2>6
<1> QED BY <1>1, <1>4, <1>5

LEMMA EndsFinite ==
  ASSUME NEW S, NEW t \in Seq(S)
  PROVE  /\ IsFiniteSet(WordEnds(t)) /\ IsFiniteSet(ShownEnds(t))
         /\ Cardinality(WordEnds(t)) \in Nat
         /\ Cardinality(ShownEnds(t)) \in Nat
         /\ Cardinality(ShownEnds(t)) <= Cardinality(WordEnds(t))
         /\ Cardinality(ShownEnds(t)) = Cardinality(WordEnds(t))
              <=> ShownEnds(t) = WordEnds(t)
<1> DEFINE n == Len(t)
<1>1. n \in Nat /\ ShownEnds(t) \subseteq WordEnds(t)  BY StrippedEnds
<1>3. WordEnds(t) \in SUBSET (1..n)  BY DEF WordEnds
<1> HIDE DEF n
<1>2. IsFiniteSet(WordEnds(t)) /\ Cardinality(WordEnds(t)) \in Nat
  BY <1>1, <1>3, PositionsFinite
<1> QED BY <1>1, <1>2, FS_Subset, FS_CardinalityType

(* As many words before and after stripping, unless one is split. *)
LEMMA CountUnlessSplit ==
  ASSUME NEW S, NEW t \in Seq(S)
  PROVE  /\ Cardinality(WordEnds(Strip(t))) <= Cardinality(WordEnds(t))
         /\ Cardinality(WordEnds(t)) = Cardinality(WordEnds(Strip(t)))
              <=> ~SplitsWord(t)
BY StrippedEnds, SplitEnds, EndsFinite

-----------------------------------------------------------------------------
(* Where words open, for read_runs, and where they end. *)

LEMMA BetweenIs ==
  ASSUME NEW t, NEW n \in Nat
  PROVE  BetweenWords(t, n) <=>
           \A j \in 1..n : (\A k \in j..n : ~IsSpace(t[k])) => IsSymbol(t[j])
<1> DEFINE B == {j \in 0..n : j # 0 /\ IsSpace(t[j])}
<1>1. ASSUME BetweenWords(t, n), NEW j \in 1..n, \A k \in j..n : ~IsSpace(t[k])
      PROVE  IsSymbol(t[j])
  <2>1. CASE \A l \in 1..n : IsSymbol(t[l])  BY <2>1
  <2>2. CASE \E l \in 1..n : /\ IsSpace(t[l])
                             /\ \A k \in (l + 1)..n : IsSymbol(t[k])
    <3>1. PICK l \in 1..n : /\ IsSpace(t[l])
                            /\ \A k \in (l + 1)..n : IsSymbol(t[k])
      BY <2>2
    <3>2. ~(j <= l)
      <4>1. ASSUME j <= l PROVE l \in j..n  BY <4>1
      <4> QED BY <1>1, <3>1, <4>1
    <3>3. j \in (l + 1)..n  BY <3>2
    <3> QED BY <3>1, <3>3
  <2> QED BY <1>1, <2>1, <2>2 DEF BetweenWords
<1>2. ASSUME \A j \in 1..n : (\A k \in j..n : ~IsSpace(t[k])) => IsSymbol(t[j])
      PROVE  BetweenWords(t, n)
  <2>1. CASE B = {}
    <3>1. ASSUME NEW j \in 1..n PROVE IsSymbol(t[j])
      <4>1. ASSUME NEW k \in j..n PROVE ~IsSpace(t[k])
        <5>1. k \in 0..n /\ k # 0  OBVIOUS
        <5> QED BY <2>1, <5>1
      <4> QED BY <1>2, <4>1
    <3> QED BY <3>1 DEF BetweenWords
  <2>2. CASE B # {}
    <3>1. PICK l \in B : \A k \in B : k <= l
      <4>1. B \in SUBSET (0..n)  OBVIOUS
      <4> HIDE DEF B
      <4> QED BY <2>2, <4>1, GreatestNumber
    <3>2. l \in 1..n /\ IsSpace(t[l])  OBVIOUS
    <3>3. ASSUME NEW j \in (l + 1)..n PROVE IsSymbol(t[j])
      <4>1. j \in 1..n  BY <3>2
      <4>2. ASSUME NEW k \in j..n PROVE ~IsSpace(t[k])
        <5>1. k \in 0..n /\ k # 0 /\ ~(k <= l)  BY <3>2
        <5> QED BY <3>1, <5>1
      <4> QED BY <1>2, <4>1, <4>2
    <3> QED BY <3>2, <3>3 DEF BetweenWords
  <2> QED BY <2>1, <2>2
<1> QED BY <1>1, <1>2

Openers(t) == {o \in 1..Len(t) : OpensWord(t, o)}

LEMMA OpensIs ==
  ASSUME NEW t, Len(t) \in Nat, NEW o \in 1..Len(t)
  PROVE  OpensWord(t, o) <=>
           /\ ~IsSymbol(t[o]) /\ ~IsSpace(t[o])
           /\ \A j \in 1..(o - 1) :
                (\A k \in j..(o - 1) : ~IsSpace(t[k])) => IsSymbol(t[j])
<1> DEFINE n == o - 1
<1>1. n \in Nat  OBVIOUS
<1>2. OpensWord(t, o) <=>
        ~IsSymbol(t[o]) /\ ~IsSpace(t[o]) /\ BetweenWords(t, n)
  BY DEF OpensWord
<1> HIDE DEF n
<1>3. BetweenWords(t, n) <=>
        \A j \in 1..n : (\A k \in j..n : ~IsSpace(t[k])) => IsSymbol(t[j])
  BY <1>1, BetweenIs
<1> QED BY <1>2, <1>3 DEF n

(* The word that opens at o shows, and ends at e. *)
Leads(t, o, e) ==
  /\ o \in Openers(t) /\ e \in ShownEnds(t) /\ o <= e
  /\ \A k \in o..e : ~IsSpace(t[k])

(* A word that read_runs counts and that does not show. *)
Ghost(t, o) ==
  \A k \in o..Len(t) : (\A j \in o..k : ~IsSpace(t[j])) => IsZeroWidth(t[k])

LEMMA HasOpener ==
  ASSUME NEW t, Len(t) \in Nat, NEW e \in ShownEnds(t)
  PROVE  \E o : Leads(t, o, e)
<1> DEFINE n == Len(t)
           N == {o \in 1..e : ~IsSymbol(t[o]) /\ \A k \in o..e : ~IsSpace(t[k])}
<1>1. e \in 1..n /\ ~IsSep(t[e]) /\ n \in Nat  BY DEF ShownEnds
<1>2. e \in N
  <2>1. \A k \in e..e : k = e  BY <1>1
  <2> QED BY <1>1, <2>1, CharKinds
<1>3. PICK o \in N : \A k \in N : o <= k
  <2>1. \A x \in 1..e : x \in Nat  BY <1>1
  <2>2. N \in SUBSET Nat  BY <2>1
  <2> HIDE DEF N
  <2> QED BY <1>2, <2>2, LeastNumber
<1>4. o \in 1..e /\ ~IsSymbol(t[o]) /\ \A k \in o..e : ~IsSpace(t[k])
  OBVIOUS
<1>5. o \in 1..n /\ o <= e /\ o \in o..e  BY <1>1, <1>4
<1>6. ASSUME NEW j \in 1..(o - 1), \A k \in j..(o - 1) : ~IsSpace(t[k])
      PROVE  IsSymbol(t[j])
  <2>1. j \in 1..e /\ j < o  BY <1>1, <1>5
  <2>2. ASSUME NEW k \in j..e PROVE ~IsSpace(t[k])
    <3>1. k \in j..(o - 1) \/ k \in o..e  BY <1>1, <1>5, <2>1
    <3> QED BY <1>4, <1>6, <3>1
  <2>3. j \notin N  BY <1>3, <1>5, <2>1
  <2> QED BY <2>1, <2>2, <2>3
<1>7. OpensWord(t, o)  BY <1>4, <1>5, <1>6, OpensIs
<1> QED BY <1>4, <1>5, <1>7 DEF Leads, Openers

LEMMA HasEnd ==
  ASSUME NEW t, Len(t) \in Nat, NEW o \in Openers(t), ~Ghost(t, o)
  PROVE  \E e : Leads(t, o, e)
<1> DEFINE n == Len(t)
           N == {e \in 0..n : /\ o <= e /\ ~IsSep(t[e])
                              /\ \A k \in o..e : ~IsSpace(t[k])}
<1>1. o \in 1..n /\ n \in Nat  BY DEF Openers
<1>2. N # {}
  <2>1. PICK k \in o..n : /\ \A j \in o..k : ~IsSpace(t[j])
                          /\ ~IsZeroWidth(t[k])
    BY DEF Ghost
  <2>2. k \in o..k /\ k \in 0..n /\ o <= k  BY <1>1
  <2>3. ~IsSep(t[k])  BY <2>1, <2>2, CharKinds
  <2> QED BY <2>1, <2>2, <2>3
<1>3. PICK e \in N : \A k \in N : k <= e
  <2>1. N \in SUBSET (0..n)  OBVIOUS
  <2> HIDE DEF N
  <2> QED BY <1>1, <1>2, <2>1, GreatestNumber
<1>4. /\ e \in 0..n /\ o <= e /\ ~IsSep(t[e])
      /\ \A k \in o..e : ~IsSpace(t[k])
  OBVIOUS
<1>5. e \in 1..n  BY <1>1, <1>4
<1>6. ASSUME NEW j \in (e + 1)..n, ~IsSep(t[j])
      PROVE  \E k \in (e + 1)..(j - 1) : IsSpace(t[k])
  <2> SUFFICES ASSUME \A k \in (e + 1)..(j - 1) : ~IsSpace(t[k]) PROVE FALSE
    OBVIOUS
  <2>1. j \in 0..n /\ o <= j /\ ~(j <= e)  BY <1>1, <1>4, <1>5
  <2>2. ASSUME NEW k \in o..j PROVE ~IsSpace(t[k])
    <3>1. k \in o..e \/ k \in (e + 1)..(j - 1) \/ k = j  BY <1>1, <1>5, <2>1
    <3> QED BY <1>4, <1>6, <3>1, CharKinds
  <2>3. j \in N  BY <1>6, <2>1, <2>2
  <2> QED BY <1>3, <2>1, <2>3
<1>7. e \in ShownEnds(t)  BY <1>4, <1>5, <1>6 DEF ShownEnds
<1> QED BY <1>4, <1>7 DEF Leads

LEMMA LeadsFacts ==
  ASSUME NEW t, Len(t) \in Nat, NEW o, NEW e, Leads(t, o, e)
  PROVE  /\ o \in 1..Len(t) /\ e \in 1..Len(t) /\ o <= e /\ ~Ghost(t, o)
         /\ \A p : Leads(t, p, e) => p = o
         /\ \A d : Leads(t, o, d) => d = e
         /\ \A w \in ShownEnds(t) : o <= w => e <= w
<1> DEFINE n == Len(t)
<1>1. /\ o \in 1..n /\ e \in 1..n /\ n \in Nat /\ o <= e
      /\ OpensWord(t, o) /\ ~IsSep(t[e])
      /\ \A k \in o..e : ~IsSpace(t[k])
  BY DEF Leads, Openers, ShownEnds
<1>2. ~Ghost(t, o)
  <2>1. e \in o..n  BY <1>1
  <2> QED BY <1>1, <2>1, CharKinds DEF Ghost
<1>3. \A p, q, d : Leads(t, p, d) /\ Leads(t, q, d) => ~(p < q)
  <2> SUFFICES ASSUME NEW p, NEW q, NEW d, Leads(t, p, d), Leads(t, q, d), p < q
               PROVE  FALSE
    OBVIOUS
  <2>1. /\ p \in 1..n /\ q \in 1..n /\ d \in 1..n /\ q <= d
        /\ OpensWord(t, p) /\ OpensWord(t, q)
        /\ \A k \in p..d : ~IsSpace(t[k])
    BY DEF Leads, Openers, ShownEnds
  <2>2. p \in 1..(q - 1) /\ \A k \in p..(q - 1) : k \in p..d  BY <1>1, <2>1
  <2>3. IsSymbol(t[p])  BY <1>1, <2>1, <2>2, OpensIs
  <2> QED BY <1>1, <2>1, <2>3, OpensIs
<1>4. \A w \in ShownEnds(t) : o <= w => e <= w
  <2> SUFFICES ASSUME NEW w \in ShownEnds(t), o <= w, ~(e <= w) PROVE FALSE
    OBVIOUS
  <2>1. /\ w \in 1..n
        /\ \A j \in (w + 1)..n :
             ~IsSep(t[j]) => \E k \in (w + 1)..(j - 1) : IsSpace(t[k])
    BY DEF ShownEnds
  <2>2. e \in (w + 1)..n  BY <1>1, <2>1
  <2>3. PICK k \in (w + 1)..(e - 1) : IsSpace(t[k])  BY <1>1, <2>1, <2>2
  <2>4. k \in o..e  BY <1>1, <2>1, <2>2
  <2> QED BY <1>1, <2>3, <2>4
<1>5. \A p : Leads(t, p, e) => p = o
  <2> SUFFICES ASSUME NEW p, Leads(t, p, e) PROVE p = o  OBVIOUS
  <2>1. p \in 1..n  BY DEF Leads, Openers
  <2>2. ~(p < o) /\ ~(o < p)  BY <1>3
  <2> QED BY <1>1, <2>1, <2>2
<1>6. \A d : Leads(t, o, d) => d = e
  <2> SUFFICES ASSUME NEW d, Leads(t, o, d) PROVE d = e  OBVIOUS
  <2>0. d \in ShownEnds(t) /\ o <= d  BY DEF Leads
  <2>1. d \in ShownEnds(t) /\ d \in 1..n /\ o <= d
    BY <2>0 DEF ShownEnds
  <2>2. e <= d  BY <1>4, <2>1
  <2>3. d <= e
    <3> SUFFICES ASSUME ~(d <= e) PROVE FALSE  BY <1>1, <2>1
    <3>1. /\ \A j \in (e + 1)..n :
               ~IsSep(t[j]) => \E k \in (e + 1)..(j - 1) : IsSpace(t[k])
      BY DEF Leads, ShownEnds
    <3>2. d \in (e + 1)..n /\ ~IsSep(t[d])  BY <1>1, <2>1 DEF ShownEnds
    <3>3. PICK k \in (e + 1)..(d - 1) : IsSpace(t[k])  BY <3>1, <3>2
    <3>4. k \in o..d  BY <1>1, <2>1
    <3> QED BY <3>3, <3>4 DEF Leads
  <2> QED BY <1>1, <2>1, <2>2, <2>3
<1> QED BY <1>1, <1>2, <1>4, <1>5, <1>6

(* read_runs counts the words that show, and ghosts. *)
LEMMA OpenersCount ==
  ASSUME NEW t, Len(t) \in Nat, NEW n \in Nat,
         \A o, e : Leads(t, o, e) /\ o <= n => e <= n
  PROVE  Cardinality({o \in Openers(t) : ~Ghost(t, o) /\ o <= n})
           = Cardinality({e \in ShownEnds(t) : e <= n})
<1> DEFINE A == {e \in ShownEnds(t) : e <= n}
           B == {o \in Openers(t) : ~Ghost(t, o) /\ o <= n}
           f == [e \in A |-> CHOOSE o : Leads(t, o, e)]
<1>1. \A e \in A : Leads(t, f[e], e)
  BY HasOpener
<1> HIDE DEF f
<1>2. \A e \in A : f[e] \in B
  <2> SUFFICES ASSUME NEW e \in A PROVE f[e] \in B  OBVIOUS
  <2>1. Leads(t, f[e], e)  BY <1>1
  <2>2. /\ f[e] \in 1..Len(t) /\ e \in 1..Len(t) /\ f[e] <= e
        /\ ~Ghost(t, f[e])
    BY <2>1, LeadsFacts
  <2>3. f[e] \in Openers(t)  BY <2>1 DEF Leads
  <2>4. e <= n  OBVIOUS
  <2>5. f[e] <= n  BY <2>2, <2>4
  <2> QED BY <2>2, <2>3, <2>5
<1>3. f \in [A -> B]
  <2>1. f = [e \in A |-> f[e]]  BY DEF f
  <2> QED BY <1>2, <2>1
<1>4. \A x, y \in A : f[x] = f[y] => x = y
  BY <1>1, LeadsFacts
<1>5. \A o \in B : \E e \in A : f[e] = o
  <2> SUFFICES ASSUME NEW o \in B PROVE \E e \in A : f[e] = o  OBVIOUS
  <2>1. PICK e : Leads(t, o, e)  BY HasEnd
  <2>2. o <= n  OBVIOUS
  <2>3. e \in ShownEnds(t) /\ e <= n  BY <2>1, <2>2 DEF Leads
  <2>4. e \in A  BY <2>3
  <2>5. Leads(t, f[e], e)  BY <1>1, <2>4
  <2>6. f[e] = o  BY <2>1, <2>5, LeadsFacts
  <2> QED BY <2>4, <2>6
<1>6. IsFiniteSet(A)
  <2> DEFINE m == Len(t)
  <2>1. m \in Nat /\ A \in SUBSET (1..m)  BY DEF ShownEnds
  <2> HIDE DEF A, m
  <2> QED BY <2>1, PositionsFinite
<1>7. Cardinality(B) = Cardinality(A)
  <2> HIDE DEF A, B
  <2> QED BY <1>3, <1>4, <1>5, <1>6, SameSize
<1> QED BY <1>7

(* The words that read_runs counts are as many as those that show, unless  *)
(* there is a ghost.                                                       *)
LEMMA CountUnlessGhost ==
  ASSUME NEW S, NEW t \in Seq(S)
  PROVE  RankBefore(t, Len(t) + 1) = Cardinality(WordEnds(Strip(t)))
           <=> ~HasGhostWord(t)
<1> DEFINE n == Len(t)
           A == {e \in ShownEnds(t) : e <= n}
           B == {o \in Openers(t) : ~Ghost(t, o) /\ o <= n}
<1>1. n \in Nat  OBVIOUS
<1>2. \A o \in Openers(t) : o \in 1..n /\ o <= n
  BY <1>1 DEF Openers
<1>3. \A e \in ShownEnds(t) : e \in 1..n /\ e <= n
  BY <1>1 DEF ShownEnds
<1>4. A = ShownEnds(t)  BY <1>3
<1>5. \A o, e : Leads(t, o, e) /\ o <= n => e <= n
  BY <1>3 DEF Leads
<1>6. Cardinality(B) = Cardinality(WordEnds(Strip(t)))
  <2>1. Cardinality(B) = Cardinality(A)
    <3> HIDE DEF n
    <3>1. Len(t) \in Nat  OBVIOUS
    <3> QED BY <1>1, <1>5, <3>1, OpenersCount
  <2> QED BY <1>4, <2>1, StrippedEnds
<1>7. RankBefore(t, n + 1) = Cardinality(Openers(t))
  <2>1. (n + 1) - 1 = n  BY <1>1
  <2> QED BY <2>1 DEF RankBefore, Openers
<1>8. /\ B \subseteq Openers(t) /\ IsFiniteSet(Openers(t))
  <2>1. Openers(t) \in SUBSET (1..n)  BY <1>2
  <2> HIDE DEF n
  <2> QED BY <1>1, <2>1, PositionsFinite
<1>9. Cardinality(B) = Cardinality(Openers(t)) <=> B = Openers(t)
  <2> HIDE DEF B
  <2> QED BY <1>8, FS_Subset
<1>10. B = Openers(t) <=> \A o \in Openers(t) : ~Ghost(t, o)
  BY <1>2
<1>11. HasGhostWord(t) <=> \E o \in Openers(t) : Ghost(t, o)
  BY DEF HasGhostWord, Ghost, Openers
<1> HIDE DEF B
<1>12. RankBefore(t, n + 1) = Cardinality(WordEnds(Strip(t)))
         <=> ~HasGhostWord(t)
  BY <1>6, <1>7, <1>9, <1>10, <1>11
<1> QED BY <1>12

(* With no word split and no ghost, the word that ends at a gap has the    *)
(* gap's rank for read_runs too.                                           *)
LEMMA RankAtGap ==
  ASSUME NEW S, NEW t \in Seq(S), ~SplitsWord(t), ~HasGhostWord(t),
         NEW w \in WordEnds(t)
  PROVE  /\ RankBefore(t, w + 1) = GapRank(t, w) + 1
         /\ GapRank(t, w) \in 0..(Cardinality(WordEnds(t)) - 1)
<1> DEFINE n == Len(t)
           A == {e \in WordEnds(t) : e <= w}
           C == {e \in WordEnds(t) : e < w}
           B == {o \in Openers(t) : o <= w}
<1>1. n \in Nat  OBVIOUS
<1>2. \A e \in WordEnds(t) : e \in 1..n /\ e \in Nat
  BY <1>1 DEF WordEnds
<1>3. /\ w \in 1..n /\ w \in Nat /\ w \in ShownEnds(t)
      /\ ShownEnds(t) = WordEnds(t)
  BY <1>2, SplitEnds
<1>4. \A o \in Openers(t) : o \in 1..n /\ ~Ghost(t, o)
  BY DEF HasGhostWord, Ghost, Openers
<1>5. \A o, e : Leads(t, o, e) /\ o <= w => e <= w
  BY <1>3, LeadsFacts
<1>6. Cardinality(B) = Cardinality(A)
  <2>1. Cardinality({o \in Openers(t) : ~Ghost(t, o) /\ o <= w})
          = Cardinality({e \in ShownEnds(t) : e <= w})
    <3>1. Len(t) \in Nat  OBVIOUS
    <3> QED BY <1>3, <1>5, <3>1, OpenersCount
  <2>2. {o \in Openers(t) : ~Ghost(t, o) /\ o <= w} = B  BY <1>4
  <2> QED BY <1>3, <2>1, <2>2
<1>7. RankBefore(t, w + 1) = Cardinality(B)
  <2>1. \A j \in 1..n : j \in 1..((w + 1) - 1) <=> j <= w  BY <1>3, <1>1
  <2>2. \A j \in 1..((w + 1) - 1) : j \in 1..n  BY <1>3, <1>1
  <2>3. {j \in 1..((w + 1) - 1) : OpensWord(t, j)} = B
    BY <2>1, <2>2 DEF Openers
  <2> QED BY <2>3 DEF RankBefore
<1>8. A = C \cup {w} /\ w \notin C
  <2>1. ~(w < w) /\ w <= w  BY <1>3
  <2>2. ASSUME NEW e \in WordEnds(t)
        PROVE  e <= w <=> e < w \/ e = w
    <3>1. e \in Nat /\ w \in Nat  BY <1>2, <1>3
    <3> QED BY <3>1
  <2> QED BY <2>1, <2>2
<1>9. IsFiniteSet(WordEnds(t)) /\ C \subseteq WordEnds(t) \ {w}
  BY <1>8, EndsFinite
<1>10. GapRank(t, w) = Cardinality(C)  BY DEF GapRank
<1> HIDE DEF A, B, C
<1>11. /\ IsFiniteSet(WordEnds(t) \ {w})
       /\ Cardinality(WordEnds(t) \ {w}) = Cardinality(WordEnds(t)) - 1
  BY <1>9, FS_RemoveElement
<1>12. /\ IsFiniteSet(C) /\ Cardinality(C) \in Nat
       /\ Cardinality(C) <= Cardinality(WordEnds(t)) - 1
  BY <1>9, <1>11, FS_Subset, FS_CardinalityType
<1>13. Cardinality(A) = Cardinality(C) + 1
  BY <1>8, <1>12, FS_AddElement
<1>14. Cardinality(WordEnds(t)) \in Nat  BY EndsFinite
<1> QED BY <1>6, <1>7, <1>10, <1>12, <1>13, <1>14

(* Different gaps have different ranks. *)
LEMMA GapRankInjective ==
  ASSUME NEW S, NEW t \in Seq(S), NEW v \in WordEnds(t), NEW w \in WordEnds(t),
         v < w
  PROVE  GapRank(t, v) < GapRank(t, w)
<1> DEFINE C == {e \in WordEnds(t) : e < v}
           D == {e \in WordEnds(t) : e < w}
<1>1. \A e \in WordEnds(t) : e \in Nat
  <2>1. Len(t) \in Nat  OBVIOUS
  <2> QED BY <2>1 DEF WordEnds
<1>2. C \subseteq D \ {v} /\ v \in D
  <2>1. \A e \in WordEnds(t) : e < v => e < w /\ e # v  BY <1>1
  <2> QED BY <2>1
<1>3. GapRank(t, v) = Cardinality(C) /\ GapRank(t, w) = Cardinality(D)
  BY DEF GapRank
<1>4. IsFiniteSet(D)
  <2>1. D \subseteq WordEnds(t)  OBVIOUS
  <2> HIDE DEF D
  <2> QED BY <2>1, EndsFinite, FS_Subset
<1> HIDE DEF C, D
<1>5. IsFiniteSet(D \ {v}) /\ Cardinality(D \ {v}) = Cardinality(D) - 1
  BY <1>2, <1>4, FS_RemoveElement
<1>6. IsFiniteSet(C) /\ Cardinality(C) <= Cardinality(D \ {v})
  BY <1>2, <1>5, FS_Subset
<1>7. Cardinality(C) \in Nat /\ Cardinality(D) \in Nat
  BY <1>4, <1>6, FS_CardinalityType
<1> QED BY <1>3, <1>5, <1>6, <1>7

-----------------------------------------------------------------------------
(* What read_runs files when symbols are missing, or were woven in. *)

(* Neither ends a chunk nor opens a word, as a symbol does not: without it *)
(* read_runs counts as it does with it.                                    *)
Inert(t, p) == ~IsSpace(t[p]) /\ ~OpensWord(t, p)

LEMMA SymbolsInert == \A t, p : IsSymbol(t[p]) => Inert(t, p)
  BY DEF Inert, OpensWord, IsSymbol, IsSpace

(* What is inert plays no part in where words open. *)
LEMMA OpensEmbedded ==
  ASSUME NEW f, NEW s, NEW t, Embeds(f, s, t),
         \A p \in Missing(f, s, t) : Inert(t, p)
  PROVE  /\ \A i \in 1..Len(s) : OpensWord(s, i) <=> OpensWord(t, f[i])
         /\ \A p \in Missing(f, s, t) : ~OpensWord(t, p)
<1> DEFINE m == Len(s)
           n == Len(t)
<1>1. /\ m \in Nat /\ n \in Nat
      /\ \A i \in 1..m : s[i] = t[f[i]] /\ f[i] \in 1..n /\ f[i] \in Nat
      /\ \A i, j \in 1..m : f[i] < f[j] <=> i < j
      /\ \A i, j \in 1..m : f[i] <= f[j] <=> i <= j
  BY EmbedsFacts DEF Embeds
<1>2. \A p \in 1..n : Inert(t, p) \/ \E i \in 1..m : f[i] = p
  BY DEF Missing
<1>0. \A o \in 1..n : OpensWord(t, o) <=>
        /\ ~IsSymbol(t[o]) /\ ~IsSpace(t[o])
        /\ \A j \in 1..(o - 1) :
             (\A k \in j..(o - 1) : ~IsSpace(t[k])) => IsSymbol(t[j])
  BY <1>1, OpensIs DEF n
<1> HIDE DEF m, n
<1>3. ASSUME NEW i \in 1..m,
             \A j \in 1..(i - 1) :
               (\A k \in j..(i - 1) : ~IsSpace(s[k])) => IsSymbol(s[j]),
             NEW p \in 1..(f[i] - 1),
             \A k \in p..(f[i] - 1) : ~IsSpace(t[k])
      PROVE  IsSymbol(t[p])
  <2> SUFFICES ASSUME ~IsSymbol(t[p]) PROVE FALSE  OBVIOUS
  <2> DEFINE B == {q \in 1..(f[i] - 1) : /\ ~IsSymbol(t[q])
                                         /\ \A k \in q..(f[i] - 1) : ~IsSpace(t[k])}
  <2>0. PICK o \in B : \A q \in B : o <= q
    <3>1. B \in SUBSET Nat /\ p \in B  BY <1>3
    <3> HIDE DEF B
    <3> QED BY <3>1, LeastNumber
  <2>1. o \in 1..n /\ o < f[i]  BY <1>1
  <2>6. ~IsSymbol(t[o]) /\ \A k \in o..(f[i] - 1) : ~IsSpace(t[k])  OBVIOUS
  <2>7. ~IsSpace(t[o])  BY <1>1, <2>1, <2>6
  <2>8. ASSUME NEW j \in 1..(o - 1), \A k \in j..(o - 1) : ~IsSpace(t[k])
        PROVE  IsSymbol(t[j])
    <3>1. j \in 1..(f[i] - 1) /\ j < o  BY <1>1, <2>1
    <3>2. \A k \in j..(f[i] - 1) : ~IsSpace(t[k])
      BY <1>1, <2>1, <2>6, <2>8
    <3> QED BY <2>0, <3>1, <3>2
  <2>9. OpensWord(t, o)  BY <1>0, <2>1, <2>6, <2>7, <2>8
  <2>2. PICK j \in 1..m : f[j] = o  BY <1>2, <2>1, <2>9 DEF Inert
  <2> HIDE DEF B
  <2>3. j \in 1..(i - 1)  BY <1>1, <2>1, <2>2
  <2>4. ASSUME NEW k \in j..(i - 1) PROVE ~IsSpace(s[k])
    <3>1. k \in 1..m /\ j <= k /\ k < i  BY <1>1, <2>3
    <3>2. o <= f[k] /\ f[k] < f[i] /\ f[k] \in Nat /\ f[i] \in Nat /\ o \in Nat
      BY <1>1, <2>1, <2>2, <3>1
    <3>3. f[k] \in o..(f[i] - 1)  BY <3>2
    <3> QED BY <1>1, <2>6, <3>1, <3>3
  <2>5. IsSymbol(s[j])  BY <1>3, <2>3, <2>4
  <2> QED BY <1>1, <2>2, <2>5, <2>6
<1>4. ASSUME NEW i \in 1..m,
             \A p \in 1..(f[i] - 1) :
               (\A k \in p..(f[i] - 1) : ~IsSpace(t[k])) => IsSymbol(t[p]),
             NEW j \in 1..(i - 1),
             \A k \in j..(i - 1) : ~IsSpace(s[k])
      PROVE  IsSymbol(s[j])
  <2>1. j \in 1..m /\ j < i  BY <1>1
  <2>2. f[j] < f[i] /\ f[j] \in 1..n /\ f[i] \in 1..n  BY <1>1, <2>1
  <2>3. f[j] \in 1..(f[i] - 1)  BY <1>1, <2>2
  <2>4. ASSUME NEW k \in f[j]..(f[i] - 1) PROVE ~IsSpace(t[k])
    <3>1. k \in 1..n /\ f[j] <= k /\ k < f[i]  BY <1>1, <2>2
    <3>2. CASE Inert(t, k)  BY <3>2 DEF Inert
    <3>3. CASE ~Inert(t, k)
      <4>1. PICK l \in 1..m : f[l] = k  BY <1>2, <3>1, <3>3
      <4>2. l \in j..(i - 1)  BY <1>1, <2>1, <3>1, <4>1
      <4> QED BY <1>1, <1>4, <4>1, <4>2
    <3> QED BY <3>2, <3>3
  <2>5. IsSymbol(t[f[j]])  BY <1>4, <2>3, <2>4
  <2> QED BY <1>1, <2>1, <2>5
<1>5. ASSUME NEW i \in 1..m PROVE OpensWord(s, i) <=> OpensWord(t, f[i])
  <2>1. OpensWord(s, i) <=>
          /\ ~IsSymbol(s[i]) /\ ~IsSpace(s[i])
          /\ \A j \in 1..(i - 1) :
               (\A k \in j..(i - 1) : ~IsSpace(s[k])) => IsSymbol(s[j])
    BY <1>1, OpensIs DEF m
  <2>2. OpensWord(t, f[i]) <=>
          /\ ~IsSymbol(t[f[i]]) /\ ~IsSpace(t[f[i]])
          /\ \A j \in 1..(f[i] - 1) :
               (\A k \in j..(f[i] - 1) : ~IsSpace(t[k])) => IsSymbol(t[j])
    BY <1>1, OpensIs DEF n
  <2>3. s[i] = t[f[i]]  BY <1>1
  <2> QED BY <1>3, <1>4, <2>1, <2>2, <2>3
<1>6. \A p \in Missing(f, s, t) : ~OpensWord(t, p)
  BY DEF Inert
<1> QED BY <1>5, <1>6 DEF m

(* Words opened before a place of the longer text are the words opened     *)
(* before it in the shorter.                                               *)
LEMMA RankEmbedded ==
  ASSUME NEW f, NEW s, NEW t, Embeds(f, s, t),
         \A p \in Missing(f, s, t) : Inert(t, p),
         NEW i \in 1..(Len(s) + 1), NEW p \in 1..(Len(t) + 1),
         \A j \in 1..Len(s) : f[j] < p <=> j < i
  PROVE  RankBefore(s, i) = RankBefore(t, p)
<1> DEFINE m == Len(s)
           n == Len(t)
           P == {j \in 1..(i - 1) : OpensWord(s, j)}
           Q == {q \in 1..(p - 1) : OpensWord(t, q)}
<1>1. m \in Nat /\ n \in Nat /\ \A j \in 1..m : f[j] \in 1..n
  BY EmbedsFacts DEF Embeds
<1>2. /\ \A j \in 1..m : OpensWord(s, j) <=> OpensWord(t, f[j])
      /\ \A q \in 1..n : OpensWord(t, q) => \E j \in 1..m : f[j] = q
  BY OpensEmbedded DEF Missing
<1>3. i \in 1..(m + 1) /\ p \in 1..(n + 1) /\ \A j \in 1..m : f[j] < p <=> j < i
  OBVIOUS
<1> HIDE DEF m, n
<1>4. ASSUME NEW q \in Q PROVE q \in {f[j] : j \in P}
  <2>1. q \in 1..n /\ q < p /\ OpensWord(t, q)  BY <1>1, <1>3
  <2>2. PICK j \in 1..m : f[j] = q  BY <1>2, <2>1
  <2>3. j < i /\ OpensWord(s, j)  BY <1>2, <1>3, <2>1, <2>2
  <2>4. j \in 1..(i - 1)  BY <1>1, <1>3, <2>3
  <2> QED BY <2>2, <2>3, <2>4
<1>5. ASSUME NEW j \in P PROVE f[j] \in Q
  <2>1. j \in 1..m /\ j < i /\ OpensWord(s, j)  BY <1>1, <1>3
  <2>2. f[j] \in 1..n /\ f[j] < p /\ OpensWord(t, f[j])
    BY <1>1, <1>2, <1>3, <2>1
  <2>3. f[j] \in 1..(p - 1)  BY <1>1, <1>3, <2>2
  <2> QED BY <2>2, <2>3
<1>6. Q = {f[j] : j \in P}  BY <1>4, <1>5
<1>7. P \in SUBSET (1..m)  BY <1>1, <1>3
<1> HIDE DEF P, Q
<1>8. Cardinality(Q) = Cardinality(P)  BY <1>6, <1>7, EmbeddedAt DEF m
<1> QED BY <1>8 DEF RankBefore, P, Q

(* With the inert missing, what is left of a run is filed where it was. *)
LEMMA FiledEmbedded ==
  ASSUME NEW f, NEW s, NEW t, Embeds(f, s, t),
         \A p \in Missing(f, s, t) : Inert(t, p), NEW r
  PROVE  /\ Filed(s, r, Len(s)) \in SUBSET (1..Len(s))
         /\ \A i \in 1..Len(s) :
              i \in Filed(s, r, Len(s)) <=> f[i] \in Filed(t, r, Len(t))
<1>1. Len(s) \in Nat /\ Len(t) \in Nat  BY DEF Embeds
<1>2. ASSUME NEW i \in 1..Len(s)
      PROVE  i \in Filed(s, r, Len(s)) <=> f[i] \in Filed(t, r, Len(t))
  <2>1. /\ s[i] = t[f[i]] /\ f[i] \in 1..Len(t)
        /\ \A j \in 1..Len(s) : f[j] < f[i] <=> j < i
    BY EmbedsFacts DEF Embeds
  <2>2. i \in 1..(Len(s) + 1) /\ f[i] \in 1..(Len(t) + 1)  BY <1>1, <2>1
  <2>3. RankBefore(s, i) = RankBefore(t, f[i])
    BY <2>1, <2>2, RankEmbedded
  <2> QED BY <2>1, <2>3 DEF Filed
<1> QED BY <1>2 DEF Filed

(* A text with symbols woven in: those of each run are filed under the     *)
(* rank of its gap.                                                        *)
LEMMA WovenFiled ==
  ASSUME NEW S, NEW t \in Seq(S), NEW ord, NEW run,
         \A r \in Range(run) : \A k \in 1..SYMBOLS_PER_SHARD : IsSymbol(r[k]),
         ~SplitsWord(t), ~HasGhostWord(t),
         NEW ins \in SortedInsertions(t, ord, run)
  PROVE  LET w == Woven(t, ins)
             f == HostAt(t, ins)
         IN  /\ \A p \in Missing(f, t, w) : IsSymbol(w[p])
             /\ \A j \in 1..TOTAL_SHARDS, k \in 1..SYMBOLS_PER_SHARD :
                  RunStart(ins, j) + k
                    \in Filed(w, GapRank(t, ins[j].off), Len(w))
             /\ \A r \in Int : \A p : p \in Filed(w, r, Len(w)) =>
                  \/ \E i \in Filed(t, r, Len(t)) : p = f[i]
                  \/ \E j \in 1..TOTAL_SHARDS, k \in 1..SYMBOLS_PER_SHARD :
                       /\ GapRank(t, ins[j].off) = r
                       /\ p = RunStart(ins, j) + k
<1> DEFINE w == Woven(t, ins)
           f == HostAt(t, ins)
           at(j, k) == RunStart(ins, j) + k
           Z == SYMBOLS_PER_SHARD
           T == TOTAL_SHARDS
<1>1. /\ Len(w) \in Nat /\ Embeds(f, t, w)
      /\ \A j \in 1..T, k \in 1..Z :
           /\ at(j, k) \in 1..Len(w)
           /\ w[at(j, k)] = ins[j].run[k]
           /\ \A i \in 1..Len(t) : f[i] # at(j, k)
                                   /\ (f[i] < at(j, k) <=> i <= ins[j].off)
      /\ \A p \in 1..Len(w) : \/ \E i \in 1..Len(t) : p = f[i]
                              \/ \E j \in 1..T, k \in 1..Z : p = at(j, k)
  BY WovenParts
<1>2. \A j \in 1..T :
        /\ ins[j].off \in WordEnds(t) /\ ins[j].run \in Range(run)
        /\ ins[j].off \in Nat /\ 1 <= ins[j].off /\ ins[j].off <= Len(t)
  BY InsertionFacts
<1>3. Len(t) \in Nat  OBVIOUS
<1> HIDE DEF w, f, at, Z, T
<1>4. \A j \in 1..T, k \in 1..Z : IsSymbol(w[at(j, k)])
  BY <1>1, <1>2 DEF Z
<1>5. \A p \in Missing(f, t, w) : IsSymbol(w[p])
  BY <1>1, <1>4 DEF Missing
<1>6. ASSUME NEW j \in 1..T, NEW k \in 1..Z
      PROVE  /\ RankBefore(w, at(j, k)) = GapRank(t, ins[j].off) + 1
             /\ GapRank(t, ins[j].off) \in Nat
  <2> DEFINE e == ins[j].off
  <2>1. /\ RankBefore(t, e + 1) = GapRank(t, e) + 1
        /\ GapRank(t, e) \in 0..(Cardinality(WordEnds(t)) - 1)
    BY <1>2, RankAtGap
  <2>2. e \in Nat /\ 1 <= e /\ e <= Len(t)  BY <1>2
  <2>3. e + 1 \in 1..(Len(t) + 1) /\ at(j, k) \in 1..(Len(w) + 1)
    BY <1>1, <1>3, <2>2
  <2>4. \A i \in 1..Len(t) : f[i] < at(j, k) <=> i < e + 1
    BY <1>1, <1>3, <2>2
  <2>5. RankBefore(t, e + 1) = RankBefore(w, at(j, k))
    <3> DEFINE x == e + 1
               p == at(j, k)
    <3>1. x \in 1..(Len(t) + 1) /\ p \in 1..(Len(w) + 1)  BY <2>3
    <3>2. \A i \in 1..Len(t) : f[i] < p <=> i < x  BY <2>4
    <3>4. Embeds(f, t, w)  BY <1>1
    <3> HIDE DEF x, p, e
    <3>3. RankBefore(t, x) = RankBefore(w, p)
      BY <1>5, <3>1, <3>2, <3>4, RankEmbedded,
         SymbolsInert
    <3> QED BY <3>3 DEF x, p
  <2> HIDE DEF e
  <2> QED BY <2>1, <2>5 DEF e
<1>7. ASSUME NEW j \in 1..T, NEW k \in 1..Z
      PROVE  at(j, k) \in Filed(w, GapRank(t, ins[j].off), Len(w))
  BY <1>1, <1>4, <1>6 DEF Filed
<1>8. ASSUME NEW r \in Int, NEW p, p \in Filed(w, r, Len(w))
      PROVE  \/ \E i \in Filed(t, r, Len(t)) : p = f[i]
             \/ \E j \in 1..T, k \in 1..Z :
                  GapRank(t, ins[j].off) = r /\ p = at(j, k)
  <2>1. p \in 1..Len(w) /\ RankBefore(w, p) = r + 1  BY <1>8 DEF Filed
  <2>2. CASE \E i \in 1..Len(t) : p = f[i]
    BY <1>1, <1>5, <1>8, <2>2, FiledEmbedded, SymbolsInert
  <2>3. CASE \E j \in 1..T, k \in 1..Z : p = at(j, k)
    <3>1. PICK j \in 1..T, k \in 1..Z : p = at(j, k)  BY <2>3
    <3>2. r + 1 = GapRank(t, ins[j].off) + 1 /\ GapRank(t, ins[j].off) \in Nat
      BY <1>6, <2>1, <3>1
    <3> QED BY <3>1, <3>2
  <2> QED BY <1>1, <2>1, <2>2, <2>3
<1> QED BY <1>5, <1>7, <1>8 DEF w, f, at, Z, T

-----------------------------------------------------------------------------
(* Reading back what was woven into a text without zero-width characters. *)

LEMMA CleanText ==
  ASSUME NEW S, NEW t \in Seq(S), NoZeroWidth(t)
  PROVE  /\ ~SplitsWord(t) /\ ~HasGhostWord(t)
         /\ \A r, n : n = Len(t) => Filed(t, r, n) = {}
<1>1. Len(t) \in Nat /\ \A k \in 1..Len(t) : ~IsZeroWidth(t[k])
  BY DEF NoZeroWidth
<1>2. ~SplitsWord(t)
  <2> SUFFICES ASSUME NEW i \in 1..Len(t), NEW j \in 1..Len(t), i + 1 < j,
                      \A k \in (i + 1)..(j - 1) : IsZeroWidth(t[k])
               PROVE  FALSE
    BY DEF SplitsWord
  <2>1. i + 1 \in (i + 1)..(j - 1) /\ i + 1 \in 1..Len(t)  BY <1>1
  <2> QED BY <1>1, <2>1
<1>3. ~HasGhostWord(t)
  <2> SUFFICES ASSUME NEW i \in 1..Len(t), OpensWord(t, i), Ghost(t, i)
               PROVE  FALSE
    BY DEF HasGhostWord, Ghost
  <2>1. i \in i..Len(t) /\ \A j \in i..i : j = i  BY <1>1
  <2>2. ~IsSpace(t[i])  BY DEF OpensWord
  <2>3. IsZeroWidth(t[i])  BY <2>1, <2>2 DEF Ghost
  <2> QED BY <1>1, <2>3
<1>4. \A r, n : n = Len(t) => Filed(t, r, n) = {}
  BY <1>1, CharKinds DEF Filed
<1> QED BY <1>2, <1>3, <1>4

LEMMA ShardCount == IsFiniteSet(Shards) /\ Cardinality(Shards) = TOTAL_SHARDS
<1> DEFINE T == TOTAL_SHARDS
<1>1. T \in Nat /\ T > 0  BY ShardArithmetic
<1> HIDE DEF T
<1>2. \A a, b \in Int : IsFiniteSet(a..b)
        /\ Cardinality(a..b) = (IF a > b THEN 0 ELSE b - a + 1)
  BY FS_Interval
<1>3. 0 \in Int /\ T - 1 \in Int /\ ~(0 > T - 1) /\ (T - 1) - 0 + 1 = T
  BY <1>1
<1>4. Shards = 0..(T - 1)  BY DEF Shards, T
<1> QED BY <1>2, <1>3, <1>4 DEF T

(* The insertion list has the run of every shard, at the gap of its rank.  *)
LEMMA ShardRuns ==
  ASSUME NEW S, NEW t \in Seq(S), NEW n, NEW ord \in Orders(n), NEW run,
         NEW ins \in SortedInsertions(t, ord, run)
  PROVE  /\ \A s \in Shards : \E j \in 1..TOTAL_SHARDS :
              GapRank(t, ins[j].off) = ord[s] /\ ins[j].run = run[s]
         /\ \A j, k \in 1..TOTAL_SHARDS :
              GapRank(t, ins[j].off) = GapRank(t, ins[k].off) => j = k
<1> DEFINE T == TOTAL_SHARDS
           D == 1..T
           rank(j) == GapRank(t, ins[j].off)
           h == [j \in D |-> CHOOSE s \in Shards :
                               rank(j) = ord[s] /\ ins[j].run = run[s]]
<1>1. T \in Nat /\ T > 0  BY ShardArithmetic
<1>2. /\ \A j \in D : ins[j].off \in WordEnds(t) /\ ins[j].off \in Nat
      /\ \A j, k \in D : j < k => ins[j].off < ins[k].off
  BY InsertionFacts
<1>3. \A j \in D : \E s \in Shards : rank(j) = ord[s] /\ ins[j].run = run[s]
  <2> SUFFICES ASSUME NEW j \in D
               PROVE  \E s \in Shards : rank(j) = ord[s] /\ ins[j].run = run[s]
    OBVIOUS
  <2>1. ins[j] \in Insertions(t, ord, run)  BY DEF SortedInsertions
  <2> QED BY <2>1 DEF Insertions
<1>4. \A j \in D : rank(j) \in Nat
  <2> SUFFICES ASSUME NEW j \in D PROVE rank(j) \in Nat  OBVIOUS
  <2> DEFINE C == {w \in WordEnds(t) : w < ins[j].off}
  <2>1. IsFiniteSet(WordEnds(t)) /\ C \subseteq WordEnds(t)  BY EndsFinite
  <2>2. rank(j) = Cardinality(C)  BY DEF GapRank
  <2> HIDE DEF C, rank
  <2> QED BY <2>1, <2>2, FS_Subset, FS_CardinalityType
<1>5. \A j, k \in D : j < k => rank(j) < rank(k)
  BY <1>2, GapRankInjective
<1> HIDE DEF rank
<1>6. \A j, k \in D : rank(j) = rank(k) => j = k
  <2> SUFFICES ASSUME NEW j \in D, NEW k \in D, rank(j) = rank(k), j # k
               PROVE  FALSE
    OBVIOUS
  <2>1. j < k \/ k < j  BY <1>1
  <2> QED BY <1>4, <1>5, <2>1
<1>7. \A j \in D : h[j] \in Shards /\ rank(j) = ord[h[j]]
                   /\ ins[j].run = run[h[j]]
  BY <1>3
<1>8. h \in [D -> Shards]  BY <1>7
<1> HIDE DEF h
<1>9. \A j, k \in D : h[j] = h[k] => j = k
  <2> SUFFICES ASSUME NEW j \in D, NEW k \in D, h[j] = h[k] PROVE j = k
    OBVIOUS
  <2>1. rank(j) = rank(k)  BY <1>7
  <2> QED BY <1>6, <2>1
<1>10. /\ IsFiniteSet(D) /\ Cardinality(D) = T
       /\ IsFiniteSet(Shards) /\ Cardinality(Shards) = T
  <2>1. \A m \in Nat : IsFiniteSet(1..m) /\ Cardinality(1..m) = m
    BY FS_Interval
  <2> QED BY <1>1, <2>1, ShardCount
<1>11. \A s \in Shards : \E j \in D : h[j] = s
  <2> HIDE DEF D, T
  <2> QED BY <1>8, <1>9, <1>10, NoLarger
<1>12. \A s \in Shards : \E j \in D : rank(j) = ord[s] /\ ins[j].run = run[s]
  BY <1>7, <1>11
<1> QED BY <1>6, <1>12 DEF rank

(* The positions of the j-th run of a woven text. *)
RunPlaces(ins, j) == {RunStart(ins, j) + k : k \in 1..SYMBOLS_PER_SHARD}

LEMMA RunPlacesFacts ==
  ASSUME NEW S, NEW t \in Seq(S), NEW ord, NEW run,
         NEW ins \in SortedInsertions(t, ord, run), NEW j \in 1..TOTAL_SHARDS,
         NEW w, w = Woven(t, ins)
  PROVE  /\ RunPlaces(ins, j) \in SUBSET (1..Len(w))
         /\ IsFiniteSet(RunPlaces(ins, j))
         /\ Cardinality(RunPlaces(ins, j)) = SYMBOLS_PER_SHARD
         /\ At(w, RunPlaces(ins, j))
              = [k \in 1..SYMBOLS_PER_SHARD |-> ins[j].run[k]]
<1> DEFINE P == RunPlaces(ins, j)
           Z == SYMBOLS_PER_SHARD
           st == RunStart(ins, j)
           f == [k \in 1..Z |-> st + k]
<1>1. Z \in Nat /\ st \in Nat  BY ShardArithmetic, InsertionFacts
<1>2. /\ Len(w) \in Nat
      /\ \A k \in 1..Z : st + k \in 1..Len(w) /\ w[st + k] = ins[j].run[k]
  BY WovenParts
<1> HIDE DEF st, Z
<1>3. P = {st + k : k \in 1..Z}  BY DEF RunPlaces, st, Z
<1>4. P \in SUBSET (1..Len(w)) /\ P \in SUBSET Nat
  <2>1. \A q \in P : q \in 1..Len(w)  BY <1>2, <1>3, Zenon
  <2> HIDE DEF P
  <2> QED BY <1>2, <2>1
<1>5. Enumerates(f, Z, P)
  <2>1. \A k \in 1..Z : f[k] = st + k  OBVIOUS
  <2>2. \A a, b \in 1..Z : a < b => f[a] < f[b]  BY <1>1, <2>1
  <2> QED BY <1>3, <2>1, <2>2 DEF Enumerates, Rising
<1> HIDE DEF f, P
<1>6. /\ IsFiniteSet(P) /\ Cardinality(P) = Z
      /\ \A k \in 1..Z : Nth(P, k) = f[k]
  BY <1>1, <1>4, <1>5, Enumeration
<1>7. \A k \in 1..Z : w[Nth(P, k)] = ins[j].run[k]
  BY <1>2, <1>6 DEF f
<1>8. At(w, P) = [k \in 1..Z |-> ins[j].run[k]]
  BY <1>6, <1>7 DEF At
<1> QED BY <1>4, <1>6, <1>8 DEF P, Z

(* Different runs lie apart. *)
LEMMA RunsApart ==
  ASSUME NEW S, NEW t \in Seq(S), NEW ord, NEW run,
         NEW ins \in SortedInsertions(t, ord, run),
         NEW i \in 1..TOTAL_SHARDS, NEW j \in 1..TOTAL_SHARDS,
         NEW p \in RunPlaces(ins, i), p \in RunPlaces(ins, j)
  PROVE  i = j
<1> DEFINE Z == SYMBOLS_PER_SHARD
<1>1. /\ TOTAL_SHARDS \in Nat /\ Z \in Nat
      /\ \A k \in 1..TOTAL_SHARDS : RunStart(ins, k) \in Nat
      /\ \A k, l \in 1..TOTAL_SHARDS :
           k < l => RunStart(ins, k) + Z < RunStart(ins, l)
  BY ShardArithmetic, InsertionFacts
<1>2. \A a, b \in 1..TOTAL_SHARDS :
        p \in RunPlaces(ins, a) /\ p \in RunPlaces(ins, b) => ~(a < b)
  <2> SUFFICES ASSUME NEW a \in 1..TOTAL_SHARDS, NEW b \in 1..TOTAL_SHARDS,
                      p \in RunPlaces(ins, a), p \in RunPlaces(ins, b), a < b
               PROVE  FALSE
    OBVIOUS
  <2> DEFINE x == RunStart(ins, a)
             y == RunStart(ins, b)
  <2>1. PICK k \in 1..Z : p = x + k  BY DEF RunPlaces
  <2>2. PICK l \in 1..Z : p = y + l  BY DEF RunPlaces
  <2>3. x \in Nat /\ y \in Nat /\ x + Z < y  BY <1>1
  <2> HIDE DEF x, y, Z
  <2> QED BY <1>1, <2>1, <2>2, <2>3
<1>3. ~(i < j) /\ ~(j < i)  BY <1>2
<1> QED BY <1>1, <1>3

LEMMA AtLength ==
  ASSUME NEW t, NEW P, Cardinality(P) \in Nat
  PROVE  Len(At(t, P)) = Cardinality(P)
BY DEF At

(* What read_runs files under the rank of a shard is its run. *)
LEMMA WovenRuns ==
  ASSUME NEW S, NEW t \in Seq(S), NoZeroWidth(t),
         NEW n, NEW ord \in Orders(n), NEW run,
         \A r \in Range(run) : \A k \in 1..SYMBOLS_PER_SHARD : IsSymbol(r[k]),
         NEW ins \in SortedInsertions(t, ord, run), NEW w, w = Woven(t, ins)
  PROVE  /\ \A p \in 1..Len(w) : IsZeroWidth(w[p]) => IsSymbol(w[p])
         /\ \A s \in Shards : \E j \in 1..TOTAL_SHARDS :
              /\ Filed(w, ord[s], Len(w)) = RunPlaces(ins, j)
              /\ ins[j].run = run[s]
<1> DEFINE f == HostAt(t, ins)
           T == TOTAL_SHARDS
           Z == SYMBOLS_PER_SHARD
<1>1. ~SplitsWord(t) /\ ~HasGhostWord(t)
  BY CleanText
<1>2. /\ \A p \in Missing(f, t, w) : IsSymbol(w[p])
      /\ \A j \in 1..T, k \in 1..Z :
           RunStart(ins, j) + k \in Filed(w, GapRank(t, ins[j].off), Len(w))
      /\ \A r \in Int : \A p : p \in Filed(w, r, Len(w)) =>
           \/ \E i \in Filed(t, r, Len(t)) : p = f[i]
           \/ \E j \in 1..T, k \in 1..Z :
                /\ GapRank(t, ins[j].off) = r
                /\ p = RunStart(ins, j) + k
  BY <1>1, WovenFiled
<1>3. Embeds(f, t, w)  BY WovenParts
<1>4. ASSUME NEW p \in 1..Len(w), IsZeroWidth(w[p]) PROVE IsSymbol(w[p])
  <2>1. CASE p \in Missing(f, t, w)  BY <1>2, <2>1
  <2>2. CASE p \notin Missing(f, t, w)
    <3>1. PICK i \in 1..Len(t) : f[i] = p  BY <2>2 DEF Missing
    <3>2. t[i] = w[p]  BY <1>3, <3>1 DEF Embeds
    <3> QED BY <1>4, <3>2 DEF NoZeroWidth
  <2> QED BY <2>1, <2>2
<1> HIDE DEF f
<1>5. ASSUME NEW s \in Shards
      PROVE  \E j \in 1..T : /\ Filed(w, ord[s], Len(w)) = RunPlaces(ins, j)
                             /\ ins[j].run = run[s]
  <2>1. PICK j \in 1..T : /\ GapRank(t, ins[j].off) = ord[s]
                          /\ ins[j].run = run[s]
    BY ShardRuns
  <2>2. \A k \in 1..T : GapRank(t, ins[k].off) = ord[s] => k = j
    BY <2>1, ShardRuns
  <2>3. ord[s] \in Int  BY DEF Orders
  <2>4. Filed(t, ord[s], Len(t)) = {}  BY CleanText
  <2>5. RunPlaces(ins, j) = {RunStart(ins, j) + k : k \in 1..Z}
    BY DEF RunPlaces
  <2>6. \A p \in Filed(w, ord[s], Len(w)) : p \in RunPlaces(ins, j)
    BY <1>2, <2>2, <2>3, <2>4, <2>5
  <2>7. \A p \in RunPlaces(ins, j) : p \in Filed(w, ord[s], Len(w))
    BY <1>2, <2>1, <2>5
  <2>8. Filed(w, ord[s], Len(w)) = RunPlaces(ins, j)  BY <2>6, <2>7
  <2> QED BY <2>1, <2>8
<1> QED BY <1>4, <1>5

(* A run of symbols for each shard, all of one length; what read_runs      *)
(* found in u for each; and the shards of which that is another run.       *)
SymbolRuns(run, R) ==
  /\ DOMAIN run = Shards
  /\ \A s \in Shards :
       /\ run[s] \in Seq(R) /\ Len(run[s]) = SYMBOLS_PER_SHARD
       /\ \A k \in 1..SYMBOLS_PER_SHARD : IsSymbol(run[s][k])

FoundIn(read, u, ord) ==
  \A s \in Shards : read[s] = At(u, Filed(u, ord[s], Len(u)))

Differ(hit, read, run) ==
  \A s : s \in hit <=> s \in Shards /\ read[s] # run[s]

LEMMA AreSymbols ==
  ASSUME NEW run, NEW R, SymbolRuns(run, R)
  PROVE  \A r \in Range(run) : \A k \in 1..SYMBOLS_PER_SHARD :
           IsSymbol(r[k]) /\ r[k] \in R
BY ShardArithmetic DEF SymbolRuns, Range

LEMMA RunsAreRuns == SymbolRuns(Run, Symbol)
<1>1. \A s \in Shards, k \in 1..SYMBOLS_PER_SHARD :
        /\ Run[s] = [m \in 1..SYMBOLS_PER_SHARD |->
                       [class |-> "symbol", shard |-> s, part |-> m]]
        /\ Run[s][k] = [class |-> "symbol", shard |-> s, part |-> k]
  BY DEF Run
<1>2. DOMAIN Run = Shards  BY DEF Run
<1>3. ASSUME NEW s \in Shards, NEW k \in 1..SYMBOLS_PER_SHARD
      PROVE  IsSymbol(Run[s][k]) /\ Run[s][k] \in Symbol
  <2> DEFINE c == [class |-> "symbol", shard |-> s, part |-> k]
  <2>1. Run[s][k] = c  BY <1>1
  <2>2. IsSymbol(c) /\ c \in Symbol  BY DEF Symbol, IsSymbol
  <2> HIDE DEF c
  <2> QED BY <2>1, <2>2
<1>4. ASSUME NEW s \in Shards
      PROVE  Run[s] \in Seq(Symbol) /\ Len(Run[s]) = SYMBOLS_PER_SHARD
  <2> DEFINE Z == SYMBOLS_PER_SHARD
             r == Run[s]
  <2>1. Z \in Nat  BY ShardArithmetic
  <2>2. r = [m \in 1..Z |-> r[m]]  BY DEF Run
  <2>3. \A m \in 1..Z : r[m] \in Symbol  BY <1>3
  <2> HIDE DEF r, Z
  <2>4. r \in Seq(Symbol) /\ Len(r) = Z  BY <2>1, <2>2, <2>3
  <2> QED BY <2>4 DEF r, Z
<1> QED BY <1>2, <1>3, <1>4 DEF SymbolRuns

(* Zero-width characters that were lost on the way cost the shards they    *)
(* belonged to and no other: every run that is read with the length of a   *)
(* run is the run that was woven in.                                       *)
LEMMA RunsRead ==
  ASSUME NEW S, NEW R, NEW t \in Seq(S), NoZeroWidth(t),
         NEW n, NEW ord \in Orders(n), NEW run, SymbolRuns(run, R),
         NEW ins \in SortedInsertions(t, ord, run), NEW w, w = Woven(t, ins),
         NEW u, ShortOf(u, w), NEW read, FoundIn(read, u, ord),
         NEW hit, Differ(hit, read, run)
  PROVE  /\ IsFiniteSet(hit) /\ Cardinality(hit) <= Len(w) - Len(u)
         /\ \A s \in hit : Len(read[s]) # SYMBOLS_PER_SHARD
<1>0. PICK g : /\ Embeds(g, u, w)
               /\ \A p \in Missing(g, u, w) : IsZeroWidth(w[p])
  BY DEF ShortOf
<1> DEFINE T == TOTAL_SHARDS
           Z == SYMBOLS_PER_SHARD
           M == Missing(g, u, w)
           of == [s \in Shards |-> CHOOSE j \in 1..T :
                    /\ Filed(w, ord[s], Len(w)) = RunPlaces(ins, j)
                    /\ ins[j].run = run[s]]
<1>1. T \in Nat /\ Z \in Nat  BY ShardArithmetic
<1>2. \A s \in Shards : \E j \in 1..T :
        Filed(w, ord[s], Len(w)) = RunPlaces(ins, j) /\ ins[j].run = run[s]
  BY AreSymbols, WovenRuns
<1>3. \A p \in M : IsSymbol(w[p])
  <2>1. \A p \in M : p \in 1..Len(w) /\ IsZeroWidth(w[p])
    BY <1>0 DEF Missing
  <2>2. \A p \in 1..Len(w) : IsZeroWidth(w[p]) => IsSymbol(w[p])
    BY AreSymbols, WovenRuns
  <2> QED BY <2>1, <2>2
<1>4. \A s \in Shards :
        /\ of[s] \in 1..T
        /\ Filed(w, ord[s], Len(w)) = RunPlaces(ins, of[s])
        /\ ins[of[s]].run = run[s]
  BY <1>2
<1> HIDE DEF of
<1>5. \A s \in Shards : run[s] = [k \in 1..Z |-> run[s][k]]
  BY DEF SymbolRuns
<1>6. ASSUME NEW s \in Shards
      PROVE  LET P == RunPlaces(ins, of[s])
             IN  /\ M \cap P = {} => read[s] = run[s]
                 /\ M \cap P # {} => Len(read[s]) # Z
  <2> DEFINE P == RunPlaces(ins, of[s])
             F == Filed(u, ord[s], Len(u))
             Q == {g[i] : i \in F}
  <2>1. /\ P \in SUBSET (1..Len(w)) /\ IsFiniteSet(P) /\ Cardinality(P) = Z
        /\ At(w, P) = [k \in 1..Z |-> ins[of[s]].run[k]]
    <3> DEFINE j == of[s]
    <3>1. j \in 1..TOTAL_SHARDS  BY <1>4
    <3> HIDE DEF j
    <3>2. /\ RunPlaces(ins, j) \in SUBSET (1..Len(w))
          /\ IsFiniteSet(RunPlaces(ins, j))
          /\ Cardinality(RunPlaces(ins, j)) = Z
          /\ At(w, RunPlaces(ins, j)) = [k \in 1..Z |-> ins[j].run[k]]
      BY <3>1, RunPlacesFacts
    <3> QED BY <3>2 DEF j
  <2>2. /\ F \in SUBSET (1..Len(u))
        /\ \A i \in 1..Len(u) : i \in F <=> g[i] \in P
    BY <1>0, <1>3, <1>4, FiledEmbedded, SymbolsInert
  <2>3. \A p \in 1..Len(w) : p \notin M => \E i \in 1..Len(u) : g[i] = p
    BY DEF Missing
  <2>4. \A i \in 1..Len(u) : g[i] \notin M  BY DEF Missing
  <2> HIDE DEF P, F, M
  <2>5. Q = P \ M
    <3>1. \A q \in Q : q \in P /\ q \notin M  BY <2>2, <2>4
    <3>2. ASSUME NEW q \in P, q \notin M PROVE q \in Q
      <4>1. PICK i \in 1..Len(u) : g[i] = q  BY <2>1, <2>3, <3>2
      <4> QED BY <2>2, <4>1
    <3> QED BY <3>1, <3>2
  <2>6. Cardinality(Q) = Cardinality(F) /\ At(w, Q) = At(u, F)
    BY <1>0, <2>2, EmbeddedAt
  <2>7. read[s] = At(u, F)  BY DEF F, FoundIn
  <2>8. Len(read[s]) = Cardinality(Q)
    <3>1. Len(u) \in Nat  BY <1>0 DEF Embeds
    <3>2. Cardinality(F) \in Nat
      <4> DEFINE m == Len(u)
      <4>1. m \in Nat /\ F \in SUBSET (1..m)  BY <2>2, <3>1
      <4> HIDE DEF m
      <4> QED BY <4>1, PositionsFinite
    <3> HIDE DEF Q
    <3>3. Len(At(u, F)) = Cardinality(F)  BY <3>2, AtLength
    <3> QED BY <2>6, <2>7, <3>3
  <2> HIDE DEF Q
  <2>9. ASSUME M \cap P = {} PROVE read[s] = run[s]
    <3>1. Q = P  BY <2>5, <2>9
    <3>2. run[s] = [k \in 1..Z |-> run[s][k]]  BY <1>5
    <3>3. At(w, P) = run[s]  BY <1>4, <2>1, <3>2
    <3> QED BY <2>6, <2>7, <3>1, <3>3
  <2>10. ASSUME M \cap P # {} PROVE Len(read[s]) # Z
    <3>1. Q \subseteq P /\ Q # P  BY <2>5, <2>10
    <3>2. Cardinality(Q) # Cardinality(P)  BY <2>1, <3>1, FS_Subset
    <3> QED BY <2>1, <2>8, <3>2
  <2> QED BY <2>9, <2>10 DEF P
<1>7. \A s \in hit : s \in Shards /\ M \cap RunPlaces(ins, of[s]) # {}
  BY <1>6 DEF Differ
<1>8. \A s \in hit : Len(read[s]) # Z
  BY <1>6, <1>7
<1>9. IsFiniteSet(M) /\ Cardinality(M) = Len(w) - Len(u)
  BY <1>0, MissingCount
<1> DEFINE h == [s \in hit |-> CHOOSE p : p \in M \cap RunPlaces(ins, of[s])]
<1>10. \A s \in hit : h[s] \in M /\ h[s] \in RunPlaces(ins, of[s])
  BY <1>7
<1>11. h \in [hit -> M]  BY <1>10
<1> HIDE DEF h, M
<1>12. \A s, v \in hit : h[s] = h[v] => s = v
  <2> SUFFICES ASSUME NEW s \in hit, NEW v \in hit, h[s] = h[v] PROVE s = v
    OBVIOUS
  <2>1. s \in Shards /\ v \in Shards  BY <1>7
  <2>2. of[s] = of[v]  BY <1>4, <1>10, <2>1, RunsApart
  <2>3. Filed(w, ord[s], Len(w)) = Filed(w, ord[v], Len(w))
    BY <1>4, <2>1, <2>2
  <2>4. PICK p \in Filed(w, ord[s], Len(w)) : TRUE
    BY <1>10, <1>4, <2>1
  <2>5. ord[s] + 1 = ord[v] + 1  BY <2>3, <2>4 DEF Filed
  <2>6. ord[s] \in Int /\ ord[v] \in Int
        /\ (ord[s] = ord[v] => s = v)
    BY <2>1 DEF Orders, IsInjective
  <2> QED BY <2>5, <2>6
<1>13. IsFiniteSet(hit) /\ Cardinality(hit) <= Cardinality(M)
  <2> DEFINE H == hit
  <2>1. h \in [H -> M] /\ \A s, v \in H : h[s] = h[v] => s = v
    BY <1>11, <1>12
  <2> HIDE DEF H
  <2>2. IsFiniteSet(H) /\ Cardinality(H) <= Cardinality(M)
    BY <1>9, <2>1, NoLarger
  <2> QED BY <2>2 DEF H
<1> QED BY <1>8, <1>9, <1>13

(* A text less some of its characters, once more and again.                *)
LEMMA EmbedsTransitive ==
  ASSUME NEW r, NEW s, NEW t, NEW f, NEW g, Embeds(f, r, s), Embeds(g, s, t)
  PROVE  \E h : /\ Embeds(h, r, t)
                /\ \A p \in Missing(h, r, t) :
                     \/ p \in Missing(g, s, t)
                     \/ \E i \in Missing(f, r, s) : g[i] = p
<1> DEFINE l == Len(r)
           m == Len(s)
           n == Len(t)
           h == [i \in 1..l |-> g[f[i]]]
<1>1. l \in Nat /\ m \in Nat /\ n \in Nat  BY DEF Embeds
<1>2. /\ \A i \in 1..l : f[i] \in 1..m
      /\ \A i, j \in 1..l : i < j => f[i] < f[j]
      /\ \A i \in 1..l : r[i] = s[f[i]]
  BY DEF Embeds, Rising
<1>3. /\ \A i \in 1..m : g[i] \in 1..n
      /\ \A i, j \in 1..m : i < j => g[i] < g[j]
      /\ \A i \in 1..m : s[i] = t[g[i]]
  BY DEF Embeds, Rising
<1> HIDE DEF l, m, n
<1>4. h \in [1..l -> 1..n] /\ \A i \in 1..l : h[i] = g[f[i]]
  BY <1>2, <1>3
<1> HIDE DEF h
<1>5. \A i, j \in 1..l : i < j => h[i] < h[j]
  BY <1>2, <1>3, <1>4
<1>6. \A i \in 1..l : r[i] = t[h[i]]
  BY <1>2, <1>3, <1>4
<1>7. ASSUME NEW p \in 1..n, \A i \in 1..l : h[i] # p,
             NEW k \in 1..m, g[k] = p
      PROVE  k \in 1..m /\ \A i \in 1..l : f[i] # k
  BY <1>2, <1>4, <1>7
<1>8. \A p \in Missing(h, r, t) :
        \/ p \in Missing(g, s, t)
        \/ \E i \in Missing(f, r, s) : g[i] = p
  BY <1>7 DEF Missing, l, m, n
<1> QED BY <1>1, <1>4, <1>5, <1>6, <1>8 DEF Embeds, Rising, l, n

LEMMA PrefixEmbeds ==
  ASSUME NEW S, NEW t \in Seq(S), NEW n \in 0..Len(t)
  PROVE  \E g : Embeds(g, SubSeq(t, 1, n), t)
<1> DEFINE m == Len(t)
           u == SubSeq(t, 1, n)
           g == [i \in 1..n |-> i]
<1>1. m \in Nat /\ n \in 0..m  OBVIOUS
<1>2. Len(u) = n /\ \A i \in 1..n : u[i] = t[i]  OBVIOUS
<1> HIDE DEF m, u
<1>3. n \in Nat /\ g \in [1..n -> 1..m]  BY <1>1
<1>4. Embeds(g, u, t)  BY <1>1, <1>2, <1>3 DEF Embeds, Rising, m
<1> HIDE DEF g
<1> QED BY <1>4 DEF u

(* Of a text that is less, but strips to the same, only zero-width         *)
(* characters are missing.                                                 *)
LEMMA SameStripIsShort ==
  ASSUME NEW S, NEW u \in Seq(S), NEW t \in Seq(S), NEW g, Embeds(g, u, t),
         Strip(u) = Strip(t)
  PROVE  ShortOf(u, t)
<1> DEFINE A == Shown(u)
           B == Shown(t)
           h == [i \in A |-> g[i]]
<1>1. Cardinality(A) = Cardinality(B)  BY StripsTo
<1>2. /\ \A i \in 1..Len(u) : g[i] \in 1..Len(t) /\ u[i] = t[g[i]]
      /\ \A i, j \in 1..Len(u) : g[i] = g[j] => i = j
  <2>1. \A i \in 1..Len(u) : u[i] = t[g[i]]  BY DEF Embeds
  <2>2. /\ \A i \in 1..Len(u) : g[i] \in 1..Len(t)
        /\ \A i, j \in 1..Len(u) : g[i] = g[j] <=> i = j
    BY EmbedsFacts
  <2> HIDE DEF A, B, h
  <2> QED BY <2>1, <2>2
<1>3. IsFiniteSet(B)
  <2> DEFINE n == Len(t)
  <2>1. n \in Nat /\ B \in SUBSET (1..n)  BY DEF Shown
  <2> HIDE DEF n, B
  <2> QED BY <2>1, PositionsFinite
<1>4. /\ h \in [A -> B]
      /\ \A x, y \in A : h[x] = h[y] => x = y
      /\ \A x \in A : h[x] = g[x] /\ x \in 1..Len(u)
  BY <1>2 DEF Shown
<1> HIDE DEF h, A, B
<1>5. \A b \in B : \E x \in A : h[x] = b
  BY <1>1, <1>3, <1>4, NoLarger
<1>6. ASSUME NEW p \in Missing(g, u, t) PROVE IsZeroWidth(t[p])
  <2>1. p \in 1..Len(t) /\ \A i \in 1..Len(u) : g[i] # p  BY DEF Missing
  <2>2. p \notin B  BY <1>4, <1>5, <2>1
  <2> QED BY <2>1, <2>2 DEF B, Shown
<1> QED BY <1>6 DEF ShortOf

(* Weaving adds nothing but symbols. *)
LEMMA WovenMissing ==
  ASSUME NEW S, NEW t \in Seq(S), NEW ord, NEW run, NEW R, SymbolRuns(run, R),
         NEW ins \in SortedInsertions(t, ord, run), NEW w, w = Woven(t, ins)
  PROVE  /\ Embeds(HostAt(t, ins), t, w)
         /\ \A p \in Missing(HostAt(t, ins), t, w) :
              /\ IsSymbol(w[p])
              /\ \E j \in 1..TOTAL_SHARDS, k \in 1..SYMBOLS_PER_SHARD :
                   p = RunStart(ins, j) + k
         /\ ShortOf(t, w)
<1> DEFINE f == HostAt(t, ins)
<1>1. /\ Embeds(f, t, w)
      /\ \A j \in 1..TOTAL_SHARDS, k \in 1..SYMBOLS_PER_SHARD :
           w[RunStart(ins, j) + k] = ins[j].run[k]
      /\ \A p \in 1..Len(w) :
           \/ \E i \in 1..Len(t) : p = f[i]
           \/ \E j \in 1..TOTAL_SHARDS, k \in 1..SYMBOLS_PER_SHARD :
                p = RunStart(ins, j) + k
  BY WovenParts
<1>2. \A j \in 1..TOTAL_SHARDS : ins[j].run \in Range(run)
  BY InsertionFacts
<1>3. \A r \in Range(run) : \A k \in 1..SYMBOLS_PER_SHARD : IsSymbol(r[k])
  BY AreSymbols
<1> HIDE DEF f
<1>4. ASSUME NEW p \in Missing(f, t, w)
      PROVE  /\ IsSymbol(w[p])
             /\ \E j \in 1..TOTAL_SHARDS, k \in 1..SYMBOLS_PER_SHARD :
                  p = RunStart(ins, j) + k
  <2>1. p \in 1..Len(w) /\ \A i \in 1..Len(t) : f[i] # p  BY DEF Missing
  <2>2. PICK j \in 1..TOTAL_SHARDS, k \in 1..SYMBOLS_PER_SHARD :
          p = RunStart(ins, j) + k
    BY <1>1, <2>1
  <2>3. w[p] = ins[j].run[k]  BY <1>1, <2>2
  <2> QED BY <1>2, <1>3, <2>2, <2>3
<1>5. ShortOf(t, w)  BY <1>1, <1>4, CharKinds DEF ShortOf
<1> QED BY <1>1, <1>4, <1>5 DEF f

(* A run lies at the end of a word, not in it: the marked text of a clean  *)
(* one can be marked again.                                                *)
LEMMA WovenClean ==
  ASSUME NEW S, NEW t \in Seq(S), NoZeroWidth(t),
         NEW n, NEW ord \in Orders(n), NEW run, NEW R, SymbolRuns(run, R),
         NEW ins \in SortedInsertions(t, ord, run), NEW w, w = Woven(t, ins)
  PROVE  ~SplitsWord(w) /\ ~HasGhostWord(w)
<1> DEFINE f == HostAt(t, ins)
<1>1. \A p \in 1..Len(w) : IsZeroWidth(w[p]) => IsSymbol(w[p])
  BY AreSymbols, WovenRuns
<1>2. ~HasGhostWord(w)
  <2> SUFFICES ASSUME HasGhostWord(w) PROVE FALSE  OBVIOUS
  <2>1. PICK p \in 1..Len(w) :
          /\ OpensWord(w, p)
          /\ \A k \in p..Len(w) :
               (\A j \in p..k : ~IsSpace(w[j])) => IsZeroWidth(w[k])
    BY DEF HasGhostWord
  <2>2. ~IsSymbol(w[p]) /\ ~IsSpace(w[p])  BY <2>1 DEF OpensWord
  <2>3. p \in p..Len(w) /\ \A j \in p..p : j = p
    <3>1. Len(w) \in Nat  BY WovenParts
    <3> QED BY <3>1
  <2>4. IsZeroWidth(w[p])  BY <2>1, <2>2, <2>3
  <2> QED BY <1>1, <2>2, <2>4
<1>3. /\ Embeds(f, t, w) /\ Len(t) \in Nat /\ Len(w) \in Nat
      /\ \A j \in 1..TOTAL_SHARDS, k \in 1..SYMBOLS_PER_SHARD :
           \A i \in 1..Len(t) :
             f[i] < RunStart(ins, j) + k <=> i <= ins[j].off
  BY WovenParts
<1>4. /\ \A i \in 1..Len(t) : f[i] \in 1..Len(w) /\ t[i] = w[f[i]]
      /\ \A i, j \in 1..Len(t) : f[i] < f[j] <=> i < j
  BY <1>3, EmbedsFacts DEF Embeds
<1>5. \A p \in Missing(f, t, w) :
        \E j \in 1..TOTAL_SHARDS, k \in 1..SYMBOLS_PER_SHARD :
          p = RunStart(ins, j) + k
  BY WovenMissing
<1>6. \A j \in 1..TOTAL_SHARDS :
        ins[j].off \in WordEnds(t) /\ ins[j].off \in Nat
  BY InsertionFacts
<1>7. \A p \in 1..Len(w) :
        p \in Missing(f, t, w) \/ \E i \in 1..Len(t) : p = f[i]
  BY DEF Missing
<1>8. \A p \in Missing(f, t, w) : IsZeroWidth(w[p])
  BY WovenMissing, CharKinds
<1>9. \A i \in 1..Len(t) : ~IsZeroWidth(w[f[i]])
  BY <1>4 DEF NoZeroWidth
<1> HIDE DEF f
<1>10. ~SplitsWord(w)
  <2> SUFFICES ASSUME SplitsWord(w) PROVE FALSE  OBVIOUS
  <2>1. PICK p \in 1..Len(w), q \in 1..Len(w) :
          /\ p + 1 < q
          /\ ~IsSep(w[p]) /\ ~IsSep(w[q])
          /\ \A k \in (p + 1)..(q - 1) : IsZeroWidth(w[k])
    BY DEF SplitsWord
  <2>2. PICK a \in 1..Len(t) : p = f[a]
    BY <1>7, <1>8, <2>1, CharKinds
  <2>3. PICK b \in 1..Len(t) : q = f[b]
    BY <1>7, <1>8, <2>1, CharKinds
  <2>4. p + 1 \in 1..Len(w) /\ p + 1 \in (p + 1)..(q - 1)
    BY <1>3, <2>1
  <2>5. p + 1 \in Missing(f, t, w)  BY <1>7, <1>9, <2>1, <2>4
  <2>6. PICK j \in 1..TOTAL_SHARDS, k \in 1..SYMBOLS_PER_SHARD :
          p + 1 = RunStart(ins, j) + k
    BY <1>5, <2>5
  <2> DEFINE o == ins[j].off
  <2>7. o \in Nat /\ o \in WordEnds(t)  BY <1>6
  <2>8. \A i \in 1..Len(t) : f[i] < p + 1 <=> i <= o
    BY <1>3, <2>6
  <2> HIDE DEF o
  <2>9. a <= o /\ o < b  BY <1>3, <2>1, <2>2, <2>3, <2>7, <2>8
  <2>10. o + 1 \in 1..Len(t) /\ o + 1 <= b /\ ~(o + 1 <= o)
    BY <1>3, <2>7, <2>9
  <2>11. o + 1 = b
    <3> SUFFICES ASSUME o + 1 < b PROVE FALSE  BY <2>10
    <3>1. f[o + 1] < q  BY <1>4, <2>3, <2>10
    <3>2. ~(f[o + 1] < p + 1)  BY <2>8, <2>10
    <3>3. f[o + 1] \in 1..Len(w)  BY <1>4, <2>10
    <3>4. f[o + 1] \in (p + 1)..(q - 1)  BY <1>3, <3>1, <3>2, <3>3
    <3> QED BY <1>9, <2>1, <2>10, <3>4
  <2>12. IsSep(t[o + 1])  BY <1>3, <2>7, <2>10 DEF WordEnds
  <2> QED BY <1>4, <2>1, <2>3, <2>10, <2>11, <2>12
<1> QED BY <1>2, <1>10

(* Marked twice in one order, a clean text has under each shard more       *)
(* symbols than a run.                                                     *)
LEMMA RunsDoubled ==
  ASSUME NEW S, NEW t \in Seq(S), NoZeroWidth(t),
         NEW m, NEW n, NEW ord \in Orders(m), ord \in Orders(n),
         NEW run, NEW R, SymbolRuns(run, R),
         NEW ins \in SortedInsertions(t, ord, run), NEW w, w = Woven(t, ins),
         NEW C, w \in Seq(C), NEW again, NEW Q, SymbolRuns(again, Q),
         NEW more \in SortedInsertions(w, ord, again),
         NEW v, v = Woven(w, more), NEW s \in Shards
  PROVE  Len(At(v, Filed(v, ord[s], Len(v)))) # SYMBOLS_PER_SHARD
<1> DEFINE f == HostAt(w, more)
           F == Filed(v, ord[s], Len(v))
<1>1. PICK i \in 1..TOTAL_SHARDS : Filed(w, ord[s], Len(w)) = RunPlaces(ins, i)
  BY AreSymbols, WovenRuns
<1>2. RunStart(ins, i) + 1 \in RunPlaces(ins, i)
  <2>1. 1 \in 1..SYMBOLS_PER_SHARD  BY ShardArithmetic
  <2> QED BY <2>1 DEF RunPlaces
<1>3. PICK p : p \in Filed(w, ord[s], Len(w))
  BY <1>1, <1>2
<1>4. ~SplitsWord(w) /\ ~HasGhostWord(w)  BY WovenClean
<1>5. PICK j \in 1..TOTAL_SHARDS : GapRank(w, more[j].off) = ord[s]
  BY ShardRuns
<1> DEFINE P == RunPlaces(more, j)
<1>6. \A k \in 1..SYMBOLS_PER_SHARD : RunStart(more, j) + k \in F
  <2>1. \A r \in Range(again) : \A k \in 1..SYMBOLS_PER_SHARD :
          IsSymbol(r[k])
    BY AreSymbols
  <2>2. \A l \in 1..TOTAL_SHARDS, k \in 1..SYMBOLS_PER_SHARD :
          RunStart(more, l) + k
            \in Filed(v, GapRank(w, more[l].off), Len(v))
    BY <1>4, <2>1, WovenFiled
  <2> QED BY <1>5, <2>2
<1>7. /\ P \in SUBSET (1..Len(v)) /\ IsFiniteSet(P)
      /\ Cardinality(P) = SYMBOLS_PER_SHARD
  BY RunPlacesFacts
<1>8. p \in 1..Len(w) /\ f[p] \in F
  <2>1. /\ Embeds(f, w, v)
        /\ \A q \in Missing(f, w, v) : IsSymbol(v[q])
    BY WovenMissing
  <2>2. /\ Filed(w, ord[s], Len(w)) \in SUBSET (1..Len(w))
        /\ \A q \in 1..Len(w) :
             q \in Filed(w, ord[s], Len(w)) <=> f[q] \in F
    BY <2>1, FiledEmbedded, SymbolsInert
  <2> QED BY <1>3, <2>2
<1>9. f[p] \notin P
  <2>1. \A l \in 1..TOTAL_SHARDS, k \in 1..SYMBOLS_PER_SHARD :
          \A q \in 1..Len(w) : f[q] # RunStart(more, l) + k
    BY WovenParts
  <2> QED BY <1>8, <2>1 DEF RunPlaces
<1>10. P \subseteq F /\ P # F
  BY <1>6, <1>8, <1>9 DEF RunPlaces
<1>11. IsFiniteSet(F) /\ Cardinality(F) \in Nat
  <2>1. Len(v) \in Nat /\ F \in SUBSET (1..Len(v))
    BY WovenParts DEF Filed
  <2> HIDE DEF F
  <2> QED BY <2>1, PositionsFinite
<1> HIDE DEF F, P
<1>12. Cardinality(F) # Cardinality(P)  BY <1>10, <1>11, FS_Subset
<1>13. Len(At(v, F)) = Cardinality(F)  BY <1>11, AtLength
<1> QED BY <1>7, <1>12, <1>13 DEF F

-----------------------------------------------------------------------------
(* How ranks and runs grow with one more character. *)

LEMMA RankIsNat ==
  ASSUME NEW t, NEW i \in Nat
  PROVE  RankBefore(t, i) \in Nat /\ RankBefore(t, i) <= i
<1> DEFINE W == {j \in 1..(i - 1) : OpensWord(t, j)}
<1>1. IsFiniteSet(1..(i - 1)) /\ Cardinality(1..(i - 1)) <= i
  <2>1. 1 \in Int /\ i - 1 \in Int  OBVIOUS
  <2>2. /\ IsFiniteSet(1..(i - 1))
        /\ Cardinality(1..(i - 1)) = IF 1 > i - 1 THEN 0 ELSE (i - 1) - 1 + 1
    BY <2>1, FS_Interval
  <2> QED BY <2>2
<1>2. IsFiniteSet(W) /\ Cardinality(W) <= Cardinality(1..(i - 1))
  BY <1>1, FS_Subset
<1>3. Cardinality(W) \in Nat /\ Cardinality(1..(i - 1)) \in Nat
  BY <1>1, <1>2, FS_CardinalityType
<1> QED BY <1>1, <1>2, <1>3 DEF RankBefore

LEMMA RankStep ==
  ASSUME NEW t, NEW i \in Nat \ {0}
  PROVE  RankBefore(t, i + 1)
           = IF OpensWord(t, i) THEN RankBefore(t, i) + 1 ELSE RankBefore(t, i)
<1> DEFINE W(n) == {j \in 1..(n - 1) : OpensWord(t, j)}
<1>1. IsFiniteSet(W(i))
  <2>1. IsFiniteSet(1..(i - 1))  BY FS_Interval
  <2>2. W(i) \subseteq 1..(i - 1)  OBVIOUS
  <2> QED BY <2>1, <2>2, FS_Subset
<1>2. CASE OpensWord(t, i)
  <2>1. W(i + 1) = W(i) \cup {i}  BY <1>2
  <2>2. i \notin W(i)  OBVIOUS
  <2>3. Cardinality(W(i) \cup {i}) = Cardinality(W(i)) + 1
    BY <1>1, <2>2, FS_AddElement
  <2> QED BY <1>2, <2>1, <2>3 DEF RankBefore
<1>3. CASE ~OpensWord(t, i)
  <2>1. W(i + 1) = W(i)  BY <1>3
  <2> QED BY <1>3, <2>1 DEF RankBefore
<1> QED BY <1>2, <1>3

LEMMA FiledStep ==
  ASSUME NEW t, NEW n \in Nat, NEW r \in Nat
  PROVE  /\ IsSymbol(t[n + 1]) /\ RankBefore(t, n + 1) = r + 1
              => Filed(t, r, n + 1) = Filed(t, r, n) \cup {n + 1}
         /\ ~(IsSymbol(t[n + 1]) /\ RankBefore(t, n + 1) = r + 1)
              => Filed(t, r, n + 1) = Filed(t, r, n)
<1>1. 1..(n + 1) = 1..n \cup {n + 1}  OBVIOUS
<1> QED BY <1>1 DEF Filed

(* A symbol with a word before it opens or extends that word's run; no     *)
(* other character changes which ranks have one.                           *)
LEMMA RanksStep ==
  ASSUME NEW t, NEW n \in Nat
  PROVE  /\ IsSymbol(t[n + 1]) /\ RankBefore(t, n + 1) > 0
              => RanksFiled(t, n + 1)
                   = RanksFiled(t, n) \cup {RankBefore(t, n + 1) - 1}
         /\ ~(IsSymbol(t[n + 1]) /\ RankBefore(t, n + 1) > 0)
              => RanksFiled(t, n + 1) = RanksFiled(t, n)
<1> DEFINE R == RankBefore(t, n + 1)
<1>1. R \in Nat /\ R <= n + 1  BY RankIsNat
<1>2. Filed(t, n + 1, n) = {}
  <2>1. \A i \in 1..n : RankBefore(t, i) \in Nat /\ RankBefore(t, i) <= i
    BY RankIsNat
  <2> QED BY <2>1 DEF Filed
<1>3. RanksFiled(t, n) = {r \in 0..(n + 1) : Filed(t, r, n) # {}}
  BY <1>2 DEF RanksFiled
<1>4. ASSUME NEW r \in 0..(n + 1)
      PROVE  Filed(t, r, n + 1) # {}
               <=> Filed(t, r, n) # {} \/ (IsSymbol(t[n + 1]) /\ R = r + 1)
  <2>1. r \in Nat  OBVIOUS
  <2>2. CASE IsSymbol(t[n + 1]) /\ R = r + 1
    <3>1. Filed(t, r, n + 1) = Filed(t, r, n) \cup {n + 1}
      BY <2>1, <2>2, FiledStep
    <3> QED BY <2>2, <3>1
  <2>3. CASE ~(IsSymbol(t[n + 1]) /\ R = r + 1)
    <3>1. Filed(t, r, n + 1) = Filed(t, r, n)
      BY <2>1, <2>3, FiledStep
    <3> QED BY <2>3, <3>1
  <2> QED BY <2>2, <2>3
<1>5. RanksFiled(t, n + 1)
        = {r \in 0..(n + 1) : \/ Filed(t, r, n) # {}
                              \/ IsSymbol(t[n + 1]) /\ R = r + 1}
  BY <1>4 DEF RanksFiled
<1> HIDE DEF R
<1>6. CASE IsSymbol(t[n + 1]) /\ R > 0
  <2>1. R - 1 \in 0..(n + 1)  BY <1>1, <1>6
  <2>2. RanksFiled(t, n + 1) = RanksFiled(t, n) \cup {R - 1}
    BY <1>1, <1>3, <1>5, <1>6, <2>1
  <2> QED BY <1>6, <2>2 DEF R
<1>7. CASE ~(IsSymbol(t[n + 1]) /\ R > 0)
  <2>1. RanksFiled(t, n + 1) = RanksFiled(t, n)
    BY <1>1, <1>3, <1>5, <1>7
  <2> QED BY <1>7, <2>1 DEF R
<1> QED BY <1>6, <1>7

LEMMA RunAppend ==
  ASSUME NEW t, NEW n \in Nat, NEW r \in Nat, NEW S, NEW s \in Seq(S),
         RunSoFar(t, r, n, s),
         IsSymbol(t[n + 1]), RankBefore(t, n + 1) = r + 1, t[n + 1] \in S
  PROVE  RunSoFar(t, r, n + 1, Append(s, t[n + 1]))
<1> DEFINE P == Filed(t, r, n)
           Q == Filed(t, r, n + 1)
           u == Append(s, t[n + 1])
<1>1. Q = P \cup {n + 1} /\ \A i \in P : i \in 1..n
  BY FiledStep DEF Filed
<1>2. PICK f \in [1..Len(s) -> P] :
        /\ Listing(f, P)
        /\ \A k \in 1..Len(s) : s[k] = t[f[k]]
  BY DEF RunSoFar
<1>3. /\ Len(s) \in Nat
      /\ Len(u) = Len(s) + 1
      /\ \A k \in 1..Len(s) : u[k] = s[k]
      /\ u[Len(s) + 1] = t[n + 1]
  BY AppendProperties
<1> DEFINE g == [k \in 1..(Len(s) + 1) |-> IF k <= Len(s) THEN f[k] ELSE n + 1]
<1> HIDE DEF P, Q, u
<1>4. g \in [1..Len(u) -> Q]
  BY <1>1, <1>2, <1>3
<1>5. Listing(g, Q)
  <2>1. ASSUME NEW j \in 1..(Len(s) + 1), NEW k \in 1..(Len(s) + 1), j < k
        PROVE  g[j] < g[k]
    <3>1. CASE k <= Len(s)
      BY <1>2, <1>3, <2>1, <3>1 DEF Listing
    <3>2. CASE k = Len(s) + 1
      <4>1. f[j] \in 1..n  BY <1>1, <1>2, <1>3, <2>1, <3>2
      <4> QED BY <4>1, <1>3, <2>1, <3>2
    <3> QED BY <3>1, <3>2, <1>3
  <2>2. ASSUME NEW i \in Q PROVE \E k \in 1..(Len(s) + 1) : g[k] = i
    <3>1. CASE i \in P
      <4>1. PICK k \in 1..Len(s) : f[k] = i
        BY <1>2, <3>1 DEF Listing
      <4> QED BY <4>1, <1>3
    <3>2. CASE i = n + 1
      BY <3>2, <1>3
    <3> QED BY <3>1, <3>2, <1>1
  <2>3. DOMAIN g = 1..(Len(s) + 1)  OBVIOUS
  <2> HIDE DEF g
  <2> QED BY <2>1, <2>2, <2>3 DEF Listing
<1>6. \A k \in 1..Len(u) : u[k] = t[g[k]]
  BY <1>2, <1>3
<1> HIDE DEF g
<1> QED BY <1>4, <1>5, <1>6 DEF RunSoFar, P, Q, u

LEMMA BetweenStep ==
  ASSUME NEW t, NEW n \in Nat
  PROVE  /\ IsSymbol(t[n + 1]) =>
              (BetweenWords(t, n + 1) <=> BetweenWords(t, n))
         /\ IsSpace(t[n + 1]) => BetweenWords(t, n + 1)
         /\ ~IsSymbol(t[n + 1]) /\ ~IsSpace(t[n + 1])
              => ~BetweenWords(t, n + 1)
<1>0. 1..(n + 1) = 1..n \cup {n + 1}  OBVIOUS
<1>1. ASSUME IsSymbol(t[n + 1])
      PROVE  BetweenWords(t, n + 1) <=> BetweenWords(t, n)
  <2>0. ~IsSpace(t[n + 1])  BY <1>1 DEF IsSymbol, IsSpace
  <2>1. \A j \in 1..n : (j + 1)..(n + 1) = ((j + 1)..n) \cup {n + 1}
    OBVIOUS
  <2>2. (\A j \in 1..(n + 1) : IsSymbol(t[j]))
          <=> \A j \in 1..n : IsSymbol(t[j])
    BY <1>0, <1>1
  <2>3. ASSUME NEW j \in 1..n
        PROVE  (\A k \in (j + 1)..(n + 1) : IsSymbol(t[k]))
                 <=> \A k \in (j + 1)..n : IsSymbol(t[k])
    BY <1>1, <2>1
  <2> QED BY <1>0, <2>0, <2>2, <2>3 DEF BetweenWords
<1>2. ASSUME IsSpace(t[n + 1]) PROVE BetweenWords(t, n + 1)
  <2>1. \A k \in ((n + 1) + 1)..(n + 1) : IsSymbol(t[k])  OBVIOUS
  <2> QED BY <1>2, <2>1 DEF BetweenWords
<1>3. ASSUME ~IsSymbol(t[n + 1]), ~IsSpace(t[n + 1])
      PROVE  ~BetweenWords(t, n + 1)
  <2>1. \A j \in 1..n : n + 1 \in (j + 1)..(n + 1)  OBVIOUS
  <2> QED BY <1>0, <1>3, <2>1 DEF BetweenWords
<1> QED BY <1>1, <1>2, <1>3
=============================================================================
