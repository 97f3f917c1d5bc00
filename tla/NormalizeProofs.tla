--------------------------- MODULE NormalizeProofs ---------------------------
(***************************************************************************)
(* Proofs about Normalize: what canonical returns is the stream of its     *)
(* text, the stream absorbs the edits it promises to absorb, and a letter  *)
(* more or another letter changes it.                                      *)
(***************************************************************************)
EXTENDS Normalize, FiniteSetTheorems, SequenceTheorems, TLAPS

(* s is what the loop makes of the first n characters of t.                *)
Written(t, n, s) ==
  /\ s \in Seq(Alnum \cup {BLANK})
  /\ Len(s) = Place(t, n)
  /\ \A k \in 1..n : t[k] \in Alnum =>
       /\ s[Place(t, k)] = Folded(Composed(t, k))
       /\ Break(t, k) => s[Place(t, k) - 1] = BLANK
  /\ \A p \in 1..Len(s) : \E k \in 1..n :
       /\ t[k] \in Alnum
       /\ p = Place(t, k) \/ (Break(t, k) /\ p = Place(t, k) - 1)

-----------------------------------------------------------------------------
(* Characters.                                                             *)

LEMMA JoinedFacts ==
  ASSUME NEW t, NEW k, Joins(t, k)
  PROVE  /\ k \in 2..Len(t) /\ t[k - 1] \in Alnum /\ t[k] \in Marks
         /\ t[k] \notin Alnum
         /\ <<t[k - 1], t[k]>> \in DOMAIN Composite
BY CompositeAssumption, CharAssumption DEF Joins

LEMMA ComposedFacts ==
  ASSUME NEW t \in Seq(Char), NEW k \in 1..Len(t)
  PROVE  /\ t[k] \in Char /\ Composed(t, k) \in Char
         /\ Composed(t, k) \in Alnum <=> t[k] \in Alnum
         /\ t[k] \notin Alnum => Composed(t, k) = t[k] /\ ~Joins(t, k + 1)
         /\ Joins(t, k) => t[k] \notin Alnum
<1>1. t[k] \in Char  OBVIOUS
<1>2. Joins(t, k) => t[k] \notin Alnum  BY JoinedFacts
<1>3. (k + 1) - 1 = k  OBVIOUS
<1>4. Joins(t, k + 1) => <<t[k], t[k + 1]>> \in DOMAIN Composite
  BY <1>3 DEF Joins
<1>5. Joins(t, k + 1) => /\ t[k] \in Alnum
                         /\ Composite[<<t[k], t[k + 1]>>] \in Alnum
  <2> SUFFICES ASSUME Joins(t, k + 1)
               PROVE  t[k] \in Alnum /\ Composite[<<t[k], t[k + 1]>>] \in Alnum
    OBVIOUS
  <2>1. <<t[k], t[k + 1]>> \in DOMAIN Composite  BY <1>4
  <2> QED BY <2>1, CompositeAssumption
<1> QED BY <1>1, <1>2, <1>5 DEF Composed, Char

LEMMA LowerFacts ==
  ASSUME NEW c \in Alnum
  PROVE  /\ Lower(c) \in Seq(Char) /\ Len(Lower(c)) \in Nat /\ Len(Lower(c)) >= 1
         /\ Folded(c) = Lower(c)[1] /\ Folded(c) \in Alnum
         /\ Lower(Folded(c)) = << Folded(c) >>
         /\ \A i \in 2..Len(Lower(c)) : Lower(c)[i] \notin Alnum
<1>1. /\ Lower(c) \in Seq(Char) /\ Lower(c) # << >>
      /\ Head(Lower(c)) \in Alnum
      /\ Lower(Head(Lower(c))) = << Head(Lower(c)) >>
      /\ \A i \in 2..Len(Lower(c)) : Lower(c)[i] \notin Alnum
  BY LowerAssumption
<1>2. /\ Len(Lower(c)) \in Nat /\ Len(Lower(c)) >= 1
      /\ Head(Lower(c)) = Lower(c)[1]
  <2> DEFINE l == Lower(c)
  <2>1. l \in Seq(Char) /\ l # << >>  BY <1>1
  <2> HIDE DEF l
  <2>2. Len(l) \in Nat /\ Len(l) >= 1 /\ Head(l) = l[1]  BY <2>1
  <2> QED BY <2>2 DEF l
<1> QED BY <1>1, <1>2 DEF Folded

(* What separates, by the character that stands there.                     *)
LEMMA SeparatesFacts ==
  ASSUME NEW t \in Seq(Char), NEW k \in 1..Len(t)
  PROVE  /\ t[k] \in Alnum =>
              (Separates(t, k) <=> Len(Lower(Composed(t, k))) > 1)
         /\ t[k] \notin Alnum =>
              (Separates(t, k) <=> ~Joins(t, k) /\ t[k] \notin ZeroWidth)
<1> DEFINE c == Composed(t, k)
           l == Lower(c)
<1>1. /\ t[k] \in Char /\ c \in Char /\ (c \in Alnum <=> t[k] \in Alnum)
      /\ t[k] \notin Alnum => c = t[k]
      /\ t[k] \in Alnum => ~Joins(t, k)
  BY ComposedFacts
<1>2. Separates(t, k) <=>
        /\ ~Joins(t, k) /\ c \notin ZeroWidth
        /\ \E i \in 1..Len(l) : l[i] \notin Alnum
  BY DEF Separates
<1> HIDE DEF c
<1>3. CASE t[k] \in Alnum
  <2>1. c \in Alnum /\ c \notin ZeroWidth /\ ~Joins(t, k)
    BY <1>1, <1>3, CharAssumption
  <2>2. /\ Len(l) \in Nat /\ Len(l) >= 1 /\ l[1] \in Alnum
        /\ \A i \in 2..Len(l) : l[i] \notin Alnum
    BY <2>1, LowerFacts
  <2> HIDE DEF l
  <2>3. (\E i \in 1..Len(l) : l[i] \notin Alnum) <=> Len(l) > 1
    BY <2>2
  <2> QED BY <1>2, <1>3, <2>1, <2>3 DEF l, c
<1>4. CASE t[k] \notin Alnum
  <2>1. c = t[k] /\ l = << c >> /\ c \notin Alnum
    BY <1>1, <1>4, LowerAssumption
  <2>2. \E i \in 1..Len(l) : l[i] \notin Alnum
    BY <2>1
  <2> QED BY <1>2, <1>4, <2>1, <2>2
<1> QED BY <1>3, <1>4

-----------------------------------------------------------------------------
(* Counting.                                                               *)

LEMMA SameSize ==
  ASSUME NEW A, NEW B, IsFiniteSet(A), NEW f \in [A -> B],
         \A x, y \in A : f[x] = f[y] => x = y,
         \A b \in B : \E x \in A : f[x] = b
  PROVE  IsFiniteSet(B) /\ Cardinality(B) = Cardinality(A)
<1>1. f \in Bijection(A, B)
  BY DEF Bijection, Injection, Surjection, IsInjective
<1>2. ExistsBijection(A, B)  BY <1>1 DEF ExistsBijection
<1> QED BY <1>2, FS_Bijection

LEMMA CountStep ==
  ASSUME NEW S, NEW n \in Nat
  PROVE  /\ IsFiniteSet((1..n) \cap S)
         /\ Cardinality((1..n) \cap S) \in Nat
         /\ Cardinality((1..0) \cap S) = 0
         /\ Cardinality((1..(n + 1)) \cap S)
              = Cardinality((1..n) \cap S) + (IF n + 1 \in S THEN 1 ELSE 0)
<1> DEFINE A == (1..n) \cap S
<1>1. IsFiniteSet(1..n)  BY FS_Interval
<1>2. IsFiniteSet(A) /\ Cardinality(A) \in Nat
  <2>1. A \in SUBSET (1..n)  OBVIOUS
  <2>2. IsFiniteSet(A)  BY <1>1, <2>1, FS_Subset
  <2> QED BY <2>2, FS_CardinalityType
<1>3. (1..0) \cap S = {}  OBVIOUS
<1>4. n + 1 \notin A  OBVIOUS
<1>5. CASE n + 1 \in S
  <2>1. (1..(n + 1)) \cap S = A \cup {n + 1}  BY <1>5
  <2>2. Cardinality(A \cup {n + 1}) = Cardinality(A) + 1
    BY <1>2, <1>4, FS_AddElement
  <2> QED BY <1>2, <1>3, <1>5, <2>1, <2>2, FS_EmptySet
<1>6. CASE n + 1 \notin S
  <2>1. (1..(n + 1)) \cap S = A  BY <1>6
  <2> QED BY <1>2, <1>3, <1>6, <2>1, FS_EmptySet
<1> QED BY <1>5, <1>6

LEMMA CountGrows ==
  ASSUME NEW S, NEW n \in Nat, NEW m \in 0..n
  PROVE  Cardinality((1..m) \cap S) <= Cardinality((1..n) \cap S)
<1>1. (1..m) \cap S \in SUBSET ((1..n) \cap S)  OBVIOUS
<1>2. IsFiniteSet((1..n) \cap S)  BY CountStep
<1> QED BY <1>1, <1>2, FS_Subset

LettersOf(t) == {k \in Nat : t[k] \in Alnum}
BreaksOf(t) == {k \in Nat : Break(t, k)}

LEMMA PlaceCounts ==
  ASSUME NEW t, NEW n \in Nat
  PROVE  Place(t, n) = Cardinality((1..n) \cap LettersOf(t))
                         + Cardinality((1..n) \cap BreaksOf(t))
<1>1. {k \in 1..n : t[k] \in Alnum} = (1..n) \cap LettersOf(t)
  BY DEF LettersOf
<1>2. {k \in 1..n : Break(t, k)} = (1..n) \cap BreaksOf(t)
  BY DEF BreaksOf
<1> QED BY <1>1, <1>2 DEF Place

LEMMA PlaceStep ==
  ASSUME NEW t, NEW n \in Nat
  PROVE  /\ Place(t, 0) = 0 /\ Place(t, n) \in Nat
         /\ Place(t, n + 1)
              = Place(t, n) + (IF t[n + 1] \in Alnum
                               THEN IF Break(t, n + 1) THEN 2 ELSE 1 ELSE 0)
<1> DEFINE L(m) == Cardinality((1..m) \cap LettersOf(t))
           B(m) == Cardinality((1..m) \cap BreaksOf(t))
<1>1. /\ L(n) \in Nat /\ L(0) = 0
      /\ L(n + 1) = L(n) + (IF n + 1 \in LettersOf(t) THEN 1 ELSE 0)
  BY CountStep
<1>2. /\ B(n) \in Nat /\ B(0) = 0
      /\ B(n + 1) = B(n) + (IF n + 1 \in BreaksOf(t) THEN 1 ELSE 0)
  <2>1. 1..0 = {}  OBVIOUS
  <2> QED BY CountStep
<1>3. /\ n + 1 \in LettersOf(t) <=> t[n + 1] \in Alnum
      /\ n + 1 \in BreaksOf(t) <=> Break(t, n + 1)
      /\ Break(t, n + 1) => t[n + 1] \in Alnum
  BY DEF LettersOf, BreaksOf, Break
<1>4. \A m \in Nat : Place(t, m) = L(m) + B(m)
  BY PlaceCounts
<1> HIDE DEF L, B
<1>5. Place(t, n) = L(n) + B(n) /\ Place(t, n + 1) = L(n + 1) + B(n + 1)
      /\ Place(t, 0) = L(0) + B(0)
  BY <1>4
<1> QED BY <1>1, <1>2, <1>3, <1>5

(* Places of letters rise, and leave room for a blank before a break.      *)
LEMMA PlaceRises ==
  ASSUME NEW t, NEW n \in Nat, NEW m \in 0..n
  PROVE  Place(t, m) <= Place(t, n) /\ Place(t, m) \in Nat /\ Place(t, n) \in Nat
<1>1. /\ Cardinality((1..m) \cap LettersOf(t)) <= Cardinality((1..n) \cap LettersOf(t))
      /\ Cardinality((1..m) \cap BreaksOf(t)) <= Cardinality((1..n) \cap BreaksOf(t))
  BY CountGrows
<1>2. /\ Cardinality((1..m) \cap LettersOf(t)) \in Nat
      /\ Cardinality((1..n) \cap LettersOf(t)) \in Nat
      /\ Cardinality((1..m) \cap BreaksOf(t)) \in Nat
      /\ Cardinality((1..n) \cap BreaksOf(t)) \in Nat
  <2>1. \A S : Cardinality((1..n) \cap S) \in Nat  BY CountStep
  <2>2. m \in Nat  OBVIOUS
  <2>3. \A S : Cardinality((1..m) \cap S) \in Nat  BY <2>2, CountStep
  <2> QED BY <2>1, <2>3
<1> QED BY <1>1, <1>2, PlaceCounts

LEMMA LetterPlaces ==
  ASSUME NEW t, NEW n \in Nat, NEW k \in 1..n, t[k] \in Alnum
  PROVE  /\ Place(t, k) \in 1..Place(t, n)
         /\ Break(t, k) => Place(t, k) - 1 \in 1..Place(t, n)
         /\ \A j \in 0..(k - 1) :
              /\ Place(t, j) < Place(t, k)
              /\ Break(t, k) => Place(t, j) < Place(t, k) - 1
<1>1. k - 1 \in Nat /\ (k - 1) + 1 = k  OBVIOUS
<1>2. /\ Place(t, k - 1) \in Nat
      /\ Place(t, k) = Place(t, k - 1) + (IF Break(t, k) THEN 2 ELSE 1)
  BY <1>1, PlaceStep
<1>3. Place(t, k) <= Place(t, n) /\ Place(t, n) \in Nat
  BY PlaceRises
<1>4. \A j \in 0..(k - 1) : Place(t, j) <= Place(t, k - 1) /\ Place(t, j) \in Nat
  BY <1>1, PlaceRises
<1> QED BY <1>2, <1>3, <1>4

-----------------------------------------------------------------------------
(* What the first characters make, one character later.                    *)

LEMMA TrailingStep ==
  ASSUME NEW t \in Seq(Char), NEW n \in 0..(Len(t) - 1)
  PROVE  /\ ~Trailing(t, 0)
         /\ Separates(t, n + 1) => Trailing(t, n + 1)
         /\ t[n + 1] \in Alnum /\ ~Separates(t, n + 1) => ~Trailing(t, n + 1)
         /\ t[n + 1] \notin Alnum /\ ~Separates(t, n + 1) =>
              (Trailing(t, n + 1) <=> Trailing(t, n))
         /\ t[n + 1] \notin Alnum /\ Trailing(t, n) => Trailing(t, n + 1)
<1>1. n \in Nat /\ n + 1 \in Nat /\ Len(t) \in Nat  OBVIOUS
<1>2. ~Trailing(t, 0)  BY DEF Trailing
<1>3. Separates(t, n + 1) => Trailing(t, n + 1)
  <2> SUFFICES ASSUME Separates(t, n + 1) PROVE Trailing(t, n + 1)
    OBVIOUS
  <2>1. n + 1 \in 1..(n + 1) /\ ((n + 1) + 1)..(n + 1) = {}  BY <1>1
  <2> QED BY <2>1 DEF Trailing
<1>4. ASSUME t[n + 1] \in Alnum, Trailing(t, n + 1)
      PROVE  Separates(t, n + 1)
  <2>1. PICK k \in 1..(n + 1) :
          Separates(t, k) /\ \A j \in (k + 1)..(n + 1) : t[j] \notin Alnum
    BY <1>4 DEF Trailing
  <2>2. k = n + 1
    <3>1. k \in Int /\ n + 1 \notin (k + 1)..(n + 1)  BY <1>4, <2>1
    <3> QED BY <1>1, <2>1, <3>1
  <2> QED BY <2>1, <2>2
<1>5. ASSUME t[n + 1] \notin Alnum, Trailing(t, n)
      PROVE  Trailing(t, n + 1)
  <2>1. PICK k \in 1..n :
          Separates(t, k) /\ \A j \in (k + 1)..n : t[j] \notin Alnum
    BY <1>5 DEF Trailing
  <2>2. k \in 1..(n + 1) /\ \A j \in (k + 1)..(n + 1) : j = n + 1 \/ j \in (k + 1)..n
    BY <1>1
  <2>3. \A j \in (k + 1)..(n + 1) : t[j] \notin Alnum
    BY <1>5, <2>1, <2>2
  <2> QED BY <2>1, <2>2, <2>3 DEF Trailing
<1>6. ASSUME t[n + 1] \notin Alnum, ~Separates(t, n + 1), Trailing(t, n + 1)
      PROVE  Trailing(t, n)
  <2>1. PICK k \in 1..(n + 1) :
          Separates(t, k) /\ \A j \in (k + 1)..(n + 1) : t[j] \notin Alnum
    BY <1>6 DEF Trailing
  <2>2. k # n + 1  BY <1>6, <2>1
  <2>3. k \in 1..n /\ \A j \in (k + 1)..n : j \in (k + 1)..(n + 1)
    BY <1>1, <2>1, <2>2
  <2> QED BY <2>1, <2>3 DEF Trailing
<1> QED BY <1>2, <1>3, <1>4, <1>5, <1>6

LEMMA WrittenNothing == ASSUME NEW t PROVE Written(t, 0, << >>)
<1>1. Place(t, 0) = 0  BY PlaceStep
<1>2. << >> \in Seq(Alnum \cup {BLANK}) /\ Len(<< >>) = 0 /\ 1..0 = {}
  OBVIOUS
<1> QED BY <1>1, <1>2 DEF Written

LEMMA WrittenSkip ==
  ASSUME NEW t, NEW n \in Nat, NEW s, Written(t, n, s), t[n + 1] \notin Alnum
  PROVE  Written(t, n + 1, s)
<1>1. Place(t, n + 1) = Place(t, n)  BY PlaceStep
<1>2. \A k \in 1..(n + 1) : t[k] \in Alnum => k \in 1..n
  <2> SUFFICES ASSUME NEW k \in 1..(n + 1), t[k] \in Alnum PROVE k \in 1..n
    OBVIOUS
  <2>1. k # n + 1  OBVIOUS
  <2> QED BY <2>1
<1>3. \A k \in 1..n : k \in 1..(n + 1)  OBVIOUS
<1> QED BY <1>1, <1>2, <1>3 DEF Written

(* Something was written just when there was a letter. *)
LEMMA WrittenAny ==
  ASSUME NEW t, NEW n \in Nat, NEW s, Written(t, n, s)
  PROVE  /\ Len(s) \in Nat
         /\ s # << >> <=> \E j \in 1..n : t[j] \in Alnum
<1>1. s \in Seq(Alnum \cup {BLANK}) /\ Len(s) = Place(t, n)
  BY DEF Written
<1>2. ASSUME s # << >> PROVE \E j \in 1..n : t[j] \in Alnum
  <2>1. 1 \in 1..Len(s)  BY <1>1, <1>2
  <2> QED BY <2>1 DEF Written
<1>3. ASSUME NEW j \in 1..n, t[j] \in Alnum PROVE s # << >>
  <2>1. Place(t, j) \in 1..Place(t, n)  BY <1>3, LetterPlaces
  <2> QED BY <1>1, <2>1
<1> QED BY <1>1, <1>2, <1>3

LEMMA WrittenLetter ==
  ASSUME NEW t \in Seq(Char), NEW n \in 0..(Len(t) - 1), NEW s,
         Written(t, n, s), t[n + 1] \in Alnum,
         NEW gap, gap = IF Trailing(t, n) /\ s # << >> THEN << BLANK >> ELSE << >>,
         NEW l, l = Folded(Composed(t, n + 1))
  PROVE  Written(t, n + 1, s \o gap \o << l >>)
<1> DEFINE A == Alnum \cup {BLANK}
           u == s \o gap \o << l >>
           b == Break(t, n + 1)
<1>1. n \in Nat /\ n + 1 \in 1..Len(t) /\ (n + 1) - 1 = n  OBVIOUS
<1>2. s \in Seq(A) /\ Len(s) \in Nat /\ Len(s) = Place(t, n)
  BY <1>1, WrittenAny DEF Written
<1>3. b <=> Trailing(t, n) /\ s # << >>
  BY <1>1, WrittenAny DEF Break
<1>4. gap = IF b THEN << BLANK >> ELSE << >>
  BY <1>3
<1>5. Composed(t, n + 1) \in Alnum  BY <1>1, ComposedFacts
<1>6. l \in A  BY <1>5, LowerFacts
<1>7. Place(t, n + 1) = Len(s) + (IF b THEN 2 ELSE 1)
  BY <1>1, <1>2, PlaceStep
<1> HIDE DEF b
<1>8. /\ u \in Seq(A) /\ Len(u) = Place(t, n + 1) /\ u[Len(u)] = l
      /\ b => u[Len(u) - 1] = BLANK
      /\ \A p \in 1..Len(s) : u[p] = s[p]
  <2>1. CASE b
    <3>1. gap = << BLANK >> /\ BLANK \in A  BY <1>4, <2>1
    <3> DEFINE v == s \o << BLANK >>
    <3> HIDE DEF A
    <3>2. /\ v \in Seq(A) /\ Len(v) = Len(s) + 1 /\ v[Len(s) + 1] = BLANK
          /\ \A p \in 1..Len(s) : v[p] = s[p]
      BY <1>2, <3>1
    <3>3. u = v \o << l >>  BY <3>1 DEF u
    <3> HIDE DEF v, u
    <3>4. /\ u \in Seq(A) /\ Len(u) = Len(v) + 1 /\ u[Len(v) + 1] = l
          /\ \A p \in 1..Len(v) : u[p] = v[p]
      BY <1>6, <3>2, <3>3
    <3>5. \A p \in 1..Len(s) : p \in 1..Len(v)  BY <1>2, <3>2
    <3>6. Len(v) \in 1..Len(v) /\ Len(u) - 1 = Len(v)  BY <1>2, <3>2, <3>4
    <3>7. u[Len(u) - 1] = BLANK  BY <3>2, <3>4, <3>6
    <3>8. u[Len(u)] = l /\ Len(u) = Len(s) + 2  BY <1>2, <3>2, <3>4
    <3>9. \A p \in 1..Len(s) : u[p] = s[p]  BY <3>2, <3>4, <3>5
    <3> QED BY <1>7, <2>1, <3>4, <3>7, <3>8, <3>9
  <2>2. CASE ~b
    <3>1. gap = << >>  BY <1>4, <2>2
    <3> HIDE DEF A
    <3> QED BY <1>2, <1>6, <1>7, <2>2, <3>1
  <2> QED BY <2>1, <2>2
<1> HIDE DEF u
<1>9. ASSUME NEW k \in 1..(n + 1), t[k] \in Alnum
      PROVE  /\ u[Place(t, k)] = Folded(Composed(t, k))
             /\ Break(t, k) => u[Place(t, k) - 1] = BLANK
  <2>1. CASE k = n + 1  BY <1>8, <2>1 DEF b
  <2>2. CASE k \in 1..n
    <3>1. /\ s[Place(t, k)] = Folded(Composed(t, k))
          /\ Break(t, k) => s[Place(t, k) - 1] = BLANK
      BY <1>9, <2>2 DEF Written
    <3>2. /\ Place(t, k) \in 1..Len(s)
          /\ Break(t, k) => Place(t, k) - 1 \in 1..Len(s)
      BY <1>1, <1>2, <1>9, <2>2, LetterPlaces
    <3> QED BY <1>8, <3>1, <3>2
  <2> QED BY <1>1, <2>1, <2>2
<1>10. ASSUME NEW p \in 1..Len(u)
       PROVE  \E k \in 1..(n + 1) :
                /\ t[k] \in Alnum
                /\ p = Place(t, k) \/ (Break(t, k) /\ p = Place(t, k) - 1)
  <2>1. CASE p \in 1..Len(s)
    <3>1. PICK k \in 1..n :
            /\ t[k] \in Alnum
            /\ p = Place(t, k) \/ (Break(t, k) /\ p = Place(t, k) - 1)
      BY <2>1 DEF Written
    <3>2. k \in 1..(n + 1)  BY <1>1
    <3> QED BY <3>1, <3>2
  <2>2. CASE p \notin 1..Len(s)
    <3>1. p = Len(u) \/ (b /\ p = Len(u) - 1)
      BY <1>2, <1>7, <1>8, <2>2
    <3>2. n + 1 \in 1..(n + 1)  BY <1>1
    <3> QED BY <1>8, <3>1, <3>2 DEF b
  <2> QED BY <2>1, <2>2
<1> HIDE DEF A
<1>11. u \in Seq(Alnum \cup {BLANK}) /\ Len(u) = Place(t, n + 1)
  BY <1>8 DEF A
<1>12. Written(t, n + 1, u)  BY <1>9, <1>10, <1>11 DEF Written
<1> QED BY <1>12 DEF u

-----------------------------------------------------------------------------
(* The inductive invariant.                                                *)

TypeOK ==
  /\ text \in Seq(Char) /\ read \in 0..Len(text)
  /\ lcs \in Seq(Char) /\ out \in Seq(Alnum \cup {BLANK})
  /\ pending_separator \in BOOLEAN
  /\ recorded \in Seq(Alnum \cup {BLANK})
  /\ pc \in {"bind", "bound", "verify", "verified"}

(* Between two characters of the text: out is what was read makes, and a   *)
(* separator is pending just when one stands behind the last letter.       *)
BetweenCharacters ==
  lcs = << >> =>
    /\ Written(text, read, out)
    /\ pending_separator <=> Trailing(text, read)

(* A letter was read, with the mark that it composes with, and is still to *)
(* be written.                                                             *)
LetterAhead ==
  lcs # << >> /\ Head(lcs) \in Alnum =>
    \E k \in 1..read :
      /\ read = IF Joins(text, k + 1) THEN k + 1 ELSE k
      /\ text[k] \in Alnum /\ lcs = Lower(Composed(text, k))
      /\ Written(text, k - 1, out)
      /\ pending_separator <=> Trailing(text, k - 1)

(* What is left of the character read separates.                           *)
SeparatorAhead ==
  lcs # << >> /\ Head(lcs) \notin Alnum =>
    /\ Written(text, read, out)
    /\ Trailing(text, read)
    /\ \A i \in 1..Len(lcs) : lcs[i] \notin Alnum

LoopInv == Looping => /\ ~Joins(text, read + 1)
                      /\ BetweenCharacters /\ LetterAhead /\ SeparatorAhead

(* What is recorded is the stream of the text as it was bound, and the text *)
(* is that one, or what the edit made of it.                               *)
History ==
  /\ pc \in {"bind", "bound"} => text \in Texts
  /\ pc \in {"bound", "verified"} => Written(text, Len(text), out)
  /\ pc = "bound" => recorded = out
  /\ pc \in {"verify", "verified"} =>
       \E t \in Texts : /\ Written(t, Len(t), recorded)
                        /\ edit \in Edits /\ text \in Edited(edit, t, recorded)

IInv == TypeOK /\ LoopInv /\ History

-----------------------------------------------------------------------------
(* What an edit does to the characters.                                    *)

LEMMA ConcatFacts ==
  ASSUME NEW a \in Seq(Char), NEW b \in Seq(Char), NEW w, w = a \o b
  PROVE  /\ w \in Seq(Char) /\ Len(w) = Len(a) + Len(b)
         /\ Len(a) \in Nat /\ Len(b) \in Nat
         /\ \A j \in 1..Len(a) : w[j] = a[j]
         /\ \A j \in 1..Len(b) : w[Len(a) + j] = b[j]
OBVIOUS

Shift(k, j) == IF j < k THEN j ELSE j + 1

InsertedIs(t, k, c, u) ==
  /\ u \in Seq(Char) /\ Len(u) = Len(t) + 1 /\ u[k] = c
  /\ k \in 1..Len(u)
  /\ \A j \in 1..Len(t) : u[Shift(k, j)] = t[j]

LEMMA InsertFacts ==
  ASSUME NEW t \in Seq(Char), NEW k \in Places(t), NEW c \in Char,
         NEW u, u = InsertAt(t, k, c)
  PROVE  InsertedIs(t, k, c, u)
<1> DEFINE a == SubSeq(t, 1, k - 1)
           b == SubSeq(t, k, Len(t))
           v == a \o << c >>
<1>1. Len(t) \in Nat /\ k \in 1..(Len(t) + 1)  BY DEF Places
<1>2. /\ a \in Seq(Char) /\ Len(a) = k - 1
      /\ \A j \in 1..(k - 1) : a[j] = t[j]
  BY <1>1
<1>3. /\ b \in Seq(Char) /\ Len(b) = Len(t) - k + 1
      /\ \A j \in 1..(Len(t) - k + 1) : b[j] = t[k - 1 + j]
  BY <1>1
<1>4. u = v \o b  BY DEF InsertAt
<1> HIDE DEF a, b
<1>5. /\ v \in Seq(Char) /\ Len(v) = k /\ v[k] = c
      /\ \A j \in 1..(k - 1) : v[j] = t[j]
  BY <1>1, <1>2
<1> HIDE DEF v
<1>6. /\ u \in Seq(Char) /\ Len(u) = Len(t) + 1
      /\ \A j \in 1..k : u[j] = v[j]
      /\ \A j \in 1..(Len(t) - k + 1) : u[k + j] = b[j]
  BY <1>1, <1>3, <1>4, <1>5
<1>7. k \in 1..k  BY <1>1
<1>8. ASSUME NEW j \in 1..Len(t) PROVE u[Shift(k, j)] = t[j]
  <2>1. CASE j < k  BY <1>1, <1>5, <1>6, <2>1 DEF Shift
  <2>2. CASE ~(j < k)
    <3>1. j - k + 1 \in 1..(Len(t) - k + 1)  BY <1>1, <2>2
    <3>2. k + (j - k + 1) = j + 1 /\ k - 1 + (j - k + 1) = j  BY <1>1
    <3>3. u[j + 1] = b[j - k + 1] /\ b[j - k + 1] = t[j]
      BY <1>3, <1>6, <3>1, <3>2
    <3> QED BY <2>2, <3>3 DEF Shift
  <2> QED BY <2>1, <2>2
<1> QED BY <1>1, <1>5, <1>6, <1>7, <1>8 DEF InsertedIs

LEMMA ReplaceFacts ==
  ASSUME NEW t \in Seq(Char), NEW k \in 1..Len(t), NEW c \in Char,
         NEW u, u = ReplaceAt(t, k, c)
  PROVE  /\ u \in Seq(Char) /\ Len(u) = Len(t) /\ u[k] = c
         /\ \A j \in 1..Len(t) : j # k => u[j] = t[j]
BY DEF ReplaceAt

DecomposedIs(t, k, c, m, u) ==
  /\ u \in Seq(Char) /\ Len(u) = Len(t) + 1 /\ u[k] = c /\ u[k + 1] = m
  /\ \A j \in 1..Len(t) : j # k => u[Shift(k + 1, j)] = t[j]

LEMMA DecomposeFacts ==
  ASSUME NEW t \in Seq(Char), NEW k \in 1..Len(t), NEW c \in Char, NEW m \in Char,
         NEW u, u = Decomposed(t, k, c, m)
  PROVE  DecomposedIs(t, k, c, m, u)
<1> DEFINE a == SubSeq(t, 1, k - 1)
           d == << c, m >>
           b == SubSeq(t, k + 1, Len(t))
           v == a \o d
<1>1. Len(t) \in Nat /\ k \in Nat /\ 1 <= k /\ k <= Len(t)  OBVIOUS
<1>2. /\ a \in Seq(Char) /\ Len(a) = k - 1
      /\ \A j \in 1..(k - 1) : a[j] = t[j]
  BY <1>1
<1>3. /\ b \in Seq(Char) /\ Len(b) = Len(t) - k
      /\ \A j \in 1..(Len(t) - k) : b[j] = t[k + j]
  BY <1>1
<1>4. d \in Seq(Char) /\ Len(d) = 2 /\ d[1] = c /\ d[2] = m  OBVIOUS
<1>5. u = v \o b  BY DEF Decomposed
<1> HIDE DEF a, b, d
<1>6. /\ v \in Seq(Char) /\ Len(v) = k + 1 /\ v[k] = c /\ v[k + 1] = m
      /\ \A j \in 1..(k - 1) : v[j] = t[j]
  <2>1. /\ v \in Seq(Char) /\ Len(v) = Len(a) + Len(d)
        /\ \A j \in 1..Len(a) : v[j] = a[j]
        /\ \A j \in 1..Len(d) : v[Len(a) + j] = d[j]
    <3>1. a \in Seq(Char) /\ d \in Seq(Char) /\ v = a \o d  BY <1>2, <1>4
    <3> HIDE DEF v
    <3> QED BY ONLY <3>1, ConcatFacts
  <2>2. v[Len(a) + 1] = c /\ v[Len(a) + 2] = m  BY <1>4, <2>1
  <2> HIDE DEF v
  <2>3. Len(a) + 1 = k /\ Len(a) + 2 = k + 1 /\ Len(v) = k + 1
    BY <1>1, <1>2, <1>4, <2>1
  <2>4. v[k] = c /\ v[k + 1] = m  BY <2>2, <2>3
  <2> QED BY <1>2, <2>1, <2>3, <2>4
<1> HIDE DEF v
<1>7. /\ u \in Seq(Char) /\ Len(u) = Len(t) + 1
      /\ \A j \in 1..(k + 1) : u[j] = v[j]
      /\ \A j \in 1..(Len(t) - k) : u[(k + 1) + j] = b[j]
  <2>1. /\ u \in Seq(Char) /\ Len(u) = Len(v) + Len(b)
        /\ \A j \in 1..Len(v) : u[j] = v[j]
        /\ \A j \in 1..Len(b) : u[Len(v) + j] = b[j]
    <3>1. v \in Seq(Char) /\ b \in Seq(Char) /\ u = v \o b  BY <1>3, <1>5, <1>6
    <3> QED BY ONLY <3>1, ConcatFacts
  <2> QED BY <1>1, <1>3, <1>6, <2>1
<1>8. k \in 1..(k + 1) /\ k + 1 \in 1..(k + 1)  BY <1>1
<1>9. ASSUME NEW j \in 1..Len(t), j # k PROVE u[Shift(k + 1, j)] = t[j]
  <2>1. CASE j < k + 1
    <3>1. j \in 1..(k - 1) /\ j \in 1..(k + 1)  BY <1>1, <1>9, <2>1
    <3> QED BY <1>6, <1>7, <2>1, <3>1 DEF Shift
  <2>2. CASE ~(j < k + 1)
    <3>1. j - k \in 1..(Len(t) - k)  BY <1>1, <2>2
    <3>2. (k + 1) + (j - k) = j + 1 /\ k + (j - k) = j  BY <1>1
    <3>3. u[j + 1] = b[j - k] /\ b[j - k] = t[j]
      BY <1>3, <1>7, <3>1, <3>2
    <3> QED BY <2>2, <3>3 DEF Shift
  <2> QED BY <2>1, <2>2
<1> QED BY <1>6, <1>7, <1>8, <1>9 DEF DecomposedIs

(* The ways in which an edit can have come about.                          *)
Formatted(t, u) ==
  \/ \E k \in Places(t), c \in Separators :
       AtSeparator(t, k) /\ u = InsertAt(t, k, c)
  \/ \E k \in 1..Len(t), c \in Separators :
       t[k] \in Separators /\ u = ReplaceAt(t, k, c)
Injected(t, u) ==
  \E k \in Places(t), c \in ZeroWidth :
    ~MarkAt(t, k) /\ u = InsertAt(t, k, c)
AnywhereInjected(t, u) ==
  \E k \in Places(t), c \in ZeroWidth : u = InsertAt(t, k, c)
Decomposes(t, u) ==
  \E k \in 1..Len(t), c \in Alnum, m \in Marks :
    /\ <<c, m>> \in DOMAIN Composite /\ t[k] = Composite[<<c, m>>]
    /\ u = Decomposed(t, k, c, m)
CaseChanged(t, u) ==
  \E k \in 1..Len(t) :
    t[k] \in Alnum /\ CaseKept(t[k]) /\ u = ReplaceAt(t, k, Upper(t[k]))
LetterAdded(t, u) ==
  \E k \in Places(t), c \in Alnum : u = InsertAt(t, k, c)
LetterReplaced(t, u) ==
  \E k \in 1..Len(t), c \in Alnum :
    /\ t[k] \in Alnum /\ ~MarkAt(t, k + 1)
    /\ Folded(c) # Folded(t[k]) /\ u = ReplaceAt(t, k, c)

LEMMA FormattingCases ==
  ASSUME NEW t, NEW stream, NEW kind \in {"spacing", "punctuation"},
         NEW u, u \in Edited(kind, t, stream)
  PROVE  Formatted(t, u)
<1>1. CASE kind = "spacing"
  <2>1. u \in Inserted(t, Space, {k \in Places(t) : AtSeparator(t, k)})
              \cup Replaced(t, Space, Space)
    BY <1>1 DEF Edited
  <2> QED BY <2>1 DEF Inserted, Replaced, Separators, Formatted
<1>2. CASE kind = "punctuation"
  <2>1. u \in Inserted(t, Punct, {k \in Places(t) : AtSeparator(t, k)})
              \cup Replaced(t, Separators, Separators)
    BY <1>2 DEF Edited
  <2> QED BY <2>1 DEF Inserted, Replaced, Separators, Formatted
<1> QED BY <1>1, <1>2

LEMMA InjectionCases ==
  ASSUME NEW t, NEW stream, NEW u, u \in Edited("injection", t, stream)
  PROVE  Injected(t, u)
<1>1. u \in Inserted(t, ZeroWidth, {k \in Places(t) : ~MarkAt(t, k)})
  BY DEF Edited
<1> QED BY ONLY <1>1 DEF Inserted, Injected

LEMMA AnyInjectionCases ==
  ASSUME NEW t, NEW stream, NEW u, u \in Edited("any injection", t, stream)
  PROVE  AnywhereInjected(t, u)
<1>1. u \in Inserted(t, ZeroWidth, Places(t))  BY DEF Edited
<1> QED BY ONLY <1>1 DEF Inserted, AnywhereInjected

LEMMA DecompositionCases ==
  ASSUME NEW t, NEW stream, NEW u, u \in Edited("decomposition", t, stream)
  PROVE  Decomposes(t, u)
<1>1. u \in {Decomposed(t, q[1], q[2], q[3]) :
               q \in {r \in (1..Len(t)) \X Alnum \X Marks :
                        /\ <<r[2], r[3]>> \in DOMAIN Composite
                        /\ t[r[1]] = Composite[<<r[2], r[3]>>]}}
  BY DEF Edited
<1>2. PICK q \in (1..Len(t)) \X Alnum \X Marks :
        /\ <<q[2], q[3]>> \in DOMAIN Composite
        /\ t[q[1]] = Composite[<<q[2], q[3]>>]
        /\ u = Decomposed(t, q[1], q[2], q[3])
  BY <1>1
<1>3. q[1] \in 1..Len(t) /\ q[2] \in Alnum /\ q[3] \in Marks
  BY <1>2
<1> USE DEF Decomposes
<1> WITNESS q[1] \in 1..Len(t), q[2] \in Alnum, q[3] \in Marks
<1> QED BY <1>2

LEMMA CaseCases ==
  ASSUME NEW t, NEW stream, NEW u, u \in Edited("case", t, stream)
  PROVE  CaseChanged(t, u)
BY DEF Edited, CaseChanged

LEMMA AddedCases ==
  ASSUME NEW t, NEW stream, NEW u, u \in Edited("letter added", t, stream)
  PROVE  LetterAdded(t, u)
<1>1. u \in Inserted(t, Alnum, Places(t))  BY DEF Edited
<1> QED BY ONLY <1>1 DEF Inserted, LetterAdded

LEMMA ReplacedCases ==
  ASSUME NEW t, NEW stream, NEW u, u \in Edited("letter replaced", t, stream)
  PROVE  LetterReplaced(t, u)
<1>1. u \in {ReplaceAt(t, q[1], q[2]) :
               q \in {r \in (1..Len(t)) \X Alnum :
                        /\ t[r[1]] \in Alnum /\ ~MarkAt(t, r[1] + 1)
                        /\ Folded(r[2]) # Folded(t[r[1]])}}
  BY DEF Edited
<1>2. PICK q \in (1..Len(t)) \X Alnum :
        /\ t[q[1]] \in Alnum /\ ~MarkAt(t, q[1] + 1)
        /\ Folded(q[2]) # Folded(t[q[1]]) /\ u = ReplaceAt(t, q[1], q[2])
  BY <1>1
<1>3. q[1] \in 1..Len(t) /\ q[2] \in Alnum  BY <1>2
<1> USE DEF LetterReplaced
<1> WITNESS q[1] \in 1..Len(t), q[2] \in Alnum
<1> QED BY <1>2

LEMMA EditedText ==
  ASSUME NEW t \in Seq(Char), NEW stream \in Seq(Char), NEW kind \in Kinds,
         NEW u, u \in Edited(kind, t, stream)
  PROVE  u \in Seq(Char)
<1>1. /\ Alnum \subseteq Char /\ Separators \subseteq Char
      /\ ZeroWidth \subseteq Char /\ Marks \subseteq Char
  BY DEF Char, Separators
<1>2. \A k \in Places(t), c \in Char : InsertAt(t, k, c) \in Seq(Char)
  BY InsertFacts DEF InsertedIs
<1>3. \A k \in 1..Len(t), c \in Char : ReplaceAt(t, k, c) \in Seq(Char)
  BY ReplaceFacts
<1>4. CASE kind \in {"spacing", "punctuation"}
  <2>1. Formatted(t, u)  BY <1>4, FormattingCases
  <2> QED BY ONLY <1>1, <1>2, <1>3, <2>1 DEF Formatted
<1>5. CASE kind = "injection"
  <2>1. Injected(t, u)  BY <1>5, InjectionCases
  <2> QED BY ONLY <1>1, <1>2, <2>1 DEF Injected
<1>6. CASE kind = "any injection"
  <2>1. AnywhereInjected(t, u)  BY <1>6, AnyInjectionCases
  <2> QED BY ONLY <1>1, <1>2, <2>1 DEF AnywhereInjected
<1>7. CASE kind = "decomposition"
  <2>1. Decomposes(t, u)  BY <1>7, DecompositionCases
  <2>2. PICK k \in 1..Len(t), c \in Alnum, m \in Marks : u = Decomposed(t, k, c, m)
    BY ONLY <2>1 DEF Decomposes
  <2>3. c \in Char /\ m \in Char  BY <1>1
  <2> QED BY <2>2, <2>3, DecomposeFacts DEF DecomposedIs
<1>8. CASE kind = "case"
  <2>1. CaseChanged(t, u)  BY <1>8, CaseCases
  <2>2. PICK k \in 1..Len(t) : t[k] \in Alnum /\ u = ReplaceAt(t, k, Upper(t[k]))
    BY ONLY <2>1 DEF CaseChanged
  <2>3. Upper(t[k]) \in Char  BY <1>1, <2>2, UpperAssumption
  <2> QED BY <1>3, <2>2, <2>3
<1>9. CASE kind = "canonical"  BY <1>9 DEF Edited
<1>10. CASE kind = "letter added"
  <2>1. LetterAdded(t, u)  BY <1>10, AddedCases
  <2> QED BY ONLY <1>1, <1>2, <2>1 DEF LetterAdded
<1>11. CASE kind = "letter replaced"
  <2>1. LetterReplaced(t, u)  BY <1>11, ReplacedCases
  <2> QED BY ONLY <1>1, <1>3, <2>1 DEF LetterReplaced
<1> QED BY <1>4, <1>5, <1>6, <1>7, <1>8, <1>9, <1>10, <1>11 DEF Kinds

-----------------------------------------------------------------------------
(* The loop and the calls keep the invariant.                              *)

LEMMA CharSets ==
  /\ Alnum \cup {BLANK} \subseteq Char
  /\ Seq(Alnum \cup {BLANK}) \subseteq Seq(Char)
<1>1. Alnum \cup {BLANK} \subseteq Char  BY CharAssumption DEF Char
<1>2. \A S, T : S \subseteq T => Seq(S) \subseteq Seq(T)  OBVIOUS
<1> QED BY <1>1, <1>2

LEMMA StartsEmpty ==
  ASSUME NEW t \in Seq(Char)
  PROVE  /\ ~Joins(t, 1) /\ Written(t, 0, << >>) /\ ~Trailing(t, 0)
         /\ 0 \in 0..Len(t)
<1>1. ~Joins(t, 1)  BY DEF Joins
<1>2. ~Trailing(t, 0)  BY DEF Trailing
<1> QED BY <1>1, <1>2, WrittenNothing

LEMMA InitInv == Init => IInv
<1>0. SUFFICES ASSUME Init PROVE IInv  OBVIOUS
<1>1. text \in Texts /\ text \in Seq(Char)  BY <1>0, TextsAssumption DEF Init
<1>2. TypeOK
  <2>1. Len(text) \in Nat /\ 0 \in 0..Len(text)  BY <1>1
  <2>2. \A S : << >> \in Seq(S)  OBVIOUS
  <2>3. lcs \in Seq(Char) /\ out \in Seq(Alnum \cup {BLANK})
        /\ recorded \in Seq(Alnum \cup {BLANK})
    BY ONLY <2>2, <1>0 DEF Init
  <2> QED BY <1>0, <1>1, <2>1, <2>3 DEF Init, TypeOK
<1>3. LoopInv
  BY <1>0, <1>1, StartsEmpty
     DEF Init, LoopInv, BetweenCharacters, LetterAhead, SeparatorAhead
<1>4. History  BY <1>0, <1>1 DEF Init, History
<1> QED BY <1>2, <1>3, <1>4 DEF IInv

(* What the NFC iterator yields, and where it stands afterwards.           *)
LEMMA ReadFacts ==
  ASSUME IInv, NextChar, Advance
  PROVE  /\ text \in Seq(Char) /\ read + 1 \in 1..Len(text)
         /\ read \in 0..(Len(text) - 1) /\ read \in Nat
         /\ ~Joins(text, read + 1)
         /\ read' \in 0..Len(text) /\ ~Joins(text, read' + 1)
         /\ read' = IF Joins(text, (read + 1) + 1) THEN (read + 1) + 1 ELSE read + 1
         /\ Yielded = Composed(text, read + 1) /\ Yielded \in Char
         /\ Yielded \in Alnum <=> text[read + 1] \in Alnum
         /\ text[read + 1] \notin Alnum => Yielded = text[read + 1] /\ read' = read + 1
         /\ Written(text, read, out)
         /\ pending_separator <=> Trailing(text, read)
<1>1. /\ text \in Seq(Char) /\ read \in 0..Len(text) /\ read < Len(text)
      /\ lcs = << >> /\ Looping
  BY DEF IInv, TypeOK, NextChar
<1>2. /\ ~Joins(text, read + 1) /\ Written(text, read, out)
      /\ pending_separator <=> Trailing(text, read)
  BY <1>1 DEF IInv, LoopInv, BetweenCharacters
<1>3. /\ read + 1 \in 1..Len(text) /\ read \in 0..(Len(text) - 1)
      /\ read \in Nat /\ (read + 1) + 1 = read + 2 /\ Len(text) \in Nat
  BY <1>1
<1>4. /\ Yielded = Composed(text, read + 1) /\ Yielded \in Char
      /\ Yielded \in Alnum <=> text[read + 1] \in Alnum
      /\ text[read + 1] \notin Alnum =>
           Yielded = text[read + 1] /\ ~Joins(text, read + 2)
  BY <1>1, <1>3, ComposedFacts DEF Yielded
<1>5. read' = IF Joins(text, read + 2) THEN read + 2 ELSE read + 1
  BY DEF Advance
<1>6. read' \in 0..Len(text) /\ ~Joins(text, read' + 1)
  <2>1. CASE Joins(text, read + 2)
    <3>1. read + 2 \in 2..Len(text) /\ text[read + 2] \in Marks
      BY <2>1, JoinedFacts
    <3>2. ~Joins(text, (read + 2) + 1)
      <4>1. text[read + 2] \notin Alnum  BY <3>1, CharAssumption
      <4>2. ((read + 2) + 1) - 1 = read + 2  BY <1>3
      <4>3. Joins(text, (read + 2) + 1) => text[read + 2] \in Alnum
        BY <4>2, JoinedFacts
      <4> QED BY <4>1, <4>3
    <3> QED BY <1>3, <1>5, <2>1, <3>1, <3>2
  <2>2. CASE ~Joins(text, read + 2)
    BY <1>3, <1>5, <2>2
  <2> QED BY <2>1, <2>2
<1> QED BY <1>1, <1>2, <1>3, <1>4, <1>5, <1>6

LEMMA SkipInv == IInv /\ SkipZeroWidth => IInv'
<1> SUFFICES ASSUME IInv, SkipZeroWidth PROVE IInv'  OBVIOUS
<1>1. /\ NextChar /\ Yielded \in ZeroWidth /\ Advance
      /\ UNCHANGED <<text, lcs, out, pending_separator, recorded, edit, pc>>
  BY DEF SkipZeroWidth
<1>2. lcs = << >> /\ Looping  BY <1>1 DEF NextChar
<1>3. TypeOK'  BY <1>1, ReadFacts DEF IInv, TypeOK
<1>4. Yielded \notin Alnum  BY <1>1, CharAssumption
<1>5. /\ text[read + 1] \notin Alnum /\ read' = read + 1
      /\ text[read + 1] \in ZeroWidth
  BY <1>1, <1>4, ReadFacts
<1>6. ~Separates(text, read + 1)  BY <1>1, <1>5, ReadFacts, SeparatesFacts
<1>7. Written(text, read + 1, out)  BY <1>1, <1>5, ReadFacts, WrittenSkip
<1>8. pending_separator <=> Trailing(text, read + 1)
  BY <1>1, <1>5, <1>6, ReadFacts, TrailingStep
<1>9. LoopInv'
  <2>1. ~Joins(text, read' + 1)  BY <1>1, ReadFacts
  <2> QED BY <1>1, <1>2, <1>5, <1>7, <1>8, <2>1
          DEF LoopInv, BetweenCharacters, LetterAhead, SeparatorAhead, Looping
<1>10. History'  BY <1>1 DEF IInv, History
<1> QED BY <1>3, <1>9, <1>10 DEF IInv

LEMMA LowercaseInv == IInv /\ Lowercase => IInv'
<1> SUFFICES ASSUME IInv, Lowercase PROVE IInv'  OBVIOUS
<1>1. /\ NextChar /\ Yielded \notin ZeroWidth /\ Advance
      /\ lcs' = Lower(Yielded)
      /\ UNCHANGED <<text, out, pending_separator, recorded, edit, pc>>
  BY DEF Lowercase
<1>2. Looping' /\ ~Joins(text, read' + 1)
  BY <1>1, ReadFacts DEF NextChar, Looping
<1>3. History'  BY <1>1 DEF IInv, History
<1>4. Len(text) \in Nat /\ read \in Nat  BY <1>1, ReadFacts
<1>5. CASE text[read + 1] \in Alnum
  <2>1. Yielded \in Alnum  BY <1>1, <1>5, ReadFacts
  <2>2. /\ Lower(Yielded) \in Seq(Char) /\ Len(Lower(Yielded)) >= 1
        /\ Folded(Yielded) \in Alnum
    BY <2>1, LowerFacts
  <2>3. lcs' \in Seq(Char) /\ lcs' # << >> /\ Head(lcs') \in Alnum
    BY <1>1, <2>2 DEF Folded
  <2>4. TypeOK'  BY <1>1, <2>3, ReadFacts DEF IInv, TypeOK
  <2> DEFINE k == read + 1
  <2>5. k - 1 = read /\ k \in 1..read'  BY <1>1, <1>4, ReadFacts
  <2>6. /\ read' = IF Joins(text, k + 1) THEN k + 1 ELSE k
        /\ text[k] \in Alnum /\ lcs' = Lower(Composed(text, k))
        /\ Written(text, k - 1, out)
        /\ pending_separator <=> Trailing(text, k - 1)
    BY <1>1, <1>5, <2>5, ReadFacts
  <2> HIDE DEF k
  <2>7. LetterAhead'
    BY <1>1, <2>5, <2>6 DEF LetterAhead
  <2>8. BetweenCharacters' /\ SeparatorAhead'
    BY <2>3 DEF BetweenCharacters, SeparatorAhead
  <2>9. LoopInv'
    BY <1>1, <1>2, <2>7, <2>8 DEF LoopInv
  <2> QED BY <1>3, <2>4, <2>9 DEF IInv
<1>6. CASE text[read + 1] \notin Alnum
  <2>1. /\ Yielded = text[read + 1] /\ read' = read + 1
        /\ Yielded \in Char \ Alnum
    BY <1>1, <1>6, ReadFacts
  <2>2. Lower(Yielded) = << Yielded >>  BY <2>1, LowerAssumption
  <2>3. /\ lcs' \in Seq(Char) /\ lcs' # << >> /\ Head(lcs') \notin Alnum
        /\ \A i \in 1..Len(lcs') : lcs'[i] \notin Alnum
    BY <1>1, <2>1, <2>2
  <2>4. TypeOK'  BY <1>1, <2>3, ReadFacts DEF IInv, TypeOK
  <2>5. Separates(text, read + 1)
    BY <1>1, <1>6, <2>1, ReadFacts, SeparatesFacts
  <2>6. Written(text, read + 1, out)  BY <1>1, <1>6, ReadFacts, WrittenSkip
  <2>7. Trailing(text, read + 1)  BY <1>1, <2>5, ReadFacts, TrailingStep
  <2>8. SeparatorAhead'
    BY <1>1, <2>1, <2>3, <2>6, <2>7 DEF SeparatorAhead
  <2>9. BetweenCharacters' /\ LetterAhead'
    BY <2>3 DEF BetweenCharacters, LetterAhead
  <2>10. LoopInv'  BY <1>1, <1>2, <2>8, <2>9 DEF LoopInv
  <2> QED BY <1>3, <2>4, <2>10 DEF IInv
<1> QED BY <1>5, <1>6

(* The letter of a character is written, behind a blank if one is due.     *)
LEMMA PushInv == IInv /\ PushAlnum => IInv'
<1> SUFFICES ASSUME IInv, PushAlnum PROVE IInv'  OBVIOUS
<1> DEFINE gap == IF pending_separator /\ out # << >> THEN << BLANK >> ELSE << >>
           l == Head(lcs)
<1>1. /\ Looping /\ lcs # << >> /\ l \in Alnum
      /\ out' = out \o gap \o << l >>
      /\ pending_separator' = FALSE /\ lcs' = Tail(lcs)
      /\ UNCHANGED <<text, read, recorded, edit, pc>>
  BY DEF PushAlnum
<1>2. /\ text \in Seq(Char) /\ Len(text) \in Nat /\ read \in 0..Len(text)
      /\ lcs \in Seq(Char) /\ ~Joins(text, read + 1)
  BY <1>1 DEF IInv, TypeOK, LoopInv
<1>3. PICK k \in 1..read :
        /\ read = IF Joins(text, k + 1) THEN k + 1 ELSE k
        /\ text[k] \in Alnum /\ lcs = Lower(Composed(text, k))
        /\ Written(text, k - 1, out)
        /\ pending_separator <=> Trailing(text, k - 1)
  BY <1>1 DEF IInv, LoopInv, LetterAhead
<1> HIDE DEF gap, l
<1>4. /\ k \in 1..Len(text) /\ k - 1 \in 0..(Len(text) - 1)
      /\ (k - 1) + 1 = k /\ k \in Nat
  BY <1>2
<1> DEFINE c == Composed(text, k)
<1>5. c \in Alnum  BY <1>2, <1>3, <1>4, ComposedFacts
<1>6. lcs = Lower(c)  BY <1>3
<1> HIDE DEF c
<1>7. /\ Len(lcs) \in Nat /\ Len(lcs) >= 1 /\ l = Folded(c)
      /\ \A i \in 2..Len(lcs) : lcs[i] \notin Alnum
  BY <1>5, <1>6, LowerFacts DEF Folded, l
<1>8. gap = IF Trailing(text, k - 1) /\ out # << >> THEN << BLANK >> ELSE << >>
  BY <1>3 DEF gap
<1>9. Written(text, k, out')
  <2>1. l = Folded(Composed(text, (k - 1) + 1))  BY <1>4, <1>7 DEF c
  <2>2. text[(k - 1) + 1] \in Alnum /\ Written(text, k - 1, out)
    BY <1>3, <1>4
  <2>3. Written(text, (k - 1) + 1, out \o gap \o << l >>)
    BY <1>2, <1>4, <1>8, <2>1, <2>2, WrittenLetter
  <2> QED BY <1>1, <1>4, <2>3
<1>10. Separates(text, k) <=> Len(lcs) > 1
  BY <1>2, <1>3, <1>4, SeparatesFacts
<1>11. /\ Separates(text, k) => Trailing(text, k)
       /\ ~Separates(text, k) => ~Trailing(text, k)
  BY <1>2, <1>3, <1>4, TrailingStep
<1>12. /\ Written(text, read, out')
       /\ Separates(text, k) => Trailing(text, read)
       /\ ~Separates(text, k) => ~Trailing(text, read)
  <2>1. CASE Joins(text, k + 1)
    <3>0. k + 1 \in 2..Len(text) /\ text[k + 1] \notin Alnum
      BY <2>1, JoinedFacts
    <3>1. /\ read = k + 1 /\ k + 1 \in 1..Len(text)
          /\ text[k + 1] \notin Alnum
      BY <1>2, <1>3, <2>1, <3>0
    <3>2. k \in 0..(Len(text) - 1)  BY <1>2, <1>4, <3>1
    <3>3. ~Separates(text, k + 1)  BY <1>2, <2>1, <3>1, SeparatesFacts
    <3>4. Trailing(text, k + 1) <=> Trailing(text, k)
      BY <1>2, <3>1, <3>2, <3>3, TrailingStep
    <3>5. Written(text, k + 1, out')  BY <1>4, <1>9, <3>1, WrittenSkip
    <3> QED BY <1>11, <3>1, <3>4, <3>5
  <2>2. CASE ~Joins(text, k + 1)  BY <1>3, <1>9, <1>11, <2>2
  <2> QED BY <2>1, <2>2
<1>13. out' \in Seq(Alnum \cup {BLANK})  BY <1>9 DEF Written
<1>14. /\ lcs' \in Seq(Char) /\ Len(lcs') = Len(lcs) - 1
       /\ \A i \in 1..Len(lcs') : lcs'[i] = lcs[i + 1]
  BY <1>1, <1>2, <1>7
<1>15. TypeOK'
  <2>1. pending_separator' \in BOOLEAN  BY <1>1
  <2> QED BY <1>1, <1>13, <1>14, <2>1 DEF IInv, TypeOK
<1>16. LoopInv'
  <2>1. CASE lcs' = << >>
    <3>1. Len(lcs) = 1  BY <1>7, <1>14, <2>1
    <3>2. pending_separator' <=> Trailing(text, read)
      BY <1>1, <1>10, <1>12, <3>1
    <3> QED BY <1>1, <1>2, <1>12, <2>1, <3>2
            DEF LoopInv, BetweenCharacters, LetterAhead, SeparatorAhead
  <2>2. CASE lcs' # << >>
    <3>1. Len(lcs) > 1 /\ Len(lcs') >= 1  BY <1>7, <1>14, <2>2
    <3>2. \A i \in 1..Len(lcs') : lcs'[i] \notin Alnum
      <4> TAKE i \in 1..Len(lcs')
      <4>1. i + 1 \in 2..Len(lcs)  BY <1>7, <1>14
      <4> QED BY <1>7, <1>14, <4>1
    <3>3. Head(lcs') \notin Alnum
      <4>1. 1 \in 1..Len(lcs') /\ Head(lcs') = lcs'[1]  BY <1>14, <3>1
      <4> QED BY <3>2, <4>1
    <3>4. Trailing(text, read)  BY <1>10, <1>12, <3>1
    <3> QED BY <1>1, <1>2, <1>12, <2>2, <3>2, <3>3, <3>4
            DEF LoopInv, BetweenCharacters, LetterAhead, SeparatorAhead
  <2> QED BY <2>1, <2>2
<1>17. History'  BY <1>1 DEF IInv, History, Looping
<1> QED BY <1>15, <1>16, <1>17 DEF IInv

LEMMA SeparateInv == IInv /\ Separate => IInv'
<1> SUFFICES ASSUME IInv, Separate PROVE IInv'  OBVIOUS
<1>1. /\ Looping /\ lcs # << >> /\ Head(lcs) \notin Alnum
      /\ pending_separator' = TRUE /\ lcs' = Tail(lcs)
      /\ UNCHANGED <<text, read, out, recorded, edit, pc>>
  BY DEF Separate
<1>2. /\ lcs \in Seq(Char) /\ Len(lcs) \in Nat /\ Len(lcs) >= 1
      /\ ~Joins(text, read + 1)
  BY <1>1 DEF IInv, TypeOK, LoopInv
<1>3. /\ Written(text, read, out) /\ Trailing(text, read)
      /\ \A i \in 1..Len(lcs) : lcs[i] \notin Alnum
  BY <1>1 DEF IInv, LoopInv, SeparatorAhead
<1>4. /\ lcs' \in Seq(Char) /\ Len(lcs') = Len(lcs) - 1
      /\ \A i \in 1..Len(lcs') : lcs'[i] = lcs[i + 1]
  BY <1>1, <1>2
<1>5. TypeOK'
  <2>1. pending_separator' \in BOOLEAN  BY <1>1
  <2> QED BY <1>1, <1>4, <2>1 DEF IInv, TypeOK
<1>6. \A i \in 1..Len(lcs') : lcs'[i] \notin Alnum
  <2> TAKE i \in 1..Len(lcs')
  <2>1. i + 1 \in 1..Len(lcs)  BY <1>2, <1>4
  <2> QED BY <1>3, <1>4, <2>1
<1>7. lcs' # << >> => Head(lcs') \notin Alnum
  <2> SUFFICES ASSUME lcs' # << >> PROVE Head(lcs') \notin Alnum  OBVIOUS
  <2>1. 1 \in 1..Len(lcs') /\ Head(lcs') = lcs'[1]  BY <1>4
  <2> QED BY <1>6, <2>1
<1>8. LoopInv'
  BY <1>1, <1>2, <1>3, <1>6, <1>7
     DEF LoopInv, BetweenCharacters, LetterAhead, SeparatorAhead
<1>9. History'  BY <1>1 DEF IInv, History, Looping
<1> QED BY <1>5, <1>8, <1>9 DEF IInv

LEMMA ReturnInv == IInv /\ Return => IInv'
<1> SUFFICES ASSUME IInv, Return PROVE IInv'  OBVIOUS
<1>1. /\ Looping /\ lcs = << >> /\ read = Len(text)
      /\ recorded' = IF pc = "bind" THEN out ELSE recorded
      /\ pc' = IF pc = "bind" THEN "bound" ELSE "verified"
      /\ UNCHANGED <<text, read, lcs, out, pending_separator, edit>>
  BY DEF Return
<1>2. Written(text, Len(text), out)
  BY <1>1 DEF IInv, LoopInv, BetweenCharacters
<1>3. TypeOK'  BY <1>1 DEF IInv, TypeOK
<1>4. ~Looping'  BY <1>1 DEF Looping
<1>5. LoopInv'  BY <1>4 DEF LoopInv
<1>6. CASE pc = "bind"
  <2>1. History'  BY <1>1, <1>2, <1>6 DEF IInv, History
  <2> QED BY <1>3, <1>5, <2>1 DEF IInv
<1>7. CASE pc = "verify"
  <2>1. pc' = "verified" /\ recorded' = recorded  BY <1>1, <1>7
  <2>2. \E t \in Texts : /\ Written(t, Len(t), recorded)
                         /\ edit \in Edits /\ text \in Edited(edit, t, recorded)
    BY <1>7 DEF IInv, History
  <2>3. History'
    BY <1>1, <1>2, <2>1, <2>2 DEF History
  <2> QED BY <1>3, <1>5, <2>3 DEF IInv
<1> QED BY <1>1, <1>6, <1>7 DEF Looping

LEMMA EditInv == IInv /\ Edit => IInv'
<1> SUFFICES ASSUME IInv, Edit PROVE IInv'  OBVIOUS
<1>1. /\ pc = "bound" /\ edit' \in Edits
      /\ text' \in Edited(edit', text, recorded)
      /\ read' = 0 /\ lcs' = << >> /\ out' = << >>
      /\ pending_separator' = FALSE /\ pc' = "verify"
      /\ recorded' = recorded
  BY DEF Edit
<1>2. /\ text \in Texts /\ text \in Seq(Char)
      /\ Written(text, Len(text), recorded)
      /\ recorded \in Seq(Alnum \cup {BLANK}) /\ recorded \in Seq(Char)
  BY <1>1, CharSets DEF IInv, TypeOK, History
<1>3. text' \in Seq(Char)
  BY <1>1, <1>2, EditedText, EditsAssumption
<1>4. TypeOK'
  <2>1. lcs' \in Seq(Char) /\ out' \in Seq(Alnum \cup {BLANK})
    <3>1. \A S : << >> \in Seq(S)  OBVIOUS
    <3> QED BY ONLY <1>1, <3>1
  <2>2. read' \in 0..Len(text')  BY <1>1, <1>3, StartsEmpty
  <2>3. pending_separator' \in BOOLEAN /\ pc' \in {"bind", "bound", "verify", "verified"}
    BY <1>1
  <2> QED BY <1>1, <1>2, <1>3, <2>1, <2>2, <2>3 DEF TypeOK
<1>5. LoopInv'
  <2>1. ~Joins(text', 1) /\ Written(text', 0, << >>) /\ ~Trailing(text', 0)
    BY <1>3, StartsEmpty
  <2>2. ~Joins(text', read' + 1) /\ Written(text', read', out')
        /\ (pending_separator' <=> Trailing(text', read'))
    BY <1>1, <2>1
  <2> QED BY <1>1, <2>2
          DEF LoopInv, BetweenCharacters, LetterAhead, SeparatorAhead
<1>6. History'
  <2>1. \E t \in Texts : /\ Written(t, Len(t), recorded')
                         /\ edit' \in Edits /\ text' \in Edited(edit', t, recorded')
    BY <1>1, <1>2
  <2> QED BY <1>1, <2>1 DEF History
<1> QED BY <1>4, <1>5, <1>6 DEF IInv

LEMMA NextInv == IInv /\ [Next]_vars => IInv'
<1> SUFFICES ASSUME IInv, [Next]_vars PROVE IInv'  OBVIOUS
<1>1. CASE SkipZeroWidth  BY <1>1, SkipInv
<1>2. CASE Lowercase  BY <1>2, LowercaseInv
<1>3. CASE PushAlnum  BY <1>3, PushInv
<1>4. CASE Separate  BY <1>4, SeparateInv
<1>5. CASE Return  BY <1>5, ReturnInv
<1>6. CASE Edit  BY <1>6, EditInv
<1>7. CASE UNCHANGED vars
  BY <1>7 DEF vars, IInv, TypeOK, LoopInv, BetweenCharacters, LetterAhead,
     SeparatorAhead, Looping, History
<1> QED BY <1>1, <1>2, <1>3, <1>4, <1>5, <1>6, <1>7 DEF Next

LEMMA Inv == Spec => []IInv
BY InitInv, NextInv, PTL DEF Spec

(* normalize::canonical returns the letters of its text in order, lowercased, *)
(* with one blank between two of them just when something else stands there. *)
THEOREM StreamCorrect == Spec => []OneBlankBetweenWords
<1>1. IInv => OneBlankBetweenWords
  BY DEF IInv, History, OneBlankBetweenWords, Written, IsStream
<1> QED BY <1>1, Inv, PTL

-----------------------------------------------------------------------------
(* Texts with the same stream.                                             *)

Letters(t) == {k \in 1..Len(t) : t[k] \in Alnum}

(* The letters of t are those of u, in their order, with the same gaps.    *)
Matches(t, u, g) ==
  /\ \A j \in Letters(t) :
       /\ g[j] \in Letters(u)
       /\ Folded(Composed(u, g[j])) = Folded(Composed(t, j))
       /\ Break(u, g[j]) <=> Break(t, j)
  /\ \A i, j \in Letters(t) : i < j => g[i] < g[j]
  /\ \A x \in Letters(u) : \E j \in Letters(t) : g[j] = x

LEMMA PlacesMatch ==
  ASSUME NEW t \in Seq(Char), NEW u \in Seq(Char), NEW g, Matches(t, u, g),
         NEW n \in 0..Len(t), NEW m \in 0..Len(u),
         \A j \in Letters(t) : j <= n <=> g[j] <= m
  PROVE  Place(t, n) = Place(u, m)
<1>1. n \in Nat /\ m \in Nat /\ Len(t) \in Nat /\ Len(u) \in Nat  OBVIOUS
<1>2. /\ \A j \in Letters(t) : g[j] \in Letters(u) /\ (Break(u, g[j]) <=> Break(t, j))
      /\ \A i, j \in Letters(t) : i < j => g[i] < g[j]
      /\ \A x \in Letters(u) : \E j \in Letters(t) : g[j] = x
  BY DEF Matches
<1>3. \A i, j \in Letters(t) : g[i] = g[j] => i = j
  <2> SUFFICES ASSUME NEW i \in Letters(t), NEW j \in Letters(t), g[i] = g[j], i # j
               PROVE  FALSE
    OBVIOUS
  <2>1. /\ i \in Int /\ j \in Int /\ g[i] \in Int /\ g[j] \in Int
        /\ i < j => g[i] < g[j]
        /\ j < i => g[j] < g[i]
    <3>1. \A s : Letters(s) \subseteq Int  BY DEF Letters
    <3> QED BY <1>2, <3>1
  <2> QED BY <2>1
<1>4. /\ \A j \in 1..n : t[j] \in Alnum <=> j \in Letters(t)
      /\ \A x \in 1..m : u[x] \in Alnum <=> x \in Letters(u)
      /\ \A j \in Letters(t) : j \in 1..Len(t)
      /\ \A x \in Letters(u) : x \in 1..Len(u)
      /\ \A j : Break(t, j) => t[j] \in Alnum
      /\ \A x : Break(u, x) => u[x] \in Alnum
  BY <1>1 DEF Letters, Break
<1>5. Cardinality((1..n) \cap LettersOf(t)) = Cardinality((1..m) \cap LettersOf(u))
  <2> DEFINE A == (1..n) \cap LettersOf(t)
             B == (1..m) \cap LettersOf(u)
             f == [j \in A |-> g[j]]
  <2>1. /\ \A j : j \in A <=> j \in 1..n /\ t[j] \in Alnum
        /\ \A x : x \in B <=> x \in 1..m /\ u[x] \in Alnum
    BY <1>1 DEF LettersOf
  <2>2. IsFiniteSet(A)  BY <1>1, CountStep
  <2> HIDE DEF A, B
  <2>3. /\ \A j : j \in A <=> j \in Letters(t) /\ j <= n
        /\ \A x : x \in B <=> x \in Letters(u) /\ x <= m
    BY <1>1, <1>4, <2>1
  <2>4. f \in [A -> B]  BY <1>2, <2>3
  <2>5. \A x, y \in A : f[x] = f[y] => x = y  BY <1>3, <2>3
  <2>6. \A b \in B : \E x \in A : f[x] = b
    <3> TAKE b \in B
    <3>1. PICK j \in Letters(t) : g[j] = b  BY <1>2, <2>3
    <3>2. j \in A  BY <2>3, <3>1
    <3> QED BY <3>1, <3>2
  <2> HIDE DEF f
  <2>7. Cardinality(B) = Cardinality(A)  BY <2>2, <2>4, <2>5, <2>6, SameSize
  <2> QED BY <2>7 DEF A, B
<1>6. Cardinality((1..n) \cap BreaksOf(t)) = Cardinality((1..m) \cap BreaksOf(u))
  <2> DEFINE A == (1..n) \cap BreaksOf(t)
             B == (1..m) \cap BreaksOf(u)
             f == [j \in A |-> g[j]]
  <2>1. /\ \A j : j \in A <=> j \in 1..n /\ Break(t, j)
        /\ \A x : x \in B <=> x \in 1..m /\ Break(u, x)
    BY <1>1 DEF BreaksOf
  <2>2. IsFiniteSet(A)  BY <1>1, CountStep
  <2> HIDE DEF A, B
  <2>3. /\ \A j : j \in A <=> j \in Letters(t) /\ j <= n /\ Break(t, j)
        /\ \A x : x \in B <=> x \in Letters(u) /\ x <= m /\ Break(u, x)
    BY <1>1, <1>4, <2>1
  <2>4. f \in [A -> B]  BY <1>2, <2>3
  <2>5. \A x, y \in A : f[x] = f[y] => x = y  BY <1>3, <2>3
  <2>6. \A b \in B : \E x \in A : f[x] = b
    <3> TAKE b \in B
    <3>1. PICK j \in Letters(t) : g[j] = b  BY <1>2, <2>3
    <3>2. j \in A  BY <1>2, <2>3, <3>1
    <3> QED BY <3>1, <3>2
  <2> HIDE DEF f
  <2>7. Cardinality(B) = Cardinality(A)  BY <2>2, <2>4, <2>5, <2>6, SameSize
  <2> QED BY <2>7 DEF A, B
<1> QED BY <1>1, <1>5, <1>6, PlaceCounts

LEMMA SameStream ==
  ASSUME NEW t \in Seq(Char), NEW u \in Seq(Char), NEW g, Matches(t, u, g),
         NEW r, Written(t, Len(t), r), NEW s, Written(u, Len(u), s)
  PROVE  r = s
<1>1. /\ r \in Seq(Alnum \cup {BLANK}) /\ s \in Seq(Alnum \cup {BLANK})
      /\ Len(r) = Place(t, Len(t)) /\ Len(s) = Place(u, Len(u))
  BY DEF Written
<1>2. /\ \A s0 : \A j \in Letters(s0) : j \in 1..Len(s0) /\ s0[j] \in Alnum
      /\ \A j \in 1..Len(t) : t[j] \in Alnum => j \in Letters(t)
      /\ Len(t) \in Nat /\ Len(u) \in Nat
  BY DEF Letters
<1>3. \A j \in Letters(t) :
        /\ g[j] \in Letters(u)
        /\ Folded(Composed(u, g[j])) = Folded(Composed(t, j))
        /\ Break(u, g[j]) <=> Break(t, j)
  BY DEF Matches
<1>4. Len(r) = Len(s)
  <2>1. \A j \in Letters(t) : j <= Len(t) <=> g[j] <= Len(u)
    <3> TAKE j \in Letters(t)
    <3>1. j \in 1..Len(t) /\ g[j] \in 1..Len(u)  BY <1>2, <1>3
    <3> QED BY <1>2, <3>1
  <2>2. Len(t) \in 0..Len(t) /\ Len(u) \in 0..Len(u)  BY <1>2
  <2> QED BY <1>1, <2>1, <2>2, PlacesMatch
<1>5. \A p \in 1..Len(r) : r[p] = s[p]
  <2> TAKE p \in 1..Len(r)
  <2>1. PICK k \in 1..Len(t) :
          /\ t[k] \in Alnum
          /\ p = Place(t, k) \/ (Break(t, k) /\ p = Place(t, k) - 1)
    BY DEF Written
  <2>2. k \in Letters(t)  BY <1>2, <2>1
  <2>3. g[k] \in 1..Len(u) /\ u[g[k]] \in Alnum  BY <1>2, <1>3, <2>2
  <2>4. Place(t, k) = Place(u, g[k])
    <3>1. \A j \in Letters(t) : j <= k <=> g[j] <= g[k]
      <4> TAKE j \in Letters(t)
      <4>1. /\ j < k => g[j] < g[k]
            /\ k < j => g[k] < g[j]
        BY <2>2 DEF Matches
      <4>2. j \in Int /\ k \in Int /\ g[j] \in Int /\ g[k] \in Int
        <5>1. g[j] \in 1..Len(u) /\ j \in 1..Len(t)  BY <1>2, <1>3
        <5> QED BY <1>2, <2>3, <5>1
      <4>3. j = k => g[j] = g[k]  OBVIOUS
      <4> QED BY <4>1, <4>2, <4>3
    <3>2. k \in 0..Len(t) /\ g[k] \in 0..Len(u)  BY <2>3
    <3> QED BY <3>1, <3>2, PlacesMatch
  <2>5. /\ r[Place(t, k)] = Folded(Composed(t, k))
        /\ Break(t, k) => r[Place(t, k) - 1] = BLANK
    BY <2>1 DEF Written
  <2>6. /\ s[Place(u, g[k])] = Folded(Composed(u, g[k]))
        /\ Break(u, g[k]) => s[Place(u, g[k]) - 1] = BLANK
    BY <2>3 DEF Written
  <2>7. /\ Folded(Composed(u, g[k])) = Folded(Composed(t, k))
        /\ Break(u, g[k]) <=> Break(t, k)
    BY <1>3, <2>2
  <2> QED BY <2>1, <2>4, <2>5, <2>6, <2>7
<1> QED BY <1>1, <1>4, <1>5

(* g takes the characters of t to characters of u that say the same, and   *)
(* what else is in u says nothing: it is no letter, and separates at most   *)
(* where something of t does, or before the first or behind the last letter. *)
Says(t, u, g) ==
  /\ \A j \in 1..Len(t) :
       /\ g[j] \in 1..Len(u)
       /\ u[g[j]] \in Alnum <=> t[j] \in Alnum
       /\ Separates(u, g[j]) <=> Separates(t, j)
       /\ t[j] \in Alnum => Folded(Composed(u, g[j])) = Folded(Composed(t, j))
  /\ \A i, j \in 1..Len(t) : i < j => g[i] < g[j]
Idle(t, u, g, x) ==
  /\ u[x] \notin Alnum
  /\ \/ ~Separates(u, x)
     \/ \A j \in 1..Len(t) : x < g[j]
     \/ \A j \in 1..Len(t) : g[j] < x
     \/ \E i \in 1..Len(t) : Separates(t, i) /\ t[i] \notin Alnum /\ g[i] = x + 1
     \/ \E i \in 1..Len(t) : Separates(t, i) /\ t[i] \notin Alnum /\ g[i] = x - 1

LEMMA Order ==
  ASSUME NEW t \in Seq(Char), NEW u \in Seq(Char), NEW g, Says(t, u, g),
         NEW i \in 1..Len(t), NEW j \in 1..Len(t)
  PROVE  /\ i < j <=> g[i] < g[j]
         /\ i = j <=> g[i] = g[j]
<1>1. /\ i < j => g[i] < g[j]
      /\ j < i => g[j] < g[i]
      /\ g[i] \in 1..Len(u) /\ g[j] \in 1..Len(u)
  BY DEF Says
<1> QED BY <1>1

LEMMA SaidMatches ==
  ASSUME NEW t \in Seq(Char), NEW u \in Seq(Char), NEW g, Says(t, u, g),
         \A x \in 1..Len(u) : (\E j \in 1..Len(t) : g[j] = x) \/ Idle(t, u, g, x)
  PROVE  Matches(t, u, g)
<1>1. \A j \in 1..Len(t) :
        /\ g[j] \in 1..Len(u)
        /\ u[g[j]] \in Alnum <=> t[j] \in Alnum
        /\ Separates(u, g[j]) <=> Separates(t, j)
        /\ t[j] \in Alnum => Folded(Composed(u, g[j])) = Folded(Composed(t, j))
  BY DEF Says
<1>2. \A i, j \in 1..Len(t) : (i < j <=> g[i] < g[j]) /\ (i = j <=> g[i] = g[j])
  BY Order
<1>3. \A x \in 1..Len(u) : u[x] \in Alnum => \E j \in 1..Len(t) : g[j] = x /\ t[j] \in Alnum
  BY <1>1 DEF Idle
<1>4. Len(t) \in Nat /\ Len(u) \in Nat  OBVIOUS
<1>5. ASSUME NEW j \in 1..Len(t), t[j] \in Alnum, Break(t, j)
      PROVE  Break(u, g[j])
  <2>1. PICK k \in 1..(j - 1) :
          Separates(t, k) /\ \A i \in (k + 1)..(j - 1) : t[i] \notin Alnum
    BY <1>5 DEF Break, Trailing
  <2>2. PICK b \in 1..(j - 1) : t[b] \in Alnum  BY <1>5 DEF Break
  <2>3. k \in 1..Len(t) /\ b \in 1..Len(t) /\ k < j /\ b < j  BY <1>4
  <2>4. /\ g[k] \in 1..(g[j] - 1) /\ g[b] \in 1..(g[j] - 1)
        /\ g[k] \in Int /\ g[j] \in Int
    BY <1>1, <1>2, <2>3
  <2>5. Separates(u, g[k]) /\ u[g[b]] \in Alnum /\ u[g[j]] \in Alnum
    BY <1>1, <1>5, <2>1, <2>2, <2>3
  <2>6. ASSUME NEW y \in (g[k] + 1)..(g[j] - 1), u[y] \in Alnum PROVE FALSE
    <3>1. y \in 1..Len(u) /\ g[k] < y /\ y < g[j]
      BY <1>1, <1>4, <2>3, <2>4
    <3>2. PICK i \in 1..Len(t) : g[i] = y /\ t[i] \in Alnum
      BY <1>3, <2>6, <3>1
    <3>3. k < i /\ i < j  BY <1>2, <2>3, <3>1, <3>2
    <3>4. i \in (k + 1)..(j - 1)  BY <1>4, <3>3
    <3> QED BY <2>1, <3>2, <3>4
  <2>7. Trailing(u, g[j] - 1)  BY <2>4, <2>5, <2>6 DEF Trailing
  <2> QED BY <2>4, <2>5, <2>7 DEF Break
<1>6. ASSUME NEW j \in 1..Len(t), t[j] \in Alnum, Break(u, g[j])
      PROVE  Break(t, j)
  <2>1. PICK x \in 1..(g[j] - 1) :
          Separates(u, x) /\ \A y \in (x + 1)..(g[j] - 1) : u[y] \notin Alnum
    BY <1>6 DEF Break, Trailing
  <2>2. PICK z \in 1..(g[j] - 1) : u[z] \in Alnum  BY <1>6 DEF Break
  <2>3. /\ x \in 1..Len(u) /\ z \in 1..Len(u) /\ g[j] \in 1..Len(u)
        /\ x < g[j] /\ z < g[j]
    BY <1>1, <1>4
  <2>4. PICK b \in 1..Len(t) : g[b] = z /\ t[b] \in Alnum
    BY <1>3, <2>2, <2>3
  <2>5. b \in 1..(j - 1)
    <3>1. b < j  BY <1>2, <2>3, <2>4
    <3> QED BY <1>4, <3>1
  <2>6. ASSUME NEW y \in 1..Len(t), t[y] \in Alnum, y < j
        PROVE  g[y] \in Int /\ g[y] <= x
    <3>1. g[y] \in 1..Len(u) /\ u[g[y]] \in Alnum /\ g[y] < g[j]
      BY <1>1, <1>2, <2>6
    <3>2. g[y] \notin (x + 1)..(g[j] - 1)  BY <2>1, <3>1
    <3> QED BY <2>3, <3>1, <3>2
  <2>7. ASSUME NEW i \in 1..Len(t), Separates(t, i), i < j,
               \A y \in 1..Len(t) : t[y] \in Alnum /\ y < j => ~(i < y)
        PROVE  Trailing(t, j - 1)
    <3>1. i \in 1..(j - 1)  BY <2>7
    <3>2. \A y \in (i + 1)..(j - 1) : y \in 1..Len(t) /\ y < j /\ i < y
      BY <1>4
    <3>3. \A y \in (i + 1)..(j - 1) : t[y] \notin Alnum  BY <2>7, <3>2
    <3> QED BY <2>7, <3>1, <3>3 DEF Trailing
  <2>8. ASSUME NEW i \in 1..Len(t), g[i] = x PROVE Trailing(t, j - 1)
    <3>1. i < j /\ Separates(t, i)  BY <1>1, <1>2, <2>1, <2>3, <2>8
    <3>2. ASSUME NEW y \in 1..Len(t), t[y] \in Alnum, y < j, i < y PROVE FALSE
      <4>1. g[i] < g[y]  BY <1>2, <3>2
      <4> QED BY <2>3, <2>6, <2>8, <3>2, <4>1
    <3> QED BY <2>7, <3>1, <3>2
  <2>9. ASSUME Idle(t, u, g, x) PROVE Trailing(t, j - 1)
    <3>1. u[x] \notin Alnum  BY <2>9 DEF Idle
    <3>2. ~(\A i \in 1..Len(t) : x < g[i])
      <4>1. g[b] \in Int /\ g[b] <= x  BY <2>4, <2>5, <2>6
      <4> QED BY <2>3, <4>1
    <3>3. ~(\A i \in 1..Len(t) : g[i] < x)  BY <2>3
    <3>4. PICK i \in 1..Len(t) :
            Separates(t, i) /\ t[i] \notin Alnum /\ (g[i] = x + 1 \/ g[i] = x - 1)
      BY <2>1, <2>9, <3>2, <3>3 DEF Idle
    <3>5. i < j
      <4>1. i # j  BY <1>6, <3>4
      <4>2. g[i] # g[j] /\ g[i] \in Int  BY <1>1, <1>2, <4>1
      <4>3. g[i] < g[j]  BY <2>3, <3>4, <4>2
      <4> QED BY <1>2, <4>3
    <3>6. ASSUME NEW y \in 1..Len(t), t[y] \in Alnum, y < j, i < y PROVE FALSE
      <4>1. g[i] < g[y] /\ g[y] \in Int /\ g[y] <= x  BY <1>2, <2>6, <3>6
      <4>2. g[y] # x  BY <1>1, <3>1, <3>6
      <4> QED BY <2>3, <3>4, <4>1, <4>2
    <3> QED BY <2>7, <3>4, <3>5, <3>6
  <2>10. Trailing(t, j - 1)  BY <2>3, <2>8, <2>9
  <2> QED BY <1>6, <2>4, <2>5, <2>10 DEF Break
<1>7. \A j \in Letters(t) : j \in 1..Len(t) /\ t[j] \in Alnum  BY DEF Letters
<1>8. \A x \in 1..Len(u) : u[x] \in Alnum => x \in Letters(u)  BY DEF Letters
<1>9. \A x \in Letters(u) : \E j \in Letters(t) : g[j] = x
  BY <1>3 DEF Letters
<1> QED BY <1>1, <1>2, <1>5, <1>6, <1>7, <1>8, <1>9 DEF Matches

-----------------------------------------------------------------------------
(* The edits that canonical absorbs.                                       *)

(* Equal characters that compose with the same are lowercased the same.    *)
LEMMA SameSeparates ==
  ASSUME NEW t, NEW u, NEW i, NEW j,
         Composed(u, i) = Composed(t, j), Joins(u, i) <=> Joins(t, j)
  PROVE  Separates(u, i) <=> Separates(t, j)
BY DEF Separates

(* What is put in, if it neither is a letter nor composes, and parts no    *)
(* letter from its mark, leaves the other characters what they are.        *)
LEMMA InsertKept ==
  ASSUME NEW t \in Seq(Char), NEW k \in Places(t), ~Joins(t, k),
         NEW c \in Char, c \notin Alnum, c \notin Marks,
         NEW u, u = InsertAt(t, k, c)
  PROVE  /\ \A j \in 1..Len(t) :
              /\ Joins(u, Shift(k, j)) <=> Joins(t, j)
              /\ Composed(u, Shift(k, j)) = Composed(t, j)
         /\ ~Joins(u, k) /\ Composed(u, k) = c
<1>0. /\ u \in Seq(Char) /\ Len(u) = Len(t) + 1 /\ u[k] = c
      /\ k \in 1..Len(u)
      /\ \A j \in 1..Len(t) : u[Shift(k, j)] = t[j]
  <2>1. InsertedIs(t, k, c, u)  BY InsertFacts
  <2> QED BY <2>1 DEF InsertedIs
<1>1. Len(t) \in Nat /\ Len(u) = Len(t) + 1 /\ u[k] = c /\ k \in 1..Len(u)
      /\ \A j \in 1..Len(t) : u[Shift(k, j)] = t[j]
  BY <1>0
<1>2. k \in 1..(Len(t) + 1)  BY DEF Places
<1>3. ~Joins(u, k)  BY <1>1, JoinedFacts
<1>4. ~Joins(u, k + 1)
  <2>1. (k + 1) - 1 = k  BY <1>1
  <2>2. Joins(u, k + 1) => u[(k + 1) - 1] \in Alnum  BY JoinedFacts
  <2> QED BY <1>1, <2>1, <2>2
<1>5. ASSUME NEW j \in 1..(Len(t) + 1)
      PROVE  Joins(u, Shift(k, j)) <=> Joins(t, j)
  <2>1. CASE j = k
    BY <1>1, <1>4, <2>1 DEF Shift
  <2>2. CASE j < k
    <3>1. Shift(k, j) = j  BY <2>2 DEF Shift
    <3>2. j \in 2..Len(t) <=> j \in 2..Len(u)  BY <1>1, <1>2, <2>2
    <3>3. j \in 2..Len(t) => u[j - 1] = t[j - 1] /\ u[j] = t[j]
      <4> SUFFICES ASSUME j \in 2..Len(t) PROVE u[j - 1] = t[j - 1] /\ u[j] = t[j]
        OBVIOUS
      <4>1. Shift(k, j - 1) = j - 1 /\ j - 1 \in 1..Len(t) /\ j \in 1..Len(t)
        BY <1>2, <2>2 DEF Shift
      <4> QED BY <1>1, <3>1, <4>1
    <3> QED BY <3>1, <3>2, <3>3 DEF Joins
  <2>3. CASE j > k
    <3>1. Shift(k, j) = j + 1 /\ (j + 1) - 1 = j  BY <1>2, <2>3 DEF Shift
    <3>2. j \in 2..Len(t) <=> j + 1 \in 2..Len(u)  BY <1>1, <1>2, <2>3
    <3>3. j \in 2..Len(t) => u[j] = t[j - 1] /\ u[j + 1] = t[j]
      <4> SUFFICES ASSUME j \in 2..Len(t) PROVE u[j] = t[j - 1] /\ u[j + 1] = t[j]
        OBVIOUS
      <4>1. Shift(k, j - 1) = j /\ j - 1 \in 1..Len(t) /\ j \in 1..Len(t)
        BY <1>2, <2>3 DEF Shift
      <4> QED BY <1>1, <3>1, <4>1
    <3> QED BY <3>1, <3>2, <3>3 DEF Joins
  <2> QED BY <1>2, <2>1, <2>2, <2>3
<1>6. ASSUME NEW j \in 1..Len(t)
      PROVE  Composed(u, Shift(k, j)) = Composed(t, j)
  <2>1. u[Shift(k, j)] = t[j]  BY <1>1
  <2>2. CASE j + 1 = k
    <3>1. Shift(k, j) = j /\ ~Joins(u, j + 1) /\ ~Joins(t, j + 1)
      BY <1>2, <1>3, <2>2 DEF Shift
    <3> QED BY <2>1, <3>1 DEF Composed
  <2>3. CASE j + 1 # k
    <3>1. Shift(k, j + 1) = Shift(k, j) + 1 /\ j + 1 \in 1..(Len(t) + 1)
      BY <1>1, <1>2, <2>3 DEF Shift
    <3>2. Joins(u, Shift(k, j) + 1) <=> Joins(t, j + 1)  BY <1>5, <3>1
    <3>3. Joins(t, j + 1) => u[Shift(k, j) + 1] = t[j + 1]
      <4> SUFFICES ASSUME Joins(t, j + 1) PROVE u[Shift(k, j) + 1] = t[j + 1]
        OBVIOUS
      <4>1. j + 1 \in 2..Len(t)  BY JoinedFacts
      <4>2. j + 1 \in 1..Len(t)  BY <4>1
      <4> QED BY <1>1, <3>1, <4>2
    <3> QED BY <2>1, <3>2, <3>3 DEF Composed
  <2> QED BY <2>2, <2>3
<1>7. Composed(u, k) = c  BY <1>1, <1>4 DEF Composed
<1>8. \A j \in 1..Len(t) : j \in 1..(Len(t) + 1)  BY <1>1
<1> QED BY <1>3, <1>5, <1>6, <1>7, <1>8

LEMMA InsertSays ==
  ASSUME NEW t \in Seq(Char), NEW k \in Places(t), ~Joins(t, k),
         NEW c \in Char, c \notin Alnum, c \notin Marks,
         NEW u, u = InsertAt(t, k, c),
         NEW g, g = [j \in 1..Len(t) |-> Shift(k, j)]
  PROVE  /\ u \in Seq(Char) /\ Says(t, u, g)
         /\ \A x \in 1..Len(u) : (\E j \in 1..Len(t) : g[j] = x) \/ x = k
<1>0. /\ u \in Seq(Char) /\ Len(u) = Len(t) + 1
      /\ \A j \in 1..Len(t) : u[Shift(k, j)] = t[j]
  <2>1. InsertedIs(t, k, c, u)  BY InsertFacts
  <2> QED BY <2>1 DEF InsertedIs
<1>1. /\ u \in Seq(Char) /\ Len(u) = Len(t) + 1
      /\ Len(t) \in Nat
      /\ \A j \in 1..Len(t) : u[Shift(k, j)] = t[j]
  BY <1>0
<1>2. k \in 1..(Len(t) + 1)  BY DEF Places
<1>3. \A j \in 1..Len(t) :
        /\ Joins(u, Shift(k, j)) <=> Joins(t, j)
        /\ Composed(u, Shift(k, j)) = Composed(t, j)
  BY InsertKept
<1>4. \A j \in 1..Len(t) : Separates(u, Shift(k, j)) <=> Separates(t, j)
  BY <1>3, SameSeparates
<1>5. /\ \A j \in 1..Len(t) : Shift(k, j) \in 1..Len(u)
      /\ \A i, j \in 1..Len(t) : i < j => Shift(k, i) < Shift(k, j)
  BY <1>1, <1>2 DEF Shift
<1>6. Says(t, u, g)  BY <1>1, <1>3, <1>4, <1>5 DEF Says
<1>7. ASSUME NEW x \in 1..Len(u), x # k PROVE \E j \in 1..Len(t) : g[j] = x
  <2>1. CASE x < k
    <3>1. x \in 1..Len(t) /\ Shift(k, x) = x  BY <1>1, <1>2, <2>1 DEF Shift
    <3> QED BY <3>1
  <2>2. CASE x > k
    <3>1. x - 1 \in 1..Len(t) /\ Shift(k, x - 1) = x  BY <1>1, <1>2, <2>2 DEF Shift
    <3> QED BY <3>1
  <2> QED BY <1>2, <1>7, <2>1, <2>2
<1> QED BY <1>1, <1>6, <1>7

LEMMA InjectionAbsorbed ==
  ASSUME NEW t \in Seq(Char), NEW u, Injected(t, u)
  PROVE  u \in Seq(Char) /\ \E g : Matches(t, u, g)
<1>1. PICK k \in Places(t), c \in ZeroWidth :
        ~MarkAt(t, k) /\ u = InsertAt(t, k, c)
  BY DEF Injected
<1>2. c \in Char /\ c \notin Alnum /\ c \notin Marks
  BY CharAssumption DEF Char
<1>3. ~Joins(t, k)
  <2>1. Joins(t, k) => k \in 2..Len(t) /\ t[k] \in Marks  BY JoinedFacts
  <2>2. Len(t) \in Nat  OBVIOUS
  <2>3. k \in 2..Len(t) => k <= Len(t)  BY <2>2
  <2> QED BY <1>1, <2>1, <2>3 DEF MarkAt
<1> DEFINE g == [j \in 1..Len(t) |-> Shift(k, j)]
<1>4. g = [j \in 1..Len(t) |-> Shift(k, j)]  OBVIOUS
<1> HIDE DEF g
<1>5. /\ u \in Seq(Char) /\ Says(t, u, g)
      /\ \A x \in 1..Len(u) : (\E j \in 1..Len(t) : g[j] = x) \/ x = k
  BY <1>1, <1>2, <1>3, <1>4, InsertSays
<1>6. Idle(t, u, g, k)
  <2>1. u[k] = c  BY <1>1, <1>2, InsertFacts DEF InsertedIs
  <2>2. Composed(u, k) = c  BY <1>1, <1>2, <1>3, InsertKept
  <2> QED BY <1>2, <2>1, <2>2 DEF Idle, Separates
<1>7. Matches(t, u, g)  BY <1>5, <1>6, SaidMatches
<1> QED BY <1>5, <1>7

LEMMA SeparatorFacts ==
  ASSUME NEW t \in Seq(Char), NEW i \in 1..Len(t), t[i] \in Separators
  PROVE  t[i] \notin Alnum /\ ~Joins(t, i) /\ ~Joins(t, i + 1) /\ Separates(t, i)
<1>1. t[i] \notin Alnum /\ t[i] \notin Marks /\ t[i] \notin ZeroWidth
  BY CharAssumption
<1>2. ~Joins(t, i)  BY <1>1, JoinedFacts
<1>3. ~Joins(t, i + 1)  BY <1>1, ComposedFacts
<1> QED BY <1>1, <1>2, <1>3, SeparatesFacts

LEMMA SeparatorInserted ==
  ASSUME NEW t \in Seq(Char), NEW k \in Places(t), AtSeparator(t, k),
         NEW c \in Separators, NEW u, u = InsertAt(t, k, c)
  PROVE  u \in Seq(Char) /\ \E g : Matches(t, u, g)
<1>1. c \in Char /\ c \notin Alnum /\ c \notin Marks
  BY CharAssumption DEF Char, Separators
<1>2. k \in 1..(Len(t) + 1) /\ Len(t) \in Nat  BY DEF Places
<1>3. ~Joins(t, k)
  <2>1. CASE k = 1 \/ k = Len(t) + 1  BY <1>2, <2>1 DEF Joins
  <2>2. CASE k \in 2..Len(t) /\ t[k] \in Separators
    BY <2>2, SeparatorFacts
  <2>3. CASE k \in 2..Len(t) /\ t[k - 1] \in Separators
    <3>1. k - 1 \in 1..Len(t) /\ (k - 1) + 1 = k  BY <1>2, <2>3
    <3> QED BY <2>3, <3>1, SeparatorFacts
  <2> QED BY <1>2, <2>1, <2>2, <2>3 DEF AtSeparator
<1> DEFINE g == [j \in 1..Len(t) |-> Shift(k, j)]
<1>4. g = [j \in 1..Len(t) |-> Shift(k, j)]  OBVIOUS
<1> HIDE DEF g
<1>5. /\ u \in Seq(Char) /\ Says(t, u, g)
      /\ \A x \in 1..Len(u) : (\E j \in 1..Len(t) : g[j] = x) \/ x = k
  BY <1>1, <1>3, <1>4, InsertSays
<1>6. u[k] = c  BY <1>1, InsertFacts DEF InsertedIs
<1>7. \A j \in 1..Len(t) : g[j] = Shift(k, j)  BY <1>4
<1>8. Idle(t, u, g, k)
  <2>1. CASE k = 1
    <3>1. \A j \in 1..Len(t) : k < g[j]  BY <1>7, <2>1 DEF Shift
    <3> QED BY <1>1, <1>6, <3>1 DEF Idle
  <2>2. CASE k = Len(t) + 1
    <3>1. \A j \in 1..Len(t) : g[j] < k  BY <1>2, <1>7, <2>2 DEF Shift
    <3> QED BY <1>1, <1>6, <3>1 DEF Idle
  <2>3. CASE k \in 2..Len(t) /\ t[k] \in Separators
    <3>1. k \in 1..Len(t)  BY <1>2, <2>3
    <3>2. g[k] = k + 1  BY <1>2, <1>7, <3>1 DEF Shift
    <3>3. Separates(t, k) /\ t[k] \notin Alnum  BY <2>3, <3>1, SeparatorFacts
    <3> QED BY <1>1, <1>6, <3>1, <3>2, <3>3 DEF Idle
  <2>4. CASE k \in 2..Len(t) /\ t[k - 1] \in Separators
    <3>1. k - 1 \in 1..Len(t)  BY <1>2, <2>4
    <3>2. g[k - 1] = k - 1  BY <1>2, <1>7, <3>1 DEF Shift
    <3>3. Separates(t, k - 1) /\ t[k - 1] \notin Alnum  BY <2>4, <3>1, SeparatorFacts
    <3> QED BY <1>1, <1>6, <3>1, <3>2, <3>3 DEF Idle
  <2> QED BY <1>2, <2>1, <2>2, <2>3, <2>4 DEF AtSeparator
<1>9. Matches(t, u, g)  BY <1>5, <1>8, SaidMatches
<1> QED BY <1>5, <1>9

(* What replaces a character, if neither composes with what is before it   *)
(* and both or neither with what is behind it, leaves the others as they are. *)
LEMMA ReplaceKept ==
  ASSUME NEW t \in Seq(Char), NEW k \in 1..Len(t), NEW c \in Char,
         NEW u, u = ReplaceAt(t, k, c),
         ~Joins(t, k), ~Joins(u, k), Joins(u, k + 1) <=> Joins(t, k + 1)
  PROVE  /\ \A j \in 1..Len(t) : Joins(u, j) <=> Joins(t, j)
         /\ \A j \in 1..Len(t) : j # k => Composed(u, j) = Composed(t, j)
<1>1. /\ u \in Seq(Char) /\ Len(u) = Len(t) /\ Len(t) \in Nat
      /\ \A j \in 1..Len(t) : j # k => u[j] = t[j]
  BY DEF ReplaceAt
<1>2. ASSUME NEW j \in 1..(Len(t) + 1) PROVE Joins(u, j) <=> Joins(t, j)
  <2>1. CASE j = k  BY <2>1
  <2>2. CASE j = k + 1  BY <2>2
  <2>3. CASE j # k /\ j # k + 1
    <3>1. j \in 2..Len(t) => u[j] = t[j] /\ u[j - 1] = t[j - 1]
      <4> SUFFICES ASSUME j \in 2..Len(t) PROVE u[j] = t[j] /\ u[j - 1] = t[j - 1]
        OBVIOUS
      <4>1. /\ j \in 1..Len(t) /\ j - 1 \in 1..Len(t)
            /\ j # k /\ j - 1 # k
        BY <1>1, <2>3
      <4> QED BY <1>1, <4>1
    <3> QED BY <1>1, <3>1 DEF Joins
  <2> QED BY <2>1, <2>2, <2>3
<1>3. ASSUME NEW j \in 1..Len(t), j # k PROVE Composed(u, j) = Composed(t, j)
  <2>1. u[j] = t[j]  BY <1>1, <1>3
  <2>2. j + 1 \in 1..(Len(t) + 1)  BY <1>1
  <2>3. Joins(u, j + 1) <=> Joins(t, j + 1)  BY <1>2, <2>2
  <2>4. Joins(t, j + 1) => u[j + 1] = t[j + 1]
    <3> SUFFICES ASSUME Joins(t, j + 1) PROVE u[j + 1] = t[j + 1]  OBVIOUS
    <3>1. j + 1 \in 2..Len(t) /\ j + 1 # k  BY JoinedFacts
    <3>2. j + 1 \in 1..Len(t)  BY <3>1
    <3> QED BY <1>1, <3>1, <3>2
  <2> QED BY <2>1, <2>3, <2>4 DEF Composed
<1>4. \A j \in 1..Len(t) : j \in 1..(Len(t) + 1)  BY <1>1
<1> QED BY <1>2, <1>3, <1>4

(* ... and if it says the same, the stream stays. *)
LEMMA ReplaceAbsorbed ==
  ASSUME NEW t \in Seq(Char), NEW k \in 1..Len(t), NEW c \in Char,
         NEW u, u = ReplaceAt(t, k, c),
         ~Joins(t, k), ~Joins(u, k), Joins(u, k + 1) <=> Joins(t, k + 1),
         c \in Alnum <=> t[k] \in Alnum,
         Separates(u, k) <=> Separates(t, k),
         t[k] \in Alnum => Folded(Composed(u, k)) = Folded(Composed(t, k))
  PROVE  u \in Seq(Char) /\ \E g : Matches(t, u, g)
<1>1. /\ u \in Seq(Char) /\ Len(u) = Len(t) /\ u[k] = c
      /\ \A j \in 1..Len(t) : j # k => u[j] = t[j]
  BY DEF ReplaceAt
<1>2. /\ \A j \in 1..Len(t) : Joins(u, j) <=> Joins(t, j)
      /\ \A j \in 1..Len(t) : j # k => Composed(u, j) = Composed(t, j)
  BY ReplaceKept
<1>3. \A j \in 1..Len(t) : Separates(u, j) <=> Separates(t, j)
  BY <1>2, SameSeparates
<1> DEFINE g == [j \in 1..Len(t) |-> j]
<1>4. Says(t, u, g)  BY <1>1, <1>2, <1>3 DEF Says
<1>5. \A x \in 1..Len(u) : \E j \in 1..Len(t) : g[j] = x  BY <1>1
<1> HIDE DEF g
<1>6. Matches(t, u, g)  BY <1>1, <1>4, <1>5, SaidMatches
<1> QED BY <1>1, <1>6

LEMMA SeparatorReplaced ==
  ASSUME NEW t \in Seq(Char), NEW k \in 1..Len(t), t[k] \in Separators,
         NEW c \in Separators, NEW u, u = ReplaceAt(t, k, c)
  PROVE  u \in Seq(Char) /\ \E g : Matches(t, u, g)
<1>1. c \in Char /\ c \notin Alnum  BY CharAssumption DEF Char, Separators
<1>2. u \in Seq(Char) /\ Len(u) = Len(t) /\ u[k] = c  BY <1>1 DEF ReplaceAt
<1>3. t[k] \notin Alnum /\ ~Joins(t, k) /\ ~Joins(t, k + 1) /\ Separates(t, k)
  BY SeparatorFacts
<1>4. ~Joins(u, k) /\ ~Joins(u, k + 1) /\ Separates(u, k)
  BY <1>2, SeparatorFacts
<1> QED BY <1>1, <1>3, <1>4, ReplaceAbsorbed

LEMMA FormattingAbsorbed ==
  ASSUME NEW t \in Seq(Char), NEW u, Formatted(t, u)
  PROVE  u \in Seq(Char) /\ \E g : Matches(t, u, g)
BY SeparatorInserted, SeparatorReplaced DEF Formatted

LEMMA CaseAbsorbed ==
  ASSUME NEW t \in Seq(Char), NEW u, CaseChanged(t, u)
  PROVE  u \in Seq(Char) /\ \E g : Matches(t, u, g)
<1>1. PICK k \in 1..Len(t) :
        t[k] \in Alnum /\ CaseKept(t[k]) /\ u = ReplaceAt(t, k, Upper(t[k]))
  BY DEF CaseChanged
<1> DEFINE c == Upper(t[k])
<1>2. c \in Alnum /\ c \in Char /\ u = ReplaceAt(t, k, c)
  BY <1>1, UpperAssumption DEF Char
<1>3. /\ Lower(c) = Lower(t[k])
      /\ \A m \in Marks :
           /\ <<t[k], m>> \in DOMAIN Composite <=> <<c, m>> \in DOMAIN Composite
           /\ <<t[k], m>> \in DOMAIN Composite =>
                Lower(Composite[<<c, m>>]) = Lower(Composite[<<t[k], m>>])
  BY <1>1 DEF CaseKept
<1> HIDE DEF c
<1>4. /\ u \in Seq(Char) /\ Len(u) = Len(t) /\ u[k] = c /\ Len(t) \in Nat
      /\ \A j \in 1..Len(t) : j # k => u[j] = t[j]
  BY <1>2 DEF ReplaceAt
<1>5. ~Joins(t, k) /\ ~Joins(u, k)
  BY <1>1, <1>2, <1>4, JoinedFacts
<1>6. (k + 1) - 1 = k /\ (k + 1 \in 2..Len(t) => k + 1 \in 1..Len(t) /\ k + 1 # k)
  BY <1>4
<1>7. k + 1 \in 2..Len(t) => u[k + 1] = t[k + 1]  BY <1>4, <1>6
<1>8. Joins(u, k + 1) <=> Joins(t, k + 1)
  <2>1. Joins(t, k + 1) => /\ k + 1 \in 2..Len(t) /\ t[k + 1] \in Marks
                           /\ <<t[k], t[k + 1]>> \in DOMAIN Composite
    BY <1>6, JoinedFacts
  <2>2. Joins(u, k + 1) => /\ k + 1 \in 2..Len(u) /\ u[k + 1] \in Marks
                           /\ <<u[k], u[k + 1]>> \in DOMAIN Composite
    BY <1>6, JoinedFacts
  <2>3. Joins(t, k + 1) <=> /\ k + 1 \in 2..Len(t)
                            /\ <<t[k], t[k + 1]>> \in DOMAIN Composite
    BY <1>6 DEF Joins
  <2>4. Joins(u, k + 1) <=> /\ k + 1 \in 2..Len(u)
                            /\ <<u[k], u[k + 1]>> \in DOMAIN Composite
    BY <1>6 DEF Joins
  <2> QED BY <1>3, <1>4, <1>7, <2>1, <2>2, <2>3, <2>4
<1>9. Lower(Composed(u, k)) = Lower(Composed(t, k))
  <2>1. CASE Joins(t, k + 1)
    <3>1. /\ k + 1 \in 2..Len(t) /\ t[k + 1] \in Marks
          /\ <<t[k], t[k + 1]>> \in DOMAIN Composite
      BY <1>6, <2>1, JoinedFacts
    <3>2. /\ Composed(t, k) = Composite[<<t[k], t[k + 1]>>]
          /\ Composed(u, k) = Composite[<<c, t[k + 1]>>]
      BY <1>4, <1>7, <1>8, <2>1, <3>1 DEF Composed
    <3> QED BY <1>3, <3>1, <3>2
  <2>2. CASE ~Joins(t, k + 1)
    BY <1>3, <1>4, <1>8, <2>2 DEF Composed
  <2> QED BY <2>1, <2>2
<1>10. Separates(u, k) <=> Separates(t, k)
  <2>1. /\ Separates(t, k) <=> Len(Lower(Composed(t, k))) > 1
        /\ Separates(u, k) <=> Len(Lower(Composed(u, k))) > 1
    BY <1>1, <1>2, <1>4, SeparatesFacts
  <2> QED BY <1>9, <2>1
<1>11. Folded(Composed(u, k)) = Folded(Composed(t, k))  BY <1>9 DEF Folded
<1> QED BY <1>1, <1>2, <1>5, <1>8, <1>10, <1>11, ReplaceAbsorbed

LEMMA DecompositionAbsorbed ==
  ASSUME NEW t \in Seq(Char), NEW u, Decomposes(t, u)
  PROVE  u \in Seq(Char) /\ \E g : Matches(t, u, g)
<1>1. PICK k \in 1..Len(t), c \in Alnum, m \in Marks :
        /\ <<c, m>> \in DOMAIN Composite /\ t[k] = Composite[<<c, m>>]
        /\ u = Decomposed(t, k, c, m)
  BY DEF Decomposes
<1>2. c \in Char /\ m \in Char /\ m \notin Alnum
  BY CharAssumption DEF Char
<1>3. /\ u \in Seq(Char) /\ Len(u) = Len(t) + 1 /\ u[k] = c /\ u[k + 1] = m
      /\ \A j \in 1..Len(t) : j # k => u[Shift(k + 1, j)] = t[j]
  <2>1. u = Decomposed(t, k, c, m) /\ c \in Char /\ m \in Char  BY <1>1, <1>2
  <2>2. DecomposedIs(t, k, c, m, u)  BY <2>1, DecomposeFacts
  <2> QED BY <2>2 DEF DecomposedIs
<1>4. k \in Nat /\ 1 <= k /\ k <= Len(t) /\ Len(t) \in Nat  OBVIOUS
<1>5. t[k] \in Alnum /\ \A q \in DOMAIN Composite : t[k] # q[1]
  BY <1>1, CompositeAssumption
<1>6. ~Joins(t, k) /\ ~Joins(u, k)
  BY <1>3, <1>5, JoinedFacts
<1>7. ~Joins(t, k + 1)
  <2>1. (k + 1) - 1 = k  BY <1>4
  <2>2. Joins(t, k + 1) => <<t[(k + 1) - 1], t[k + 1]>> \in DOMAIN Composite
    BY DEF Joins
  <2>3. <<t[k], t[k + 1]>>[1] = t[k]  OBVIOUS
  <2> QED BY <1>5, <2>1, <2>2, <2>3
<1>8. Joins(u, k + 1) /\ ~Joins(u, k + 2)
  <2>1. k + 1 \in 2..Len(u) /\ (k + 1) - 1 = k /\ (k + 2) - 1 = k + 1
    BY <1>3, <1>4
  <2>2. Joins(u, k + 1)  BY <1>1, <1>3, <2>1 DEF Joins
  <2>3. Joins(u, k + 2) => u[(k + 2) - 1] \in Alnum  BY JoinedFacts
  <2> QED BY <1>2, <1>3, <2>1, <2>2, <2>3
<1>9. ASSUME NEW j \in 1..(Len(t) + 1)
      PROVE  Joins(u, Shift(k + 1, j)) <=> Joins(t, j)
  <2>1. CASE j = k
    <3>1. Shift(k + 1, j) = k  BY <1>4, <2>1 DEF Shift
    <3> QED BY <1>6, <2>1, <3>1
  <2>2. CASE j = k + 1
    <3>1. Shift(k + 1, j) = k + 2  BY <1>4, <2>2 DEF Shift
    <3> QED BY <1>7, <1>8, <2>2, <3>1
  <2>3. CASE j < k
    <3>1. Shift(k + 1, j) = j  BY <1>4, <2>3 DEF Shift
    <3>2. j \in 2..Len(t) <=> j \in 2..Len(u)  BY <1>3, <1>4, <2>3
    <3>3. j \in 2..Len(t) => u[j - 1] = t[j - 1] /\ u[j] = t[j]
      <4> SUFFICES ASSUME j \in 2..Len(t) PROVE u[j - 1] = t[j - 1] /\ u[j] = t[j]
        OBVIOUS
      <4>1. /\ Shift(k + 1, j - 1) = j - 1 /\ j - 1 \in 1..Len(t) /\ j \in 1..Len(t)
            /\ j - 1 # k /\ j # k
        BY <1>4, <2>3 DEF Shift
      <4> QED BY <1>3, <3>1, <4>1
    <3> QED BY <3>1, <3>2, <3>3 DEF Joins
  <2>4. CASE j > k + 1
    <3>1. Shift(k + 1, j) = j + 1 /\ (j + 1) - 1 = j  BY <1>4, <2>4 DEF Shift
    <3>2. j \in 2..Len(t) <=> j + 1 \in 2..Len(u)  BY <1>3, <1>4, <2>4
    <3>3. j \in 2..Len(t) => u[j] = t[j - 1] /\ u[j + 1] = t[j]
      <4> SUFFICES ASSUME j \in 2..Len(t) PROVE u[j] = t[j - 1] /\ u[j + 1] = t[j]
        OBVIOUS
      <4>1. /\ Shift(k + 1, j - 1) = j /\ j - 1 \in 1..Len(t) /\ j \in 1..Len(t)
            /\ j - 1 # k /\ j # k
        BY <1>4, <2>4 DEF Shift
      <4> QED BY <1>3, <3>1, <4>1
    <3> QED BY <3>1, <3>2, <3>3 DEF Joins
  <2> QED BY <1>4, <2>1, <2>2, <2>3, <2>4
<1>10. ASSUME NEW j \in 1..Len(t)
       PROVE  Composed(u, Shift(k + 1, j)) = Composed(t, j)
  <2>1. CASE j = k
    <3>1. Shift(k + 1, j) = k  BY <1>4, <2>1 DEF Shift
    <3>2. Composed(u, k) = Composite[<<c, m>>]  BY <1>3, <1>8 DEF Composed
    <3>3. Composed(t, k) = t[k]  BY <1>7 DEF Composed
    <3> QED BY <1>1, <2>1, <3>1, <3>2, <3>3
  <2>2. CASE j + 1 = k
    <3>1. Shift(k + 1, j) = j /\ j # k  BY <1>4, <2>2 DEF Shift
    <3>2. u[j] = t[j]  BY <1>3, <3>1
    <3> QED BY <1>6, <2>2, <3>1, <3>2 DEF Composed
  <2>3. CASE j # k /\ j + 1 # k
    <3>1. /\ Shift(k + 1, j + 1) = Shift(k + 1, j) + 1
          /\ j + 1 \in 1..(Len(t) + 1)
      BY <1>4, <2>3 DEF Shift
    <3>2. Joins(u, Shift(k + 1, j) + 1) <=> Joins(t, j + 1)  BY <1>9, <3>1
    <3>3. Joins(t, j + 1) => u[Shift(k + 1, j) + 1] = t[j + 1]
      <4> SUFFICES ASSUME Joins(t, j + 1) PROVE u[Shift(k + 1, j) + 1] = t[j + 1]
        OBVIOUS
      <4>1. j + 1 \in 2..Len(t)  BY JoinedFacts
      <4>2. j + 1 \in 1..Len(t)  BY <4>1
      <4> QED BY <1>3, <2>3, <3>1, <4>2
    <3>4. u[Shift(k + 1, j)] = t[j]  BY <1>3, <2>3
    <3> QED BY <3>2, <3>3, <3>4 DEF Composed
  <2> QED BY <2>1, <2>2, <2>3
<1> DEFINE g == [j \in 1..Len(t) |-> Shift(k + 1, j)]
<1>11. Says(t, u, g)
  <2>1. \A j \in 1..Len(t) : j \in 1..(Len(t) + 1)  BY <1>4
  <2>2. \A j \in 1..Len(t) : Joins(u, Shift(k + 1, j)) <=> Joins(t, j)
    BY <1>9, <2>1
  <2>3. \A j \in 1..Len(t) : Separates(u, Shift(k + 1, j)) <=> Separates(t, j)
    BY <1>10, <2>2, SameSeparates
  <2>4. /\ \A j \in 1..Len(t) : Shift(k + 1, j) \in 1..Len(u)
        /\ \A i, j \in 1..Len(t) : i < j => Shift(k + 1, i) < Shift(k + 1, j)
        /\ Shift(k + 1, k) = k
    BY <1>3, <1>4 DEF Shift
  <2>5. \A j \in 1..Len(t) : u[Shift(k + 1, j)] \in Alnum <=> t[j] \in Alnum
    BY <1>3, <1>5, <2>4
  <2> QED BY <1>10, <2>3, <2>4, <2>5 DEF Says
<1>12. ASSUME NEW x \in 1..Len(u), x # k + 1 PROVE \E j \in 1..Len(t) : g[j] = x
  <2>1. CASE x < k + 1
    <3>1. x \in 1..Len(t) /\ Shift(k + 1, x) = x  BY <1>4, <2>1 DEF Shift
    <3> QED BY <3>1
  <2>2. CASE x > k + 1
    <3>1. x - 1 \in 1..Len(t) /\ Shift(k + 1, x - 1) = x
      BY <1>3, <1>4, <2>2 DEF Shift
    <3> QED BY <3>1
  <2> QED BY <1>4, <1>12, <2>1, <2>2
<1>13. Idle(t, u, g, k + 1)
  BY <1>2, <1>3, <1>8 DEF Idle, Separates
<1> HIDE DEF g
<1>14. \A x \in 1..Len(u) : (\E j \in 1..Len(t) : g[j] = x) \/ Idle(t, u, g, x)
  BY <1>12, <1>13
<1>15. Matches(t, u, g)  BY <1>3, <1>11, <1>14, SaidMatches
<1> QED BY <1>3, <1>15

(* The stream of a stream.                                                 *)
LEMMA StreamAbsorbed ==
  ASSUME NEW t \in Seq(Char), NEW r, Written(t, Len(t), r)
  PROVE  r \in Seq(Char) /\ \E g : Matches(t, r, g)
<1>1. /\ r \in Seq(Alnum \cup {BLANK}) /\ r \in Seq(Char)
      /\ Len(r) = Place(t, Len(t)) /\ Len(r) \in Nat /\ Len(t) \in Nat
  BY CharSets DEF Written
<1>2. BLANK \notin Alnum /\ BLANK \in Separators /\ BLANK \notin Marks
  BY CharAssumption DEF Separators
<1>3. \A k \in 1..Len(t) : t[k] \in Alnum =>
        /\ r[Place(t, k)] = Folded(Composed(t, k))
        /\ Break(t, k) => r[Place(t, k) - 1] = BLANK
  BY DEF Written
<1>4. \A k \in 1..Len(t) : t[k] \in Alnum =>
        /\ Folded(Composed(t, k)) \in Alnum
        /\ Lower(Folded(Composed(t, k))) = << Folded(Composed(t, k)) >>
  BY ComposedFacts, LowerFacts
<1>5. \A x \in 1..Len(r) : r[x] \in Alnum \/ r[x] = BLANK  BY <1>1
<1>6. \A x : ~Joins(r, x)
  <2> SUFFICES ASSUME NEW x, Joins(r, x) PROVE FALSE  OBVIOUS
  <2>1. x \in 2..Len(r) /\ r[x] \in Marks /\ r[x] \notin Alnum  BY JoinedFacts
  <2>2. x \in 1..Len(r)  BY <2>1
  <2> QED BY <1>2, <1>5, <2>1, <2>2
<1>7. \A x : Composed(r, x) = r[x]  BY <1>6 DEF Composed
<1>8. ASSUME NEW k \in 1..Len(t), t[k] \in Alnum
      PROVE  /\ Place(t, k) \in 1..Len(r)
             /\ Break(t, k) => Place(t, k) - 1 \in 1..Len(r)
             /\ \A j \in 0..(k - 1) :
                  /\ Place(t, j) < Place(t, k)
                  /\ Break(t, k) => Place(t, j) < Place(t, k) - 1
  <2>1. Len(t) \in Nat  OBVIOUS
  <2> QED BY <1>1, <1>8, <2>1, LetterPlaces
<1>9. ASSUME NEW x \in 1..Len(r), r[x] \in Alnum
      PROVE  \E k \in 1..Len(t) : t[k] \in Alnum /\ x = Place(t, k)
  <2>1. PICK k \in 1..Len(t) :
          /\ t[k] \in Alnum
          /\ x = Place(t, k) \/ (Break(t, k) /\ x = Place(t, k) - 1)
    BY DEF Written
  <2> QED BY <1>2, <1>3, <1>9, <2>1
<1>10. ASSUME NEW x \in 1..Len(r), r[x] \notin Alnum
       PROVE  \E k \in 1..Len(t) :
                t[k] \in Alnum /\ Break(t, k) /\ x = Place(t, k) - 1
  <2>1. PICK k \in 1..Len(t) :
          /\ t[k] \in Alnum
          /\ x = Place(t, k) \/ (Break(t, k) /\ x = Place(t, k) - 1)
    BY DEF Written
  <2> QED BY <1>3, <1>4, <1>10, <2>1
<1>11. ASSUME NEW x \in 1..Len(r), r[x] \in Alnum PROVE ~Separates(r, x)
  <2>1. PICK k \in 1..Len(t) : t[k] \in Alnum /\ x = Place(t, k)
    BY <1>9, <1>11
  <2>2. Lower(r[x]) = << r[x] >>  BY <1>3, <1>4, <2>1
  <2>3. Len(Lower(Composed(r, x))) = 1  BY <1>7, <2>2
  <2>4. Separates(r, x) <=> Len(Lower(Composed(r, x))) > 1
    BY <1>1, <1>11, SeparatesFacts
  <2> QED BY <2>3, <2>4
<1>12. ASSUME NEW k \in 1..Len(t), t[k] \in Alnum, Break(t, k)
       PROVE  Break(r, Place(t, k))
  <2>1. /\ r[Place(t, k)] \in Alnum /\ r[Place(t, k) - 1] = BLANK
        /\ Place(t, k) \in 1..Len(r) /\ Place(t, k) - 1 \in 1..Len(r)
    BY <1>3, <1>4, <1>8, <1>12
  <2> DEFINE x == Place(t, k) - 1
  <2>2. Separates(r, x)  BY <1>1, <1>2, <2>1, SeparatorFacts
  <2>3. x \in 1..x /\ (x + 1)..x = {}  BY <2>1
  <2>4. Trailing(r, x)  BY <2>2, <2>3 DEF Trailing
  <2>5. PICK i \in 1..(k - 1) : t[i] \in Alnum  BY <1>12 DEF Break
  <2>6. i \in 1..Len(t) /\ i \in 0..(k - 1)  BY <1>1
  <2>7. Place(t, i) \in 1..Len(r) /\ Place(t, i) < Place(t, k)
    BY <1>8, <1>12, <2>5, <2>6
  <2>8. r[Place(t, i)] \in Alnum  BY <1>3, <1>4, <2>5, <2>6
  <2>9. Place(t, i) \in 1..x  BY <2>1, <2>7
  <2> QED BY <2>1, <2>4, <2>8, <2>9 DEF Break
<1>13. ASSUME NEW k \in 1..Len(t), t[k] \in Alnum, Break(r, Place(t, k))
       PROVE  Break(t, k)
  <2>1. PICK x \in 1..(Place(t, k) - 1) :
          /\ Separates(r, x)
          /\ \A y \in (x + 1)..(Place(t, k) - 1) : r[y] \notin Alnum
    BY <1>13 DEF Break, Trailing
  <2>2. Place(t, k) \in 1..Len(r)  BY <1>8, <1>13
  <2>3. x \in 1..Len(r) /\ x < Place(t, k)  BY <1>1, <2>2
  <2>4. r[x] \notin Alnum  BY <1>11, <2>1, <2>3
  <2>5. PICK b \in 1..Len(t) :
          t[b] \in Alnum /\ Break(t, b) /\ x = Place(t, b) - 1
    BY <1>10, <2>3, <2>4
  <2>6. Place(t, b) \in 1..Len(r) /\ r[Place(t, b)] \in Alnum
    BY <1>3, <1>4, <1>8, <2>5
  <2>7. ~(b < k)
    <3> SUFFICES ASSUME b < k PROVE FALSE  OBVIOUS
    <3>1. b \in 0..(k - 1)  OBVIOUS
    <3>2. Place(t, b) < Place(t, k)  BY <1>8, <1>13, <3>1
    <3>3. Place(t, b) \in (x + 1)..(Place(t, k) - 1)  BY <2>2, <2>5, <2>6, <3>2
    <3> QED BY <2>1, <2>6, <3>3
  <2>8. ~(k < b)
    <3> SUFFICES ASSUME k < b PROVE FALSE  OBVIOUS
    <3>1. k \in 0..(b - 1)  OBVIOUS
    <3>2. Place(t, k) < Place(t, b) - 1  BY <1>8, <2>5, <3>1
    <3> QED BY <2>2, <2>3, <2>5, <2>6, <3>2
  <2>9. b = k  BY <2>7, <2>8
  <2> QED BY <2>5, <2>9
<1> DEFINE g == [j \in 1..Len(t) |-> Place(t, j)]
<1>14. \A k \in Letters(t) : k \in 1..Len(t) /\ t[k] \in Alnum /\ g[k] = Place(t, k)
  BY DEF Letters
<1> HIDE DEF g
<1>15. \A j \in Letters(t) :
         /\ g[j] \in Letters(r)
         /\ Folded(Composed(r, g[j])) = Folded(Composed(t, j))
         /\ Break(r, g[j]) <=> Break(t, j)
  <2> TAKE j \in Letters(t)
  <2>1. j \in 1..Len(t) /\ t[j] \in Alnum /\ g[j] = Place(t, j)  BY <1>14
  <2> DEFINE l == Folded(Composed(t, j))
  <2>2. r[g[j]] = l /\ l \in Alnum /\ Lower(l) = << l >>  BY <1>3, <1>4, <2>1
  <2>3. g[j] \in Letters(r)  BY <1>8, <2>1, <2>2 DEF Letters
  <2>4. Folded(Composed(r, g[j])) = Folded(l)  BY <1>7, <2>2
  <2>5. Folded(l) = l
    <3> HIDE DEF l
    <3> QED BY <2>2 DEF Folded
  <2>6. Break(r, g[j]) <=> Break(t, j)  BY <1>12, <1>13, <2>1
  <2> QED BY <2>3, <2>4, <2>5, <2>6
<1>16. \A i, j \in Letters(t) : i < j => g[i] < g[j]
  <2> TAKE i, j \in Letters(t)
  <2> SUFFICES ASSUME i < j PROVE g[i] < g[j]  OBVIOUS
  <2>1. i \in 1..Len(t) /\ j \in 1..Len(t) /\ t[j] \in Alnum
        /\ g[i] = Place(t, i) /\ g[j] = Place(t, j)
    BY <1>14
  <2>2. i \in 0..(j - 1)  BY <2>1
  <2> QED BY <1>8, <2>1, <2>2
<1>17. \A x \in Letters(r) : \E j \in Letters(t) : g[j] = x
  <2> TAKE x \in Letters(r)
  <2>1. x \in 1..Len(r) /\ r[x] \in Alnum  BY DEF Letters
  <2>2. PICK k \in 1..Len(t) : t[k] \in Alnum /\ x = Place(t, k)  BY <1>9, <2>1
  <2>3. k \in Letters(t)  BY <2>2 DEF Letters
  <2> QED BY <1>14, <2>2, <2>3
<1>18. Matches(t, r, g)  BY <1>15, <1>16, <1>17 DEF Matches
<1> QED BY <1>1, <1>18

LEMMA Absorbs ==
  ASSUME NEW t \in Seq(Char), NEW r, Written(t, Len(t), r), NEW kind \in Absorbed,
         NEW u, u \in Edited(kind, t, r)
  PROVE  u \in Seq(Char) /\ \E g : Matches(t, u, g)
<1>1. CASE kind \in {"spacing", "punctuation"}
  <2>1. Formatted(t, u)  BY <1>1, FormattingCases
  <2> QED BY ONLY <2>1, t \in Seq(Char), FormattingAbsorbed
<1>2. CASE kind = "injection"
  <2>1. Injected(t, u)  BY <1>2, InjectionCases
  <2> QED BY ONLY <2>1, t \in Seq(Char), InjectionAbsorbed
<1>3. CASE kind = "decomposition"
  <2>1. Decomposes(t, u)  BY <1>3, DecompositionCases
  <2> QED BY ONLY <2>1, t \in Seq(Char), DecompositionAbsorbed
<1>4. CASE kind = "case"
  <2>1. CaseChanged(t, u)  BY <1>4, CaseCases
  <2> QED BY ONLY <2>1, t \in Seq(Char), CaseAbsorbed
<1>5. CASE kind = "canonical"
  <2>1. u = r  BY <1>5 DEF Edited
  <2> QED BY ONLY <2>1, t \in Seq(Char), Written(t, Len(t), r), StreamAbsorbed
<1> QED BY <1>1, <1>2, <1>3, <1>4, <1>5 DEF Absorbed

(* Whatever is done to the spacing, the punctuation, the case, the         *)
(* composition of a text, or by injection of format characters where they  *)
(* part no letter from its mark, normalize::canonical makes the same stream *)
(* of it as when the text was bound; and the stream is its own stream.     *)
THEOREM ReformattingAbsorbed == Spec => []SurvivesReformatting
<1>1. IInv => SurvivesReformatting
  <2> SUFFICES ASSUME IInv, pc = "verified", edit \in Absorbed
               PROVE  out = recorded
    BY DEF SurvivesReformatting
  <2>1. PICK t \in Texts : /\ Written(t, Len(t), recorded)
                           /\ text \in Edited(edit, t, recorded)
    BY DEF IInv, History
  <2>2. Written(text, Len(text), out)  BY DEF IInv, History
  <2>3. t \in Seq(Char)  BY TextsAssumption
  <2>4. text \in Seq(Char) /\ \E g : Matches(t, text, g)
    BY <2>1, <2>3, Absorbs
  <2>5. PICK g : Matches(t, text, g)  BY <2>4
  <2> QED BY <2>1, <2>2, <2>3, <2>4, <2>5, SameStream
<1> QED BY <1>1, Inv, PTL

-----------------------------------------------------------------------------
(* The edits that canonical must not absorb.                               *)

(* The letters of a stream, counted up to a place, are those of the text.  *)
LEMMA LetterCount ==
  ASSUME NEW t \in Seq(Char), NEW r, Written(t, Len(t), r), NEW n \in 0..Len(t)
  PROVE  /\ Place(t, n) \in 0..Len(r) /\ Len(r) \in Nat
         /\ Cardinality((1..Place(t, n)) \cap LettersOf(r))
              = Cardinality((1..n) \cap LettersOf(t))
<1>1. /\ r \in Seq(Alnum \cup {BLANK}) /\ Len(r) = Place(t, Len(t))
      /\ Len(r) \in Nat /\ Len(t) \in Nat /\ n \in Nat
  BY DEF Written
<1>2. BLANK \notin Alnum  BY CharAssumption DEF Separators
<1>3. Place(t, n) \in Nat /\ Place(t, n) <= Len(r)
  <2>1. \A m \in 0..Len(t) : Place(t, m) <= Place(t, Len(t)) /\ Place(t, m) \in Nat
    BY <1>1, PlaceRises
  <2> QED BY <1>1, <2>1
<1>4. ASSUME NEW k \in 1..Len(t), t[k] \in Alnum
      PROVE  /\ Place(t, k) \in 1..Len(r) /\ r[Place(t, k)] \in Alnum
             /\ \A j \in 0..(k - 1) : Place(t, j) < Place(t, k)
  <2>1. /\ Place(t, k) \in 1..Len(r)
        /\ \A j \in 0..(k - 1) : Place(t, j) < Place(t, k)
    BY <1>1, <1>4, LetterPlaces
  <2>2. r[Place(t, k)] = Folded(Composed(t, k))  BY <1>4 DEF Written
  <2>3. Folded(Composed(t, k)) \in Alnum  BY <1>4, ComposedFacts, LowerFacts
  <2> QED BY <2>1, <2>2, <2>3
<1> DEFINE A == (1..n) \cap LettersOf(t)
           B == (1..Place(t, n)) \cap LettersOf(r)
           f == [k \in A |-> Place(t, k)]
<1>5. /\ \A k : k \in A <=> k \in 1..n /\ t[k] \in Alnum
      /\ \A p : p \in B <=> p \in 1..Place(t, n) /\ r[p] \in Alnum
  BY <1>1, <1>3 DEF LettersOf
<1>6. IsFiniteSet(A)  BY <1>1, CountStep
<1> HIDE DEF A, B
<1>7. \A k \in A : k \in 1..Len(t) /\ t[k] \in Alnum /\ k <= n  BY <1>1, <1>5
<1>8. f \in [A -> B]
  <2>1. ASSUME NEW k \in A PROVE Place(t, k) \in B
    <3>1. k \in 0..n  BY <1>1, <1>7
    <3>2. Place(t, k) <= Place(t, n)  BY <1>1, <3>1, PlaceRises
    <3>3. Place(t, k) \in 1..Len(r) /\ r[Place(t, k)] \in Alnum  BY <1>4, <1>7
    <3> QED BY <1>1, <1>3, <1>5, <3>2, <3>3
  <2> QED BY <2>1
<1>9. \A j, k \in A : f[j] = f[k] => j = k
  <2>1. ASSUME NEW j \in A, NEW k \in A, j < k PROVE f[j] < f[k]
    <3>1. j \in 0..(k - 1)  BY <1>7, <2>1
    <3>2. Place(t, j) < Place(t, k)  BY <1>4, <1>7, <3>1
    <3> QED BY <3>2
  <2>2. \A k \in A : k \in Int /\ f[k] \in Int  BY <1>1, <1>4, <1>7
  <2> HIDE DEF f
  <2> QED BY <2>1, <2>2
<1>10. \A p \in B : \E k \in A : f[k] = p
  <2> TAKE p \in B
  <2>1. p \in 1..Len(r) /\ p <= Place(t, n) /\ r[p] \in Alnum  BY <1>1, <1>3, <1>5
  <2>2. PICK k \in 1..Len(t) :
          /\ t[k] \in Alnum
          /\ p = Place(t, k) \/ (Break(t, k) /\ p = Place(t, k) - 1)
    BY <2>1 DEF Written
  <2>3. p = Place(t, k)
    <3>1. Break(t, k) => r[Place(t, k) - 1] = BLANK  BY <2>2 DEF Written
    <3> QED BY <1>2, <2>1, <2>2, <3>1
  <2>4. k <= n
    <3> SUFFICES ASSUME n < k PROVE FALSE  BY <1>1
    <3>1. n \in 0..(k - 1)  BY <1>1
    <3>2. Place(t, n) < Place(t, k)  BY <1>4, <2>2, <3>1
    <3> QED BY <1>1, <1>3, <2>1, <2>3, <3>2
  <2>5. k \in A  BY <1>1, <1>5, <2>2, <2>4
  <2> QED BY <2>3, <2>5
<1> HIDE DEF f
<1>11. Cardinality(B) = Cardinality(A)  BY <1>6, <1>8, <1>9, <1>10, SameSize
<1> QED BY <1>1, <1>3, <1>11 DEF A, B

LEMMA AddedNoticed ==
  ASSUME NEW t \in Seq(Char), NEW u, LetterAdded(t, u),
         NEW r, Written(t, Len(t), r), NEW s, Written(u, Len(u), s)
  PROVE  r # s
<1>1. PICK k \in Places(t), c \in Alnum : u = InsertAt(t, k, c)
  BY DEF LetterAdded
<1>2. c \in Char  BY DEF Char
<1>3. /\ u \in Seq(Char) /\ Len(u) = Len(t) + 1 /\ u[k] = c
      /\ k \in 1..Len(u)
      /\ \A j \in 1..Len(t) : u[Shift(k, j)] = t[j]
  <2>1. InsertedIs(t, k, c, u)  BY <1>1, <1>2, InsertFacts
  <2> QED BY <2>1 DEF InsertedIs
<1>4. Len(t) \in Nat /\ Len(u) \in Nat  BY <1>3
<1> DEFINE A == (1..Len(t)) \cap LettersOf(t)
           B == (1..Len(u)) \cap LettersOf(u)
           C == B \ {k}
           f == [j \in A |-> Shift(k, j)]
<1>5. /\ \A j : j \in A <=> j \in 1..Len(t) /\ t[j] \in Alnum
      /\ \A x : x \in B <=> x \in 1..Len(u) /\ u[x] \in Alnum
      /\ \A x : x \in C <=> x \in B /\ x # k
  BY <1>4 DEF LettersOf
<1>6. IsFiniteSet(A) /\ IsFiniteSet(B)  BY <1>4, CountStep
<1>7. /\ Cardinality((1..Place(t, Len(t))) \cap LettersOf(r)) = Cardinality(A)
      /\ Cardinality((1..Place(u, Len(u))) \cap LettersOf(s)) = Cardinality(B)
  <2>1. Len(t) \in 0..Len(t) /\ Len(u) \in 0..Len(u)  BY <1>4
  <2> QED BY <1>3, <2>1, LetterCount
<1> HIDE DEF A, B, C
<1>8. f \in [A -> C]
  <2>1. ASSUME NEW j \in A PROVE Shift(k, j) \in C
    <3>1. j \in 1..Len(t) /\ u[Shift(k, j)] \in Alnum  BY <1>3, <1>5
    <3>2. Shift(k, j) \in 1..Len(u) /\ Shift(k, j) # k
      BY <1>3, <1>4, <3>1 DEF Shift
    <3> QED BY <1>5, <3>1, <3>2
  <2> QED BY <2>1
<1>9. \A i, j \in A : f[i] = f[j] => i = j
  <2>1. \A i \in A : i \in Int  BY <1>5
  <2>2. k \in Int  BY <1>3
  <2> QED BY <2>1, <2>2 DEF Shift
<1>10. \A x \in C : \E j \in A : f[j] = x
  <2> TAKE x \in C
  <2>1. x \in 1..Len(u) /\ u[x] \in Alnum /\ x # k  BY <1>5
  <2>2. CASE x < k
    <3>1. x \in 1..Len(t) /\ Shift(k, x) = x  BY <1>3, <1>4, <2>1, <2>2 DEF Shift
    <3>2. x \in A  BY <1>3, <1>5, <2>1, <3>1
    <3> QED BY <3>1, <3>2
  <2>3. CASE x > k
    <3>1. x - 1 \in 1..Len(t) /\ Shift(k, x - 1) = x
      BY <1>3, <1>4, <2>1, <2>3 DEF Shift
    <3>2. x - 1 \in A  BY <1>3, <1>5, <2>1, <3>1
    <3> QED BY <3>1, <3>2
  <2> QED BY <1>3, <2>1, <2>2, <2>3
<1> HIDE DEF f
<1>11. IsFiniteSet(C) /\ Cardinality(C) = Cardinality(A)
  BY <1>6, <1>8, <1>9, <1>10, SameSize
<1>12. Cardinality(B) = Cardinality(A) + 1
  <2>1. k \in B /\ k \notin C /\ B = C \cup {k}  BY <1>3, <1>5
  <2>2. Cardinality(C \cup {k}) = Cardinality(C) + 1
    BY <1>11, <2>1, FS_AddElement
  <2> QED BY <1>11, <2>1, <2>2
<1>13. Cardinality(A) \in Nat  BY <1>6, FS_CardinalityType
<1>14. Place(t, Len(t)) = Len(r) /\ Place(u, Len(u)) = Len(s)  BY DEF Written
<1>15. ASSUME r = s PROVE Cardinality(A) = Cardinality(B)
  BY <1>7, <1>14, <1>15
<1> QED BY <1>12, <1>13, <1>15

LEMMA ReplacedNoticed ==
  ASSUME NEW t \in Seq(Char), NEW u, LetterReplaced(t, u),
         NEW r, Written(t, Len(t), r), NEW s, Written(u, Len(u), s)
  PROVE  r # s
<1> SUFFICES ASSUME r = s PROVE FALSE  OBVIOUS
<1>1. PICK k \in 1..Len(t), c \in Alnum :
        /\ t[k] \in Alnum /\ ~MarkAt(t, k + 1)
        /\ Folded(c) # Folded(t[k]) /\ u = ReplaceAt(t, k, c)
  BY DEF LetterReplaced
<1>2. c \in Char  BY DEF Char
<1>3. /\ u \in Seq(Char) /\ Len(u) = Len(t) /\ u[k] = c /\ Len(t) \in Nat
      /\ \A j \in 1..Len(t) : j # k => u[j] = t[j]
  BY <1>1, <1>2 DEF ReplaceAt
<1>4. (1..k) \cap LettersOf(u) = (1..k) \cap LettersOf(t)
  <2>1. \A j \in 1..k : j \in 1..Len(t) /\ (u[j] \in Alnum <=> t[j] \in Alnum)
    BY <1>1, <1>3
  <2> QED BY <2>1 DEF LettersOf
<1> DEFINE p == Place(t, k)
           q == Place(u, k)
           N(m) == Cardinality((1..m) \cap LettersOf(r))
<1>5. k \in 0..Len(t) /\ k \in 0..Len(u) /\ k \in 1..Len(u)  BY <1>3
<1>6. N(p) = N(q)
  <2>1. N(p) = Cardinality((1..k) \cap LettersOf(t))
    BY <1>5, LetterCount
  <2>2. N(q) = Cardinality((1..k) \cap LettersOf(u))
    BY <1>3, <1>5, LetterCount
  <2> QED BY <1>4, <2>1, <2>2
<1>7. /\ p \in 1..Len(r) /\ r[p] = Folded(Composed(t, k))
      /\ q \in 1..Len(r) /\ r[q] = Folded(Composed(u, k))
  <2>1. Len(r) = Place(t, Len(t)) /\ Len(s) = Place(u, Len(u))  BY DEF Written
  <2>2. r[p] = Folded(Composed(t, k))  BY <1>1 DEF Written
  <2>3. s[q] = Folded(Composed(u, k))  BY <1>1, <1>3, <1>5 DEF Written
  <2>4. p \in 1..Place(t, Len(t))  BY <1>1, <1>3, LetterPlaces
  <2>5. q \in 1..Place(u, Len(u))  BY <1>1, <1>3, <1>5, LetterPlaces
  <2> QED BY <2>1, <2>2, <2>3, <2>4, <2>5
<1>8. Composed(t, k) = t[k] /\ Composed(u, k) = c
  <2>1. Joins(t, k + 1) => k + 1 \in 2..Len(t) /\ t[k + 1] \in Marks
    BY JoinedFacts
  <2>2. Joins(u, k + 1) => k + 1 \in 2..Len(u) /\ u[k + 1] \in Marks
    BY JoinedFacts
  <2>3. k + 1 \in 2..Len(t) => u[k + 1] = t[k + 1] /\ k + 1 <= Len(t)
    BY <1>3
  <2> QED BY <1>1, <1>3, <2>1, <2>2, <2>3 DEF MarkAt, Composed
<1>9. r[p] \in Alnum /\ r[q] \in Alnum
  BY <1>1, <1>7, <1>8, LowerFacts
<1>10. Len(r) \in Nat  BY DEF Written
<1> HIDE DEF p, q
<1>11. ASSUME NEW i \in 1..Len(r), NEW j \in 1..Len(r), i < j, r[j] \in Alnum
       PROVE  N(i) < N(j)
  <2>1. j - 1 \in Nat /\ (j - 1) + 1 = j /\ i \in 0..(j - 1)  BY <1>10, <1>11
  <2>2. j \in LettersOf(r)  BY <1>10, <1>11 DEF LettersOf
  <2>3. N(i) <= N(j - 1)  BY <2>1, CountGrows
  <2>4. N(j) = N(j - 1) + 1 /\ N(j - 1) \in Nat
    <3>1. /\ N(j - 1) \in Nat
          /\ N((j - 1) + 1) = N(j - 1) + (IF (j - 1) + 1 \in LettersOf(r) THEN 1 ELSE 0)
      BY <2>1, CountStep
    <3> HIDE DEF N
    <3> QED BY <2>1, <2>2, <3>1
  <2>5. N(i) \in Nat
    <3>1. i \in Nat  BY <1>10
    <3> QED BY <3>1, CountStep
  <2> HIDE DEF N
  <2> QED BY <2>3, <2>4, <2>5
<1>12. p = q
  <2>1. p < q => N(p) < N(q)  BY <1>7, <1>9, <1>11
  <2>2. q < p => N(q) < N(p)  BY <1>7, <1>9, <1>11
  <2>3. N(p) \in Nat /\ p \in Int /\ q \in Int
    <3>1. p \in Nat /\ q \in Int  BY <1>7, <1>10
    <3>2. N(p) \in Nat  BY <3>1, CountStep
    <3> QED BY <3>1, <3>2
  <2> HIDE DEF N
  <2> QED BY <1>6, <2>1, <2>2, <2>3
<1> QED BY <1>1, <1>7, <1>8, <1>12

(* A letter put in anywhere, or another letter where no mark follows it,   *)
(* changes what normalize::canonical makes of a text.                      *)
THEOREM WordsNoticed == Spec => []NoticesWords
<1>1. IInv => NoticesWords
  <2> SUFFICES ASSUME IInv, pc = "verified",
                      edit \in {"letter added", "letter replaced"}
               PROVE  out # recorded
    BY DEF NoticesWords
  <2>1. PICK t \in Texts : /\ Written(t, Len(t), recorded)
                           /\ text \in Edited(edit, t, recorded)
    BY DEF IInv, History
  <2>2. Written(text, Len(text), out)  BY DEF IInv, History
  <2>3. t \in Seq(Char)  BY TextsAssumption
  <2>4. CASE edit = "letter added"
    <3>1. LetterAdded(t, text)  BY <2>1, <2>4, AddedCases
    <3> QED BY <2>1, <2>2, <2>3, <3>1, AddedNoticed
  <2>5. CASE edit = "letter replaced"
    <3>1. LetterReplaced(t, text)  BY <2>1, <2>5, ReplacedCases
    <3> QED BY <2>1, <2>2, <2>3, <3>1, ReplacedNoticed
  <2> QED BY <2>4, <2>5
<1> QED BY <1>1, Inv, PTL
=============================================================================
