------------------------------- MODULE Signature -------------------------------
(***************************************************************************)
(* The MinHash signature of minhash.rs as a value: shingles, minima, bands *)
(* and the two comparisons.                                                *)
(*                                                                         *)
(* Value(i, s) is the value of shingle s under the i-th permutation.  A    *)
(* band hash is the tuple it hashes: hashes of different rows differ.      *)
(***************************************************************************)
EXTENDS Integers, Sequences, FiniteSets, SequencesExt

CONSTANTS
  NUM_PERM, BANDS, ROWS,   \* permutations; bands of rows
  SHINGLE_K,               \* words of a shingle
  MERSENNE,                \* values are below it
  Value(_, _)

ASSUME SignatureAssumption ==
  /\ NUM_PERM \in Nat \ {0} /\ BANDS \in Nat /\ ROWS \in Nat \ {0}
  /\ BANDS * ROWS = NUM_PERM
  /\ SHINGLE_K \in Nat \ {0} /\ MERSENNE \in Nat \ {0}

(* The shingles of a list of words, in order and with repetitions.         *)
Shingles(toks) ==
  CASE toks = << >>             -> << >>
    [] Len(toks) \in 1..(SHINGLE_K - 1) -> << toks >>
    [] OTHER -> [k \in 1..(Len(toks) - SHINGLE_K + 1) |->
                   SubSeq(toks, k, k + SHINGLE_K - 1)]

ShingleSet(toks) ==
  LET list == Shingles(toks) IN {list[k] : k \in 1..Len(list)}

(* Mutant of Lowest: the last shingle counts.                              *)
LowestLast(sig, s) == [i \in 1..NUM_PERM |-> Value(i, s)]

(* One round of the loop of compute: the values of shingle s are taken in  *)
(* where they are below those so far.                                      *)
Lowest(sig, s) ==
  [i \in 1..NUM_PERM |->
     IF Value(i, s) < sig[i] THEN Value(i, s) ELSE sig[i]]

(* The signature that compute returns; u64::MAX is above all values.       *)
U64_MAX == MERSENNE
SignatureOf(toks) ==
  IF Shingles(toks) = << >> THEN [i \in 1..NUM_PERM |-> 0]
  ELSE FoldLeft(Lowest, [i \in 1..NUM_PERM |-> U64_MAX], Shingles(toks))

band_hash(sig, band) == SubSeq(sig, (band - 1) * ROWS + 1, band * ROWS)

BandsOf(sig) == [band \in 1..BANDS |-> band_hash(sig, band)]

Agreeing(sig, other) == {i \in 1..NUM_PERM : sig[i] = other[i]}

(* jaccard(..) >= MATCH_JACCARD, 0.70.                                     *)
JaccardMatches(sig, other) ==
  10 * Cardinality(Agreeing(sig, other)) >= 7 * NUM_PERM

shares_band(bands, other) ==
  \E j, k \in 1..BANDS : bands[j] = other[k]

(* What the i-th value of a signature can be of: a shingle with its value, *)
(* or, of a text without words, the zero that stands for it.               *)
TermsAt(toks, i) ==
  IF ShingleSet(toks) = {} THEN {<< {}, 0 >>}
  ELSE {<< {s}, Value(i, s) >> : s \in ShingleSet(toks)}

(* Different terms of two texts have one value, here and there.            *)
Coincide(toks, other, i, j) ==
  \E u \in TermsAt(toks, i), v \in TermsAt(other, j) :
    u[1] # v[1] /\ u[2] = v[2]

(* Two signatures agree in a permutation exactly when the least shingle of *)
(* both texts together is in both; a text without words agrees with no     *)
(* other.                                                                  *)
EstimatesOverlap(toks, other) ==
  LET mine == ShingleSet(toks)
      whole == ShingleSet(other)
      least(i) == {s \in mine \cup whole :
                     \A t \in mine \cup whole : Value(i, s) <= Value(i, t)}
  IN  Agreeing(SignatureOf(toks), SignatureOf(other)) =
        IF mine = {} \/ whole = {}
          THEN IF mine = whole THEN 1..NUM_PERM ELSE {}
          ELSE {i \in 1..NUM_PERM : least(i) \subseteq mine \cap whole}

(* There are so many such coincidences that two texts which share nothing  *)
(* could match: in all rows of a band, or in most permutations.            *)
Coincidental(toks, other) ==
  \/ \E j, k \in 1..BANDS : \A r \in 1..ROWS :
       Coincide(toks, other, (j - 1) * ROWS + r, (k - 1) * ROWS + r)
  \/ 10 * Cardinality({i \in 1..NUM_PERM : Coincide(toks, other, i, i)})
       >= 7 * NUM_PERM
=============================================================================
