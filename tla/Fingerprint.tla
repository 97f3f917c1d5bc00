------------------------------- MODULE Fingerprint -----------------------------
(***************************************************************************)
(* The whole of simhash::Fingerprint::compute: the loop over the windows   *)
(* (FingerprintWindows) with simhash_4grams and simhash_weighted under it, *)
(* once for the stream and once for each window.                           *)
(*                                                                         *)
(* simhash_4grams counts the grams in a HashMap; simhash_weighted adds up  *)
(* the digests of its keys, each with its count, in the order in which the *)
(* map yields them.  That order differs from one process to the next, and  *)
(* a verifier has to get the fingerprint that the issuer got.              *)
(***************************************************************************)
EXTENDS FingerprintWindows, Hash256

CONSTANTS
  Texts,      \* normalized streams: sequences of characters
  GRAM,       \* characters of a gram: 4
  Digest(_)   \* BLAKE2b-256 of a gram

VARIABLES
  chars,      \* the normalized stream
  pos,        \* gram to be counted next
  counts,     \* the HashMap: a function on the grams seen so far
  added,      \* keys that the iteration of the map has yielded
  acc,        \* one counter per bit
  summing,    \* the map is complete and iterated
  whole,      \* hash of the stream
  hashes      \* hashes of the windows

hashing == <<pos, counts, added, acc, summing>>
computing == <<vars, chars, hashing, whole, hashes>>

(* The characters that simhash_4grams is called with.                      *)
Slice == IF pc = "whole" THEN chars ELSE SubSeq(chars, start + 1, End)

(* chars.windows(n): the length n, how many there are, the one at k.       *)
Width(s) == IF Len(s) < GRAM THEN Len(s) ELSE GRAM
Windows(s) == Len(s) - Width(s) + 1
Gram(s, k) == SubSeq(s, k, k + Width(s) - 1)

(* A text is a sequence, and the digest of a gram has FP_BITS bits.        *)
ASSUME TextsAssumption ==
  \A s \in Texts : s \in Seq({s[k] : k \in DOMAIN s})
ASSUME GramAssumption == GRAM \in Nat \ {0}
ASSUME DigestAssumption ==
  \A s \in Texts : \A a \in 1..Len(s) : \A b \in a..Len(s) :
    LET part == SubSeq(s, a, b)
    IN  \A k \in 1..Windows(part) : Digest(Gram(part, k)) \in Hash

InitCompute ==
  /\ chars \in Texts /\ n = Len(chars) /\ Init
  /\ pos = 1 /\ counts = << >> /\ added = {} /\ summing = FALSE
  /\ acc = [bit \in 1..FP_BITS |-> 0]
  /\ whole = ZeroHash /\ hashes = << >>

Hashing == pc # "done" /\ ~summing /\ Slice # << >>

Count ==
  /\ Hashing /\ pos <= Windows(Slice)
  /\ LET g == Gram(Slice, pos)
     IN counts' = [h \in DOMAIN counts \cup {g} |->
                     (IF h \in DOMAIN counts THEN counts[h] ELSE 0)
                       + IF h = g THEN 1 ELSE 0]
  /\ pos' = pos + 1
  /\ UNCHANGED <<vars, chars, added, acc, summing, whole, hashes>>

Counted ==
  /\ Hashing /\ pos > Windows(Slice)
  /\ summing' = TRUE
  /\ UNCHANGED <<vars, chars, pos, counts, added, acc, whole, hashes>>

Add ==
  /\ summing
  /\ \E g \in DOMAIN counts \ added :
       /\ added' = added \cup {g}
       /\ acc' = [bit \in 1..FP_BITS |->
                    acc[bit] + (IF Digest(g)[bit] = 1 THEN 1 ELSE -1) * counts[g]]
  /\ UNCHANGED <<vars, chars, pos, counts, summing, whole, hashes>>

(* The call returns h and compute goes on.                                 *)
Deliver(h) ==
  /\ \/ Whole /\ whole' = h /\ UNCHANGED hashes
     \/ /\ NextWindow \/ LastWindow
        /\ hashes' = Append(hashes, h) /\ UNCHANGED whole
  /\ pos' = 1 /\ counts' = << >> /\ added' = {} /\ summing' = FALSE
  /\ acc' = [bit \in 1..FP_BITS |-> 0]
  /\ UNCHANGED chars

(* Mutant of Empty: without the early return windows(0) panics.            *)
EmptyPanics == FALSE

Empty == pc # "done" /\ Slice = << >> /\ Deliver(ZeroHash)

(* Mutant of Emit: a tie sets the bit.                                     *)
EmitTies ==
  /\ summing /\ added = DOMAIN counts
  /\ Deliver([bit \in 1..FP_BITS |-> IF acc[bit] >= 0 THEN 1 ELSE 0])

Emit ==
  /\ summing /\ added = DOMAIN counts
  /\ Deliver([bit \in 1..FP_BITS |-> IF acc[bit] > 0 THEN 1 ELSE 0])

NextCompute == Empty \/ Count \/ Counted \/ Add \/ Emit

SpecCompute ==
  InitCompute /\ [][NextCompute]_computing /\ WF_computing(NextCompute)

-----------------------------------------------------------------------------
(* The positions of s where a gram begins whose digest has the bit v.      *)
Votes(s, bit, v) ==
  IF s = << >> THEN {}
  ELSE {k \in 1..Windows(s) : Digest(Gram(s, k))[bit] = v}

IsMajority(h, s) ==
  \A bit \in 1..FP_BITS :
    h[bit] = 1 <=> Cardinality(Votes(s, bit, 1)) > Cardinality(Votes(s, bit, 0))

(* Whatever the order of the maps, a hash is the majority vote of the      *)
(* positions of its characters, bit by bit, a tie giving 0: two processes  *)
(* agree on it.  Each window has the hash of its own characters, so that   *)
(* an excerpt that is a window of the text has the hash recorded for it.   *)
HashesReproducible ==
  /\ pc # "whole" => IsMajority(whole, chars)
  /\ Len(hashes) = Len(windows)
  /\ \A k \in 1..Len(windows) :
       IsMajority(hashes[k],
         SubSeq(chars, windows[k].start + 1, windows[k].start + windows[k].len))
=============================================================================
