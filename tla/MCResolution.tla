------------------------------ MODULE MCResolution -----------------------------
(* A document; a reformatted copy; a lightly edited one; an excerpt; an    *)
(* unrelated one of the same structure; one without any word.              *)
(* Two of them are published, at either of two places.                     *)
EXTENDS Resolution

CONSTANTS m1, m2

MCRepos == {m1, m2}
Places == Permutations(MCRepos)
MCIssued == {"source", "empty"}
MCDocs == {"source", "copy", "edited", "excerpt", "other", "empty"}
MCCanonical == [d \in MCDocs |-> IF d = "copy" THEN "source" ELSE d]
Windows == << [start |-> 0, len |-> 2, hash |-> <<1, 1, 0, 0, 0>>],
              [start |-> 1, len |-> 2, hash |-> <<0, 0, 0, 1, 1>>] >>
Whole5(d) ==
  CASE d \in {"source", "copy"} -> <<1, 0, 1, 0, 1>>
    [] d = "edited"  -> <<1, 0, 1, 1, 1>>
    [] d = "excerpt" -> <<1, 1, 0, 0, 0>>
    [] d = "other"   -> <<0, 1, 1, 1, 0>>
    [] d = "empty"   -> ZeroHash
MCSurface ==
  [d \in MCDocs |->
     [whole |-> Whole5(d),
      windows |-> IF d \in {"source", "copy"} THEN Windows ELSE << >>]]
MCStructure ==
  [d \in MCDocs |-> IF d = "empty" THEN <<0, 0, 1, 1, 0>>
                    ELSE IF d = "excerpt" THEN <<1, 0, 0, 0, 1>>
                    ELSE <<1, 1, 1, 1, 1>>]
MCWords ==
  [d \in MCDocs |->
     CASE d \in {"source", "copy"} -> <<1, 2, 3>>
       [] d = "edited"  -> <<1, 1, 2>>
       [] d = "excerpt" -> <<2, 3>>
       [] d = "other"   -> <<3, 1>>
       [] d = "empty"   -> << >>]
MCPointers == {<<1, 2>>}
base_hash(s) == IF Len(s) = 1 THEN 8 + s[1] ELSE 3 * (s[1] - 1) + s[2] - 1
MCValue(i, s) == LET a == <<1, 5, 7, 12>>  b == <<0, 3, 11, 4>>
                 IN (a[i] * base_hash(s) + b[i]) % MERSENNE

(* What the theorem about BOUND supposes of the signatures.                *)
ASSUME NoCoincidenceAssumption == NoCoincidences
=============================================================================
