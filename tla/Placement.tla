------------------------------ MODULE Placement -------------------------------
(***************************************************************************)
(* stego::fisher_yates: which word-gap carries which shard.                *)
(*                                                                         *)
(* The generator is seeded with HMAC(key, content hash) and stepped by     *)
(* next_rand; its outputs reduced modulo i + 1 are here any number in      *)
(* 0..i, so that what is shown holds for every key, every text and every   *)
(* generator.  What it needs is only that the reduction is in range.       *)
(***************************************************************************)
EXTENDS Carrier

VARIABLES
  n,      \* gaps.len()
  perm,   \* the permutation being built, indexed from 0 as in the code
  i,      \* the loop variable of (1..perm.len()).rev()
  pc      \* "shuffle" in the loop, "done" after it

vars == <<n, perm, i, pc>>

TypeOK ==
  /\ n \in Nat
  /\ perm \in [0..(n - 1) -> 0..(n - 1)]
  /\ i \in -1..(n - 1)
  /\ pc \in {"shuffle", "done"}

Init ==
  /\ n \in Nat
  /\ perm = [g \in 0..(n - 1) |-> g]
  /\ i = n - 1
  /\ pc = "shuffle"

(* Mutant of SwapAt: one of the two assignments only.                      *)
SwapAtHalf(p, a, b) == [p EXCEPT ![a] = p[b]]

SwapAt(p, a, b) == [p EXCEPT ![a] = p[b], ![b] = p[a]]

(* Mutants of SwapWith: the partner lies past the loop variable; the loop  *)
(* variable stays.                                                         *)
SwapWithNext(j) ==
  /\ pc = "shuffle"
  /\ i >= 1
  /\ perm' = SwapAt(perm, i, (j + 1) % n)
  /\ i' = i - 1
  /\ UNCHANGED <<n, pc>>
SwapForever(j) ==
  /\ pc = "shuffle"
  /\ i >= 1
  /\ perm' = SwapAt(perm, i, j)
  /\ UNCHANGED <<n, i, pc>>

(* An iteration in which next_rand modulo i + 1 was j. *)
SwapWith(j) ==
  /\ pc = "shuffle"
  /\ i >= 1
  /\ perm' = SwapAt(perm, i, j)
  /\ i' = i - 1
  /\ UNCHANGED <<n, pc>>

Swap == \E j \in 0..i : SwapWith(j)

Return ==
  /\ pc = "shuffle"
  /\ i < 1
  /\ pc' = "done"
  /\ UNCHANGED <<n, perm, i>>

Next == Swap \/ Return

Spec == Init /\ [][Next]_vars

-----------------------------------------------------------------------------
Injective == \A a, b \in 0..(n - 1) : perm[a] = perm[b] => a = b
Onto == \A g \in 0..(n - 1) : \E a \in 0..(n - 1) : perm[a] = g

(* The vector is a permutation of 0..n-1 between any two iterations, so    *)
(* embed's gaps[gap_rank] is never out of bounds, every rank is used once, *)
(* and no two shards share a gap, whatever the generator returned.         *)
Permutation == Injective /\ Onto
=============================================================================
