-------------------------------- MODULE Hash256 --------------------------------
(***************************************************************************)
(* simhash::Hash256: a fingerprint of FP_BITS bits, and its distance.      *)
(*                                                                         *)
(* A stored value is the sequence of the bytes its hex digits spell; the   *)
(* hash takes a byte per bit here.                                         *)
(***************************************************************************)
EXTENDS Integers, Sequences, FiniteSets

CONSTANT FP_BITS   \* width of a fingerprint

ASSUME BitsAssumption == FP_BITS \in Nat \ {0}

Hash == [1..FP_BITS -> {0, 1}]

ZeroHash == [bit \in 1..FP_BITS |-> 0]

hamming(a, b) == Cardinality({bit \in 1..FP_BITS : a[bit] # b[bit]})

(* The hash that a stored value spells, or none.                           *)
FromHex(value) == IF Len(value) = FP_BITS THEN {value} ELSE {}
=============================================================================
