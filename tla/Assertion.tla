------------------------------- MODULE Assertion -------------------------------
(***************************************************************************)
(* The c2pa.soft-binding assertion of soft_binding.rs: what it holds, how  *)
(* its blocks are made, and which assertions a reader accepts.             *)
(*                                                                         *)
(* name and pad are always empty and left out, as are the fields of the    *)
(* C2PA types that have one value here (range type, fragment, second       *)
(* selector).  A region is the list of its selectors; a block for the      *)
(* whole asset has none.                                                   *)
(***************************************************************************)
EXTENDS Integers, Sequences

CONSTANTS
  MAX_USIZE,   \* usize::MAX: 2^32 - 1 on wasm32, 2^64 - 1 elsewhere
  MAX_I32      \* i32::MAX

ASSUME WidthsAssumption ==
  MAX_USIZE \in Nat /\ MAX_I32 \in Nat /\ MAX_I32 <= MAX_USIZE

ALG_FINGERPRINT == "com.writerslogic.text-fingerprint.1"
ALG_WATERMARK   == "com.writerslogic.zwc-watermark.2"
ALG_STRUCTURE   == "com.writerslogic.text-structure.1"
ALG_MINHASH     == "com.writerslogic.text-minhash.1"

(* Scope::default(): the whole asset.                                      *)
WholeAsset == << >>

Whole(alg, value) ==
  [alg |-> alg, blocks |-> << [scope |-> WholeAsset, value |-> value] >>]

(* Mutant of CheckedAdd: wrapping_add.                                     *)
WrappingAdd(a, b) == {(a + b) % (MAX_USIZE + 1)}

(* checked_add: the sum, or none when it is not a usize.                   *)
CheckedAdd(a, b) == IF a + b <= MAX_USIZE THEN {a + b} ELSE {}

(* try_from: the number as an i32, or none.                                *)
ToI32(k) == IF k <= MAX_I32 THEN {k} ELSE {}

(* The selectors that push_window can write for a window: one, or none if  *)
(* a conversion fails.                                                     *)
Selectors(start, len) ==
  LET ends == UNION { ToI32(x) : x \in CheckedAdd(start, len) }
  IN { [start |-> s, end |-> e] : s \in ToI32(start), e \in ends }

PushBlock(binding, selector, value) ==
  [binding EXCEPT !.blocks =
     Append(@, [scope |-> << selector >>, value |-> value])]

(* What from_cbor accepts of an assertion that is well-formed CBOR.        *)
Blank == {"", " "}

(* Mutant of Usable: a block for the whole asset does not count.           *)
UsableWithWindows(binding) ==
  /\ binding.alg \notin Blank
  /\ \E k \in 1..Len(binding.blocks) : binding.blocks[k].scope # WholeAsset

Usable(binding) == binding.alg \notin Blank /\ binding.blocks # << >>
=============================================================================
