------------------------------- MODULE Carrier --------------------------------
(***************************************************************************)
(* What stego::embed computes on its way from a list of gaps to a marked   *)
(* text: the insertion list and the text with the runs woven in.  Weave    *)
(* runs the loop that does it; Watermark uses the outcome.                 *)
(***************************************************************************)
EXTENDS StegoText

CONSTANTS
  TOTAL_SHARDS,        \* shards of one watermark, one per used gap
  SYMBOLS_PER_SHARD    \* symbols of one shard

ASSUME ShardsAssumption ==
  TOTAL_SHARDS \in Nat \ {0} /\ SYMBOLS_PER_SHARD \in Nat \ {0}

Shards == 0..(TOTAL_SHARDS - 1)

(* byte_to_run of the byte of shard s, where which byte it is plays no     *)
(* part.                                                                   *)
Symbol == [class : {"symbol"}, shard : Shards, part : 1..SYMBOLS_PER_SHARD]
Run == [s \in Shards |->
          [k \in 1..SYMBOLS_PER_SHARD |->
             [class |-> "symbol", shard |-> s, part |-> k]]]

(* What fisher_yates may return for n gaps, cut to the shards: a gap rank  *)
(* for each shard, no two the same (see Placement).                        *)
Orders(n) == {ord \in [Shards -> 0..(n - 1)] : IsInjective(ord)}

(* The entries of the insertion list: at the offset of the gap that ord    *)
(* gives a shard, the run of that shard.                                   *)
Insertions(t, ord, run) ==
  {i \in [off : WordEnds(t), run : Range(run)] :
     \E s \in Shards : GapRank(t, i.off) = ord[s] /\ i.run = run[s]}

(* The list itself, as insertions.sort_by_key leaves it.  Offsets of       *)
(* different shards differ, so there is one such list for an order.        *)
SortedInsertions(t, ord, run) ==
  {ins \in [1..TOTAL_SHARDS -> Insertions(t, ord, run)] :
     \A j, k \in 1..TOTAL_SHARDS : j < k => ins[j].off < ins[k].off}

(* Where the j-th run begins in the marked text, less one; and how many    *)
(* runs have begun at position p.                                          *)
RunStart(ins, j) == ins[j].off + (j - 1) * SYMBOLS_PER_SHARD
Begun(ins, p) == Cardinality({j \in 1..TOTAL_SHARDS : RunStart(ins, j) < p})

(* The marked text: each run right behind the word it is assigned to, the  *)
(* characters of t elsewhere in their order.                               *)
Woven(t, ins) ==
  [p \in 1..(Len(t) + TOTAL_SHARDS * SYMBOLS_PER_SHARD) |->
     LET j == Begun(ins, p)
     IN  IF j > 0 /\ p <= RunStart(ins, j) + SYMBOLS_PER_SHARD
           THEN ins[j].run[p - RunStart(ins, j)]
           ELSE t[p - j * SYMBOLS_PER_SHARD]]

NoZeroWidth(t) == \A k \in 1..Len(t) : ~IsZeroWidth(t[k])
=============================================================================
