-------------------------------- MODULE Weave ---------------------------------
(***************************************************************************)
(* The loop of stego::embed that weaves the symbol runs of the shards into *)
(* the text, one action per branch.  The gaps are the word ends of the     *)
(* text, as WordGaps shows, and the order is any injection of shards into  *)
(* gaps, as Placement shows.                                               *)
(***************************************************************************)
EXTENDS Carrier, TextInputs

VARIABLES
  text,        \* the argument
  order,       \* the gap rank that fisher_yates gave each shard
  insertions,  \* the sorted insertion list
  taken,       \* entries that ins_iter has handed out
  idx,         \* characters consumed by the loop over char_indices
  out,         \* the marked text being built
  pc           \* "weave" in the loop, "tail" after it, "done" on return

vars == <<text, order, insertions, taken, idx, out, pc>>

TypeOK ==
  /\ text \in Texts
  /\ order \in Orders(Cardinality(WordEnds(text)))
  /\ insertions \in SortedInsertions(text, order, Run)
  /\ taken \in 0..TOTAL_SHARDS
  /\ idx \in 0..Len(text)
  /\ out \in Seq(Char \cup Symbol)
  /\ pc \in {"weave", "tail", "done"}

(* Texts with fewer gaps than shards are refused before: ContentTooShort.  *)
Init ==
  /\ text \in Texts
  /\ Cardinality(WordEnds(text)) >= TOTAL_SHARDS
  /\ order \in Orders(Cardinality(WordEnds(text)))
  /\ insertions \in SortedInsertions(text, order, Run)
  /\ taken = 0
  /\ idx = 0
  /\ out = << >>
  /\ pc = "weave"

(* ins_iter.peek() has the offset of the current character. *)
Due == taken < TOTAL_SHARDS /\ insertions[taken + 1].off = idx

(* Mutant of TakeRun: the symbols come in reverse.                         *)
TakeRunReversed ==
  /\ out' = out \o Reverse(insertions[taken + 1].run)
  /\ taken' = taken + 1
  /\ UNCHANGED <<text, order, insertions, idx, pc>>

TakeRun ==
  /\ out' = out \o insertions[taken + 1].run
  /\ taken' = taken + 1
  /\ UNCHANGED <<text, order, insertions, idx, pc>>

(* Mutant of Insert: the character at the gap is passed over.              *)
InsertForChar ==
  /\ pc = "weave"
  /\ idx < Len(text)
  /\ Due
  /\ out' = out \o insertions[taken + 1].run
  /\ taken' = taken + 1
  /\ idx' = idx + 1
  /\ UNCHANGED <<text, order, insertions, pc>>

Insert ==
  /\ pc = "weave"
  /\ idx < Len(text)
  /\ Due
  /\ TakeRun

CopyChar ==
  /\ pc = "weave"
  /\ idx < Len(text)
  /\ ~Due
  /\ out' = Append(out, text[idx + 1])
  /\ idx' = idx + 1
  /\ UNCHANGED <<text, order, insertions, taken, pc>>

LeaveLoop ==
  /\ pc = "weave"
  /\ idx = Len(text)
  /\ pc' = "tail"
  /\ UNCHANGED <<text, order, insertions, taken, idx, out>>

(* Mutant of AppendLeftover: a run at the end of the text is dropped.      *)
DropLeftover ==
  /\ pc = "tail"
  /\ taken < TOTAL_SHARDS
  /\ taken' = taken + 1
  /\ UNCHANGED <<text, order, insertions, idx, out, pc>>

(* What the loop left over is appended, wherever its offset is.            *)
AppendLeftover ==
  /\ pc = "tail"
  /\ taken < TOTAL_SHARDS
  /\ TakeRun

Return ==
  /\ pc = "tail"
  /\ taken = TOTAL_SHARDS
  /\ pc' = "done"
  /\ UNCHANGED <<text, order, insertions, taken, idx, out>>

Next == Insert \/ CopyChar \/ LeaveLoop \/ AppendLeftover \/ Return

Spec == Init /\ [][Next]_vars

-----------------------------------------------------------------------------
(* What lies ahead of the cursor is what has not been taken, and the       *)
(* output so far is a prefix of the finished text.                         *)
LoopInv ==
  /\ \A j \in 1..taken : insertions[j].off <= idx
  /\ \A j \in (taken + 1)..TOTAL_SHARDS : insertions[j].off >= idx
  /\ Len(out) = idx + taken * SYMBOLS_PER_SHARD
  /\ \A p \in 1..Len(out) : out[p] = Woven(text, insertions)[p]
  /\ pc # "weave" => idx = Len(text)
  /\ pc = "done" => taken = TOTAL_SHARDS

(* The debug_assert_eq! of embed: what the loop left belongs at the very   *)
(* end of the text.  Since the check is compiled out of release builds, an *)
(* insertion that the loop missed would be appended there silently.        *)
LeftoversBelongAtEnd ==
  pc = "tail" =>
    \A j \in (taken + 1)..TOTAL_SHARDS : insertions[j].off = Len(text)

(* One pass over the text puts every run where it is assigned: the loop    *)
(* returns Woven, from which the rest of the project argues.               *)
ReturnsWoven == pc = "done" => out = Woven(text, insertions)

(* Embedding changes nothing that can be seen.                             *)
VisibleTextKept == pc = "done" => Strip(out) = Strip(text)
=============================================================================
