------------------------------- MODULE WordGaps -------------------------------
(***************************************************************************)
(* stego::word_gaps, one action per branch of its loop.                    *)
(*                                                                         *)
(* embed calls it on the text it is given and extract on the text stripped *)
(* of zero-width characters; a watermark is found again only when the two  *)
(* calls list the same words.                                              *)
(***************************************************************************)
EXTENDS TextInputs

VARIABLES
  text,            \* the argument
  idx,             \* characters consumed by the loop over char_indices
  gaps,            \* the vector being built
  in_word,
  last_word_end,
  pc               \* "scan" while the function runs, "done" when it returned

vars == <<text, idx, gaps, in_word, last_word_end, pc>>

TypeOK ==
  /\ text \in Texts
  /\ idx \in 0..Len(text)
  /\ gaps \in Seq(Nat)
  /\ in_word \in BOOLEAN
  /\ last_word_end \in 0..Len(text)
  /\ pc \in {"scan", "done"}

Init ==
  /\ text \in Texts
  /\ idx = 0
  /\ gaps = << >>
  /\ in_word = FALSE
  /\ last_word_end = 0
  /\ pc = "scan"

Scanning == pc = "scan" /\ idx < Len(text)

(* A separator right after a word: the word's end is a gap. *)
CloseWord ==
  /\ Scanning
  /\ IsSep(text[idx + 1])
  /\ in_word
  /\ gaps' = Append(gaps, last_word_end)
  /\ in_word' = FALSE
  /\ idx' = idx + 1
  /\ UNCHANGED <<text, last_word_end, pc>>

SkipSeparator ==
  /\ Scanning
  /\ IsSep(text[idx + 1])
  /\ ~in_word
  /\ idx' = idx + 1
  /\ UNCHANGED <<text, gaps, in_word, last_word_end, pc>>

(* Mutant of ExtendWord: the end of the word is the offset of the next     *)
(* character's end.                                                        *)
ExtendWordTooFar ==
  /\ Scanning
  /\ ~IsSep(text[idx + 1])
  /\ in_word' = TRUE
  /\ last_word_end' = idx + 2
  /\ idx' = idx + 1
  /\ UNCHANGED <<text, gaps, pc>>

ExtendWord ==
  /\ Scanning
  /\ ~IsSep(text[idx + 1])
  /\ in_word' = TRUE
  /\ last_word_end' = idx + 1
  /\ idx' = idx + 1
  /\ UNCHANGED <<text, gaps, pc>>

(* Mutant of Return: the word at the end of the text is forgotten.         *)
ReturnWithoutLast ==
  /\ pc = "scan"
  /\ idx = Len(text)
  /\ pc' = "done"
  /\ UNCHANGED <<text, idx, gaps, in_word, last_word_end>>

(* After the loop: a word that reaches the end of the text has a gap too.  *)
Return ==
  /\ pc = "scan"
  /\ idx = Len(text)
  /\ gaps' = IF in_word THEN Append(gaps, last_word_end) ELSE gaps
  /\ pc' = "done"
  /\ UNCHANGED <<text, idx, in_word, last_word_end>>

Next == CloseWord \/ SkipSeparator \/ ExtendWord \/ Return

Spec == Init /\ [][Next]_vars

-----------------------------------------------------------------------------
Increasing(s) == \A i, j \in 1..Len(s) : i < j => s[i] < s[j]

(* What was recorded so far: exactly the ends of the words that a scanned  *)
(* separator closed, in text order; the open word, if any, ends here.      *)
LoopInv ==
  /\ in_word => last_word_end = idx
  /\ in_word <=> (idx > 0 /\ ~IsSep(text[idx]))
  /\ Increasing(gaps)
  /\ pc = "scan" => Range(gaps) = {e \in WordEnds(text) : e < idx}
  /\ pc = "done" => idx = Len(text) /\ Range(gaps) = WordEnds(text)

(* word_gaps returns the end of every word, once, in text order, for every *)
(* text: the rank that fisher_yates permutes and the rank under which      *)
(* read_runs files a run both count words by this list.                    *)
GapsEnumerateWords ==
  pc = "done" => Increasing(gaps) /\ Range(gaps) = WordEnds(text)

(* The list of a text and the list of the same text stripped of zero-width *)
(* characters (what extract works on) have the same length exactly when no *)
(* zero-width character sits inside a word.                                *)
StableUnlessSplit ==
  pc = "done" =>
    (Len(gaps) = Cardinality(WordEnds(Strip(text))) <=> ~SplitsWord(text))
=============================================================================
