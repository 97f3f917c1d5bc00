------------------------------- MODULE ReadRuns -------------------------------
(***************************************************************************)
(* stego::read_runs, one action per branch of its loop.                    *)
(*                                                                         *)
(* It walks the text as received, zero-width characters and all, and files *)
(* each symbol under the number of words begun before it; extract looks    *)
(* those numbers up by the word-gap ranks of the stripped text.  The       *)
(* alphabet is a parameter of the code: class "symbol" is membership in    *)
(* it, ALPHABET_V2 or, for read_runs_v1, ALPHABET_V1.                      *)
(***************************************************************************)
EXTENDS TextInputs

VARIABLES
  text,          \* the argument
  idx,           \* characters consumed
  runs,          \* the map from word rank to symbols
  word_rank,
  in_word,
  counted_word,
  pc             \* "scan" while the function runs, "done" when it returned

vars == <<text, idx, runs, word_rank, in_word, counted_word, pc>>

TypeOK ==
  /\ text \in Texts
  /\ idx \in 0..Len(text)
  /\ DOMAIN runs \subseteq 0..Len(text)
  /\ \A r \in DOMAIN runs : runs[r] \in Seq(Char)
  /\ word_rank \in 0..Len(text)
  /\ in_word \in BOOLEAN
  /\ counted_word \in BOOLEAN
  /\ pc \in {"scan", "done"}

Init ==
  /\ text \in Texts
  /\ idx = 0
  /\ runs = << >>
  /\ word_rank = 0
  /\ in_word = FALSE
  /\ counted_word = FALSE
  /\ pc = "scan"

(* Mutant of PushSymbol: the entry is replaced, not extended.              *)
PushSymbolOverwrites(r, c) ==
  [q \in DOMAIN runs \cup {r} |-> IF q = r THEN <<c>> ELSE runs[q]]

(* runs.entry(r).or_default().push(c) *)
PushSymbol(r, c) ==
  [q \in DOMAIN runs \cup {r} |->
     LET old == IF q \in DOMAIN runs THEN runs[q] ELSE << >>
     IN  IF q = r THEN Append(old, c) ELSE old]

Scanning == pc = "scan" /\ idx < Len(text)

(* Mutant of Symbol: a symbol ends the word.                               *)
SymbolEndsWord ==
  /\ Scanning
  /\ IsSymbol(text[idx + 1])
  /\ runs' = IF counted_word THEN PushSymbol(word_rank - 1, text[idx + 1])
                             ELSE runs
  /\ in_word' = FALSE
  /\ idx' = idx + 1
  /\ UNCHANGED <<text, word_rank, counted_word, pc>>

(* A symbol belongs to the word before it; one before any word is dropped. *)
Symbol ==
  /\ Scanning
  /\ IsSymbol(text[idx + 1])
  /\ runs' = IF counted_word THEN PushSymbol(word_rank - 1, text[idx + 1])
                             ELSE runs
  /\ idx' = idx + 1
  /\ UNCHANGED <<text, word_rank, in_word, counted_word, pc>>

Whitespace ==
  /\ Scanning
  /\ IsSpace(text[idx + 1])
  /\ in_word' = FALSE
  /\ idx' = idx + 1
  /\ UNCHANGED <<text, runs, word_rank, counted_word, pc>>

(* Anything else, a zero-width character outside the alphabet included.    *)
BeginWord ==
  /\ Scanning
  /\ ~IsSymbol(text[idx + 1]) /\ ~IsSpace(text[idx + 1])
  /\ ~in_word
  /\ word_rank' = word_rank + 1
  /\ counted_word' = TRUE
  /\ in_word' = TRUE
  /\ idx' = idx + 1
  /\ UNCHANGED <<text, runs, pc>>

ContinueWord ==
  /\ Scanning
  /\ ~IsSymbol(text[idx + 1]) /\ ~IsSpace(text[idx + 1])
  /\ in_word
  /\ idx' = idx + 1
  /\ UNCHANGED <<text, runs, word_rank, in_word, counted_word, pc>>

Return ==
  /\ pc = "scan"
  /\ idx = Len(text)
  /\ pc' = "done"
  /\ UNCHANGED <<text, idx, runs, word_rank, in_word, counted_word>>

Next == Symbol \/ Whitespace \/ BeginWord \/ ContinueWord \/ Return

Spec == Init /\ [][Next]_vars

-----------------------------------------------------------------------------
(* The counters and the map are what the characters read so far make      *)
(* them.                                                                   *)
LoopInv ==
  /\ in_word <=> ~BetweenWords(text, idx)
  /\ word_rank = RankBefore(text, idx + 1)
  /\ counted_word <=> word_rank > 0
  /\ DOMAIN runs = RanksFiled(text, idx)
  /\ \A r \in DOMAIN runs : RunSoFar(text, r, idx, runs[r])
  /\ pc = "done" => idx = Len(text)

(* The rank a symbol is filed under, word_rank - 1 on an unsigned integer, *)
(* never underflows, and no symbol after a word is ever dropped.           *)
RankNeverUnderflows ==
  /\ counted_word => word_rank >= 1
  /\ ~counted_word => DOMAIN runs = {} /\ word_rank = 0

(* read_runs returns the symbols of the text grouped by the word they      *)
(* follow: none lost, none filed twice, the order within a run kept.       *)
RunsAreComplete ==
  pc = "done" =>
    /\ DOMAIN runs = RunRanks(text)
    /\ \A r \in DOMAIN runs : RunIs(text, r, runs[r])
=============================================================================
