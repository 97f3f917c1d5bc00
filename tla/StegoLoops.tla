------------------------------ MODULE StegoLoops ------------------------------
(***************************************************************************)
(* stego::embed and stego::extract, loop by loop: the functions they call, *)
(* in the order they call them, each running its own loop on what the one  *)
(* before returned.                                                        *)
(*                                                                         *)
(*   embed     word_gaps, fisher_yates, then its own weaving loop          *)
(*   extract   read_runs, word_gaps on the stripped text, fisher_yates,    *)
(*             then the look-up of each shard's run                        *)
(*                                                                         *)
(* The loops are instances that share the locals idx, in_word and pc: no   *)
(* two of them run at a time.                                              *)
(***************************************************************************)
EXTENDS Carrier, TextInputs

VARIABLES
  call,           \* "embed" or "extract"
  text,           \* the argument
  stage,          \* the loop that runs, or how the call ended
  pc, idx, in_word,
  scanned,        \* what word_gaps is called on
  gaps, last_word_end,             \* word_gaps
  perm, i,                         \* fisher_yates
  insertions, taken, out,          \* the weaving loop
  runs, word_rank, counted_word,   \* read_runs
  shards,         \* what extract found for each shard
  drawn,          \* history: the numbers drawn for the last embedding
  placed          \* history: as in StegoCalls

gapVars == <<gaps, last_word_end>>
permVars == <<perm, i>>
weaveVars == <<insertions, taken, out>>
runVars == <<runs, word_rank, counted_word>>
history == <<drawn, placed>>
vars == <<call, text, stage, pc, idx, in_word, scanned, gapVars, permVars,
          weaveVars, runVars, shards, history>>

(* How the call ended, to the caller. *)
Outcome ==
  CASE stage = "refused" -> [status |-> "ContentTooShort"]
    [] stage = "returned" /\ call = "embed" ->
         [status |-> "marked", out |-> out]
    [] stage = "returned" /\ call = "extract" ->
         [status |-> "read", shards |-> shards]
    [] OTHER -> [status |-> "running"]
Calls == INSTANCE StegoCalls WITH outcome <- Outcome

(* A text on its way carries the symbols that were woven in. *)
AnyChar == Char \cup Symbol
AnyText == Seq(AnyChar)

ScanWords == INSTANCE WordGaps WITH
               Char <- AnyChar, Texts <- AnyText, text <- scanned
Order == [s \in Shards |-> perm[s]]
Shuffle == INSTANCE Placement WITH n <- Len(gaps)
WeaveIn == INSTANCE Weave WITH order <- Order
ReadOff == INSTANCE ReadRuns WITH Char <- AnyChar, Texts <- AnyText

TypeOK ==
  /\ call \in {"embed", "extract"}
  /\ text \in AnyText /\ scanned \in AnyText
  /\ stage \in {"word_gaps", "fisher_yates", "weave", "read_runs",
                "refused", "returned"}
  /\ stage = "word_gaps" => ScanWords!TypeOK
  /\ stage = "fisher_yates" => Shuffle!TypeOK
  /\ stage = "read_runs" => ReadOff!TypeOK
  /\ stage = "weave" => /\ taken \in 0..TOTAL_SHARDS
                        /\ idx \in 0..Len(text)
                        /\ out \in AnyText

-----------------------------------------------------------------------------
(* Calling a function sets its locals; those of the others are at rest.    *)
Init ==
  /\ text \in Texts
  /\ \/ call = "embed" /\ stage = "word_gaps" /\ scanned = text
     \/ call = "extract" /\ stage = "read_runs" /\ scanned = << >>
  /\ pc = "scan" /\ idx = 0 /\ in_word = FALSE
  /\ gaps = << >> /\ last_word_end = 0
  /\ perm = << >> /\ i = 0
  /\ insertions = << >> /\ taken = 0 /\ out = << >>
  /\ runs = << >> /\ word_rank = 0 /\ counted_word = FALSE
  /\ shards = << >>
  /\ drawn = << >> /\ placed = Calls!Nowhere

WordGapsStep ==
  /\ stage = "word_gaps"
  /\ ScanWords!Next
  /\ UNCHANGED <<call, text, stage, permVars, weaveVars, runVars, shards,
                 history>>

(* Either function refuses a text with fewer gaps than shards. *)
Refuse ==
  /\ stage = "word_gaps" /\ pc = "done"
  /\ Len(gaps) < TOTAL_SHARDS
  /\ stage' = "refused"
  /\ UNCHANGED <<call, text, pc, idx, in_word, scanned, gapVars, permVars,
                 weaveVars, runVars, shards, history>>

StartShuffle ==
  /\ stage = "word_gaps" /\ pc = "done"
  /\ Len(gaps) >= TOTAL_SHARDS
  /\ stage' = "fisher_yates" /\ pc' = "shuffle"
  /\ perm' = [g \in 0..(Len(gaps) - 1) |-> g]
  /\ i' = Len(gaps) - 1
  /\ idx' = 0 /\ in_word' = FALSE /\ last_word_end' = 0
  /\ UNCHANGED <<call, text, scanned, gaps, weaveVars, runVars, shards,
                 history>>

(* Key and content hash are those of the embedding, so the generator is    *)
(* too: reduced by the same numbers it gives the same partners.            *)
Partners ==
  {j \in 0..i : call = "extract" /\ DOMAIN drawn = 1..(Len(gaps) - 1)
                  /\ i \in DOMAIN drawn => j = drawn[i]}

ShuffleStep ==
  /\ stage = "fisher_yates"
  /\ UNCHANGED <<call, text, stage, idx, in_word, scanned, gapVars,
                 weaveVars, runVars, shards, placed>>
  /\ \/ \E j \in Partners :
          /\ Shuffle!SwapWith(j)
          /\ drawn' = IF call = "embed"
                         THEN [k \in i..(Len(gaps) - 1) |->
                                 IF k = i THEN j ELSE drawn[k]]
                         ELSE drawn
     \/ Shuffle!Return /\ UNCHANGED drawn

(* Mutant of InsertionList: it is left in the order of the shards.         *)
InsertionListUnsorted ==
  [k \in 1..TOTAL_SHARDS |-> [off |-> gaps[perm[k - 1] + 1],
                              run |-> Run[k - 1]]]

(* insertions, sorted by offset: of the k-th smallest offset, the run of   *)
(* the shard that it belongs to.                                           *)
Offset(s) == gaps[perm[s] + 1]
InsertionList ==
  LET offsets == {Offset(s) : s \in Shards}
      shard(off) == CHOOSE s \in Shards : Offset(s) = off
  IN  [k \in 1..TOTAL_SHARDS |->
         [off |-> Nth(offsets, k), run |-> Run[shard(Nth(offsets, k))]]]

StartWeave ==
  /\ stage = "fisher_yates" /\ pc = "done" /\ call = "embed"
  /\ stage' = "weave" /\ pc' = "weave"
  /\ insertions' = InsertionList
  /\ UNCHANGED <<call, text, idx, in_word, scanned, gapVars, permVars,
                 taken, out, runVars, shards, history>>

WeaveStep ==
  /\ stage = "weave"
  /\ UNCHANGED <<call, stage, in_word, scanned, gapVars, permVars, runVars,
                 shards, history>>
  /\ WeaveIn!Next

ReturnMarked ==
  /\ stage = "weave" /\ pc = "done"
  /\ stage' = "returned"
  /\ placed' = Calls!PlacedIn(text, Order)
  /\ UNCHANGED <<call, text, pc, idx, in_word, scanned, gapVars, permVars,
                 weaveVars, runVars, shards, drawn>>

-----------------------------------------------------------------------------
(* The marked text reaches extract, as it is or one zero-width character   *)
(* short.  extract begins with read_runs.                                  *)
Deliver ==
  /\ stage = "returned" /\ call = "embed"
  /\ \/ text' = out
     \/ \E k \in {j \in 1..Len(out) : IsZeroWidth(out[j])} :
          text' = RemoveAt(out, k)
  /\ call' = "extract" /\ stage' = "read_runs"
  /\ pc' = "scan" /\ idx' = 0 /\ in_word' = FALSE /\ scanned' = << >>
  /\ gaps' = << >> /\ last_word_end' = 0 /\ perm' = << >> /\ i' = 0
  /\ insertions' = << >> /\ taken' = 0 /\ out' = << >>
  /\ UNCHANGED <<runVars, shards, history>>

ReadRunsStep ==
  /\ stage = "read_runs"
  /\ ReadOff!Next
  /\ UNCHANGED <<call, stage, scanned, gapVars, permVars, weaveVars, shards,
                 history>>

StartCleanGaps ==
  /\ stage = "read_runs" /\ pc = "done"
  /\ stage' = "word_gaps" /\ pc' = "scan"
  /\ scanned' = Strip(text)
  /\ idx' = 0 /\ in_word' = FALSE
  /\ UNCHANGED <<call, text, gapVars, permVars, weaveVars, runVars, shards,
                 history>>

(* Mutant of RunOfShard: of a longer run the first symbols are taken.      *)
RunOfShardLenient(s) ==
  IF perm[s] \in DOMAIN runs /\ Len(runs[perm[s]]) >= SYMBOLS_PER_SHARD
    THEN SubSeq(runs[perm[s]], 1, SYMBOLS_PER_SHARD) ELSE Calls!Erased

(* runs.get(&gap_rank), taken when it has the length of a shard's run.     *)
RunOfShard(s) ==
  IF perm[s] \in DOMAIN runs /\ Len(runs[perm[s]]) = SYMBOLS_PER_SHARD
    THEN runs[perm[s]] ELSE Calls!Erased

ReturnRead ==
  /\ stage = "fisher_yates" /\ pc = "done" /\ call = "extract"
  /\ stage' = "returned"
  /\ shards' = [s \in Shards |-> RunOfShard(s)]
  /\ UNCHANGED <<call, text, pc, idx, in_word, scanned, gapVars, permVars,
                 weaveVars, runVars, history>>

(* What the two functions do by themselves; and the transport between.     *)
Step ==
  \/ WordGapsStep \/ Refuse \/ StartShuffle \/ ShuffleStep
  \/ StartWeave \/ WeaveStep \/ ReturnMarked
  \/ ReadRunsStep \/ StartCleanGaps \/ ReturnRead

Next == Step \/ Deliver

Spec == Init /\ [][Next]_vars

(* A call, once made, runs to its end; nothing makes the text travel.      *)
FairSpec == Spec /\ WF_vars(Step)

-----------------------------------------------------------------------------
Returned == stage \in {"refused", "returned"}

(* word_gaps returns the end of every word, once, in text order, in either *)
(* call: the rank that fisher_yates permutes and the rank under which      *)
(* read_runs files a run both count words by this list.                    *)
GapsEnumerateWords == stage = "word_gaps" => ScanWords!GapsEnumerateWords

(* The comment above word_gaps has gap enumeration "identical before and   *)
(* after embedding": the list of a text and that of the same text stripped *)
(* have the same length exactly when no zero-width character sits inside a *)
(* word.                                                                   *)
StableUnlessSplit ==
  stage = "word_gaps" /\ call = "embed" => ScanWords!StableUnlessSplit

(* fisher_yates has a permutation of the gap ranks between any two         *)
(* iterations, so embed's gaps[gap_rank] is never out of bounds and no two *)
(* shards share a gap, whatever the generator returned.                    *)
Permutation == stage = "fisher_yates" => Shuffle!Permutation

(* An entry of the permutation that the loop has passed stays as it is.    *)
PassedIsFinal ==
  [][stage = "fisher_yates" /\ stage' = stage =>
       \A g \in DOMAIN perm : g > i => perm'[g] = perm[g]]_vars

(* The debug_assert_eq! of embed, compiled out of release builds: what the *)
(* weaving loop left over belongs at the very end of the text.             *)
LeftoversBelongAtEnd == stage = "weave" => WeaveIn!LeftoversBelongAtEnd

(* The weaving loop, run on the list that the loops before it made, puts   *)
(* every run where it is assigned.                                         *)
ReturnsWoven == stage = "weave" => WeaveIn!ReturnsWoven

(* Embedding changes nothing that can be seen.                             *)
VisibleTextKept == stage = "weave" => WeaveIn!VisibleTextKept

(* read_runs returns the symbols of the text grouped by the word they      *)
(* follow: none lost, none filed twice, the order within a run kept.       *)
RunsAreComplete == stage = "read_runs" => ReadOff!RunsAreComplete

(* The words that read_runs counted in the text as received and those that *)
(* word_gaps then lists in the stripped text are as many, which is what    *)
(* lets extract look runs up by gap rank, unless a zero-width character    *)
(* outside the alphabet stands alone between whitespace.                   *)
RanksAgreeWithGaps ==
  stage = "word_gaps" /\ call = "extract" /\ pc = "done" =>
    (word_rank = Len(gaps) <=> ~HasGhostWord(text))

(* From a text that had no zero-width characters, extract finds every run  *)
(* that embed wove in, under the shard it was woven in for; a symbol lost  *)
(* on the way costs the shard it belonged to and no other, and a shard it  *)
(* cost is an erasure, never a run that was not sent.                      *)
EveryRunReadBack ==
  /\ stage = "returned" /\ call = "extract"
  /\ placed # Calls!Nowhere /\ NoZeroWidth(placed.host)
  =>
  LET hit == {s \in Shards : shards[s] # Run[s]}
      lost == Len(placed.host) + TOTAL_SHARDS * SYMBOLS_PER_SHARD - Len(text)
  IN  /\ Cardinality(hit) <= lost
      /\ \A s \in hit : shards[s] = Calls!Erased

(* Every call returns: no text, no number of gaps and no draw keeps one of *)
(* the loops from ending.                                                  *)
EveryCallReturns == ~Returned ~> Returned

(* The loops together do what StegoCalls says of a call: they return only  *)
(* what it allows, and nothing that it does not let happen is seen before. *)
ImplementsCalls == Calls!Spec
=============================================================================
