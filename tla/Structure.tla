------------------------------- MODULE Structure -------------------------------
(***************************************************************************)
(* What structure::compute reads in a text: the features that go into the  *)
(* structural hash, each with its weight.  The hash is their sum           *)
(* (simhash_weighted, see Fingerprint), so texts with the same features    *)
(* have the same hash.                                                     *)
(*                                                                         *)
(* Texts are in NFC (Normalize says what NFC does) and their lines end     *)
(* with a newline only.                                                    *)
(***************************************************************************)
EXTENDS Integers, Sequences, FiniteSets, SequencesExt

CONSTANTS
  Alnum,                 \* characters with is_alphanumeric
  Space,                 \* char::is_whitespace, NL among them
  ZeroWidth,             \* is_zero_width_format
  Lower(_),              \* char::to_lowercase, of one character
  PunctuationClass(_),   \* {class} of a character, or {}
  FUNCTION_WORDS

NL == "newline"
BLANK == " "
Terminators == {".", "!", "?"}

IsBlank(s) == \A k \in 1..Len(s) : s[k] \in Space

(* The pieces of s between the characters of Seps, empty ones included.    *)
Split(s, Seps) ==
  FoldLeft(LAMBDA pieces, c : IF c \in Seps THEN Append(pieces, << >>)
                              ELSE Front(pieces) \o << Append(Last(pieces), c) >>,
           << << >> >>, s)

NonEmpty(pieces) == SelectSeq(pieces, LAMBDA p : p # << >>)
Lowered(s) == [k \in 1..Len(s) |-> Lower(s[k])]
WindowsOf(s, n) == [k \in 1..(Len(s) - n + 1) |-> SubSeq(s, k, k + n - 1)]

(* normalize::structural, and normalize::words: the pieces of canonical.   *)
structural(t) == SelectSeq(t, LAMBDA c : c \notin ZeroWidth)
WordsIn(s, Chars) == NonEmpty(Split(Lowered(s), Chars \ Alnum))
words(t) ==
  LET s == structural(t) IN WordsIn(s, {Lower(s[k]) : k \in 1..Len(s)})

(* str::lines: a last newline ends a line and begins none.                 *)
Lines(s) ==
  LET pieces == Split(s, {NL})
  IN  IF Last(pieces) = << >> THEN Front(pieces) ELSE pieces

(* A line that shows nothing ends the paragraph that is open, if any; any  *)
(* other line goes on with it.  A text of blank lines is one paragraph.    *)
split_paragraphs(s) ==
  LET step(acc, line) ==
        IF ~IsBlank(line)
          THEN [acc EXCEPT !.current = @ \o line \o << BLANK >>]
        ELSE IF ~IsBlank(acc.current)
          THEN [paras |-> Append(acc.paras, acc.current), current |-> << >>]
        ELSE acc
      end == FoldLeft(step, [paras |-> << >>, current |-> << >>], Lines(s))
      paras == IF IsBlank(end.current) THEN end.paras
               ELSE Append(end.paras, end.current)
  IN  IF paras = << >> THEN << s >> ELSE paras

(* The sentence that c is the last character of is complete.  A terminator *)
(* with nothing but blanks before it is kept for the next sentence: its    *)
(* trimmed length is 1.                                                    *)
Completes(current, c) == c \in Terminators /\ ~IsBlank(current)

(* Mutant of RestOf: what no terminator ends is dropped.                   *)
RestDropped(current) == << >>

RestOf(current) == IF IsBlank(current) THEN << >> ELSE << current >>

split_sentences(para) ==
  LET step(acc, c) ==
        IF Completes(acc.current, c)
          THEN [done |-> Append(acc.done, Append(acc.current, c)),
                current |-> << >>]
          ELSE [acc EXCEPT !.current = Append(@, c)]
      end == FoldLeft(step, [done |-> << >>, current |-> << >>], para)
  IN  end.done \o RestOf(end.current)

(* Mutant of word_tokens: the case of a word is kept.                      *)
word_tokens_cased(s) ==
  NonEmpty(Split(s, {s[k] : k \in 1..Len(s)} \ Alnum))

word_tokens(s) ==
  LET pieces == NonEmpty(Split(s, {s[k] : k \in 1..Len(s)} \ Alnum))
  IN  [k \in 1..Len(pieces) |-> Lowered(pieces[k])]

Skeleton(toks) ==
  [k \in 1..Len(toks) |->
     IF toks[k] \in FUNCTION_WORDS THEN toks[k] ELSE << "_" >>]

(* punctuation_profile: one entry for each mark, of its class.             *)
PunctuationProfile(s) ==
  LET marks == SelectSeq(s, LAMBDA c : PunctuationClass(c) # {})
  IN  FlattenSeq([k \in 1..Len(marks) |-> SetToSeq(PunctuationClass(marks[k]))])

(* Mutant of SkeletonKeys: a text too short for a shingle has none.        *)
SkeletonKeysLong(skel) == WindowsOf(skel, 3)

(* The 3-grams of the skeleton, or what there is of it. *)
SkeletonKeys(skel) ==
  IF Len(skel) >= 3 THEN WindowsOf(skel, 3)
  ELSE IF skel # << >> THEN << skel >> ELSE << >>

Family(name, keys) == [k \in 1..Len(keys) |-> << name, keys[k] >>]
W_SENTENCE == 3
W_PARAGRAPH == 2
W_PUNCT == 1
W_SKELETON == 2
Weight(key) ==
  CASE key[1] \in {"SL1", "SL2"} -> W_SENTENCE
    [] key[1] = "PL" -> W_PARAGRAPH
    [] key[1] = "PUNCT" -> W_PUNCT
    [] key[1] = "FW" -> W_SKELETON

Paragraphs(t) == split_paragraphs(structural(t))
SentencesOf(t) ==
  LET paras == Paragraphs(t)
  IN  [p \in 1..Len(paras) |-> split_sentences(paras[p])]

TokensOf(sentences) ==
  LET all == FlattenSeq(sentences)
  IN  [k \in 1..Len(all) |-> word_tokens(all[k])]

Lengths(parts) == [k \in 1..Len(parts) |-> Len(parts[k])]

LengthFeatures(lengths) ==
  Family("SL1", lengths) \o Family("SL2", WindowsOf(lengths, 2))
WordFeatures(toks) ==
  LengthFeatures(Lengths(toks))
    \o Family("FW", SkeletonKeys(Skeleton(FlattenSeq(toks))))
Features(t) ==
  WordFeatures(TokensOf(SentencesOf(t)))
    \o Family("PL", Lengths(SentencesOf(t)))
    \o Family("PUNCT", PunctuationProfile(structural(t)))

(* Each feature with the sum of its weights.                               *)
Weighted(features) ==
  [key \in {features[k] : k \in 1..Len(features)} |->
     Weight(key) * Cardinality({k \in 1..Len(features) : features[k] = key})]

compute(t) == Weighted(Features(t))
=============================================================================
