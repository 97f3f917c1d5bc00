------------------------------- MODULE Benchmark -------------------------------
(***************************************************************************)
(* The benchmarks robustness_bench.rs and threshold_sweep.rs: a document   *)
(* is attacked and its structural and MinHash fingerprints are derived     *)
(* again.  Both programs attack a document once, with fractions and steps  *)
(* of their own; here any excerpt and any step may come, one attack after  *)
(* the other.                                                              *)
(***************************************************************************)
EXTENDS Structure, Signature

CONSTANTS
  Texts,          \* documents
  Upper(_),       \* char::to_uppercase, of one character
  Synonyms,       \* syn: a function on lowercase words
  QZX,            \* "qzx", the word that is in no document
  Steps,          \* values of "every" and k
  MaxAttacks      \* bound: attacks on one document

VARIABLES
  original,   \* the document
  text,       \* what has become of it
  attacks     \* history: the attacks that made it so, in order

vars == <<original, text, attacks>>

-----------------------------------------------------------------------------
Join(toks, glue) ==
  FlattenSeq([k \in 1..Len(toks) |->
                IF k = 1 THEN toks[k] ELSE glue \o toks[k]])
SplitWhitespace(t) == NonEmpty(Split(t, Space))

strip_invis(t) == structural(t)
whitespace(t) == Join(SplitWhitespace(t), << BLANK >>)
casefold(t) == Lowered(t)
retype(t) == whitespace(casefold(strip_invis(t)))

(* window_frac and excerpt; take_frac begins where the document does.      *)
LeastOf(a, b) == IF a <= b THEN a ELSE b
window(t, n) ==
  LET start == LeastOf(Len(t) \div 4, Len(t) - n)
  IN  SubSeq(t, start + 1, start + n)

(* The positions count from 0, so the first word always goes. *)
word_delete(t, every) ==
  LET toks == SplitWhitespace(t)
      kept == SelectSeq([k \in 1..Len(toks) |-> k],
                        LAMBDA k : (k - 1) % every # 0)
  IN  Join([j \in 1..Len(kept) |-> toks[kept[j]]], << BLANK >>)

typos(t, every) ==
  [k \in 1..Len(t) |-> IF (k - 1) % every = 0 /\ t[k] \in Alnum THEN "x"
                       ELSE t[k]]

(* The letters of a token are looked up as one word, and its first         *)
(* occurrence in the token is replaced; there is none when something       *)
(* stands between the letters.                                             *)
Swapped(tok) ==
  LET core == SelectSeq(tok, LAMBDA c : c \in Alnum)
  IN  IF Lowered(core) \in DOMAIN Synonyms
        THEN ReplaceFirstSubSeq(Synonyms[Lowered(core)], core, tok)
        ELSE tok
synonym_swap(t) ==
  LET toks == SplitWhitespace(t)
  IN  Join([k \in 1..Len(toks) |-> Swapped(toks[k])], << BLANK >>)

(* The words that k_word_edits replaces, by index. *)
EditedWords(toks, n) ==
  LET k == LeastOf(n, Len(toks))
  IN  {LeastOf((j * Len(toks)) \div k, Len(toks) - 1) + 1 : j \in 0..(k - 1)}
k_word_edits(t, n) ==
  LET toks == SplitWhitespace(t)
  IN  IF toks = << >> THEN t
      ELSE Join([k \in 1..Len(toks) |->
                   IF k \in EditedWords(toks, n) THEN QZX ELSE toks[k]],
                << BLANK >>)

(* reformat: cumulative, the levels 0 to 3.                                *)
inject(t) ==
  FlattenSeq([k \in 1..Len(t) |->
    IF t[k] = BLANK THEN << BLANK, CHOOSE z \in ZeroWidth : TRUE >>
    ELSE << t[k] >>])
reformat(t, level) ==
  LET upper == IF level >= 1 THEN [k \in 1..Len(t) |-> Upper(t[k])] ELSE t
      spaced == IF level >= 2
                  THEN Join(SplitWhitespace(upper), << BLANK, BLANK >>)
                  ELSE upper
  IN  IF level >= 3 THEN inject(spaced) ELSE spaced

-----------------------------------------------------------------------------
Init ==
  /\ original \in Texts
  /\ text = original
  /\ attacks = << >>

Attack(name, t) ==
  /\ Len(attacks) < MaxAttacks
  /\ text' = t
  /\ attacks' = Append(attacks, name)
  /\ UNCHANGED original

StripInvisibles == Attack("strip_invisibles", strip_invis(text))
Casefold == Attack("casefold", casefold(text))
Whitespace == Attack("whitespace", whitespace(text))
Retype == Attack("retype", retype(text))
Truncate == \E n \in 1..Len(text) : Attack("truncate", SubSeq(text, 1, n))
Excerpt == \E n \in 1..Len(text) : Attack("excerpt", window(text, n))
WordDelete == \E n \in Steps : Attack("word_del", word_delete(text, n))
Typos == \E n \in Steps : Attack("typos", typos(text, n))
SynonymSwap == Attack("synonym_swap", synonym_swap(text))
WordEdits == \E n \in Steps : Attack("word_edits", k_word_edits(text, n))
Reformat == \E level \in 0..3 : Attack("reformat", reformat(text, level))

Next ==
  \/ StripInvisibles \/ Casefold \/ Whitespace \/ Retype
  \/ Truncate \/ Excerpt \/ WordDelete \/ Typos
  \/ SynonymSwap \/ WordEdits \/ Reformat

Spec == Init /\ [][Next]_vars

-----------------------------------------------------------------------------
Only(names) == \A k \in 1..Len(attacks) : attacks[k] \in names
OneParagraph(t) == Len(Paragraphs(t)) = 1

(* The splitters lose nothing, repeat nothing and cut through no word: the *)
(* sentences of the paragraphs, read one after the other, show what the    *)
(* text shows and have its words.  In particular a text after which no     *)
(* terminator comes is read to its end.                                    *)
SentencesPartition ==
  LET all == FlattenSeq(SentencesOf(text))
      seen(s) == SelectSeq(s, LAMBDA c : c \notin Space)
      toks == [k \in 1..Len(all) |-> word_tokens(all[k])]
  IN  /\ seen(FlattenSeq(all)) = seen(structural(text))
      /\ FlattenSeq(toks) = words(text)

(* "Reformatting sweep: survival should stay at 1.0 because normalization  *)
(* absorbs them" (threshold_sweep.rs:15): after any chain of benign format *)
(* transforms the words are the same, so that MinHash and SimHash are, and *)
(* in a document of one paragraph the structural features are.  Only       *)
(* there, as whitespace() and reformat() leave no paragraph break.         *)
Benign == {"strip_invisibles", "casefold", "whitespace", "retype", "reformat"}
AbsorbsReformatting ==
  Only(Benign) =>
    /\ words(text) = words(original)
    /\ OneParagraph(original) => compute(text) = compute(original)

(* The structural fingerprint reads function words, lengths and marks, and *)
(* of the other words nothing: synonyms leave it as it is ("synonym-level  *)
(* paraphrase", structure.rs:6), and an edit of words does when each word  *)
(* it replaced, seen alone, was an open-class word without any mark.  An   *)
(* edit that is not noticed lost no mark and put as many words as there    *)
(* were: "x/x $" is two words, and "qzx qzx" is.  Where it replaced one    *)
(* token, that was such an open-class word.                                *)
ReadsStructureOnly ==
  OneParagraph(original) =>
    /\ Only({"synonym_swap"}) => compute(text) = compute(original)
    /\ attacks = << >> => \A n \in Steps :
         LET toks == SplitWhitespace(original)
             edited == SetToSeq(EditedWords(toks, n))
             old == [j \in 1..Len(edited) |-> toks[edited[j]]]
             plain(tok) == compute(tok) = compute(QZX)
             same == compute(k_word_edits(original, n)) = compute(original)
         IN  toks # << >> =>
               /\ (\A j \in 1..Len(old) : plain(old[j])) => same
               /\ same => /\ PunctuationProfile(FlattenSeq(old)) = << >>
                          /\ Len(words(Join(old, << BLANK >>))) = Len(old)
                          /\ Len(old) = 1 => plain(old[1])

(* Two signatures agree in a permutation exactly when the least shingle of *)
(* both texts together is in both; a text without words agrees with no     *)
(* other.  This is what makes their agreement an estimate of the overlap   *)
(* (minhash.rs:175) and lets an excerpt match the whole, however often a   *)
(* shingle occurs and in whatever order.                                   *)
OverlapEstimated == EstimatesOverlap(words(text), words(original))

(* "sensitive to case" (STABILITY.md:58). *)
CaseIsNoticed ==
  attacks = << "casefold" >> /\ text # original =>
    compute(text) # compute(original)
=============================================================================
