------------------------------ MODULE MCBenchmark ------------------------------
(* "a" is a function word and "y" a synonym of "x"; "A" and "X" are their  *)
(* capitals; "/" is a symbol of no punctuation class.  All texts of a few  *)
(* characters, more of them over those that make sentences and paragraphs, *)
(* some of two tokens with "/", and some of four words for the shingles.   *)
EXTENDS Benchmark

CONSTANTS MaxLength, MaxCore   \* bounds: lengths of texts

MCAlnum == {"a", "A", "x", "X", "y", "q"}
MCSpace == {BLANK, NL}
MCZeroWidth == {"zwsp"}
MCLower(c) == CASE c = "A" -> "a" [] c = "X" -> "x" [] OTHER -> c
MCUpper(c) == CASE c = "a" -> "A" [] c = "x" -> "X" [] OTHER -> c
MCPunctuationClass(c) ==
  CASE c \in {".", "..."} -> {"."}
    [] c \in {",", "?"} -> {c}
    [] OTHER -> {}
MCFunctionWords == {<< "a" >>}
MCSynonyms == << "x" >> :> << "y" >>
MCQzx == << "q" >>

Inputs == {"A", "X", BLANK, NL, ".", ",", "/", "zwsp"}
Core == {"x", BLANK, NL, "?"}
Tokens == SeqOf({"x", "A", "/"}, 3)
Sentence(w) == << w[1], BLANK, w[2], BLANK, w[3], NL, w[4], "." >>
MCTexts == SeqOf(Inputs, MaxLength) \cup SeqOf(Core, MaxCore)
             \cup {u \o << BLANK, c >> : u \in Tokens, c \in {"x", "A", "/"}}
             \cup {Sentence(w) : w \in TupleOf({"A", "x"}, 4)}

(* Words over five letters as numbers; the permutations are affine, modulo *)
(* a prime, as in the code.                                                *)
Letter(c) == CHOOSE n \in 1..4 : << "a", "x", "y", "q" >>[n] = c
base_hash(s) ==
  FoldLeft(LAMBDA h, c : (5 * h + c) % MERSENNE, 0,
           FlattenSeq([k \in 1..Len(s) |->
             << 0 >> \o [j \in 1..Len(s[k]) |-> Letter(s[k][j])]]))
MCValue(i, s) == LET a == <<1, 5, 7, 12>>  b == <<0, 3, 11, 4>>
                 IN (a[i] * base_hash(s) + b[i]) % MERSENNE
=============================================================================
