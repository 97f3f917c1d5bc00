------------------------------ MODULE StegoText ------------------------------
(***************************************************************************)
(* Texts as the carrier code of stego.rs sees them.                        *)
(*                                                                         *)
(* A text is a sequence of characters, a character a record whose field    *)
(* "class" is what the code branches on:                                   *)
(*   "letter"  alphanumeric, kept by normalize::canonical                  *)
(*   "punct"   neither alphanumeric, nor whitespace, nor zero-width        *)
(*   "space"   char::is_whitespace                                         *)
(*   "symbol"  zero-width and in the symbol alphabet that is being read    *)
(*   "format"  zero-width and not in that alphabet                         *)
(* Offsets count characters.  The code's byte offsets are in one-to-one,   *)
(* order-preserving correspondence with them: both of its loops over a     *)
(* text take their offsets from char_indices.                              *)
(***************************************************************************)
EXTENDS Integers, Sequences, FiniteSets, SequencesExt

Class == {"letter", "punct", "space", "symbol", "format"}

(* char::is_whitespace *)
IsSpace(c) == c.class = "space"

(* normalize::is_zero_width_format *)
IsZeroWidth(c) == c.class \in {"symbol", "format"}

(* stego::symbol_value returns Some *)
IsSymbol(c) == c.class = "symbol"

(* char::is_alphanumeric *)
IsAlnum(c) == c.class = "letter"

(* Mutant of IsSep: word_gaps splits at whitespace only.                   *)
IsSepWhitespaceOnly(c) == IsSpace(c)

(* is_sep of word_gaps: whitespace, or zero-width already present. *)
IsSep(c) == IsSpace(c) \/ IsZeroWidth(c)

(* The k-th smallest number of P, and the characters of t at the positions *)
(* in P, in order.  (Unlike SelectSeq this is not recursive, so that it    *)
(* can be reasoned about.)                                                 *)
Nth(P, k) == CHOOSE i \in P : Cardinality({j \in P : j <= i}) = k
At(t, P) == [k \in 1..Cardinality(P) |-> t[Nth(P, k)]]

(* stego::strip_zero_width *)
Strip(t) == At(t, {i \in 1..Len(t) : ~IsZeroWidth(t[i])})

(* Offset e ends a word of t: a maximal run of characters that are no      *)
(* separators.                                                             *)
WordEnds(t) ==
  {e \in 1..Len(t) : /\ ~IsSep(t[e])
                     /\ e < Len(t) => IsSep(t[e + 1])}

(* The rank of the gap at offset e in the list that word_gaps(t) returns.  *)
GapRank(t, e) == Cardinality({w \in WordEnds(t) : w < e})

(* After its first i characters, t has no word open as read_runs counts    *)
(* them: symbols aside, whitespace or nothing came last.                   *)
BetweenWords(t, i) ==
  \/ \A j \in 1..i : IsSymbol(t[j])
  \/ \E j \in 1..i : /\ IsSpace(t[j])
                     /\ \A k \in (j + 1)..i : IsSymbol(t[k])

OpensWord(t, i) ==
  ~IsSymbol(t[i]) /\ ~IsSpace(t[i]) /\ BetweenWords(t, i - 1)

(* Words opened before position i: the word_rank that read_runs has when   *)
(* it looks at character i.                                                *)
RankBefore(t, i) == Cardinality({j \in 1..(i - 1) : OpensWord(t, j)})

(* The positions of the symbols of t that read_runs files under rank r,    *)
(* which counts from 0, and the ranks it files any symbol under, among the *)
(* first n characters.                                                     *)
Filed(t, r, n) == {i \in 1..n : IsSymbol(t[i]) /\ RankBefore(t, i) = r + 1}
RanksFiled(t, n) == {r \in 0..n : Filed(t, r, n) # {}}

(* f lists the numbers in P, each once, in increasing order. *)
Listing(f, P) ==
  /\ \A j, k \in DOMAIN f : j < k => f[j] < f[k]
  /\ \A i \in P : \E k \in DOMAIN f : f[k] = i

(* The run of t under rank r is s, as far as the first n characters go:    *)
(* the symbols filed there, in text order.                                 *)
RunSoFar(t, r, n, s) ==
  \E f \in [1..Len(s) -> Filed(t, r, n)] :
    /\ Listing(f, Filed(t, r, n))
    /\ \A k \in 1..Len(s) : s[k] = t[f[k]]

RunRanks(t) == RanksFiled(t, Len(t))
RunIs(t, r, s) == RunSoFar(t, r, Len(t), s)

(* Some run of zero-width characters has a word character on either side.  *)
SplitsWord(t) ==
  \E i, j \in 1..Len(t) :
    /\ i + 1 < j
    /\ ~IsSep(t[i]) /\ ~IsSep(t[j])
    /\ \A k \in (i + 1)..(j - 1) : IsZeroWidth(t[k])

(* A chunk of text between whitespace shows nothing but zero-width         *)
(* characters, one of them outside the symbol alphabet: read_runs counts a *)
(* word there, of which the stripped text has nothing.                     *)
HasGhostWord(t) ==
  \E i \in 1..Len(t) :
    /\ OpensWord(t, i)
    /\ \A k \in i..Len(t) :
         (\A j \in i..k : ~IsSpace(t[j])) => IsZeroWidth(t[k])
=============================================================================
