------------------------------- MODULE Normalize -------------------------------
(***************************************************************************)
(* normalize::canonical, once for a text when its fingerprint is recorded  *)
(* and once more after an edit of the text, as a verifier calls it.        *)
(*                                                                         *)
(* NFC is what it does to a base followed by a combining mark; texts that  *)
(* need reordering of marks or longer compositions are left out.           *)
(***************************************************************************)
EXTENDS Integers, Sequences, SequencesExt

CONSTANTS
  Texts,            \* texts that are bound
  Alnum,            \* characters with is_alphanumeric
  ZeroWidth,        \* characters with is_zero_width_format
  Space, Punct,     \* whitespace and punctuation
  Marks,            \* combining marks
  Composite,        \* what a base and a mark compose to, for those that do
  Lower(_),         \* char::to_lowercase: one or several characters
  Upper(_),         \* a letter in the other case, as an editor changes it
  Edits             \* kinds of edits that may happen

BLANK == " "
Char == Alnum \cup ZeroWidth \cup Space \cup Punct \cup Marks
Separators == Space \cup Punct

ASSUME CharAssumption ==
  /\ BLANK \in Space
  /\ Alnum \cap (ZeroWidth \cup Separators \cup Marks) = {}
  /\ Marks \cap (ZeroWidth \cup Separators) = {}
  /\ ZeroWidth \cap Separators = {}

ASSUME TextsAssumption == Texts \subseteq Seq(Char)

(* Letters compose with marks, to letters that compose with nothing more.  *)
ASSUME CompositeAssumption ==
  /\ Composite \in [DOMAIN Composite -> Alnum]
  /\ DOMAIN Composite \subseteq Alnum \X Marks
  /\ \A p, q \in DOMAIN Composite : Composite[p] # q[1]

(* A letter has a letter in lower case; what follows that letter, as in the *)
(* case of U+0130, is none.  What is no letter has no case.                *)
ASSUME LowerAssumption ==
  /\ \A c \in Alnum :
       /\ Lower(c) \in Seq(Char) /\ Lower(c) # << >>
       /\ Head(Lower(c)) \in Alnum
       /\ Lower(Head(Lower(c))) = << Head(Lower(c)) >>
       /\ \A i \in 2..Len(Lower(c)) : Lower(c)[i] \notin Alnum
  /\ \A c \in Char \ Alnum : Lower(c) = << c >>

ASSUME UpperAssumption == \A c \in Alnum : Upper(c) \in Alnum

(* The edits of STABILITY.md:27-38 and 49-53, one at a time.               *)
Kinds == {"spacing", "punctuation", "injection", "any injection",
          "decomposition", "case", "canonical", "letter added",
          "letter replaced"}
ASSUME EditsAssumption == Edits \subseteq Kinds

VARIABLES
  text,      \* the text
  read,      \* how many of its characters the NFC iterator has read
  lcs,       \* what the to_lowercase iterator has not yielded yet
  out,
  pending_separator,
  recorded,  \* the stream of the text as it was bound
  edit,      \* the edit since then
  pc         \* "bind" or "verify" in the loop, "bound" and "verified" after it

vars == <<text, read, lcs, out, pending_separator, recorded, edit, pc>>

(* In NFC a mark is absorbed by the base before it, if the two compose.    *)
Joins(t, k) == k \in 2..Len(t) /\ <<t[k - 1], t[k]>> \in DOMAIN Composite
Composed(t, k) ==
  IF Joins(t, k + 1) THEN Composite[<<t[k], t[k + 1]>>] ELSE t[k]

Init ==
  /\ text \in Texts
  /\ read = 0 /\ lcs = << >>
  /\ out = << >> /\ pending_separator = FALSE
  /\ recorded = << >> /\ edit = "none"
  /\ pc = "bind"

Looping == pc \in {"bind", "verify"}

(* What the NFC iterator yields next, and how far it reads for it.         *)
NextChar == Looping /\ lcs = << >> /\ read < Len(text)
Yielded == Composed(text, read + 1)
Advance == read' = IF Joins(text, read + 2) THEN read + 2 ELSE read + 1

SkipZeroWidth ==
  /\ NextChar /\ Yielded \in ZeroWidth
  /\ Advance
  /\ UNCHANGED <<text, lcs, out, pending_separator, recorded, edit, pc>>

(* Mutant of Lowercase: of several characters, the last.                   *)
LowercaseLast ==
  /\ NextChar /\ Yielded \notin ZeroWidth
  /\ lcs' = << Last(Lower(Yielded)) >>
  /\ Advance
  /\ UNCHANGED <<text, out, pending_separator, recorded, edit, pc>>

Lowercase ==
  /\ NextChar /\ Yielded \notin ZeroWidth
  /\ lcs' = Lower(Yielded)
  /\ Advance
  /\ UNCHANGED <<text, out, pending_separator, recorded, edit, pc>>

(* Mutant of PushAlnum: a separator at the beginning counts.               *)
PushAlnumAfterEdge ==
  /\ Looping /\ lcs # << >> /\ Head(lcs) \in Alnum
  /\ out' = out \o (IF pending_separator THEN << BLANK >> ELSE << >>)
                \o << Head(lcs) >>
  /\ pending_separator' = FALSE
  /\ lcs' = Tail(lcs)
  /\ UNCHANGED <<text, read, recorded, edit, pc>>

PushAlnum ==
  /\ Looping /\ lcs # << >> /\ Head(lcs) \in Alnum
  /\ LET gap == IF pending_separator /\ out # << >> THEN << BLANK >> ELSE << >>
     IN out' = out \o gap \o << Head(lcs) >>
  /\ pending_separator' = FALSE
  /\ lcs' = Tail(lcs)
  /\ UNCHANGED <<text, read, recorded, edit, pc>>

(* Mutant of Separate: each separator is written at once, as a blank.      *)
SeparateAtOnce ==
  /\ Looping /\ lcs # << >> /\ Head(lcs) \notin Alnum
  /\ out' = Append(out, BLANK)
  /\ lcs' = Tail(lcs)
  /\ UNCHANGED <<text, read, pending_separator, recorded, edit, pc>>

Separate ==
  /\ Looping /\ lcs # << >> /\ Head(lcs) \notin Alnum
  /\ pending_separator' = TRUE
  /\ lcs' = Tail(lcs)
  /\ UNCHANGED <<text, read, out, recorded, edit, pc>>

Return ==
  /\ Looping /\ lcs = << >> /\ read = Len(text)
  /\ recorded' = IF pc = "bind" THEN out ELSE recorded
  /\ pc' = IF pc = "bind" THEN "bound" ELSE "verified"
  /\ UNCHANGED <<text, read, lcs, out, pending_separator, edit>>

-----------------------------------------------------------------------------
(* Edits of one place.                                                     *)
Places(t) == 1..(Len(t) + 1)
Inserted(t, S, places) == {InsertAt(t, k, c) : k \in places, c \in S}
Replaced(t, From, To) ==
  {ReplaceAt(t, k, c) : k \in {j \in 1..Len(t) : t[j] \in From}, c \in To}

Decomposed(t, k, c, m) ==
  SubSeq(t, 1, k - 1) \o << c, m >> \o SubSeq(t, k + 1, Len(t))

MarkAt(t, k) == k <= Len(t) /\ t[k] \in Marks
AtSeparator(t, k) ==
  \/ k = 1 \/ k = Len(t) + 1
  \/ t[k] \in Separators \/ t[k - 1] \in Separators

(* The letter that a letter lowercases to.                                 *)
Folded(c) == Head(Lower(c))

(* Changing the case of a letter is undone by lowercasing, whatever mark it *)
(* may compose with.                                                       *)
CaseKept(c) ==
  /\ Lower(Upper(c)) = Lower(c)
  /\ \A m \in Marks :
       /\ <<c, m>> \in DOMAIN Composite <=> <<Upper(c), m>> \in DOMAIN Composite
       /\ <<c, m>> \in DOMAIN Composite =>
            Lower(Composite[<<Upper(c), m>>]) = Lower(Composite[<<c, m>>])

(* The texts that an edit of a kind can make of a text with that stream.   *)
Edited(kind, t, stream) ==
  CASE kind = "spacing" ->
         Inserted(t, Space, {k \in Places(t) : AtSeparator(t, k)})
           \cup Replaced(t, Space, Space)
    [] kind = "punctuation" ->
         Inserted(t, Punct, {k \in Places(t) : AtSeparator(t, k)})
           \cup Replaced(t, Separators, Separators)
    [] kind = "injection" ->
         Inserted(t, ZeroWidth, {k \in Places(t) : ~MarkAt(t, k)})
    [] kind = "any injection" -> Inserted(t, ZeroWidth, Places(t))
    [] kind = "decomposition" ->
         {Decomposed(t, q[1], q[2], q[3]) :
            q \in {r \in (1..Len(t)) \X Alnum \X Marks :
                     /\ <<r[2], r[3]>> \in DOMAIN Composite
                     /\ t[r[1]] = Composite[<<r[2], r[3]>>]}}
    [] kind = "case" ->
         {ReplaceAt(t, k, Upper(t[k])) :
            k \in {j \in 1..Len(t) : t[j] \in Alnum /\ CaseKept(t[j])}}
    [] kind = "canonical" -> {stream}
    [] kind = "letter added" -> Inserted(t, Alnum, Places(t))
    [] kind = "letter replaced" ->
         {ReplaceAt(t, q[1], q[2]) :
            q \in {r \in (1..Len(t)) \X Alnum :
                     /\ t[r[1]] \in Alnum /\ ~MarkAt(t, r[1] + 1)
                     /\ Folded(r[2]) # Folded(t[r[1]])}}

Edit ==
  /\ pc = "bound"
  /\ edit' \in Edits
  /\ text' \in Edited(edit', text, recorded)
  /\ read' = 0 /\ lcs' = << >>
  /\ out' = << >> /\ pending_separator' = FALSE
  /\ pc' = "verify"
  /\ UNCHANGED recorded

Next ==
  \/ SkipZeroWidth \/ Lowercase \/ PushAlnum \/ Separate \/ Return
  \/ Edit

Spec == Init /\ [][Next]_vars

-----------------------------------------------------------------------------
(* Whether the character at a place, or the one it becomes, gives anything *)
(* that is no letter; whether such a thing stands behind the last letter of *)
(* the first n characters; whether it stands between a letter and the one  *)
(* before it.                                                              *)
Separates(t, k) ==
  /\ ~Joins(t, k) /\ Composed(t, k) \notin ZeroWidth
  /\ \E i \in 1..Len(Lower(Composed(t, k))) : Lower(Composed(t, k))[i] \notin Alnum
Trailing(t, n) ==
  \E k \in 1..n : Separates(t, k) /\ \A j \in (k + 1)..n : t[j] \notin Alnum
Break(t, k) ==
  t[k] \in Alnum /\ Trailing(t, k - 1) /\ \E j \in 1..(k - 1) : t[j] \in Alnum

(* How much of the stream the first n characters make.                     *)
Place(t, n) ==
  Cardinality({k \in 1..n : t[k] \in Alnum}) + Cardinality({k \in 1..n : Break(t, k)})

(* The stream holds the letters in order, with one blank between two of    *)
(* them just when something else stands between them, and none at the ends.*)
IsStream(t, s) ==
  /\ Len(s) = Place(t, Len(t))
  /\ \A k \in {j \in 1..Len(t) : t[j] \in Alnum} :
       /\ s[Place(t, k)] = Folded(Composed(t, k))
       /\ Break(t, k) => s[Place(t, k) - 1] = BLANK
OneBlankBetweenWords == pc \in {"bound", "verified"} => IsStream(text, out)

(* The edits that the stream absorbs: the rows of STABILITY.md:27-38, as   *)
(* far as they hold.  "canonical" says that the stream is its own stream.  *)
Absorbed == {"spacing", "punctuation", "injection", "decomposition", "case",
             "canonical"}
SurvivesReformatting ==
  pc = "verified" /\ edit \in Absorbed => out = recorded

(* The edits that it must not absorb (STABILITY.md:49-53).                 *)
NoticesWords ==
  pc = "verified" /\ edit \in {"letter added", "letter replaced"} =>
    out # recorded

(* "Zero-width injection ... | yes | stripped" (STABILITY.md:36).          *)
SurvivesInjection ==
  pc = "verified" /\ edit = "any injection" => out = recorded
=============================================================================
