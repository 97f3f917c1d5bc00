------------------------------- MODULE Watermark ------------------------------
(***************************************************************************)
(* The life of a zwc-watermark.2: stego::embed marks a text, the text      *)
(* travels and is damaged on the way, stego::extract reads it blind.       *)
(*                                                                         *)
(* The loops of embed and extract are here what they were shown to         *)
(* compute: gaps are word ends (WordGaps), runs are the symbols filed by   *)
(* word (ReadRuns), the placement is an injection (Placement), the marked  *)
(* text is Woven (Weave).  Bytes are terms, so that a byte names what it   *)
(* was computed from: two HMACs, or two parity bytes, are equal only when  *)
(* their inputs are, as up to collisions they are in the code.             *)
(***************************************************************************)
EXTENDS Carrier

CONSTANTS
  Key,             \* the HMAC keys in use
  Pointer,         \* the pointers embed is called with, as byte sequences
  HostChar,        \* the characters of the texts that get marked
  Hosts,           \* those texts
  POINTER_LEN,
  TAG_LEN,
  PARITY_SHARDS,
  MaxMarks,        \* bound: how often a text is marked
  MaxLosses        \* bound: how often it is damaged

DATA_SHARDS == POINTER_LEN + TAG_LEN

(* A symbol that no embedding put there: noise of the transport, or part   *)
(* of the text before it was first marked.                                 *)
Foreign == [class |-> "symbol", byte |-> <<"foreign">>, part |-> 0]

ASSUME LengthsAssumption ==
  /\ POINTER_LEN \in Nat \ {0} /\ TAG_LEN \in Nat \ {0}
  /\ PARITY_SHARDS \in Nat
  /\ TOTAL_SHARDS = DATA_SHARDS + PARITY_SHARDS
ASSUME PointerAssumption == Pointer \subseteq Seq(0..255)
ASSUME HostAssumption ==
  /\ \A c \in HostChar : c.class \in Class /\ (IsSymbol(c) => c = Foreign)
  /\ Hosts \subseteq Seq(HostChar)
ASSUME BoundsAssumption == MaxMarks \in Nat /\ MaxLosses \in Nat

VARIABLES
  text,        \* the text, wherever it is on its way
  sent,        \* history: each embedding, with the host it got and its output
  losses,      \* how often the text was damaged: counted for the bound only
  damage,      \* history: in which ways since it was last marked
  result       \* what extract last returned for the text as it is now

vars == <<text, sent, losses, damage, result>>

-----------------------------------------------------------------------------
(* normalize::canonical on texts of caseless letters: the letters of t, in *)
(* order, each with whether a visible character other than a letter came   *)
(* between it and the letter before.  content_hash is injective on these.  *)
ContentHash(t) ==
  LET kept == {i \in 1..Len(t) : IsAlnum(t[i])}
      Separated(a, b) == \E i \in (a + 1)..(b - 1) : ~IsZeroWidth(t[i])
  IN  [k \in 1..Cardinality(kept) |->
         <<t[Nth(kept, k)].val,
           k > 1 /\ Separated(Nth(kept, k - 1), Nth(kept, k))>>]

(* embed's ptr: right-truncated or zero-padded to POINTER_LEN bytes.       *)
PointerBytes == {<<"pointer", v>> : v \in 0..255}
Fit(p) == [b \in 0..(POINTER_LEN - 1) |->
             <<"pointer", IF b < Len(p) THEN p[b + 1] ELSE 0>>]

(* Mutants of Byte: the tag does not depend on the pointer; not on the key. *)
ByteUnboundPointer(m, s) ==
  IF s < POINTER_LEN THEN m.pointer[s]
  ELSE IF s < DATA_SHARDS THEN <<"tag", s, [key |-> m.key, hash |-> m.hash]>>
  ELSE <<"parity", s, m>>
ByteUnkeyed(m, s) ==
  IF s < POINTER_LEN THEN m.pointer[s]
  ELSE IF s < DATA_SHARDS
         THEN <<"tag", s, [hash |-> m.hash, pointer |-> m.pointer]>>
  ELSE <<"parity", s, m>>

(* A mark is what a tag binds together.  Its shards are the pointer, the   *)
(* bytes of binding_tag and the Reed-Solomon parity over both: rs_encode.  *)
MarkOf(k, h, p) == [key |-> k, hash |-> h, pointer |-> p]
Byte(m, s) ==
  IF s < POINTER_LEN THEN m.pointer[s]
  ELSE IF s < DATA_SHARDS THEN <<"tag", s, m>>
  ELSE <<"parity", s, m>>

(* byte_to_run and its inverse run_to_byte; symbols of different bytes in  *)
(* one run make up some other byte.                                        *)
SymbolOf(b, k) == [class |-> "symbol", byte |-> b, part |-> k]
RunOf(b) == [k \in 1..SYMBOLS_PER_SHARD |-> SymbolOf(b, k)]
RunToByte(run) ==
  IF run = RunOf(run[1].byte) THEN run[1].byte ELSE <<"mixed", run>>

(* What extract takes the run under a rank for; one that has not the       *)
(* length of a shard's run is an erasure.                                  *)
Erased == <<"erased">>
(* Mutant of ReadShard: of a longer run the first symbols are taken.       *)
ReadShardLenient(t, r) ==
  LET run == At(t, Filed(t, r, Len(t)))
  IN  IF Len(run) < SYMBOLS_PER_SHARD THEN Erased
      ELSE RunToByte(SubSeq(run, 1, SYMBOLS_PER_SHARD))

ReadShard(t, r) ==
  LET run == At(t, Filed(t, r, Len(t)))
  IN  IF Len(run) = SYMBOLS_PER_SHARD THEN RunToByte(run) ELSE Erased

Present(sh) == {s \in Shards : sh[s] # Erased}

(* rs_reconstruct.  The code solves for missing data from the first        *)
(* DATA_SHARDS shards present.  They are either shards of one codeword,    *)
(* which then supplies the missing bytes, or the bytes are garbage; data   *)
(* shards that are present are passed on as they are.                      *)
Basis(sh) ==
  {s \in Present(sh) : Cardinality({u \in Present(sh) : u < s}) < DATA_SHARDS}
Codewords(sh) ==
  {m \in {sh[s][3] : s \in {u \in Basis(sh) : sh[u][1] = "parity"}} :
     \A s \in Basis(sh) : sh[s] = Byte(m, s)}
Reconstruct(sh) ==
  [s \in 0..(DATA_SHARDS - 1) |->
     IF sh[s] # Erased THEN sh[s]
     ELSE IF Codewords(sh) # {} THEN Byte(CHOOSE m \in Codewords(sh) : TRUE, s)
     ELSE <<"garbage", s>>]

(* Mutant of TooFew: one shard more than the code needs is asked for.      *)
TooFewByOne(erased) == TOTAL_SHARDS - erased <= DATA_SHARDS

TooFew(erased) == TOTAL_SHARDS - erased < DATA_SHARDS

-----------------------------------------------------------------------------
GapCount(t) == Cardinality(WordEnds(t))

(* The orders fisher_yates may return for text t with content hash h: the  *)
(* same key, hash and number of gaps give the order they gave an embedding *)
(* before.  Nothing is known of the others, so each call has any of them.  *)
Draws(k, h, t) ==
  {ord \in Orders(GapCount(t)) :
     \A i \in 1..Len(sent) :
       /\ sent[i].mark.key = k /\ sent[i].mark.hash = h
       /\ GapCount(sent[i].host) = GapCount(t)
       => ord = sent[i].order}

NoResult == [status |-> "none"]
Failed(status, k) == [status |-> status, key |-> k]
Recovered(m, verified, erased) ==
  [status |-> "ok", key |-> m.key, hash |-> m.hash, pointer |-> m.pointer,
   tag_verified |-> verified, shards_recovered |-> erased]

Init ==
  /\ text \in Hosts
  /\ sent = << >>
  /\ losses = 0
  /\ damage = {}
  /\ result = NoResult

Embed(k, p) ==
  LET m == MarkOf(k, ContentHash(text), Fit(p))
      run == [s \in Shards |-> RunOf(Byte(m, s))]
  IN
  /\ Len(sent) < MaxMarks
  /\ GapCount(text) >= TOTAL_SHARDS
  /\ \E ord \in Draws(k, m.hash, text) :
       \E ins \in SortedInsertions(text, ord, run) :
         /\ text' = Woven(text, ins)
         /\ sent' = Append(sent, [mark |-> m, host |-> text, order |-> ord,
                                  output |-> Woven(text, ins)])
  /\ damage' = {}
  /\ result' = NoResult
  /\ UNCHANGED losses

EmbedTooShort(k) ==
  /\ Len(sent) < MaxMarks
  /\ GapCount(text) < TOTAL_SHARDS
  /\ result' = Failed("ContentTooShort", k)
  /\ UNCHANGED <<text, sent, losses, damage>>

(* The lossy operations of tests/fail_safety.rs, with remapping of symbols *)
(* in place of its remapping of variation selectors, and a transport that  *)
(* strips every zero-width character.  Before its first embedding a text   *)
(* is just another host.                                                   *)
Lose(kind, t) ==
  /\ sent # << >>
  /\ losses < MaxLosses
  /\ text' = t
  /\ losses' = losses + 1
  /\ damage' = damage \cup {kind}
  /\ result' = NoResult
  /\ UNCHANGED sent

Drop == \E i \in 1..Len(text) : Lose("drop", RemoveAt(text, i))
Truncate == \E n \in 0..(Len(text) - 1) : Lose("truncate", SubSeq(text, 1, n))
Remap ==
  \E i \in {j \in 1..Len(text) : IsSymbol(text[j])} :
    \E c \in {d \in Range(text) : IsSymbol(d)} \cup {Foreign} :
      Lose("remap", [text EXCEPT ![i] = c])
StripAll == Lose("strip", Strip(text))

ExtractTooShort(k) ==
  /\ GapCount(Strip(text)) < TOTAL_SHARDS
  /\ result' = Failed("ContentTooShort", k)
  /\ UNCHANGED <<text, sent, losses, damage>>

Extract(k) ==
  LET clean == Strip(text)
      h == ContentHash(clean)
      read == [r \in 0..(GapCount(clean) - 1) |-> ReadShard(text, r)]
  IN
  /\ GapCount(clean) >= TOTAL_SHARDS
  /\ \E ord \in Draws(k, h, clean) :
       LET sh == [s \in Shards |-> read[ord[s]]]
           erased == TOTAL_SHARDS - Cardinality(Present(sh))
           payload == Reconstruct(sh)
           m == MarkOf(k, h, [b \in 0..(POINTER_LEN - 1) |-> payload[b]])
           verified == \A s \in POINTER_LEN..(DATA_SHARDS - 1) :
                         payload[s] = Byte(m, s)
       IN  result' = IF TooFew(erased)
                       THEN Failed("WatermarkUnrecoverable", k)
                       ELSE Recovered(m, verified, erased)
  /\ UNCHANGED <<text, sent, losses, damage>>

Next ==
  \/ \E k \in Key : \/ \E p \in Pointer : Embed(k, p)
                    \/ EmbedTooShort(k)
                    \/ Extract(k)
                    \/ ExtractTooShort(k)
  \/ Drop \/ Truncate \/ Remap \/ StripAll

Spec == Init /\ [][Next]_vars

-----------------------------------------------------------------------------
Marks == {sent[i].mark : i \in 1..Len(sent)}

(* Every character on its way came with a host, from an embedding or from  *)
(* the transport's noise.                                                  *)
CharsOf(marks) ==
  HostChar \cup {Foreign}
    \cup {SymbolOf(Byte(m, s), k) :
             m \in marks, s \in Shards, k \in 1..SYMBOLS_PER_SHARD}

TypeOK ==
  /\ sent \in Seq(Range(sent))
  /\ LET chars == CharsOf(Marks) IN
       /\ text \in Seq(chars)
       /\ \A i \in 1..Len(sent) : /\ sent[i].host \in Seq(chars)
                                  /\ sent[i].output \in Seq(chars)
  /\ \A i \in 1..Len(sent) :
       /\ sent[i].mark.key \in Key
       /\ sent[i].mark.pointer \in [0..(POINTER_LEN - 1) -> PointerBytes]
       /\ sent[i].order \in Orders(GapCount(sent[i].host))
  /\ losses \in 0..MaxLosses
  /\ damage \subseteq {"drop", "truncate", "remap", "strip"}
  /\ result.status \in {"none", "ok", "ContentTooShort",
                        "WatermarkUnrecoverable"}

(* A recovery whose tag verified returns a pointer that was embedded with  *)
(* this key for this very content: no damage to the carrier, no second     *)
(* mark, no mixture of runs makes a wrong pointer verify.                  *)
VerifiedWasEmbedded ==
  result.status = "ok" /\ result.tag_verified =>
    MarkOf(result.key, result.hash, result.pointer) \in Marks

(* What was lost since the last embedding is zero-width characters only.   *)
OnlySymbolsLost ==
  /\ damage \subseteq {"drop", "truncate"}
  /\ Strip(text) = Last(sent).host

(* "Extraction recovers from partial loss": when at most PARITY_SHARDS     *)
(* symbols of a mark in a clean text were lost, wherever they were, and    *)
(* nothing that can be seen, extract under the same key verifies, returns  *)
(* the pointer as embedded, cut or padded, and counts no more erasures     *)
(* than symbols lost.                                                      *)
SurvivesPartialLoss ==
  /\ Len(sent) = 1 /\ NoZeroWidth(Last(sent).host) /\ OnlySymbolsLost
  /\ Len(Last(sent).output) - Len(text) <= PARITY_SHARDS
  /\ result.status # "none" /\ result.key = Last(sent).mark.key
  =>
  /\ result.status = "ok" /\ result.tag_verified
  /\ result.pointer = Last(sent).mark.pointer
  /\ result.shards_recovered <= Len(Last(sent).output) - Len(text)

(* Marking a marked text again with the same key doubles every run: the    *)
(* result is refused, and neither pointer, the stale one least of all,     *)
(* comes back.                                                             *)
SecondMarkIsRefused ==
  /\ Len(sent) = 2 /\ damage = {} /\ sent[2].host = sent[1].output
  /\ NoZeroWidth(sent[1].host) /\ sent[1].mark.key = sent[2].mark.key
  /\ result.status # "none" /\ result.key = sent[1].mark.key
  => result.status = "WatermarkUnrecoverable"

(* Extraction "reproduces the shuffle and verifies the tag": the output of *)
(* embed, untouched, is read back.  (Not so when the text had a zero-width *)
(* character inside a word, which is a gap to embed and none to extract.)  *)
UntouchedIsReadBack ==
  /\ Len(sent) = 1 /\ damage = {}
  /\ result.status # "none" /\ result.key = Last(sent).mark.key
  => result.status = "ok" /\ result.tag_verified
=============================================================================
