------------------------------- MODULE Transport ------------------------------
(***************************************************************************)
(* examples/transport_survivability.rs: a carrier travels through one      *)
(* transport after another, is read at the end and its fate classified.    *)
(*                                                                         *)
(* The carriers are tag and zwbin (DigitCarrier), the zero-width watermark *)
(* "zwc" with its erasure code (Carrier; Watermark says what its tag and   *)
(* parity bytes do), and the fingerprint "simhash", which is derived from  *)
(* the text and needs no carrier.  The variation selectors of A.8 are a    *)
(* library of their own and stay out.                                      *)
(***************************************************************************)
EXTENDS Carrier

CONSTANTS
  Methods,        \* of "tag", "zwbin", "zwc", "simhash"
  Hosts,          \* the visible texts
  Payloads,       \* what tag and zwbin carry
  PARITY_SHARDS,
  MaxHops         \* bound: transports on one journey

ASSUME ParityAssumption == PARITY_SHARDS \in 0..(TOTAL_SHARDS - 1)
ASSUME MethodsAssumption == Methods \subseteq {"tag", "zwbin", "zwc", "simhash"}

(* To code other than tag.rs a tag character is a character that is        *)
(* neither alphanumeric nor zero-width; a bit is a symbol of the           *)
(* zero-width alphabet.  Magics and payloads are shorter than in the code, *)
(* and so is a byte of zwbin.                                              *)
Tag == INSTANCE DigitCarrier WITH
         CLASS <- "punct", BASE <- 16, DIGITS <- 2, MAGIC <- <<195>>
Zwbin == INSTANCE DigitCarrier WITH
           CLASS <- "symbol", BASE <- 2, DIGITS <- 2, MAGIC <- <<2>>

VARIABLES
  sent,      \* what was embedded where: the Method of the journey
  text,      \* the text, wherever it is on its way
  hops,      \* history: the transports it went through
  failed,    \* history: what else than "intact" it was found to be on its way
  outcome    \* of the last reading, "unread" before one

vars == <<sent, text, hops, failed, outcome>>

-----------------------------------------------------------------------------
(* What the transports tell apart.  A host may have a compatibility form,  *)
(* which NFKC and NFKD replace and NFC keeps; blanks of two kinds; and     *)
(* characters above U+FFFF, of which one kind are the variation selectors  *)
(* of ideographs, in the alphabet of a carrier.                            *)
Plain == [class |-> "letter", val |-> "a"]
Compat == [class |-> "letter", val |-> "compat"]
Blank == [class |-> "space", val |-> "blank"]
Newline == [class |-> "space", val |-> "newline"]
Emoji == [class |-> "punct", astral |-> TRUE]
Selector == [class |-> "punct", astral |-> TRUE, vs |-> TRUE]

IsTag(c) == "digit" \in DOMAIN c /\ c.class = "punct"
IsVs(c) == "vs" \in DOMAIN c
IsCarrierCp(c) == IsVs(c) \/ IsTag(c) \/ IsZeroWidth(c)
AboveBmp(c) == IsTag(c) \/ "astral" \in DOMAIN c

(* A host has no zero-width characters and no tag characters; no blank is  *)
(* above U+FFFF, and no blank a selector.                                  *)
ASSUME HostsAssumption ==
  \A h \in Hosts :
    /\ h \in Seq(Range(h))
    /\ NoZeroWidth(h)
    /\ \A k \in 1..Len(h) :
         /\ h[k].class \in Class
         /\ "digit" \notin DOMAIN h[k]
         /\ IsVs(h[k]) => ~IsAlnum(h[k])
         /\ IsSpace(h[k]) => ~IsVs(h[k]) /\ ~AboveBmp(h[k])

(* Bytes that a zwbin of two bits per byte can carry. *)
ASSUME PayloadsAssumption == Payloads \subseteq Seq(0..3)

Visible(t) == At(t, {k \in 1..Len(t) : ~IsCarrierCp(t[k])})

(* Up to NFC, which on these texts changes nothing.  The host is taken as  *)
(* it is, its own selectors included.                                      *)
BindingOk(s, t) == Visible(t) = s.host

(* normalize::canonical: the letters, and before which of them it writes a *)
(* blank, as there is anything else than zero-width characters between the *)
(* letter and the one before it: a blank, a symbol or a tag character.     *)
Separates(c) == ~IsAlnum(c) /\ ~IsZeroWidth(c)
Apart(t, k) ==
  \E i \in 1..(k - 1) :
    /\ Separates(t[i])
    /\ \E j \in 1..(i - 1) : IsAlnum(t[j])
    /\ \A j \in (i + 1)..(k - 1) : ~IsAlnum(t[j])
Canonical(t) ==
  LET letters == {k \in 1..Len(t) : IsAlnum(t[k])}
  IN  [n \in 1..Cardinality(letters) |->
         LET k == Nth(letters, n)
         IN  [letter |-> t[k], apart |-> Apart(t, k)]]

(* What stego::extract takes the placement from is as it was at embedding: *)
(* the content hash and the number of gaps.                                *)
Gaps(t) == Cardinality(WordEnds(Strip(t)))
Kept(s, t) == Canonical(t) = Canonical(s.host) /\ Gaps(t) = Gaps(s.host)

-----------------------------------------------------------------------------
Classify(decoded, want) ==
  CASE decoded.status = "none" -> "gone"
    [] decoded.status = "corrupt" -> "safe"
    [] OTHER -> IF decoded.bytes = want THEN "intact" ELSE "unsafe"

(* Mutant of TooFew: one shard more than the code needs is asked for.      *)
TooFewByOne(erased) == TOTAL_SHARDS - erased <= TOTAL_SHARDS - PARITY_SHARDS

TooFew(erased) == TOTAL_SHARDS - erased < TOTAL_SHARDS - PARITY_SHARDS

(* stego::extract finds the shards where embed put them as long as the     *)
(* content hash and the number of gaps are the same, and looks elsewhere   *)
(* when they are not; of too few it makes no pointer, and of shards that   *)
(* are not the watermark's it may make any.                                *)
ZwcOutcomes(s, t) ==
  LET found(ord, x) ==
        LET run == At(t, Filed(t, ord[x], Len(t)))
        IN  IF Len(run) = SYMBOLS_PER_SHARD THEN run ELSE << >>
      outcomes(ord) ==
        LET present == {x \in Shards : found(ord, x) # << >>}
        IN  IF TooFew(TOTAL_SHARDS - Cardinality(present)) THEN {"gone"}
            ELSE IF \A x \in present : found(ord, x) = Run[x] THEN {"intact"}
            ELSE {"intact", "unsafe"}
  IN  IF Gaps(t) < TOTAL_SHARDS THEN {"gone"}
      ELSE UNION {outcomes(ord) : ord \in IF Kept(s, t) THEN {s.order}
                                          ELSE Orders(Gaps(t))}

(* Fingerprint::matches: sure for equal streams, possible for others. *)
SimhashOutcomes(s, t) ==
  IF Canonical(t) = Canonical(s.host) THEN {"intact"} ELSE {"intact", "gone"}

RecoverOutcomes(s, t) ==
  CASE s.method = "tag" -> {Classify(Tag!Extract(t), s.payload)}
    [] s.method = "zwbin" -> {Classify(Zwbin!Extract(t), s.payload)}
    [] s.method = "zwc" -> ZwcOutcomes(s, t)
    [] s.method = "simhash" -> SimhashOutcomes(s, t)

(* Mutant of Refine: a recovered payload is enough.                        *)
RefineCarrierOnly(s, t, o) == o

(* The payload may be there and the text it was bound to gone. *)
Refine(s, t, o) ==
  IF s.method # "simhash" /\ o = "intact" /\ ~BindingOk(s, t)
    THEN "bind-broke" ELSE o

-----------------------------------------------------------------------------
(* What embedding p into h makes; of an order there is one sorted list. *)
Embeddings(m, h, p, ord) ==
  CASE m = "tag" -> {Tag!Embed(h, p)}
    [] m = "zwbin" -> {Zwbin!Embed(h, p)}
    [] m = "zwc" -> {Woven(h, ins) : ins \in SortedInsertions(h, ord, Run)}
    [] m = "simhash" -> {h}

(* A host too short for the watermark has no "zwc" entry.  The watermark's *)
(* pointer is fixed, and the fingerprint carries nothing.                  *)
Init ==
  /\ \E m \in Methods, h \in Hosts :
     \E p \in IF m \in {"tag", "zwbin"} THEN Payloads ELSE {<< >>} :
       /\ m = "zwc" => Cardinality(WordEnds(h)) >= TOTAL_SHARDS
       /\ \E ord \in IF m = "zwc" THEN Orders(Cardinality(WordEnds(h)))
                                  ELSE {<< >>} :
          \E out \in Embeddings(m, h, p, ord) :
            sent = [method |-> m, host |-> h, payload |-> p, order |-> ord,
                    out |-> out]
  /\ text = sent.out
  /\ hops = << >>
  /\ failed = {}
  /\ outcome = "unread"

Hop(name, t) ==
  /\ Len(hops) < MaxHops
  /\ text' = t
  /\ hops' = Append(hops, name)
  /\ outcome' = "unread"
  /\ UNCHANGED <<sent, failed>>

CarrierPositions == {k \in 1..Len(text) : IsCarrierCp(text[k])}
Without(P) == At(text, (1..Len(text)) \ P)

TagsRemoved == Without({k \in 1..Len(text) : IsTag(text[k])})
ToPlain(c) == IF c = Compat THEN Plain ELSE c

Identity == Hop("identity", text)
Nfc == Hop("nfc", text)
Nfkc == Hop("nfkc", [k \in 1..Len(text) |-> ToPlain(text[k])])
Nfkd == Hop("nfkd", [k \in 1..Len(text) |-> ToPlain(text[k])])
StripBom == Hop("strip-bom", text)
BmpOnly ==
  Hop("bmp-only", Without({k \in 1..Len(text) : AboveBmp(text[k])}))
StripZeroWidth == Hop("strip-zero-width", Strip(text))
StripVariationSel ==
  Hop("strip-variation-sel", Without({k \in 1..Len(text) : IsVs(text[k])}))
StripTags == Hop("strip-tags", TagsRemoved)

(* drop_carrier: by a hash of their position, any may be among them.       *)
DropCarrier ==
  \E P \in SUBSET CarrierPositions : Hop("drop", Without(P))

(* burst_loss: neighbours among the carrier's code points. *)
BurstLoss ==
  \E first, last \in CarrierPositions :
    /\ first <= last
    /\ Hop("burst", Without({k \in CarrierPositions : first <= k /\ k <= last}))

(* truncate_after_host: as many characters as the host has, and some.  Of  *)
(* a watermark, which stands in the host, this cuts the host's own end.    *)
TruncateAfterHost ==
  \E n \in 0..Len(text) :
    /\ n >= Len(sent.host) \/ n = Len(text)
    /\ Hop("truncate", SubSeq(text, 1, n))

(* A pipeline of tier 1 that sets the lines anew. *)
Reflow ==
  Hop("reflow", [k \in 1..Len(text) |->
                   IF text[k] = Newline THEN Blank ELSE text[k]])

(* A cell of the tables of tier0, of a reading that recover has made.      *)
(* corpus_survival and robustness_summary count the readings themselves.   *)
Cell == Refine(sent, text, outcome)

Recover ==
  /\ outcome = "unread"
  /\ outcome' \in RecoverOutcomes(sent, text)
  /\ failed' = failed \cup ({outcome', Refine(sent, text, outcome')} \ {"intact"})
  /\ UNCHANGED <<sent, text, hops>>

Next ==
  \/ Identity \/ Nfc \/ Nfkc \/ Nfkd \/ StripBom \/ BmpOnly
  \/ StripZeroWidth \/ StripVariationSel \/ StripTags
  \/ DropCarrier \/ BurstLoss \/ TruncateAfterHost \/ Reflow
  \/ Recover

Spec == Init /\ [][Next]_vars

-----------------------------------------------------------------------------
HopKinds == {hops[k] : k \in 1..Len(hops)}

(* Digits of the embedded run that are gone. *)
Digits(t) ==
  Cardinality({k \in 1..Len(t) : /\ "digit" \in DOMAIN t[k]
                                 /\ t[k].digit # Tag!NoDigit})
DigitsLost == Digits(sent.out) - Digits(text)

(* A wrong payload, the one outcome TRANSPORT.md calls a real failure,     *)
(* comes from the carriers without a code only when whole bytes' worth of  *)
(* digits is gone, over however many transports and whatever became of the *)
(* text: any other loss reads as "gone" or "safe" (tests                   *)
(* odd_length_run_fails_safe and losing_one_bit_fails_safe, for one code   *)
(* point).  From the watermark it does not come as long as content hash    *)
(* and number of gaps are kept, whatever else the text lost.               *)
WrongOnlyByWholeBytes ==
  outcome = "unsafe" /\ (sent.method = "zwc" => Kept(sent, text)) =>
    /\ sent.method \in {"tag", "zwbin"}
    /\ DigitsLost > 0 /\ DigitsLost % 2 = 0

(* Cut off behind the host, tag and zwbin may yield a payload that was not *)
(* sent, as they have neither length nor checksum; it is then a proper     *)
(* beginning of the one that was sent, never other bytes.                  *)
TruncatedIsPrefix ==
  /\ HopKinds \subseteq {"truncate", "identity", "nfc", "reflow"}
  /\ sent.method \in {"tag", "zwbin"} /\ outcome = "unsafe"
  =>
  LET got == IF sent.method = "tag" THEN Tag!Extract(text)
                                    ELSE Zwbin!Extract(text)
  IN  IsStrictPrefix(got.bytes, sent.payload)

(* "Erasure coding is count-based": as long as content hash and number of  *)
(* gaps are kept, the watermark is recovered exactly when at most          *)
(* PARITY_SHARDS of its runs were hit, scattered, in a burst or by cutting *)
(* off the end, by one transport or several, and is otherwise gone: never  *)
(* a wrong pointer, although zwc_outcome does not look at tag_verified.    *)
(* What the text lost besides, emoji in a word or ends of the last one,    *)
(* moves no run to another gap.                                            *)
CodedCountsShards ==
  sent.method = "zwc" /\ outcome # "unread" /\ Kept(sent, text) =>
  LET there(x) == \A k \in 1..SYMBOLS_PER_SHARD :
                    \E p \in 1..Len(text) : text[p] = Run[x][k]
      hit == {x \in Shards : ~there(x)}
  IN  outcome = IF Cardinality(hit) > PARITY_SHARDS THEN "gone" ELSE "intact"

(* "One lossy hop kills the whole chain": no cell of tier0 says intact     *)
(* after further transports when the carrier was once not read intact or   *)
(* its binding was broken.  The readings that robustness_summary counts,   *)
(* without the binding, do not get better either, for the watermark while  *)
(* content hash and number of gaps are kept: its loop stops at the first   *)
(* budget that fails, and what a smaller budget drops, a larger one drops  *)
(* too.                                                                    *)
LostStaysLost ==
  sent.method # "simhash" =>
    /\ failed # {} => Cell # "intact"
    /\ failed \ {"bind-broke"} # {} /\ (sent.method = "zwc" => Kept(sent, text))
         => outcome # "intact"

(* The table "categorical transports" of TRANSPORT.md, for a text without  *)
(* compatibility forms.                                                    *)
Row(name) ==
  CASE name \in {"identity", "nfc", "nfkc", "nfkd", "strip-bom",
                 "strip-variation-sel"} -> {}
    [] name \in {"bmp-only", "strip-tags"} -> {"tag"}
    [] name = "strip-zero-width" -> {"zwc", "zwbin"}
CategoricalTable ==
  /\ Len(hops) = 1 /\ outcome # "unread"
  /\ hops[1] \notin {"drop", "burst", "truncate", "reflow"}
  /\ \A k \in 1..Len(sent.host) : sent.host[k] \in {Plain, Blank, Newline}
  => Cell = IF sent.method \in Row(hops[1]) THEN "gone" ELSE "intact"
=============================================================================
