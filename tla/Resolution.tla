------------------------------- MODULE Resolution ------------------------------
(***************************************************************************)
(* Publishing a soft binding and resolving a text against it: the builders *)
(* of soft_binding.rs, the envelope of manifest.rs and the evidence and    *)
(* tiers of crosscheck.rs, called as the quick start of the README calls   *)
(* them.  Between any two calls the text may be edited, the stored         *)
(* envelope damaged, replaced by another publication or moved with its tag *)
(* to another place.                                                       *)
(*                                                                         *)
(* What a fingerprint is of a document is a constant.  A value is the      *)
(* sequence of the bytes that its hex digits spell, so a value of another  *)
(* algorithm is told by its length, as in the code.  Signatures and tags   *)
(* are symbolic: what was signed with a key, and the inputs of the HMAC.   *)
(***************************************************************************)
EXTENDS Assertion, Hash256, Signature

CONSTANTS
  Docs,               \* texts
  Canonical,          \* Docs -> surface streams; content_hash is injective
  Surface,            \* Docs -> fingerprints [whole, windows]
  Structure,          \* Docs -> structural hashes
  Words,              \* Docs -> lists of words
  Pointers,           \* routing pointers
  BYTE,               \* values of a byte
  MATCH_SURFACE,      \* simhash::MATCH_THRESHOLD
  MATCH_STRUCTURE,    \* structure::MATCH_THRESHOLD
  Signers, TRUSTED,   \* those who publish; the one whose key the reader has
  Repos,              \* identifiers of manifests
  Issued,             \* bound: the documents that are published
  MaxPublished        \* bound: publications

ASSUME ResolutionAssumption ==
  /\ TRUSTED \in Signers /\ Issued \subseteq Docs
  /\ BYTE \in Nat \ {0} /\ MERSENNE <= BYTE * BYTE
  /\ MATCH_SURFACE \in Nat /\ MATCH_STRUCTURE \in Nat

(* A fingerprint is computed of the surface stream alone: a hash of it and *)
(* of each of its windows.                                                 *)
ASSUME SurfaceAssumption ==
  \A doc \in Docs :
    /\ Surface[doc].whole \in Hash
    /\ Surface[doc].windows \in Seq([start : Nat, len : Nat, hash : Hash])
    /\ \A other \in Docs :
         Canonical[other] = Canonical[doc] => Surface[other] = Surface[doc]

(* A signature is computed of the words alone, and those are the words of  *)
(* the surface stream; the values of a permutation are below the modulus.  *)
ASSUME WordsAssumption ==
  \A doc \in Docs :
    /\ Words[doc] \in Seq({Words[doc][k] : k \in DOMAIN Words[doc]})
    /\ \A s \in ShingleSet(Words[doc]) : \A i \in 1..NUM_PERM :
         Value(i, s) \in 0..(MERSENNE - 1)
    /\ \A other \in Docs :
         Canonical[other] = Canonical[doc] => Words[other] = Words[doc]

VARIABLES
  published,            \* history of publications
  store,                \* Repos -> what is stored there
  text,                 \* the text to be resolved
  at, candidate, tag,   \* what was fetched last: from where, binding, tag
  watermark_verified,   \* what the caller has found out
  crosscheck_ok,
  checked,              \* history: the text crosscheck_ok is about
  answer                \* a tier for the text as it is, "none" or an error

vars == <<published, store, text, at, candidate, tag, watermark_verified,
          crosscheck_ok, checked, answer>>

-----------------------------------------------------------------------------
(* Builders.                                                               *)

from_fingerprint(fp) ==
  [Whole(ALG_FINGERPRINT, fp.whole) EXCEPT !.blocks = @ \o
     [k \in 1..Len(fp.windows) |->
        [scope |-> << [start |-> fp.windows[k].start,
                       end |-> fp.windows[k].start + fp.windows[k].len] >>,
         value |-> fp.windows[k].hash]]]

from_structure(hash) == Whole(ALG_STRUCTURE, hash)

(* Mutant of from_minhash: little-endian words.                            *)
from_minhash_le(sig) ==
  Whole(ALG_MINHASH, [k \in 1..(2 * NUM_PERM) |->
    LET v == sig[(k + 1) \div 2] IN IF k % 2 = 0 THEN v \div BYTE ELSE v % BYTE])

(* The words of the signature big-endian; a word is two bytes here.        *)
from_minhash(sig) ==
  Whole(ALG_MINHASH, [k \in 1..(2 * NUM_PERM) |->
    LET v == sig[(k + 1) \div 2] IN IF k % 2 = 1 THEN v \div BYTE ELSE v % BYTE])

from_watermark_pointer(pointer) == Whole(ALG_WATERMARK, pointer)

Bindings(doc) ==
  {from_fingerprint(Surface[doc]), from_structure(Structure[doc]),
   from_minhash(SignatureOf(Words[doc]))}
  \cup {from_watermark_pointer(p) : p \in Pointers}

-----------------------------------------------------------------------------
(* Envelope, tag and evidence.                                             *)

sign_cose(payload, signer) ==
  [payload |-> payload, by |-> signer, intact |-> TRUE]

(* Mutant of verify_cose: the result of the signature check is dropped.    *)
verify_cose_unchecked(cose, signer) == {cose.payload}

(* The payload, or none: the envelope does not decode, or the signature    *)
(* does not match the key.                                                 *)
verify_cose(cose, signer) ==
  IF cose.intact /\ cose.by = signer THEN {cose.payload} ELSE {}

crosscheck_tag(key, repo, content) == <<key, repo, content>>

parse_minhash(value) ==
  IF Len(value) = 2 * NUM_PERM
  THEN {[i \in 1..NUM_PERM |-> value[2 * i - 1] * BYTE + value[2 * i]]}
  ELSE {}

(* Mutant of SurfaceMatches: only the first block is compared.             *)
SurfaceMatchesFirst(doc, binding) ==
  \E stored \in FromHex(binding.blocks[1].value) :
    hamming(Surface[doc].whole, stored) <= MATCH_SURFACE

SurfaceMatches(doc, binding) ==
  \E k \in 1..Len(binding.blocks) :
    \E stored \in FromHex(binding.blocks[k].value) :
      hamming(Surface[doc].whole, stored) <= MATCH_SURFACE

MinhashMatches(doc, binding) ==
  \E stored \in parse_minhash(binding.blocks[1].value) :
    LET current == SignatureOf(Words[doc])
    IN \/ JaccardMatches(current, stored)
       \/ shares_band(BandsOf(current), BandsOf(stored))

StructureMatches(doc, binding) ==
  \E stored \in FromHex(binding.blocks[1].value) :
    hamming(Structure[doc], stored) <= MATCH_STRUCTURE

(* Mutant of fingerprint_evidence: every match is durable.                 *)
fingerprint_evidence_alike(doc, binding) ==
  [durable |->
     CASE binding.alg = ALG_FINGERPRINT -> SurfaceMatches(doc, binding)
       [] binding.alg = ALG_MINHASH     -> MinhashMatches(doc, binding)
       [] binding.alg = ALG_STRUCTURE   -> StructureMatches(doc, binding)
       [] OTHER                         -> FALSE,
   structural |-> FALSE]

fingerprint_evidence(doc, binding) ==
  [durable |->
     CASE binding.alg = ALG_FINGERPRINT -> SurfaceMatches(doc, binding)
       [] binding.alg = ALG_MINHASH     -> MinhashMatches(doc, binding)
       [] OTHER                         -> FALSE,
   structural |-> binding.alg = ALG_STRUCTURE /\ StructureMatches(doc, binding)]

classify(ev, watermark, crosscheck) ==
  IF ev.durable /\ crosscheck THEN "Bound"
  ELSE IF watermark \/ ev.durable \/ ev.structural THEN "Likely"
  ELSE "Review"

verify(doc, binding, watermark, crosscheck) ==
  classify(fingerprint_evidence(doc, binding), watermark, crosscheck)
-----------------------------------------------------------------------------
Nothing == [alg |-> "none", blocks |-> << >>]
NoManifest == [cose |-> sign_cose(Nothing, "nobody"), tag |-> << >>]
NoRepo == "none"
NoText == "no text"

ASSUME NoTextAssumption == NoText \notin Docs

Init ==
  /\ published = {}
  /\ store = [r \in Repos |-> NoManifest]
  /\ text \in Docs
  /\ at = NoRepo /\ candidate = Nothing /\ tag = << >>
  /\ watermark_verified = FALSE /\ crosscheck_ok = FALSE
  /\ checked = NoText /\ answer = "none"

(* A binding of a document is built, serialized, signed and stored with    *)
(* the tag of the document; what was stored there before is replaced.      *)
Publish ==
  /\ Cardinality(published) < MaxPublished
  /\ \E doc \in Issued, by \in Signers, repo \in Repos :
       \E binding \in Bindings(doc) :
         /\ Usable(binding)
         /\ published' = published \cup
              {[doc |-> doc, by |-> by, repo |-> repo, binding |-> binding]}
         /\ store' = [store EXCEPT ![repo] =
              [cose |-> sign_cose(binding, by),
               tag |-> crosscheck_tag(by, repo, Canonical[doc])]]
  /\ UNCHANGED <<text, at, candidate, tag, watermark_verified, crosscheck_ok,
                 checked, answer>>

Damage ==
  /\ \E repo \in Repos :
       /\ store[repo] # NoManifest
       /\ store' = [store EXCEPT ![repo].cose.intact = FALSE]
  /\ UNCHANGED <<published, text, at, candidate, tag, watermark_verified,
                 crosscheck_ok, checked, answer>>

(* A manifest is copied to another place, with the tag that is stored in   *)
(* it.                                                                     *)
Move ==
  /\ \E from, to \in Repos :
       /\ from # to /\ store[from] # NoManifest
       /\ store' = [store EXCEPT ![to] = store[from]]
  /\ UNCHANGED <<published, text, at, candidate, tag, watermark_verified,
                 crosscheck_ok, checked, answer>>

Edit ==
  /\ text' \in Docs \ {text}
  /\ answer' = "none"
  /\ UNCHANGED <<published, store, at, candidate, tag, watermark_verified,
                 crosscheck_ok, checked>>

Fetch ==
  /\ \E repo \in Repos :
       /\ store[repo] # NoManifest
       /\ at' = repo
       /\ candidate' \in verify_cose(store[repo].cose, TRUSTED)
       /\ tag' = store[repo].tag
  /\ watermark_verified' = FALSE /\ crosscheck_ok' = FALSE
  /\ checked' = NoText /\ answer' = "none"
  /\ UNCHANGED <<published, store, text>>

FetchFails ==
  /\ \E repo \in Repos :
       /\ store[repo] # NoManifest
       /\ verify_cose(store[repo].cose, TRUSTED) = {}
  /\ at' = NoRepo /\ candidate' = Nothing /\ tag' = << >>
  /\ watermark_verified' = FALSE /\ crosscheck_ok' = FALSE
  /\ checked' = NoText /\ answer' = "error"
  /\ UNCHANGED <<published, store, text>>

(* The caller recomputes the tag for the text as it is now.                *)
CheckTag ==
  /\ candidate # Nothing
  /\ crosscheck_ok' = (tag = crosscheck_tag(TRUSTED, at, Canonical[text]))
  /\ checked' = text
  /\ answer' = "none"
  /\ UNCHANGED <<published, store, text, at, candidate, tag,
                 watermark_verified>>

(* The caller extracts a watermark: either result, whatever the candidate. *)
CheckWatermark ==
  /\ candidate # Nothing
  /\ watermark_verified' \in BOOLEAN
  /\ answer' = "none"
  /\ UNCHANGED <<published, store, text, at, candidate, tag, crosscheck_ok,
                 checked>>

Verify ==
  /\ candidate # Nothing
  /\ answer' = verify(text, candidate, watermark_verified, crosscheck_ok)
  /\ UNCHANGED <<published, store, text, at, candidate, tag,
                 watermark_verified, crosscheck_ok, checked>>

Next ==
  \/ Publish \/ Damage \/ Move \/ Edit \/ Fetch \/ FetchFails
  \/ CheckTag \/ CheckWatermark \/ Verify

Spec == Init /\ [][Next]_vars

-----------------------------------------------------------------------------
(* The publications that the candidate can have come from, and those of    *)
(* them that were published where it was fetched.                          *)
Signed == {p \in published : p.by = TRUSTED /\ p.binding = candidate}
Sources == {p \in Signed : p.repo = at}

(* A text shares content with a document in the way that a durable         *)
(* algorithm can tell: it is near the document or one of its windows, or   *)
(* has a shingle in common with it, or neither has any word.               *)
NearSurface(doc, source) ==
  \E h \in {Surface[source].whole} \cup
           {Surface[source].windows[k].hash : k \in 1..Len(Surface[source].windows)} :
    hamming(Surface[doc].whole, h) <= MATCH_SURFACE

SharesShingle(doc, source) ==
  \/ ShingleSet(Words[doc]) \cap ShingleSet(Words[source]) # {}
  \/ ShingleSet(Words[doc]) = ShingleSet(Words[source])

(* No two documents have coincidences enough among their hash values to    *)
(* match by them alone.                                                    *)
NoCoincidences ==
  \A doc, source \in Docs : ~Coincidental(Words[doc], Words[source])

(* A tier is given only for a binding that the trusted signer published,   *)
(* and BOUND only where they published it, whatever was damaged, replaced, *)
(* moved or published by others meanwhile.                                 *)
AnsweredWasSigned ==
  /\ answer \in {"Bound", "Likely", "Review"} => Signed # {}
  /\ answer = "Bound" => Sources # {}

(* BOUND says of the text as it is now that it shares content with a       *)
(* document of the trusted signer, however old the other evidence is: a    *)
(* structural coincidence, a tag over other content or a manifest moved    *)
(* from elsewhere is not enough.  And the text that the tag was checked    *)
(* for is one that was published there.                                    *)
BoundIsReproduced ==
  answer = "Bound" =>
    /\ \E p \in Sources :
         \/ p.binding.alg = ALG_FINGERPRINT /\ NearSurface(text, p.doc)
         \/ p.binding.alg = ALG_MINHASH /\ SharesShingle(text, p.doc)
    /\ checked # NoText
    /\ \E p \in published : /\ p.by = TRUSTED /\ p.repo = at
                            /\ Canonical[p.doc] = Canonical[checked]

(* A text with the content of the published document gets BOUND, when the  *)
(* tag was checked for it and the algorithm is durable: the way through    *)
(* hex, CBOR and envelope and back loses nothing.                          *)
SameContentIsBound ==
  /\ answer \in {"Likely", "Review"}
  /\ checked = text
  /\ candidate.alg \in {ALG_FINGERPRINT, ALG_MINHASH}
  => tag # crosscheck_tag(TRUSTED, at, Canonical[text])

(* An excerpt that is one of the windows of the published document is not  *)
(* left to review: "so an excerpt or truncated copy still matches"         *)
(* (simhash.rs:4-5).                                                       *)
ExcerptIsRecognized ==
  answer = "Review" =>
    \A p \in Signed : p.binding.alg = ALG_FINGERPRINT =>
      \A k \in 1..Len(Surface[p.doc].windows) :
        Surface[p.doc].windows[k].hash # Surface[text].whole
=============================================================================
