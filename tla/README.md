# TLA+ development for c2pa-text-binding

`c2pa-text-binding` binds a text to a C2PA manifest softly: by fingerprints
computed from the text and by an invisible zero-width watermark woven into it.
This directory holds TLA+ modules for the crate, TLC configurations that check
them on small instances, and theorems with proofs that TLAPS checks. Paths
below are relative to the repository's root; `PROJECT.json` puts `src/` before
them, so that `src/stego.rs` is `src/src/stego.rs` there.

The crate is sequential code without shared state. What makes it hard is not
scheduling but time: a text is marked by one call and read by another, with any
transport, edit or second marking in between, and the two calls must agree,
without talking to each other, on where every symbol is.

## Inventory

| Component | State | Operations | Talks to |
|---|---|---|---|
| `stego.rs` watermark | the text itself: visible characters with runs of zero-width symbols behind some words | `embed`, `extract`, `content_hash`, `read_runs_v1`; internally `word_gaps`, `fisher_yates`, `read_runs`, `binding_tag`, `rs_encode`, `rs_reconstruct` | `normalize::canonical`, HMAC, SHA-256, `reed_solomon_erasure` |
| `normalize.rs` | output buffer, pending separator | `canonical`, `structural`, `words` | NFC tables |
| `simhash.rs` | accumulator of 256 counters; list of windows | `Fingerprint::compute`, `best_distance`, `matches` | `canonical`, BLAKE2b |
| `minhash.rs` | 128 running minima, 32 bands | `compute`, `from_signature`, `jaccard`, `shares_band`, `matches` | `words` |
| `structure.rs` | feature counts | `compute`, `matches` | `structural`, `simhash_weighted` |
| `soft_binding.rs` | the block list of an assertion | `whole`, `push_window`, `to_cbor`, `from_cbor`, `from_*` | all fingerprints |
| `crosscheck.rs` | none | `classify`, `fingerprint_evidence`, `verify`, `crosscheck_tag` | `soft_binding`, the fingerprints |
| `manifest.rs` | none | `sign_cose`, `verify_cose` | Ed25519, COSE |
| `tag.rs`, `zwbin.rs` | the text | uncoded carriers: `embed`, `extract` | – |
| `examples/transport_survivability.rs` | a text on its way | `transports`, `drop_carrier`, `burst_loss`, `truncate_after_host`, `journeys`, `classify`, `refine` | all carriers, `Fingerprint` |
| `examples/robustness_bench.rs`, `threshold_sweep.rs` | a document and its attacked form | `attacks`, `reformat`, `k_word_edits`, `excerpt` | the fingerprints |
| `wasm.rs`, `python.rs`, harness, fuzz | none | argument conversion, third-party tools | everything |

What is hard, component by component, and what makes it correct:

* **Watermark.** `embed` and `extract` enumerate word gaps separately, `embed`
  on the text as given and `extract` on the stripped text, and `read_runs`
  counts words a third way, with the symbols in place. The three must agree,
  each of their loops must end, and what one returns is what the next runs on.
  The shuffle must be a permutation, every shard must get a gap of its own and
  each run must land at that gap and nowhere else. Loss up to the parity must
  be repaired, more must be refused; nothing that was not embedded for this
  content may verify.
* **Normalize.** The surface stream must not change under the edits
  `STABILITY.md` lists; the order of NFC, stripping and lowercasing decides it.
* **SimHash, windows.** The windows must leave no excerpt uncovered; the hash
  must not depend on the iteration order of a `HashMap`.
* **MinHash.** Signatures must agree where the sets of shingles do, whatever the
  order and number of them; bands are computed again from a stored signature.
* **Structure.** The splitters must lose no text; what normalization absorbs
  must not move a boundary that they split at.
* **Soft binding, crosscheck, manifest.** Conversions of offsets may fail in
  the middle; evidence computed earlier is combined with evidence computed now;
  what is stored may be damaged or replaced between fetching and verifying.
* **Uncoded carriers.** Without code or checksum, truncation is silent; other
  damage must be noticed.
* **Transports and benchmarks.** Losses add up over several hops, and what was
  lost must stay lost; a payload that is read says nothing of the text.

`PROJECT.json` lists every hazard at its line with the properties that cover
it, or with a note saying why none does.

## Modules

```
StegoText                 texts, character classes, words, runs (definitions)
  TextInputs              the texts a call is made on
    WordGaps              word_gaps
    ReadRuns              read_runs
  Carrier                 insertion list, Woven (definitions) --- CarrierProofs
    Placement             fisher_yates
    Weave                 embed's loop
    StegoCalls            embed and extract, a step per call (abstract)
    StegoLoops            embed and extract, loop by loop; instantiates WordGaps,
                          Placement, Weave, ReadRuns, and implements StegoCalls
                                                   --- StegoLoopsProofs
    Watermark             embed, losses, extract --- WatermarkProofs
    Transport             journeys of all carriers; instantiates DigitCarrier twice
                                                   --- TransportProofs
DigitCarrier              tag.rs, zwbin.rs (definitions)
FingerprintWindows        tiling of Fingerprint::compute
Hash256                   hashes, distance, hex (definitions)
  Fingerprint             compute whole; EXTENDS FingerprintWindows
                                                   --- FingerprintProofs
Assertion                 soft-binding assertions (definitions)
  SoftBinding             building, to_cbor, from_cbor --- SoftBindingProofs
Signature                 MinHash signatures and bands (definitions)
  Resolution              publish, fetch, check, verify;
                          EXTENDS Assertion, Hash256, Signature
                                                   --- ResolutionProofs
Structure                 structure.rs (definitions)
  Benchmark               attacks on documents; EXTENDS Structure, Signature
Normalize                 canonical, before and after an edit
                                                   --- NormalizeProofs
MCStegoLoops, MCWatermark, MCTransport, MCFingerprint, MCSoftBinding,
MCResolution, MCNormalize, MCBenchmark        instances for TLC
```

The watermark's modules come in three layers. `WordGaps`, `Placement`, `ReadRuns` and
`Weave` follow one loop of the code each, with the local variables of the
function as VARIABLES and a branch of the loop body as an action, and show that
the loop computes what a definition over whole texts says (`WordEnds`, an
injection, `RunIs`, `Woven`). `StegoLoops` chains them as `embed` and `extract`
do and is shown to implement `StegoCalls`, where a call is one step written with
those definitions. `Watermark` is the layer above: the same view of a call, with
what the bytes of the shards mean. So the protocol is checked on what the loops
have been shown to return.

### StegoText

A text is a sequence of characters; a character is a record whose `class` is
what the code tells apart: alphanumeric, other visible, whitespace, zero-width
in the symbol alphabet, zero-width outside it (variation selectors, and U+FEFF
for the v2 alphabet). The predicates are those of the code (`IsSep` is `is_sep`
of `word_gaps`, `IsSymbol` is `symbol_value(..).is_some()`). Offsets count
characters; the byte offsets of the code come from `char_indices` in both loops
and stand in a one-to-one, order-preserving relation to them.

### WordGaps, Placement, ReadRuns, Weave

| Module | Code | State | Actions |
|---|---|---|---|
| WordGaps | `word_gaps`, stego.rs 212–232 | `gaps`, `in_word`, `last_word_end`, `idx` | `CloseWord`, `SkipSeparator`, `ExtendWord`, `Return` |
| Placement | `fisher_yates`, 284–300 | `perm`, `i` | `Swap`, `Return` |
| ReadRuns | `read_runs`, 236–258 | `runs`, `word_rank`, `in_word`, `counted_word`, `idx` | `Symbol`, `Whitespace`, `BeginWord`, `ContinueWord`, `Return` |
| Weave | `embed`, 91–120 | `insertions`, `taken` (the iterator), `idx`, `out` | `Insert`, `CopyChar`, `LeaveLoop`, `AppendLeftover`, `Return` |

`Placement` draws any number in `0..i` where the code reduces `next_rand`
modulo `i + 1`. What it shows holds for every generator; nothing is said of how
evenly the permutations are distributed. The alphabet is a parameter of
`read_runs`, and so `ReadRuns` covers `read_runs_v1` as well.

### StegoCalls and StegoLoops

`StegoLoops` has the two calls with all their loops: `embed` runs `word_gaps`,
refuses a text with too few gaps (`Refuse`) or shuffles (`StartShuffle`,
`ShuffleStep`), sorts the insertion list (`StartWeave`) and weaves; `extract`
runs `read_runs` on the text as received, `word_gaps` on the stripped one,
shuffles again and looks up each shard's run (`ReturnRead`). Every loop is an
`INSTANCE` of its module with the locals substituted, and each gets what the
one before returned. `Deliver` carries the marked text from one call to the
other, untouched or one zero-width character short. Extraction has the key and
content hash of the embedding, so the generator draws the same numbers
(`Partners`): for the same number of gaps the same order, for another number
any.

`StegoCalls` says the same in one step per call: `TooShort`, `Embed`, `Deliver`,
`Extract`. The refinement mapping is the substitution for `outcome` in
`StegoLoops`: a call is running until its last loop has returned, then it has
refused, has marked with `out`, or has read `shards`. All steps of the loops
but the last are stutters. The property `ImplementsCalls` is the abstract
specification under this mapping.

### Watermark

State: the text on its way, the history `sent` of embeddings (key, content
hash, pointer as embedded, host, placement, output), a count of losses for the
bound, the kinds of damage since the last marking, and what `extract` last
returned for the text as it is now.

* `Embed`, `EmbedTooShort` – `embed` and its refusal. The whole call is one
  action: fit the pointer, hash the content, compute shards, place, weave.
* `Extract`, `ExtractTooShort` – `extract`: strip, hash, count gaps, place,
  read the shards, count erasures, refuse, reconstruct, recompute the tag.
* `Drop`, `Truncate`, `Remap` – the lossy operations of
  `tests/fail_safety.rs`, with the remapping applied to watermark symbols;
  `StripAll` – the transport that strips zero-width characters in
  `examples/transport_survivability.rs`. They may happen between any two calls,
  on visible characters too.

Bytes are terms: `<<"pointer", v>>`, `<<"tag", s, m>>`, `<<"parity", s, m>>`,
where the mark `m` is (key, content hash, pointer). A tag byte is equal to
another only when key, hash and pointer are, which is what an HMAC gives up to
collisions. A run is the sequence of symbols of its byte; a run mixed from
symbols of different bytes decodes to a byte of its own that equals no other.
Reed-Solomon solves from the first `DATA_SHARDS` shards present, as the library
does: when they belong to one codeword the missing bytes are that codeword's,
otherwise garbage; data shards that are present are passed on unchecked.

The placement is not a function of the model but a constraint (`Draws`): a call
with the key, content hash and number of gaps of an earlier embedding gets the
order that embedding got; any other call gets any order. So the checks do not
rest on a lucky permutation.

### DigitCarrier and Transport

`DigitCarrier` is both uncoded carriers: a magic and a payload in digits of a
base, one invisible code point each, behind the text; `Extract` collects all
code points of the alphabet wherever they are. `Transport` instantiates it for
`tag` (base 16, two digits a byte, code points that are no digit) and `zwbin`
(base 2; a byte has two bits instead of eight, a magic one byte instead of
four), takes the watermark as placed runs with a parity, and the fingerprint as
the words it is derived from. The transports of the example are an action each,
and take of the *host* what they take: `BmpOnly` everything above U+FFFF, an
emoji as well as a tag character; `StripVariationSel`, `DropCarrier` and
`BurstLoss` the variation selectors of its own. `DropCarrier` may drop any set
of carrier code points, of which the example's hash of positions picks one, and
`BurstLoss` any neighbours among them. `TruncateAfterHost` cuts every method's
text, so of a watermark, which stands inside the host, the host's end. `Reflow`
stands for the pipelines of `harness/tier1.py` that break lines anew.

A journey composes up to `MaxHops` of them and is read wherever it is.
`Recover` is the `recover` of a method, whose results `corpus_survival` and
`robustness_summary` count as they are; a cell of the tables of `tier0` is that
result after `refine` (`Cell`). `Canonical` is `normalize::canonical` as far as
transports change it: the letters, and which of them have a separator before
them, where an emoji, a selector of ideographs and a tag character separate and
zero-width characters do not. `extract` places by the content hash, a digest of
that stream, and by the number of gaps; `Kept` says that both are what they were
at embedding. Where one is not, `ZwcOutcomes` takes any placement, and shards
that are not the watermark's may then decode to any pointer. The hosts have no
zero-width characters and no tag characters of their own (`HostsAssumption`).

### FingerprintWindows and Fingerprint

`FingerprintWindows` is the loop of `Fingerprint::compute` (simhash.rs
150–171) with `n`, `start`, `windows` as its variables; where windows lie does
not depend on what the characters are, and the proofs are about this module
alone. `Fingerprint` extends it with what is computed for each window:
`Count` is one iteration of `simhash_4grams` on a `HashMap`, `Counted` the call
of `simhash_weighted`, `Add` one iteration of that over a key the map has not
yielded yet (any of them: the order of a `HashMap` is random per process),
`Emit` the majority bits and the return to `compute`, `Empty` the early return
for a slice of no characters. A step that delivers a hash is at once the step
`Whole`, `NextWindow` or `LastWindow` of the loop.

### Assertion and SoftBinding

An assertion is an algorithm and a list of blocks, a block a scope (the whole
asset or one selector) and a value. `push_window` computes `start + len` with
`checked_add` on usize and converts both ends with `i32::try_from`; each can
fail, and `CheckedAdd` and `ToI32` return the set of their result, empty on
failure. `from_fingerprint` is one action per window (`PushNext`,
`PushNextFails`), because what is interesting is a failure in the middle.
`WindowFp` has public fields, so a caller may hand in windows that no
`compute` produces. The widths are constants, three and two bits in the run.

### Signature and Resolution

`Signature` has the loop of `compute` as a fold over the list of shingles, one
round per shingle (`Lowest`), with the reset for an empty text, the bands, and
the two comparisons as code: `jaccard` against 0.70 and `shares_band`, any band
of one among all bands of the other.

`Resolution` composes `soft_binding.rs`, `manifest.rs` and `crosscheck.rs` in the order of the
README's quick start. `Publish` builds a binding of a document, signs it and stores it with its
tag; `Damage` breaks a stored envelope; `Move` copies an envelope with its tag to another place;
`Edit` changes the text at hand; `Fetch`/`FetchFails` verify the envelope under the trusted key;
`CheckTag` compares the stored tag with the one of the text as it is; `CheckWatermark` sets the
caller's `watermark_verified` either way; `Verify` is `crosscheck::verify`, with the booleans
found out by earlier calls. `Edit` may come between any two of them, which is the hazard: the
booleans may be about another text than the one classified. A repository entry may be
overwritten by another signer. What a document's fingerprints are is given by constants; values
are the bytes their hex digits spell (a byte per bit for `Hash256`, two bytes per signature
word), so that the length check and the word order of the code are there.

### Normalize

`canonical` character by character: NFC as the lazy iterator it is (`read`
counts the characters it has consumed; a base and the mark behind it are read
together if they compose), `SkipZeroWidth`, `Lowercase` filling the inner
iterator `lcs`, `PushAlnum` and `Separate` emptying it, `Return`. It runs twice,
once when a text is bound and once after one edit, as a verifier runs it. The
edits are the rows of `STABILITY.md`: spacing and punctuation next to a
separator, injection, decomposition, case, the canonical stream itself, and two
that must be noticed, a letter added and a letter replaced.

`IsStream` says without a loop what the stream of a text is: letter by letter,
where it stands (`Place`, two counts) and whether a blank is before it
(`Break`). `Composite`, `Lower` and `Upper` are constants with assumptions; the
instance has a letter with an accent in both cases, one that composes with its
mark in lower case only, the three sigmas, and U+0130, which lowercases to a
letter and a mark.

### Structure and Benchmark

`Structure` is `structure.rs` as operators: `structural`, `split_paragraphs`,
`split_sentences` and `word_tokens` as folds over lines and characters with the
code's conditions, and `compute` as the weighted features that go into the hash.
The hash itself is a function of the features (`simhash_weighted`, in
`Fingerprint`), so what leaves the features as they are leaves the hash.

`Benchmark` is what `robustness_bench.rs` and `threshold_sweep.rs` do to a
document: strip, casefold, collapse whitespace, retype, cut, delete words, make
typos, swap synonyms, substitute words, reformat by level. The fractions and
steps of the two programs are choices (`\E n`), and attacks may follow each
other. `is_alphabetic` is `is_alphanumeric` here, as the documents have no
numerals; NFKD (level 4 of `reformat`) changes nothing in documents without
decomposable characters, and `Normalize` is about those.

## Runs

| Run | Instance | Properties |
|---|---|---|
| `stegoloops` | every text of up to 5 characters of 4 classes, 2 shards of 2 symbols, every draw, one symbol lost; 100 848 states | the loops: `TypeOK`, `GapsEnumerateWords`, `StableUnlessSplit`, `Permutation`, `PassedIsFinal`, `LeftoversBelongAtEnd`, `ReturnsWoven`, `VisibleTextKept`, `RunsAreComplete`; their chain: `RanksAgreeWithGaps`, `EveryRunReadBack`, `EveryCallReturns`, `ImplementsCalls` |
| `loss` | 4 words, 2 data and 2 parity shards of 1 symbol, 2 pointers, 2 losses; 51 842 states | `VerifiedWasEmbedded`, `SurvivesPartialLoss` |
| `remark` | 3 words, one with a joiner behind it or none, or 2 words, 1+1+1 shards of 2 symbols, 2 keys, 2 marks, 1 loss; 55 904 states | `VerifiedWasEmbedded`, `SecondMarkIsRefused` |
| `joined` | a host with a joiner inside a word | `UntouchedIsReadBack`, violated |
| `fingerprint` | every text of up to 9 letters over 2, windows of 4, step 2, grams of 2, 3 bits; 52 300 states | `EveryExcerptCovered`, `NoStubs`, `HashesReproducible`, `Terminates` |
| `softbinding` | fingerprints of up to 2 windows of 6 kinds, usize of 3 bits, i32 of 2; 33 862 states | `OffsetsFaithful`, `AllOrNothing`, `OwnIsAccepted` |
| `resolution` | 6 documents of which 2 are published, 2 signers, 2 places, 2 publications; 1 223 238 states up to the names of the places | `AnsweredWasSigned`, `BoundIsReproduced`, `SameContentIsBound`, `ExcerptIsRecognized` |
| `normalize` | texts of 3 characters over 12, of 4 over 5, one edit; 1 792 419 states | `OneBlankBetweenWords`, `SurvivesReformatting`, `NoticesWords` |
| `normalize_injection` | the same texts, a zero-width character anywhere | `SurvivesInjection`, violated |
| `transport` | hosts of 3 and 4 words (clean; with a compatibility form, an emoji in a word and a selector; with an emoji as a word of its own), 2 payloads of 2 bytes, 2+1 shards of 2 symbols, 2 hops; 405 731 states | `WrongOnlyByWholeBytes`, `TruncatedIsPrefix`, `CodedCountsShards`, `LostStaysLost`, `CategoricalTable` |
| `benchmark` | texts of 3 characters over 8, of 4 over 4, of two tokens of up to 3 over 3, sentences of 4 words; 2 attacks, 4 permutations in 2 bands; 262 474 states | `SentencesPartition`, `AbsorbsReformatting`, `ReadsStructureOnly`, `OverlapEstimated` |
| `benchmark_case` | the same documents, one attack | `CaseIsNoticed`, violated |

The type invariant of `StegoLoops`, with those of the loops it runs, is checked
in its run; the ones of the other modules serve their proofs. The `LoopInv` of
the loop modules, on which `IInv` of `StegoLoopsProofs` is built, and
`Recorded`, `Written` of `SoftBindingProofs` are the inductive invariants of
the proofs, checked by TLC on the same instances before they were proved.

What they show:

* `GapsEnumerateWords`: `word_gaps` returns the ends of the words. `StableUnlessSplit`:
stripping zero-width characters keeps the number of gaps exactly when none of them stands inside
a word. * `Permutation`, `PassedIsFinal`: the shuffle, between any two iterations, so that no
gap is out of bounds and no two shards share one. * `RunsAreComplete`: `read_runs` puts each
symbol under the word it follows, in order. `RanksAgreeWithGaps`: its word count agrees with the
gaps of the stripped text, except for words made of format characters outside the alphabet. *
`ReturnsWoven`, `EveryRunReadBack`: what the loop writes is the text with each run behind its
word, and reading it back finds each run under its rank; a lost symbol costs its own shard and
no other. `EveryCallReturns`: no text and no draw keeps a loop from ending. `ImplementsCalls`:
the chain of loops returns what `StegoCalls` says, and nothing is visible before. *
`VerifiedWasEmbedded`: a recovery that verifies returns a pointer that was embedded with this
key for this content. In the runs shards are mixed by remapping symbols; that they may also be
mixed by losing what is between two runs, or looked for in other gaps when a symbol that stands
alone is lost, is left to `OnlyEmbeddedVerifies`, which has no bound on either.
`SurvivesPartialLoss`: damage that costs at most the parity is repaired. `SecondMarkIsRefused`:
a text marked twice under one key yields nothing rather than a stale pointer. *
`EveryExcerptCovered`: an excerpt of up to the overlap's length lies in one window.
`HashesReproducible`: the random iteration order does not show in any hash, ties included. *
`OffsetsFaithful`: no offset wrapped or clamped. `AllOrNothing`: a fingerprint is bound whole or
not at all, and refused only for a window beyond i32. `OwnIsAccepted`: `from_cbor`, stricter
than the builders, takes every assertion of theirs unless a caller gave them a blank name or
value. * `AnsweredWasSigned`, `BoundIsReproduced`: a tier rests on a publication of the trusted
signer, and BOUND on one at the place the manifest was fetched from (a manifest moved there has
another tag) and on a text that shares content with it *now*. `SameContentIsBound`,
`ExcerptIsRecognized`: hex, words, CBOR and envelope lose nothing on the way. *
`OneBlankBetweenWords`, `SurvivesReformatting`, `NoticesWords`: the stream of a text by a
definition over the whole text, and what it absorbs and notices. * `WrongOnlyByWholeBytes`: tag
and zwbin give a wrong payload only when whole bytes of digits are gone, the watermark none
while content hash and gaps are kept. `TruncatedIsPrefix`: cut off, a payload is a beginning of
the right one. `CodedCountsShards`: while content hash and gaps are kept, the watermark is
recovered just when at most the parity of its runs was hit, however, whatever emoji or selectors
the host lost. `LostStaysLost`: a carrier once lost, or a binding once broken, is not an intact
cell further on, and a reading that failed does not succeed later (for the watermark while
content hash and gaps are kept). `CategoricalTable`: the table of `TRANSPORT.md`, for texts of
letters and blanks. * `SentencesPartition`: the splitters lose and repeat no text and no word.
`AbsorbsReformatting`: benign transforms, in any chain, leave words and, in one paragraph,
structure. `ReadsStructureOnly`: synonyms are invisible to the structural features, and so are
replaced tokens that were unmarked open-class words; a replacement that is invisible took no
mark and left as many words, and was of such a word if it was of one token ("x/x $" for "qzx
qzx" is invisible too: two tokens, two words, no mark). `OverlapEstimated`: two signatures agree
in a permutation exactly when the least shingle of both texts is in both.

**Bounds.** `MaxLen` in `stegoloops`: a branch of `word_gaps` or `read_runs` depends on the
current character and on the class of what came before it, so every combination of branches
occurs in texts of four characters; five leave room for two or three words with anything around
one of them. A visible non-letter is to these loops what a letter is, so the class is left out.
Five characters with two shards contain adjacent runs, a run at the end of the text, unused
gaps, and zero-width characters on either side of a gap. `Watermark` bounds `MaxMarks` (two: the
first mark can be doubled), `MaxLosses` and the shards per mark, in place of 16, 8 and 24:
`loss` keeps the code's ratio, parity as large as the data, and has two losses, as many as the
parity absorbs if each costs one shard, while a truncation or strip costs more; `remark` has
shards of two symbols, so that a run can be partly lost and partly mixed. `fingerprint`: nine
characters are four steps and a half, so the last window is full, cut, or exactly reaches the
end, after none to three others; two letters and three bits make a bit agree, differ and tie.
`softbinding`: one window for every way a conversion ends, two windows in a fingerprint for a
failure after a success. `transport`: three shards with a parity of one are hit never, once and
twice, payloads and magic are three bytes, so that one, two or all may be cut, and a second hop
meets what the first left; a third adds no outcome, as only what is left of carrier and host
counts. A word more than shards lets an emoji that is a word go and leave gaps enough for
`extract` to look elsewhere. `benchmark`: a paragraph break is two newlines with a letter on
both sides, four characters, and a sentence with an ellipsis of marks as many; four words make
repeated and reordered shingles of two, and two attacks let one undo or hide the other.
`resolution`: two publications let one replace the other at the same place, or be moved there
from the other place; the six documents are the relations a text can have to a published one
(reformatted copy, edit, excerpt, other text of the same structure, none in common, empty), and
of them one with windows and the empty one are published (`Issued`). `normalize`: every branch
depends on one character and the pending separator, composition on two; four characters suffice
for a base, an injected character and a mark next to a separator.

**Deadlock** is not checked where a function returns or a journey ends
(`CHECK_DEADLOCK FALSE` in `stegoloops`, `transport`, `benchmark`, `fingerprint`
and `normalize`: after the last call nothing happens). `Watermark`,
`SoftBinding` and `Resolution` can always take a step.

**Fairness.** `stegoloops` (`EveryCallReturns`) and `fingerprint` (`Terminates`)
check liveness under weak fairness of the next step of the running call: a
called function of a single thread runs to its end. `Deliver`, which is the
transport, is not fair, and nothing else is; no call is forced to happen.

**Three findings.** `joined`: when a text has a zero-width character inside a
word, as Persian has with ZWNJ, `embed` counts a gap there and `extract`, which
strips first, does not. The two shuffles permute different numbers of gaps and
the untouched output of `embed` is not read back. `normalize_injection`:
`canonical` composes before it strips, so a zero-width character injected
between a letter and its combining mark keeps them apart, and the mark becomes
a separator; `STABILITY.md` line 36 says that injection does not matter.
`SurvivesReformatting` shows that it does not anywhere else. `benchmark_case`:
`STABILITY.md` 57–59 has `text-structure.1` sensitive to case, but `word_tokens`
lowercases and no other feature looks at case, so a casefolded document has the
same structural hash.

**Observations** that no run is spent on: a final sigma changed to a capital
and back is another letter (`char::to_lowercase` knows no context); a decomposed
letter whose capital has no composed form (U+01F0 as "j" and a caron) composes in
lower case and not in capitals, where its mark then separates, so that a case
change moves a word boundary, against `STABILITY.md` "Case changes"; and
punctuation added *inside* a word separates it, where `STABILITY.md` 33–34 names
no exception; `shingle_count` counts a repeated shingle each time
(`minhash.rs` 142 against 34); a MinHash candidate is durable evidence with a
single band in common, below the similarity of 0.70 that `crosscheck.rs` names
as the threshold (131–132 against 21). A sentence with several marks at its end
("well?!") is followed by one of no words, which counts as a sentence length.
`whitespace`, `word_delete`, `synonym_swap`, `k_word_edits` and `reformat` join
words with blanks and so remove paragraph breaks: that sentence-length sequences
are unchanged (`robustness_bench.rs` 131–132) and that survival should stay at
1.0 (`threshold_sweep.rs` 17–18) can be said of one-paragraph documents only,
as `AbsorbsReformatting` and `ReadsStructureOnly` do. NFKC and NFKD replace
compatibility characters of the host, which changes the content hash of the
watermark and breaks the binding; the tables of `TRANSPORT.md` are of a host
without any. When `bmp-only` drops an emoji that stands alone as a word, the
content hash is the same and the number of gaps is not: `extract` looks for the
shards in other gaps, and may find whole runs of other shards there. Such a
pointer does not verify, but `zwc_outcome` (129–138) does not look at
`tag_verified` and reads it as UNSAFE, with no run hit; this is what `Kept`
leaves out. A host with selectors of its own loses them to
`strip-variation-sel`, `drop` and `burst`, which changes the visible text no
more than the binding check sees it: `binding_ok` takes them for carrier.
Tag characters or joiners that the host has of its own are taken
for digits, and the uncoded carriers then read as corrupt. Python and
JavaScript sign the hexadecimal form of the CBOR, Rust the CBOR itself, so an
envelope of one is not read by the other; the repository promises nothing here.
The edits of `normalize` leave the first
three out, and `BoundIsReproduced` asks only for a shingle in common.

## Proofs

| Theorem | Says |
|---|---|
| `StegoLoopsProofs!LoopsImplementCalls` | `embed` and `extract` as chains of loops implement `StegoCalls` |
| `StegoLoopsProofs!TypeCorrect`, `GapsCorrect`, `AlwaysPermutation`, `PassedEntriesStay`, `AssertionHolds`, `WeaveCorrect`, `VisibleKept`, `RunsCorrect` | every loop does its part on what the loops before it made, whatever is drawn |
| `StegoLoopsProofs!GapsStable`, `RanksAgree` | `word_gaps` before and after stripping, and `read_runs`, agree on the words exactly when no zero-width character stands in a word and no ghost word in the text |
| `StegoLoopsProofs!RunsFound` | every run that `embed` wove into a clean text is read back under its shard; a lost symbol costs at most one shard and falsifies none |
| `StegoLoopsProofs!NeverUnderflows` | `word_rank - 1` of `read_runs` never goes below zero |
| `TransportProofs!OnlyWholeBytesMislead`, `CutsYieldPrefixes` | a wrong payload of tag or zwbin needs whole bytes of digits lost, one of the watermark a change of content hash or gaps; what is cut off is a beginning of what was sent |
| `TransportProofs!ErasureCodeCounts`, `LossIsForGood` | while content hash and gaps are kept, the watermark is recovered just when at most the parity of its runs was hit; what was once not intact never is again |
| `TransportProofs!TableHolds` | the categorical table of `TRANSPORT.md`, for every host of letters and blanks |
| `NormalizeProofs!StreamCorrect` | what `canonical` returns: the letters in order, lowercased, one blank just where something else stands between two |
| `NormalizeProofs!ReformattingAbsorbed`, `WordsNoticed` | the stream absorbs the edits it promises to absorb, is its own stream, and changes with a letter more or another one |
| `SoftBindingProofs!TypeCorrect`, `OffsetsCorrect`, `WholeOrNothing`, `ReaderAccepts` | types of fingerprint, next window, binding and record; offsets are those of the windows; all windows or none; the reader takes what the builders make |
| `WatermarkProofs!TypeCorrect`, `OnlyEmbeddedVerifies` | types; what verifies was embedded |
| `WatermarkProofs!PartialLossSurvived`, `SecondMarkRefused` | damage that costs at most the parity is repaired; a text marked twice under one key is refused |
| `FingerprintProofs!TypeCorrect`, `ExcerptsCovered`, `NoStubWindows` | the tiling, for every length, window and step |
| `FingerprintProofs!ComputeIsLoop`, `HashesCorrect` | `compute` with the hashing under it refines the tiling loop; in whatever order the map is iterated, a hash is the majority vote of its own grams |
| `ResolutionProofs!AnswersSigned`, `ExcerptsRecognized`, `SameContentBound` | a tier rests on a publication of the trusted signer, BOUND on one at that place; an excerpt that is a window is recognized; published content gets BOUND by either durable algorithm |
| `ResolutionProofs!BoundIsClose`, `BoundReproduces` | BOUND is given for a text near the published one or with a shingle in common, or for hash values that coincide; where they do not, `BoundIsReproduced` |
| `ResolutionProofs!SurfaceIsCompared`, `SignatureIsLeast` | what the evidence compares: all windows, and of each permutation the least value of a shingle |
| `ResolutionProofs!OverlapIsEstimated` | two signatures agree in a permutation exactly when the least shingle of both texts is in both, for any two lists of words without coinciding values |

They hold for every text over any set of characters, any number of gaps, shards, symbols, keys,
pointers and hosts, and any bound, under the ASSUMEs the modules name: texts are sequences of
characters with a class, lengths are positive, `TOTAL_SHARDS` is data plus parity, windows have
natural numbers of usize for ends, hosts carry no symbol of a mark, and on a journey no
zero-width and no tag character of their own (`HostsAssumption`), the step of the windows is
positive and at most a window, grams and digests have their lengths. `Normalize` supposes of its
characters that they are letters, marks, format characters or separators and only one of these;
that a mark composes with letters only, to a letter that composes with nothing more; that a
letter lowercases to one in lower case followed by no other letter (U+0130 has a mark behind
it); and that a letter in the other case is a letter. `CaseKept` names the letters whose case an
edit may change: those for which lowercasing undoes it, with any mark they compose with.
`Resolution` supposes of its constants what the code computes: fingerprint and words of a text
are functions of its canonical stream (`Fingerprint::compute` and `words` both begin with
`canonical`), hashes have `FP_BITS` bits, the value of a shingle is below the modulus it was
reduced by, and `NoText` is no text. `BoundReproduces` has one hypothesis more,
`NoCoincidences`: no two documents have a band of which all rows, or seven tenths of the
permutations in which, values of *different* shingles are equal. In the code that is four 61-bit
values at once, or 90. TLC evaluates it for the documents of the `resolution` run
(`NoCoincidenceAssumption`), and `BoundIsClose` does without it.

The arguments:

* *WordGaps.* `TypeOK /\ LoopInv` is inductive (`ScanKept` in
  `StegoLoopsProofs`). `GapsEnumerateWords` alone is not: it says nothing before
  the function returns. `LoopInv` says which part of the result is there after
  `idx` characters.
* *ReadRuns.* `TypeOK /\ LoopInv` again: the counters are functions of the
  prefix read, and reading one more character changes the definitions
  `RankBefore`, `Filed`, `RanksFiled`, `BetweenWords` exactly as it changes the
  variables (`RankStep`, `FiledStep`, `RanksStep`, `BetweenStep`).
* *Weave.* `LoopInv` says the output is a prefix of `Woven`. The two lemmas
  `RunPosition` and `CharPosition` evaluate `Woven` at the positions that the
  next step writes; they need that offsets in the list are strictly increasing.
  That the assertion holds follows because entries not taken have offsets of at
  least `idx`. `SeenSoFar`, kept along with it, says that what can be seen of the
  output is what can be seen of the text read so far; both are compared
  position by position among the visible ones (`AtSame`, `AtAppend`), because
  what `Strip` returns is defined by positions.
* *StegoLoops.* `IInv` has a named part for every stage: `Arguments` and
  `AtRest` at any time, `Scans`, `Shuffles`, `Weaves`, `Reads` while a loop runs
  and `HasRead` after `read_runs`. While a loop runs, its part is the inductive
  invariant of that loop's module (`ScanKept`, `WeaveKept`, `ReadKept`); what is
  left is that each loop is *started* in an initial state of its module. For the weaving
  loop that is `ListIsSorted`: the list of a permutation of the gaps is strictly
  increasing and has a run for every shard, since the gaps are the word ends in
  order (`Enumeration`, `GapFacts`). The shuffle keeps a bijection
  (`SwapBijects`).
* *The refinement.* A returning loop must map to the step of the call and any
  other to a stutter. `RefuseIsTooShort` and `ReturnMarkedIsEmbed` need what
  the loops returned, `ReturnReadIsExtract` also that the order is the one of
  the embedding: `DrawInv` says that the entries drawn so far, of the last
  embedding (`Drawing`) and of the shuffle that replays it (`Replaying`), lead
  through the same permutations (`Trace`). `RunReadOff` turns the map that
  `read_runs` filled into the runs `ReadAs` reads from the text.
* *What is read back.* `GapsStable` and `RanksAgree` compare counts of words in
  a text, in the stripped text and as `read_runs` counts them. A word of one is
  matched with a word of the other by a bijection of their ends
  (`StrippedEnds`, `SplitEnds`) or of the characters that open them
  (`OpensIs`, `OpenersCount`), which fails exactly at a joined word or a ghost.
  `RunsFound` goes over the abstract calls: `CallsInv` says that what was
  delivered is the woven text with at most one zero-width character missing,
  and `RunsRead` that a run of which `k` symbols are missing is read short by
  `k` and all others whole; `LoopsImplementCalls` carries it to the loops.
* *Watermark.* `TypeOK /\ VerifiedWasEmbedded` is inductive because the type
  invariant carries the provenance of characters: every character on its way is
  one of the host's, noise, or a symbol of some mark that was sent. A tag that
  verifies is a tag byte of the mark that extract recomputes; such a byte can
  only have come out of the reader from a run of symbols of that very mark
  (`SymbolOrigin`, `ShardOrigin`) or out of the code from a codeword whose
  parity was read (`TagOrigin`), and either way the mark was sent.
* *Partial loss, second mark.* `ReadInv` adds `History` to it: a text on its way
  is what the last embedding returned with some characters missing, as many as
  were counted (`Embeds`: an increasing injection into it, `MissingCount`). A
  mark of which at most the parity is missing has enough shards whole, all of
  one codeword, and `Reconstructed` gives its bytes; that the stripped text has
  the hash and gaps of the host is `SameStripIsShort`. In a text marked twice
  under one key every run is of twice the length and so absent
  (`RunsDoubled`, `WovenClean`).
* *Fingerprint.* A step that delivers a hash is a step of the loop and any other
  a stutter (`LoopSteps`). `HInv` adds to the invariant of the loop that the
  map counts the grams before `pos` (`CountTally`) and that a counter of
  `simhash_weighted` is the sum of the votes of the keys yielded (`AddTally`).
  The sum is said without an order: the positions of the grams whose bit is one
  less those whose bit is zero, as cardinalities, so adding a key of any place
  in the order changes both sides alike, and after the last key it is the
  majority over all positions (`TallyIsMajority`).
* *FingerprintWindows.* `LoopInv` says that every excerpt that begins before
  `start` is covered already, that the windows so far are full, and that more
  than the overlap is left. A full window takes in what begins within one step
  of its start (`CoveredByNew`), earlier windows stay where they are
  (`CoveredStays`), and the last one takes in the rest.
* *SoftBinding.* The properties speak of what was returned and read; the
  induction needs the history of windows pushed so far and of those still to
  come (`Progress`), and that whatever was written is a binding that the
  builders made (`Written`). `checked_add` and `try_from` return a set of at
  most one result; `SelectorIsExact` says what is in it and `UnpushableEndsBeyond`
  when nothing is, without a bound on the integers.
* *Resolution.* `RInv`: an intact envelope of the trusted signer, and the
  candidate fetched from one, has an origin among the publications with that
  binding *and* that tag (`Origins`), however the entry was overwritten since
  and wherever it was moved; a tag names its place, so one that matches what is
  recomputed at `at` was stored there;
  `crosscheck_ok` is about `checked`; a tier is what `verify` says of text and
  evidence as they are (`Answered`), which every action that changes one of
  them withdraws. The rest is about `fingerprint_evidence`: hex, blocks and
  bytes give back what was built (`FingerprintBlocks`, `HashBytes`,
  `MinhashParsed`), a binding tells by its algorithm what it was built from.
* *Transport.* `TravelInv`: whatever the transports were, the text is part
  (`PartOf`: an increasing injection) of what was sent, with compatibility forms
  or line ends replaced (`Aged`). Two hops make one such (`TravelsOn`), so
  journeys have no bound. What is read follows (`Fate`): for the uncoded
  carriers the digits left count what `extract` can decode (`DigitOutcome`). For
  the watermark, the same letters and separations, and as many gaps, in a part
  of a text mean that no word went and none was split or joined
  (`LettersPart`, `RanksKept`): a run of which a symbol is missing is found short
  under its rank and every other run whole, so the shards present are those
  not hit (`ZwcReads`). That holds of every text the watermark is woven into
  and part of which is left (`Marked`), emoji in words or ends of the last word
  missing or not. Content hash and gaps that are gone do not come back while the
  text gets less (`KeptStays`; `BoundIsKept`: a text that still has its binding
  has kept both). After a reading that failed, the text is no longer `Safe` (its
  binding holds and its digits, or enough runs, are all there), and no hop makes
  it so again (`SafeStays`, `SafeFate`); `LostStaysLost` by itself is not
  inductive, since it says nothing of a text not read yet. `HistoryInv` relates
  the list of transports to the text: after one hop it is that hop's result,
  after cuts alone it is a cut (`CutOff`), which is what `TruncatedIsPrefix` and
  `CategoricalTable` speak of.
* *Normalize.* `LoopInv` says what `out` and `pending_separator` are between two
  characters (`BetweenCharacters`), while a letter is still to be written
  (`LetterAhead`: what was before it is written and the blank not yet decided)
  and while the tail of a lowercased character separates (`SeparatorAhead`).
  `Written` is `IsStream` for a prefix, and says besides that nothing else is in
  the stream, which makes the stream of a text unique. An edit is absorbed if
  the letters of the two texts match one to one, in order, with the same letter
  and the same `Break` (`Matches`); then places agree, as counts of matched sets
  (`PlacesMatch`), and the streams are equal (`SameStream`). That an edit
  matches is shown character by character (`Says`): what it puts in is `Idle`,
  no letter, and separates only where something beside it does. For the stream
  as a text the match is `Place` itself (`StreamAbsorbed`). What must be noticed
  goes by counting the letters of the stream (`LetterCount`): one more, or
  another one at the same place.
* *The minimum loop.* `SignatureOf` is a fold, and the library's fold is a
  recursive function on the subsets of the list's positions. `FoldMin` proves
  what it returns: the minima over each subset satisfy the recursion
  (`LowestStep`), so the CHOOSE that defines the function finds one that does,
  and at the first `k` positions any two that do agree, by the least `k` at
  which they would not. This works for a fold whose result is said in a closed
  form; the folds of `Structure` have none. `OverlapIsEstimated` follows: the
  minima of two texts are equal only if one shingle has both, without
  coincidences, and that shingle is then the least of the union.
* *CarrierProofs.* `Strip` and the runs are defined with "the k-th smallest
  member of a set of positions". That there is one (`NthExists`) goes by
  induction on the least counterexample: `LeastNumber` takes well-foundedness
  from the library as the statement that every nonempty set has a minimal
  element, which needs no operator parameter.

The instances of `StegoLoops` have characters that may be symbols, so their
definitions of words, runs and `Woven` are not literally those of `Carrier`;
`ScanSame`, `ReadSame`, `WeaveSame`, `WeaveWords`, `ReadWords` and `CallsWords`
show that they are equal. The draws are any numbers in range: what is proved
holds for every generator that repeats itself for the same key and content.

Only model-checked: `EveryCallReturns` and `Terminates` (liveness), and
everything of `Benchmark`, which rests on
folds over lines and characters whose state is a text in the making: what they
compute for every document is an induction over data, out of the prover's reach
where no closed form says it.
`OverlapEstimated` is between the two: `OverlapIsEstimated` proves its formula,
`EstimatesOverlap`, for any two lists of words; that the tokenizer makes such
lists of every document stays with TLC. It holds of values without
coincidences, as `BoundIsReproduced`, which is a hypothesis of the theorem.

## Abstractions

* Cryptography and the code are symbolic, as described above; probability
  (collisions, a wrong tag that matches by chance) is left out.
* Letters are caseless and in NFC, so `ContentHash` keeps the letters and
  whether a visible non-letter stands between them; the digest is injective.
* `rs_encode` and `rs_reconstruct` can return `Error::Coding` only for shard
  counts and lengths that cannot occur with the constants of the code, and
  `rs_reconstruct` cannot find too few shards after the check before it: those
  returns are not modelled.
* A text that is damaged before its first marking is another host.
* `Truncate` and `Drop` keep whole characters, as `apply` does.
* CBOR and COSE are symbolic: bytes give back what was written or are refused.
  A tag is the triple its HMAC covers; the content hash in it has a fixed
  length, so the concatenation in the code is unambiguous.
* The documents of `resolution` have fingerprints without accidental
  coincidences between unlike bands (`NoCoincidences`); how often those happen
  is for `ROBUSTNESS.md`.
* NFC composes a base with the mark behind it; reordering of marks,
  compositions of three, bases that are no letters (U+2260), marks that are
  alphanumeric, and Hangul, whose syllables compose without marks, are left
  out, as are the Unicode tables.
* The counters of `simhash_weighted` are unbounded integers: a text long enough
  to overflow an `i64` does not exist.

## Plan

In this order, the most important behaviour first:

1. `WordGaps`, `Placement`, `ReadRuns`, `Weave`, `Watermark` with proofs: done.
2. `FingerprintWindows` with proofs, `Fingerprint`, `SoftBinding`: done.
3. `Resolution`, the composition of builders, envelope and tiers, and
   `Normalize` against `STABILITY.md`: done.
4. `StegoLoops` as a refinement of `StegoCalls`, with its proof; `Structure`,
   `Signature` and `Benchmark`; `DigitCarrier` and `Transport`; proofs for
   `SoftBinding`: done.
5. Proofs of `StableUnlessSplit`, `RanksAgreeWithGaps`, `EveryRunReadBack`,
   `SecondMarkIsRefused`, `SurvivesPartialLoss`, of `Fingerprint` with the
   hashing, and of `Resolution`: done.
6. Proofs for `Transport`, all five of its properties: done.
7. Proofs for `Normalize`, all three of its properties: done.

## Not modelled

* `wasm.rs`, `python.rs`: conversions of arguments and errors, without state or
  logic beyond the calls they forward.
* The variation selectors of A.8: another crate's, of which this repository has
  no source. `strip-variation-sel` is a transport that takes the selectors of
  the host. Hosts with U+FE0F, other zero-width or tag characters of their own
  are left out of `Transport`.
* Datasets, rates, confidence intervals and tables of the examples; `tier1.py`
  and the fuzz target, which drive third-party tools and the parsers.
* How often fingerprints of unlike texts coincide: distances and thresholds are
  compared as the code does, their distribution is for `ROBUSTNESS.md`.

Out of reach and left to tests: the CBOR and COSE encodings, Unicode tables,
floating-point feature scaling, the field arithmetic of Reed-Solomon, the
measured rates of `ROBUSTNESS.md` and `TRANSPORT.md`.

## Running

```
tlc -workers 2 -config MCStegoLoops.cfg MCStegoLoops.tla
tlc -workers 2 -config MCWatermarkLoss.cfg MCWatermark.tla
tlapm WatermarkProofs.tla
```
