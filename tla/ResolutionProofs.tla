---------------------------- MODULE ResolutionProofs ---------------------------
(***************************************************************************)
(* What a reader is told of a text: for all documents, fingerprints,       *)
(* signers and repositories, any number of publications, and whatever is   *)
(* edited, damaged, replaced or moved meanwhile.                           *)
(***************************************************************************)
EXTENDS Resolution, FiniteSetTheorems, WellFoundedInduction, TLAPS

Tier == {"Bound", "Likely", "Review"}

Binding == UNION {Bindings(doc) : doc \in Docs}
Manifest ==
  [cose : [payload : Binding \cup {Nothing}, by : Signers \cup {"nobody"},
           intact : BOOLEAN],
   tag : {<< >>} \cup (Signers \X Repos \X {Canonical[doc] : doc \in Docs})]

TagOf(repo, doc) == crosscheck_tag(TRUSTED, repo, Canonical[doc])

(* Where among the publications a binding of the trusted signer came from  *)
(* that has the tag t beside it.                                           *)
Origins(P, binding, t) ==
  {p \in P : /\ p.by = TRUSTED /\ p.binding = binding
             /\ t = TagOf(p.repo, p.doc)}

Types ==
  /\ text \in Docs
  /\ \A p \in published : p.doc \in Docs /\ p.binding \in Bindings(p.doc)
  /\ store \in [Repos -> Manifest]

(* An envelope that is intact and of the trusted signer was published with *)
(* the tag that is stored with it, wherever it has been moved; so was the  *)
(* candidate, damaged or replaced as it may be by now.  The crosscheck is  *)
(* about the text that was checked, a tier is what verify says of the text *)
(* and the evidence as they are.                                           *)
Stored ==
  \A repo \in Repos :
    /\ store[repo] # NoManifest
    /\ store[repo].cose.intact /\ store[repo].cose.by = TRUSTED
    => Origins(published, store[repo].cose.payload, store[repo].tag) # {}
Fetched == candidate # Nothing => Origins(published, candidate, tag) # {}
Checked ==
  \/ checked = NoText /\ ~crosscheck_ok
  \/ checked \in Docs /\ crosscheck_ok = (tag = TagOf(at, checked))
Answered ==
  answer \in Tier =>
    /\ candidate # Nothing
    /\ answer = verify(text, candidate, watermark_verified, crosscheck_ok)
RInv == Types /\ Stored /\ Fetched /\ Checked /\ Answered

LEMMA InitHolds == Init => RInv
<1> SUFFICES ASSUME Init  PROVE RInv
  OBVIOUS
<1>1. NoManifest \in Manifest  BY DEF NoManifest, Manifest, sign_cose
<1>2. Types  BY <1>1 DEF Init, Types
<1>3. Checked  BY DEF Init, Checked
<1> QED BY <1>2, <1>3 DEF Init, RInv, Stored, Fetched, Answered, Tier

LEMMA PublishKeeps == RInv /\ Publish => RInv'
<1> SUFFICES ASSUME RInv, Publish  PROVE RInv'
  OBVIOUS
<1>1. PICK doc \in Issued, by \in Signers, repo \in Repos :
        \E binding \in Bindings(doc) :
          /\ published' = published \cup
               {[doc |-> doc, by |-> by, repo |-> repo, binding |-> binding]}
          /\ store' = [store EXCEPT ![repo] =
               [cose |-> sign_cose(binding, by),
                tag |-> crosscheck_tag(by, repo, Canonical[doc])]]
  BY DEF Publish
<1>2. PICK binding \in Bindings(doc) :
        /\ published' = published \cup
             {[doc |-> doc, by |-> by, repo |-> repo, binding |-> binding]}
        /\ store' = [store EXCEPT ![repo] =
             [cose |-> sign_cose(binding, by),
              tag |-> crosscheck_tag(by, repo, Canonical[doc])]]
  BY <1>1
<1> DEFINE new == [doc |-> doc, by |-> by, repo |-> repo,
                   binding |-> binding]
           put == [cose |-> sign_cose(binding, by),
                   tag |-> crosscheck_tag(by, repo, Canonical[doc])]
<1>0. doc \in Docs  BY ResolutionAssumption
<1>3. /\ new.doc = doc /\ new.by = by /\ new.repo = repo
      /\ new.binding = binding
      /\ put.cose.payload = binding /\ put.cose.by = by
      /\ by = TRUSTED => put.tag = TagOf(repo, doc)
  BY DEF sign_cose, TagOf
<1>4. put \in Manifest
  <2>1. binding \in Binding /\ Canonical[doc] \in {Canonical[d] : d \in Docs}
    BY <1>0 DEF Binding
  <2> QED BY <2>1 DEF Manifest, sign_cose, crosscheck_tag
<1>5. /\ text' = text /\ at' = at /\ candidate' = candidate
      /\ watermark_verified' = watermark_verified
      /\ crosscheck_ok' = crosscheck_ok /\ answer' = answer
      /\ tag' = tag /\ checked' = checked
      /\ published' = published \cup {new}
      /\ store' = [store EXCEPT ![repo] = put]
  BY <1>2 DEF Publish
<1> HIDE DEF new, put
<1>6. Types'
  <2>1. \A p \in published' : p \in published \/ p = new  BY <1>5
  <2>2. \A p \in published' : p.doc \in Docs /\ p.binding \in Bindings(p.doc)
    BY <1>0, <1>3, <2>1 DEF RInv, Types
  <2>3. store' \in [Repos -> Manifest]  BY <1>4, <1>5 DEF RInv, Types
  <2> QED BY <1>5, <2>2, <2>3 DEF RInv, Types
<1>7. \A b, t : Origins(published, b, t) \subseteq Origins(published', b, t)
  BY <1>5 DEF Origins
<1>8. Stored'
  <2> SUFFICES ASSUME NEW r \in Repos, store'[r] # NoManifest,
                      store'[r].cose.intact, store'[r].cose.by = TRUSTED
               PROVE  Origins(published', store'[r].cose.payload,
                              store'[r].tag) # {}
    BY DEF Stored, NoManifest, Nothing, sign_cose
  <2>1. CASE r = repo
    <3>1. store'[r] = put  BY <1>5, <2>1 DEF RInv, Types
    <3>2. new \in Origins(published', binding, put.tag)
      BY <1>3, <1>5, <2>1, <3>1 DEF Origins
    <3> QED BY <1>3, <3>1, <3>2
  <2>2. CASE r # repo
    <3>1. store'[r] = store[r]  BY <1>5, <2>2 DEF RInv, Types
    <3>2. Origins(published, store[r].cose.payload, store[r].tag) # {}
      BY <3>1 DEF RInv, Stored
    <3> QED BY <1>7, <3>1, <3>2
  <2> QED BY <2>1, <2>2
<1>9. Fetched'  BY <1>5, <1>7 DEF RInv, Fetched
<1>10. Answered' /\ Checked'  BY <1>5 DEF RInv, Answered, Checked
<1> QED BY <1>6, <1>8, <1>9, <1>10 DEF RInv

LEMMA DamageKeeps == RInv /\ Damage => RInv'
<1> SUFFICES ASSUME RInv, Damage  PROVE RInv'
  OBVIOUS
<1>1. PICK repo \in Repos :
        /\ store[repo] # NoManifest
        /\ store' = [store EXCEPT ![repo].cose.intact = FALSE]
  BY DEF Damage
<1>2. store[repo] \in Manifest  BY DEF RInv, Types
<1>3. /\ store' \in [Repos -> Manifest] /\ ~store'[repo].cose.intact
      /\ \A r \in Repos : r # repo => store'[r] = store[r]
  BY <1>1, <1>2 DEF RInv, Types, Manifest
<1>4. /\ text' = text /\ at' = at /\ candidate' = candidate
      /\ watermark_verified' = watermark_verified
      /\ crosscheck_ok' = crosscheck_ok /\ answer' = answer
      /\ tag' = tag /\ checked' = checked /\ published' = published
  BY DEF Damage
<1>5. Types'  BY <1>3, <1>4 DEF RInv, Types
<1>6. Stored'  BY <1>3, <1>4 DEF RInv, Stored
<1>7. Fetched' /\ Answered' /\ Checked'
  BY <1>4 DEF RInv, Fetched, Answered, Checked
<1> QED BY <1>5, <1>6, <1>7 DEF RInv

LEMMA MoveKeeps == RInv /\ Move => RInv'
<1> SUFFICES ASSUME RInv, Move  PROVE RInv'
  OBVIOUS
<1>1. PICK from \in Repos, to \in Repos :
        /\ store[from] # NoManifest
        /\ store' = [store EXCEPT ![to] = store[from]]
  BY DEF Move
<1>2. /\ store' \in [Repos -> Manifest]
      /\ \A r \in Repos : store'[r] = IF r = to THEN store[from] ELSE store[r]
  BY <1>1 DEF RInv, Types
<1>3. /\ text' = text /\ at' = at /\ candidate' = candidate
      /\ watermark_verified' = watermark_verified
      /\ crosscheck_ok' = crosscheck_ok /\ answer' = answer
      /\ tag' = tag /\ checked' = checked /\ published' = published
  BY DEF Move
<1>4. Types'  BY <1>2, <1>3 DEF RInv, Types
<1>5. Stored'
  <2>1. \A r \in Repos : \E q \in Repos : store'[r] = store[q]  BY <1>2
  <2>2. NoManifest' = NoManifest  BY DEF NoManifest, Nothing, sign_cose
  <2> QED BY <1>3, <2>1, <2>2 DEF RInv, Stored
<1>6. Fetched' /\ Answered' /\ Checked'
  BY <1>3 DEF RInv, Fetched, Answered, Checked
<1> QED BY <1>4, <1>5, <1>6 DEF RInv

LEMMA FetchKeeps == RInv /\ Fetch => RInv'
<1> SUFFICES ASSUME RInv, Fetch  PROVE RInv'
  OBVIOUS
<1>1. PICK repo \in Repos :
        /\ store[repo] # NoManifest /\ at' = repo
        /\ candidate' \in verify_cose(store[repo].cose, TRUSTED)
        /\ tag' = store[repo].tag
  BY DEF Fetch
<1>2. /\ answer' = "none" /\ text' = text
      /\ checked' = NoText /\ ~crosscheck_ok'
      /\ published' = published /\ store' = store
  BY DEF Fetch
<1>3. /\ store[repo].cose.intact /\ store[repo].cose.by = TRUSTED
      /\ candidate' = store[repo].cose.payload
  BY <1>1 DEF verify_cose
<1>4. Fetched'  BY <1>1, <1>2, <1>3 DEF RInv, Stored, Fetched
<1>5. Types' /\ Stored'  BY <1>2 DEF RInv, Types, Stored
<1>6. Answered' /\ Checked'  BY <1>2 DEF Answered, Tier, Checked
<1> QED BY <1>4, <1>5, <1>6 DEF RInv

LEMMA FetchFailsKeeps == RInv /\ FetchFails => RInv'
<1> SUFFICES ASSUME RInv, FetchFails  PROVE RInv'
  OBVIOUS
<1>1. /\ candidate' = Nothing /\ answer' = "error" /\ text' = text
      /\ checked' = NoText /\ ~crosscheck_ok'
      /\ published' = published /\ store' = store
  BY DEF FetchFails
<1>2. Types' /\ Stored'  BY <1>1 DEF RInv, Types, Stored
<1>3. Fetched' /\ Answered' /\ Checked'
  BY <1>1 DEF Fetched, Answered, Tier, Checked
<1> QED BY <1>2, <1>3 DEF RInv

(* The evidence and the text change only with the answer withdrawn.        *)
LEMMA WithdrawKeeps == RInv /\ (Edit \/ CheckTag \/ CheckWatermark) => RInv'
<1> SUFFICES ASSUME RInv, Edit \/ CheckTag \/ CheckWatermark  PROVE RInv'
  OBVIOUS
<1>1. /\ answer' = "none" /\ text' \in Docs /\ at' = at /\ tag' = tag
      /\ candidate' = candidate /\ published' = published /\ store' = store
  BY DEF Edit, CheckTag, CheckWatermark, RInv, Types
<1>2. Types' /\ Stored'  BY <1>1 DEF RInv, Types, Stored
<1>3. Fetched' /\ Answered'  BY <1>1 DEF RInv, Fetched, Answered, Tier
<1>4. Checked'
  <2>1. CASE CheckTag
    BY <2>1 DEF CheckTag, RInv, Types, Checked, TagOf
  <2>2. CASE Edit \/ CheckWatermark
    BY <2>2 DEF Edit, CheckWatermark, RInv, Checked
  <2> QED BY <2>1, <2>2
<1> QED BY <1>2, <1>3, <1>4 DEF RInv

LEMMA VerifyKeeps == RInv /\ Verify => RInv'
<1> SUFFICES ASSUME RInv, Verify  PROVE RInv'
  OBVIOUS
<1>1. /\ candidate # Nothing /\ text' = text /\ at' = at
      /\ candidate' = candidate /\ published' = published /\ store' = store
      /\ watermark_verified' = watermark_verified
      /\ crosscheck_ok' = crosscheck_ok /\ tag' = tag /\ checked' = checked
      /\ answer' = verify(text, candidate, watermark_verified, crosscheck_ok)
  BY DEF Verify
<1>2. Types' /\ Stored'  BY <1>1 DEF RInv, Types, Stored
<1>3. Fetched' /\ Answered' /\ Checked'
  BY <1>1 DEF RInv, Fetched, Answered, Checked
<1> QED BY <1>2, <1>3 DEF RInv

LEMMA StutterKeeps == RInv /\ UNCHANGED vars => RInv'
BY DEF RInv, vars, Types, Stored, Fetched, Checked, Answered

(* The inductive invariant of a resolution (crosscheck.rs:118).            *)
THEOREM InvHolds == Spec => []RInv
<1>1. RInv /\ [Next]_vars => RInv'
  BY PublishKeeps, DamageKeeps, MoveKeeps, FetchKeeps, FetchFailsKeeps, WithdrawKeeps,
     VerifyKeeps, StutterKeeps DEF Next
<1> QED BY InitHolds, <1>1, PTL DEF Spec

-----------------------------------------------------------------------------
(* The blocks of a binding of a fingerprint: the document, then its        *)
(* windows.                                                                *)
LEMMA FingerprintBlocks ==
  ASSUME NEW doc \in Docs
  PROVE  LET fp == Surface[doc]
             b == from_fingerprint(fp)
         IN  /\ b.alg = ALG_FINGERPRINT
             /\ Len(fp.windows) \in Nat
             /\ Len(b.blocks) = Len(fp.windows) + 1
             /\ b.blocks[1].value = fp.whole
             /\ \A k \in 1..Len(fp.windows) :
                  b.blocks[k + 1].value = fp.windows[k].hash
<1> DEFINE fp == Surface[doc]
           m == Len(fp.windows)
           first == [scope |-> WholeAsset, value |-> fp.whole]
           block(k) ==
             [scope |-> << [start |-> fp.windows[k].start,
                            end |-> fp.windows[k].start
                                      + fp.windows[k].len] >>,
              value |-> fp.windows[k].hash]
           rest == [k \in 1..m |-> block(k)]
           S == {first} \cup {block(k) : k \in 1..m}
<1>1. m \in Nat  BY SurfaceAssumption
<1>2. first.value = fp.whole
      /\ \A k \in 1..m : block(k).value = fp.windows[k].hash
  OBVIOUS
<1>3. /\ from_fingerprint(fp).alg = ALG_FINGERPRINT
      /\ from_fingerprint(fp).blocks = << first >> \o rest
  BY DEF from_fingerprint, Whole
<1>4. << first >> \in Seq(S) /\ Len(<< first >>) = 1  OBVIOUS
<1> HIDE DEF first, block, S
<1>5. rest \in Seq(S) /\ Len(rest) = m
  <2>1. \A k \in 1..m : block(k) \in S  BY DEF S
  <2> HIDE DEF m
  <2> QED BY <1>1, <2>1
<1>6. \A k \in 1..m : rest[k] = block(k)  OBVIOUS
<1> HIDE DEF rest, m
<1>7. /\ Len(<< first >> \o rest) = m + 1
      /\ (<< first >> \o rest)[1] = first
      /\ \A k \in 1..m : (<< first >> \o rest)[k + 1] = rest[k]
  BY <1>1, <1>4, <1>5
<1> QED BY <1>1, <1>2, <1>3, <1>6, <1>7 DEF m

(* A binding tells by its algorithm what it was built from.                *)
LEMMA FingerprintBinding ==
  ASSUME NEW doc \in Docs, NEW binding \in Bindings(doc),
         binding.alg = ALG_FINGERPRINT
  PROVE  binding = from_fingerprint(Surface[doc])
BY DEF Bindings, from_structure, from_minhash, from_watermark_pointer, Whole,
       ALG_FINGERPRINT, ALG_STRUCTURE, ALG_MINHASH, ALG_WATERMARK

LEMMA HashBytes == \A h \in Hash : FromHex(h) = {h} /\ hamming(h, h) = 0
<1> TAKE h \in Hash
<1>1. FP_BITS \in Nat /\ h \in [1..FP_BITS -> {0, 1}]
  BY BitsAssumption DEF Hash
<1>2. Len(h) = FP_BITS
  <2>1. h \in Seq({0, 1})  BY <1>1
  <2> QED BY <1>1, <2>1
<1>3. {bit \in 1..FP_BITS : h[bit] # h[bit]} = {}  OBVIOUS
<1> QED BY <1>2, <1>3, FS_EmptySet DEF FromHex, hamming

(* fingerprint_evidence finds the text near a stored block exactly when it *)
(* is near the document or one of its windows: nothing is lost in hex, and *)
(* every block is compared (crosscheck.rs:113).                            *)
THEOREM SurfaceIsCompared ==
  ASSUME NEW doc \in Docs, NEW source \in Docs
  PROVE  SurfaceMatches(doc, from_fingerprint(Surface[source]))
           <=> NearSurface(doc, source)
<1> DEFINE fp == Surface[source]
           m == Len(fp.windows)
           b == from_fingerprint(fp)
           near(h) == hamming(Surface[doc].whole, h) <= MATCH_SURFACE
<1>1. /\ m \in Nat /\ Len(b.blocks) = m + 1
      /\ b.blocks[1].value = fp.whole
      /\ \A k \in 1..m : b.blocks[k + 1].value = fp.windows[k].hash
  BY FingerprintBlocks
<1>2. fp.whole \in Hash /\ \A k \in 1..m : fp.windows[k].hash \in Hash
  <2> DEFINE W == [start : Nat, len : Nat, hash : Hash]
  <2>1. fp.whole \in Hash /\ fp.windows \in Seq(W)  BY SurfaceAssumption
  <2> HIDE DEF W
  <2>2. \A k \in 1..m : fp.windows[k] \in W  BY <2>1
  <2> QED BY <2>1, <2>2 DEF W
<1> HIDE DEF b, m
<1>3. \A k \in 1..(m + 1) : k = 1 \/ (k - 1 \in 1..m /\ (k - 1) + 1 = k)
  BY <1>1
<1>4. \A k \in 1..m : k + 1 \in 1..(m + 1)  BY <1>1
<1>5. 1 \in 1..(m + 1)  BY <1>1
<1> HIDE DEF fp, near
<1>6. \A k \in 1..(m + 1) : FromHex(b.blocks[k].value) = {b.blocks[k].value}
  BY <1>1, <1>2, <1>3, HashBytes
<1>7. SurfaceMatches(doc, b) <=>
        \E k \in 1..(m + 1) : near(b.blocks[k].value)
  BY <1>1, <1>6 DEF SurfaceMatches, near
<1>8. NearSurface(doc, source) <=>
        near(fp.whole) \/ \E k \in 1..m : near(fp.windows[k].hash)
  BY DEF NearSurface, near, fp, m
<1>9. (\E k \in 1..(m + 1) : near(b.blocks[k].value)) <=>
        near(fp.whole) \/ \E k \in 1..m : near(fp.windows[k].hash)
  BY <1>1, <1>3, <1>4, <1>5
<1> QED BY <1>7, <1>8, <1>9 DEF b, fp

(* The evidence of a durable algorithm is its comparison.                  *)
LEMMA DurableEvidence ==
  ASSUME NEW doc, NEW b, b.alg \in {ALG_FINGERPRINT, ALG_MINHASH}
  PROVE  fingerprint_evidence(doc, b).durable <=>
           IF b.alg = ALG_FINGERPRINT THEN SurfaceMatches(doc, b)
                                      ELSE MinhashMatches(doc, b)
<1> DEFINE A == SurfaceMatches(doc, b)
           B == MinhashMatches(doc, b)
           durable == CASE b.alg = ALG_FINGERPRINT -> A
                        [] b.alg = ALG_MINHASH -> B
                        [] OTHER -> FALSE
           structural == b.alg = ALG_STRUCTURE /\ StructureMatches(doc, b)
<1>1. fingerprint_evidence(doc, b) =
        [durable |-> durable, structural |-> structural]
  BY DEF fingerprint_evidence
<1>2. ALG_FINGERPRINT # ALG_MINHASH  BY DEF ALG_FINGERPRINT, ALG_MINHASH
<1> HIDE DEF A, B
<1>3. durable = IF b.alg = ALG_FINGERPRINT THEN A ELSE B  BY <1>2
<1> HIDE DEF durable, structural
<1>4. fingerprint_evidence(doc, b).durable = durable  BY <1>1
<1> QED BY <1>3, <1>4 DEF A, B

(* What a tier says of a candidate of a fingerprint.                       *)
LEMMA SurfaceTier ==
  ASSUME NEW doc \in Docs, NEW source \in Docs, NEW w, NEW c
  PROVE  LET b == from_fingerprint(Surface[source])
         IN  /\ verify(doc, b, w, c) = "Review" => ~NearSurface(doc, source)
             /\ c /\ verify(doc, b, w, c) # "Bound" =>
                  ~NearSurface(doc, source)
<1> DEFINE b == from_fingerprint(Surface[source])
<1>1. b.alg = ALG_FINGERPRINT  BY FingerprintBlocks
<1>2. SurfaceMatches(doc, b) <=> NearSurface(doc, source)
  BY SurfaceIsCompared
<1> HIDE DEF b
<1>3. fingerprint_evidence(doc, b).durable <=> SurfaceMatches(doc, b)
  BY <1>1, DurableEvidence
<1> QED BY <1>2, <1>3 DEF verify, classify, b

LEMMA SameHashIsNear ==
  ASSUME NEW doc \in Docs, NEW source \in Docs,
         \/ Surface[doc].whole = Surface[source].whole
         \/ \E k \in 1..Len(Surface[source].windows) :
              Surface[source].windows[k].hash = Surface[doc].whole
  PROVE  NearSurface(doc, source)
<1>1. hamming(Surface[doc].whole, Surface[doc].whole) = 0
  BY HashBytes, SurfaceAssumption
<1>2. 0 <= MATCH_SURFACE  BY ResolutionAssumption
<1> QED BY <1>1, <1>2 DEF NearSurface

(* An excerpt that is one of the windows of a published document is never  *)
(* left to review, whichever the other evidence (crosscheck.rs:113, :154). *)
THEOREM ExcerptsRecognized == Spec => []ExcerptIsRecognized
<1>1. RInv => ExcerptIsRecognized
  <2> SUFFICES ASSUME RInv, answer = "Review", NEW p \in Signed,
                      p.binding.alg = ALG_FINGERPRINT,
                      NEW k \in 1..Len(Surface[p.doc].windows),
                      Surface[p.doc].windows[k].hash = Surface[text].whole
               PROVE  FALSE
    BY DEF ExcerptIsRecognized
  <2>1. /\ p.doc \in Docs /\ p.binding \in Bindings(p.doc)
        /\ p.binding = candidate /\ text \in Docs
        /\ answer = verify(text, candidate, watermark_verified,
                           crosscheck_ok)
    BY DEF RInv, Types, Signed, Answered, Tier
  <2>2. candidate = from_fingerprint(Surface[p.doc])
    BY <2>1, FingerprintBinding
  <2>3. NearSurface(text, p.doc)  BY <2>1, SameHashIsNear
  <2> QED BY <2>1, <2>2, <2>3, SurfaceTier
<1> QED BY InvHolds, <1>1, PTL

-----------------------------------------------------------------------------
(* The signature of minhash.rs.                                            *)

(* Numbers have a least one, and those up to n a greatest one.             *)
LEMMA LeastExists ==
  ASSUME NEW P \in SUBSET Nat, P # {}
  PROVE  Min(P) \in P /\ \A v \in P : Min(P) <= v
<1>1. PICK m \in P : \A v \in P : ~(<<v, m>> \in OpToRel(<, Nat))
  BY NatLessThanWellFounded, WFMin DEF OpToRel
<1>2. \A v \in P : ~(v < m)  BY <1>1 DEF OpToRel
<1>3. \A v \in P : m <= v  BY <1>2
<1> QED BY <1>3, Zenon DEF Min

LEMMA GreatestExists ==
  ASSUME NEW n \in Nat, NEW S \in SUBSET (1..n), S # {}
  PROVE  Max(S) \in S
<1> DEFINE P == {n - k : k \in S}
<1>0. \A k \in S : k \in 1..n /\ n - k \in Nat  OBVIOUS
<1>1. P \in SUBSET Nat /\ P # {}
  <2>1. P \subseteq Nat  BY <1>0
  <2>2. PICK k : k \in S  OBVIOUS
  <2>3. n - k \in P  BY <2>2
  <2> QED BY <2>1, <2>3
<1>2. Min(P) \in P /\ \A v \in P : Min(P) <= v  BY <1>1, LeastExists
<1>3. PICK x \in S : Min(P) = n - x  BY <1>2
<1>4. \A y \in S : n - x <= n - y  BY <1>2, <1>3
<1>5. \A y \in S : x >= y  BY <1>0, <1>4
<1> QED BY <1>5, Zenon DEF Max

(* FoldLeft as the library defines it: the last element is taken in last.  *)
LEMMA FoldIs ==
  ASSUME NEW base, NEW list
  PROVE  FoldLeft(Lowest, base, list) =
           (CHOOSE h : h = [S \in SUBSET DOMAIN list |->
              IF S = {} THEN base
              ELSE Lowest(h[S \ {Max(S)}], list[Max(S)])])[DOMAIN list]
BY DEF FoldLeft, MapThenFoldSet

(* The values under permutation i of the shingles at the places in S, and  *)
(* the bound that is above them all.                                       *)
ValuesAt(list, i, S) == {U64_MAX} \cup {Value(i, list[k]) : k \in S}
Minima(list, S) == [i \in 1..NUM_PERM |-> Min(ValuesAt(list, i, S))]

LowValued(list) ==
  /\ Len(list) \in Nat /\ DOMAIN list = 1..Len(list)
  /\ \A i \in 1..NUM_PERM : \A k \in 1..Len(list) :
       Value(i, list[k]) \in Nat /\ Value(i, list[k]) < MERSENNE

LEMMA MinimaLeast ==
  ASSUME NEW list, LowValued(list), NEW i \in 1..NUM_PERM,
         NEW S \in SUBSET (1..Len(list))
  PROVE  /\ Min(ValuesAt(list, i, S)) \in ValuesAt(list, i, S)
         /\ Min(ValuesAt(list, i, S)) \in Nat
         /\ \A v \in ValuesAt(list, i, S) : Min(ValuesAt(list, i, S)) <= v
         /\ ValuesAt(list, i, S) \subseteq Nat
<1> DEFINE P == ValuesAt(list, i, S)
<1>1. P \in SUBSET Nat /\ P # {}
  BY SignatureAssumption DEF ValuesAt, LowValued, U64_MAX
<1> HIDE DEF P
<1>2. Min(P) \in P /\ \A v \in P : Min(P) <= v  BY <1>1, LeastExists
<1> QED BY <1>1, <1>2 DEF P

(* One round of the loop takes in the value of its shingle.                *)
LEMMA LowestStep ==
  ASSUME NEW list, LowValued(list), NEW S \in SUBSET (1..Len(list)),
         NEW x \in S
  PROVE  Minima(list, S) = Lowest(Minima(list, S \ {x}), list[x])
<1> DEFINE R == S \ {x}
<1>1. R \in SUBSET (1..Len(list))  OBVIOUS
<1>2. ASSUME NEW i \in 1..NUM_PERM
      PROVE  Min(ValuesAt(list, i, S))
               = IF Value(i, list[x]) < Min(ValuesAt(list, i, R))
                 THEN Value(i, list[x]) ELSE Min(ValuesAt(list, i, R))
  <2> DEFINE v == Value(i, list[x])
             P == ValuesAt(list, i, S)
             Q == ValuesAt(list, i, R)
  <2>1. P = Q \cup {v}  BY DEF ValuesAt
  <2>2. /\ Min(P) \in P /\ P \subseteq Nat /\ \A u \in P : Min(P) <= u
        /\ Min(Q) \in Q /\ Q \subseteq Nat /\ \A u \in Q : Min(Q) <= u
    BY <1>1, MinimaLeast
  <2> HIDE DEF v, P, Q, R
  <2>3. CASE v < Min(Q)
    <3>1. Min(P) <= v  BY <2>1, <2>2
    <3>2. Min(P) \notin Q
      <4> SUFFICES ASSUME Min(P) \in Q PROVE FALSE  OBVIOUS
      <4>1. Min(Q) <= Min(P)  BY <2>2
      <4> QED BY <2>1, <2>2, <2>3, <3>1, <4>1
    <3>3. Min(P) = v  BY <2>1, <2>2, <3>2
    <3> QED BY <2>3, <3>3 DEF v, P, Q
  <2>4. CASE ~(v < Min(Q))
    <3>1. Min(P) <= Min(Q)  BY <2>1, <2>2
    <3>2. Min(Q) <= Min(P)
      <4>1. CASE Min(P) \in Q  BY <2>2, <4>1
      <4>2. CASE Min(P) = v  BY <2>1, <2>2, <2>4, <4>2
      <4> QED BY <2>1, <2>2, <4>1, <4>2
    <3>3. Min(P) \in Nat /\ Min(Q) \in Nat  BY <2>2
    <3>4. Min(P) = Min(Q)  BY <3>1, <3>2, <3>3
    <3> QED BY <2>4, <3>4 DEF v, P, Q
  <2> QED BY <2>3, <2>4
<1>3. Minima(list, R) \in [1..NUM_PERM -> Nat]
  BY <1>1, MinimaLeast DEF Minima
<1> HIDE DEF R
<1>4. \A i \in 1..NUM_PERM :
        Minima(list, R)[i] = Min(ValuesAt(list, i, R))
  BY DEF Minima
<1>5. Minima(list, S) = Lowest(Minima(list, R), list[x])
  BY <1>2, <1>4 DEF Minima, Lowest
<1> QED BY <1>5 DEF R

(* The minima of all shingles, counted in from the first: the loop of      *)
(* compute returns, of each permutation, the least value of a shingle.     *)
LEMMA FoldMin ==
  ASSUME NEW list, LowValued(list)
  PROVE  FoldLeft(Lowest, [i \in 1..NUM_PERM |-> U64_MAX], list)
           = Minima(list, 1..Len(list))
<1> DEFINE base == [i \in 1..NUM_PERM |-> U64_MAX]
           n == Len(list)
           D == SUBSET DOMAIN list
           R(h) == [S \in D |->
                      IF S = {} THEN base
                      ELSE Lowest(h[S \ {Max(S)}], list[Max(S)])]
           g == [S \in D |-> Minima(list, S)]
           c == CHOOSE h : h = R(h)
<1>1. n \in Nat /\ DOMAIN list = 1..n  BY DEF LowValued
<1>2. Minima(list, {}) = base
  <2>1. \A i : ValuesAt(list, i, {}) = {U64_MAX}  BY DEF ValuesAt
  <2>2. Min({U64_MAX}) = U64_MAX
    <3>1. U64_MAX \in Nat  BY SignatureAssumption DEF U64_MAX
    <3>2. Min({U64_MAX}) \in {U64_MAX}  BY <3>1, LeastExists
    <3> QED BY <3>2
  <2> QED BY <2>1, <2>2 DEF Minima
<1>3. g = R(g)
  <2>1. ASSUME NEW S \in D, S # {}
        PROVE  Minima(list, S) = Lowest(g[S \ {Max(S)}], list[Max(S)])
    <3>0. S \in SUBSET (1..n)  BY <1>1
    <3>1. Max(S) \in S  BY <1>1, <2>1, <3>0, GreatestExists
    <3>2. S \ {Max(S)} \in D  OBVIOUS
    <3>3. g[S \ {Max(S)}] = Minima(list, S \ {Max(S)})  BY <3>2
    <3> QED BY <3>0, <3>1, <3>3, LowestStep
  <2> HIDE DEF base
  <2>2. \A S \in D : g[S] = R(g)[S]  BY <1>2, <2>1
  <2> QED BY <2>2
<1>4. c = R(c)
  <2> HIDE DEF R, g
  <2> QED BY <1>3, Zenon
<1>5. \A k \in 0..n : c[1..k] = g[1..k]
  <2> DEFINE K == {k \in 0..n : c[1..k] # g[1..k]}
  <2> SUFFICES ASSUME K # {}  PROVE FALSE  OBVIOUS
  <2>1. K \in SUBSET Nat  BY <1>1
  <2>2. PICK k \in K : \A j \in K : k <= j  BY <2>1, LeastExists
  <2>3. k \in 0..n /\ c[1..k] # g[1..k]  BY <2>2
  <2>4. 1..k \in D  BY <1>1, <2>3
  <2>5. c[1..k] = R(c)[1..k] /\ g[1..k] = R(g)[1..k]  BY <1>3, <1>4
  <2>6. CASE k = 0
    <3>1. 1..k = {}  BY <2>6
    <3> QED BY <2>3, <2>4, <2>5, <3>1
  <2>7. CASE k # 0
    <3>1. Max(1..k) = k
      <4>1. 1..k # {} /\ k \in 1..k  BY <2>3, <2>7
      <4>2. \A y \in 1..k : k >= y  OBVIOUS
      <4>3. \A x \in 1..k : (\A y \in 1..k : x >= y) => x = k
        BY <2>3, <4>1
      <4> HIDE DEF K
      <4> QED BY <4>1, <4>2, <4>3, Zenon DEF Max
    <3>2. (1..k) \ {k} = 1..(k - 1)  BY <2>3, <2>7
    <3>3. k - 1 \in 0..n /\ k - 1 \notin K
      <4>1. k \in Nat /\ k - 1 \in 0..n /\ ~(k <= k - 1)
        BY <1>1, <2>3, <2>7
      <4> HIDE DEF K
      <4> QED BY <2>2, <4>1
    <3>4. c[1..(k - 1)] = g[1..(k - 1)]  BY <3>3
    <3>5. 1..k # {}  BY <2>3, <2>7
    <3> HIDE DEF g, c, base
    <3>6. R(c)[1..k] = Lowest(c[1..(k - 1)], list[k])
      BY <2>4, <3>1, <3>2, <3>5
    <3>7. R(g)[1..k] = Lowest(g[1..(k - 1)], list[k])
      BY <2>4, <3>1, <3>2, <3>5
    <3> QED BY <2>3, <2>5, <3>4, <3>6, <3>7
  <2> QED BY <2>6, <2>7
<1>6. c[1..n] = Minima(list, 1..n)
  <2>1. n \in 0..n /\ 1..n \in D  BY <1>1
  <2> HIDE DEF c
  <2> QED BY <1>5, <2>1
<1>7. FoldLeft(Lowest, base, list) = c[DOMAIN list]
  BY FoldIs, Zenon
<1> QED BY <1>1, <1>6, <1>7

(* A list of words, whose shingles have values below the modulus.          *)
Valued(toks) ==
  /\ toks \in Seq({toks[k] : k \in DOMAIN toks})
  /\ \A s \in ShingleSet(toks) : \A i \in 1..NUM_PERM :
       Value(i, s) \in 0..(MERSENNE - 1)

LEMMA WordsValued == \A doc \in Docs : Valued(Words[doc])
BY WordsAssumption DEF Valued

LEMMA ShinglesValued ==
  ASSUME NEW toks, Valued(toks)
  PROVE  /\ LowValued(Shingles(toks))
         /\ Shingles(toks) # << >> => Len(Shingles(toks)) # 0
<1> DEFINE list == Shingles(toks)
           W == {toks[k] : k \in DOMAIN toks}
<1>1. toks \in Seq(W)  BY DEF Valued
<1>2. \A s \in ShingleSet(toks) : \A i \in 1..NUM_PERM :
        Value(i, s) \in 0..(MERSENNE - 1)
  BY DEF Valued
<1> HIDE DEF W
<1>3. Len(list) \in Nat /\ DOMAIN list = 1..Len(list)
      /\ (list # << >> => Len(list) # 0)
  <2>1. CASE toks = << >>
    BY <2>1 DEF Shingles
  <2>2. CASE toks # << >> /\ Len(toks) \in 1..(SHINGLE_K - 1)
    <3>1. list = << toks >>  BY <2>2 DEF Shingles
    <3> QED BY <3>1
  <2>3. CASE toks # << >> /\ ~(Len(toks) \in 1..(SHINGLE_K - 1))
    <3> DEFINE n == Len(toks) - SHINGLE_K + 1
    <3>1. list = [k \in 1..n |-> SubSeq(toks, k, k + SHINGLE_K - 1)]
      BY <2>3 DEF Shingles
    <3>2. n \in Nat /\ n # 0
      BY <1>1, <2>3, SignatureAssumption
    <3> HIDE DEF n, list
    <3> QED BY <3>1, <3>2
  <2> QED BY <2>1, <2>2, <2>3
<1>4. \A i \in 1..NUM_PERM : \A k \in 1..Len(list) :
        Value(i, list[k]) \in Nat /\ Value(i, list[k]) < MERSENNE
  <2>1. \A k \in 1..Len(list) : list[k] \in ShingleSet(toks)
    BY DEF ShingleSet
  <2>2. MERSENNE \in Nat  BY SignatureAssumption
  <2> QED BY <1>2, <2>1, <2>2
<1> QED BY <1>3, <1>4 DEF LowValued

(* compute returns of each permutation the least value of a shingle, and   *)
(* zeros for a text without words (minhash.rs:116).                        *)
THEOREM SignatureIsLeast ==
  ASSUME NEW toks, Valued(toks)
  PROVE  LET sig == SignatureOf(toks)
         IN  /\ sig \in [1..NUM_PERM -> 0..(MERSENNE - 1)]
             /\ ShingleSet(toks) = {} => \A i \in 1..NUM_PERM : sig[i] = 0
             /\ ShingleSet(toks) # {} =>
                  \A i \in 1..NUM_PERM :
                    /\ \E s \in ShingleSet(toks) : sig[i] = Value(i, s)
                    /\ \A s \in ShingleSet(toks) : sig[i] <= Value(i, s)
<1> DEFINE list == Shingles(toks)
           sig == SignatureOf(toks)
           n == Len(list)
<1>1. /\ LowValued(list) /\ n \in Nat /\ DOMAIN list = 1..n
      /\ list # << >> => n # 0
  BY ShinglesValued DEF LowValued
<1>2. ShingleSet(toks) = {list[k] : k \in 1..n}  BY DEF ShingleSet
<1>3. MERSENNE \in Nat /\ MERSENNE > 0  BY SignatureAssumption
<1>4. CASE list = << >>
  <2>1. n = 0  BY <1>4
  <2>2. ShingleSet(toks) = {}  BY <1>2, <2>1
  <2>3. sig = [i \in 1..NUM_PERM |-> 0]  BY <1>4 DEF SignatureOf
  <2> HIDE DEF sig
  <2>4. sig \in [1..NUM_PERM -> 0..(MERSENNE - 1)]  BY <1>3, <2>3
  <2> QED BY <2>2, <2>3, <2>4 DEF sig
<1>5. CASE list # << >>
  <2>1. sig = Minima(list, 1..n)
    BY <1>1, <1>5, FoldMin DEF SignatureOf
  <2>2. n \in 1..n /\ ShingleSet(toks) # {}  BY <1>1, <1>2, <1>5
  <2>3. ASSUME NEW i \in 1..NUM_PERM
        PROVE  /\ sig[i] \in 0..(MERSENNE - 1)
               /\ \E s \in ShingleSet(toks) : sig[i] = Value(i, s)
               /\ \A s \in ShingleSet(toks) : sig[i] <= Value(i, s)
    <3> DEFINE V == ValuesAt(list, i, 1..n)
    <3>1. sig[i] = Min(V)  BY <2>1 DEF Minima
    <3>2. Min(V) \in V /\ Min(V) \in Nat /\ \A v \in V : Min(V) <= v
      BY <1>1, MinimaLeast
    <3>3. V = {MERSENNE} \cup {Value(i, s) : s \in ShingleSet(toks)}
      BY <1>2 DEF ValuesAt, U64_MAX
    <3>4. \A s \in ShingleSet(toks) :
            Value(i, s) \in Nat /\ Value(i, s) < MERSENNE
      BY <1>1, <1>2 DEF LowValued
    <3>5. PICK s \in ShingleSet(toks) : TRUE  BY <2>2
    <3> HIDE DEF V, sig
    <3>6. Min(V) <= Value(i, s) /\ Value(i, s) < MERSENNE
      BY <3>2, <3>3, <3>4
    <3>7. Min(V) < MERSENNE /\ Min(V) # MERSENNE
      BY <1>3, <3>2, <3>4, <3>6
    <3>8. \E u \in ShingleSet(toks) : Min(V) = Value(i, u)
      BY <3>2, <3>3, <3>7
    <3>9. \A u \in ShingleSet(toks) : Min(V) <= Value(i, u)
      BY <3>2, <3>3
    <3> QED BY <1>3, <3>1, <3>2, <3>7, <3>8, <3>9
  <2>4. sig = [i \in 1..NUM_PERM |-> Min(ValuesAt(list, i, 1..n))]
    BY <2>1 DEF Minima
  <2> HIDE DEF sig
  <2>5. sig \in [1..NUM_PERM -> 0..(MERSENNE - 1)]
    BY <2>3, <2>4
  <2> QED BY <2>2, <2>3, <2>5 DEF sig
<1> QED BY <1>4, <1>5

(* jaccard (minhash.rs:175) of two signatures that compute returned counts *)
(* the permutations whose least shingle of both texts together is in both, *)
(* for any two lists of words whose shingles do not coincide in a value.   *)
THEOREM OverlapIsEstimated ==
  ASSUME NEW toks, NEW other, Valued(toks), Valued(other),
         \A i \in 1..NUM_PERM : ~Coincide(toks, other, i, i)
  PROVE  EstimatesOverlap(toks, other)
<1> DEFINE A == ShingleSet(toks)
           B == ShingleSet(other)
           sa == SignatureOf(toks)
           sb == SignatureOf(other)
           least(i) == {s \in A \cup B :
                          \A t \in A \cup B : Value(i, s) <= Value(i, t)}
           met == IF A = {} \/ B = {} THEN IF A = B THEN 1..NUM_PERM ELSE {}
                  ELSE {i \in 1..NUM_PERM : least(i) \subseteq A \cap B}
<1>1. \A i \in 1..NUM_PERM :
        /\ A = {} => sa[i] = 0
        /\ A # {} => /\ \E s \in A : sa[i] = Value(i, s)
                     /\ \A s \in A : sa[i] <= Value(i, s)
  BY SignatureIsLeast
<1>2. \A i \in 1..NUM_PERM :
        /\ B = {} => sb[i] = 0
        /\ B # {} => /\ \E s \in B : sb[i] = Value(i, s)
                     /\ \A s \in B : sb[i] <= Value(i, s)
  BY SignatureIsLeast
<1>3. \A s \in A \cup B : \A i \in 1..NUM_PERM : Value(i, s) \in Int
  <2>1. MERSENNE \in Nat  BY SignatureAssumption
  <2> QED BY <2>1 DEF Valued
<1>4. Agreeing(sa, sb) = {i \in 1..NUM_PERM : sa[i] = sb[i]}
  BY DEF Agreeing
<1>5. ASSUME NEW i \in 1..NUM_PERM, NEW u \in TermsAt(toks, i),
             NEW v \in TermsAt(other, i), u[2] = v[2]
      PROVE  u[1] = v[1]
  BY <1>5 DEF Coincide
<1>6. CASE A # {} /\ B # {}
  <2>1. ASSUME NEW i \in 1..NUM_PERM, NEW s \in A, NEW t \in B,
               Value(i, s) = Value(i, t)
        PROVE  s = t
    <3>1. << {s}, Value(i, s) >> \in TermsAt(toks, i)
          /\ << {t}, Value(i, t) >> \in TermsAt(other, i)
      BY <1>6 DEF TermsAt
    <3>2. << {s}, Value(i, s) >>[1] = {s} /\ << {s}, Value(i, s) >>[2] = Value(i, s)
          /\ << {t}, Value(i, t) >>[1] = {t}
          /\ << {t}, Value(i, t) >>[2] = Value(i, t)
      OBVIOUS
    <3>3. {s} = {t}
      <4> HIDE DEF A, B
      <4> QED BY <1>5, <2>1, <3>1, <3>2
    <3> QED BY <3>3
  <2> HIDE DEF A, B, sa, sb
  <2>2. ASSUME NEW i \in 1..NUM_PERM
        PROVE  sa[i] = sb[i] <=> least(i) \subseteq A \cap B
    <3>1. PICK s \in A : sa[i] = Value(i, s) /\ \A x \in A : sa[i] <= Value(i, x)
      BY <1>1, <1>6
    <3>2. PICK t \in B : sb[i] = Value(i, t) /\ \A x \in B : sb[i] <= Value(i, x)
      BY <1>2, <1>6
    <3>3. \A x \in A \cup B : Value(i, x) \in Int  BY <1>3
    <3>4. ASSUME sa[i] = sb[i], NEW x \in least(i)
          PROVE  x \in A \cap B
      <4>1. x \in A \cup B /\ Value(i, x) <= Value(i, s)  BY <3>1, <3>4
      <4>2. sa[i] <= Value(i, x)  BY <3>1, <3>2, <3>4, <4>1
      <4>3. Value(i, x) = Value(i, s) /\ Value(i, x) = Value(i, t)
        BY <3>1, <3>2, <3>3, <3>4, <4>1, <4>2
      <4> QED BY <2>1, <4>1, <4>3
    <3>5. ASSUME least(i) \subseteq A \cap B
          PROVE  sa[i] = sb[i]
      <4>1. CASE sa[i] <= sb[i]
        <5>1. s \in least(i)
          BY <3>1, <3>2, <3>3, <4>1
        <5>2. sb[i] <= Value(i, s)  BY <3>2, <3>5, <5>1
        <5> QED BY <3>1, <3>2, <3>3, <4>1, <5>2
      <4>2. CASE sb[i] <= sa[i]
        <5>1. t \in least(i)
          BY <3>1, <3>2, <3>3, <4>2
        <5>2. sa[i] <= Value(i, t)  BY <3>1, <3>5, <5>1
        <5> QED BY <3>1, <3>2, <3>3, <4>2, <5>2
      <4> QED BY <3>1, <3>2, <3>3, <4>1, <4>2
    <3> QED BY <3>4, <3>5
  <2>3. met = {i \in 1..NUM_PERM : least(i) \subseteq A \cap B}  BY <1>6
  <2> HIDE DEF least, met
  <2>4. Agreeing(sa, sb) = met  BY <1>4, <2>2, <2>3
  <2> QED BY <2>4 DEF EstimatesOverlap, met, least, A, B, sa, sb
<1>7. CASE A = {} /\ B = {}
  <2>1. Agreeing(sa, sb) = 1..NUM_PERM  BY <1>1, <1>2, <1>4, <1>7
  <2> QED BY <1>7, <2>1 DEF EstimatesOverlap
<1>8. CASE A # {} /\ B = {}
  <2>1. ASSUME NEW i \in 1..NUM_PERM
        PROVE  sa[i] # sb[i]
    <3>1. PICK s \in A : sa[i] = Value(i, s)  BY <1>1, <1>8
    <3>2. << {s}, Value(i, s) >> \in TermsAt(toks, i)
          /\ << {}, 0 >> \in TermsAt(other, i)
      BY <1>8 DEF TermsAt
    <3>3. Value(i, s) # 0
      <4> HIDE DEF A, B
      <4> QED BY <1>5, <3>2
    <3> QED BY <1>2, <1>8, <3>1, <3>3
  <2>2. Agreeing(sa, sb) = {}  BY <1>4, <2>1
  <2> QED BY <1>8, <2>2 DEF EstimatesOverlap
<1>9. CASE A = {} /\ B # {}
  <2>1. ASSUME NEW i \in 1..NUM_PERM
        PROVE  sa[i] # sb[i]
    <3>1. PICK t \in B : sb[i] = Value(i, t)  BY <1>2, <1>9
    <3>2. << {}, 0 >> \in TermsAt(toks, i)
          /\ << {t}, Value(i, t) >> \in TermsAt(other, i)
      BY <1>9 DEF TermsAt
    <3>3. Value(i, t) # 0
      <4> HIDE DEF A, B
      <4> QED BY <1>5, <3>2
    <3> QED BY <1>1, <1>9, <3>1, <3>3
  <2>2. Agreeing(sa, sb) = {}  BY <1>4, <2>1
  <2> QED BY <1>9, <2>2 DEF EstimatesOverlap
<1> QED BY <1>6, <1>7, <1>8, <1>9

LEMMA WordOfBytes ==
  ASSUME NEW v \in Nat, NEW b \in Nat, b > 0
  PROVE  (v \div b) * b + (v % b) = v
OBVIOUS

LEMMA MinhashParsed ==
  ASSUME NEW sig \in [1..NUM_PERM -> Nat]
  PROVE  /\ from_minhash(sig).alg = ALG_MINHASH
         /\ parse_minhash(from_minhash(sig).blocks[1].value) = {sig}
<1> DEFINE m == 2 * NUM_PERM
           byte(k) == LET v == sig[(k + 1) \div 2]
                      IN IF k % 2 = 1 THEN v \div BYTE ELSE v % BYTE
           value == [k \in 1..m |-> byte(k)]
<1>1. /\ from_minhash(sig).alg = ALG_MINHASH
      /\ from_minhash(sig).blocks[1].value = value
  BY DEF from_minhash, Whole
<1>2. NUM_PERM \in Nat /\ BYTE \in Nat /\ BYTE > 0 /\ m \in Nat
  BY SignatureAssumption, ResolutionAssumption
<1>3. Len(value) = m
  <2> HIDE DEF byte, m
  <2> QED BY <1>2
<1>4. \A i \in 1..NUM_PERM : value[2 * i - 1] * BYTE + value[2 * i] = sig[i]
  <2> TAKE i \in 1..NUM_PERM
  <2>1. 2 * i - 1 \in 1..m /\ 2 * i \in 1..m /\ i \in Nat  BY <1>2
  <2>2. ((2 * i - 1) + 1) \div 2 = i /\ (2 * i + 1) \div 2 = i
        /\ (2 * i - 1) % 2 = 1 /\ (2 * i) % 2 # 1
    BY <2>1
  <2>3. byte(2 * i - 1) = sig[i] \div BYTE /\ byte(2 * i) = sig[i] % BYTE
    BY <2>2
  <2>4. value[2 * i - 1] = sig[i] \div BYTE
        /\ value[2 * i] = sig[i] % BYTE
    <3> HIDE DEF byte, m
    <3> QED BY <2>1, <2>3
  <2>5. sig[i] \in Nat  OBVIOUS
  <2>6. (sig[i] \div BYTE) * BYTE + (sig[i] % BYTE) = sig[i]
    BY <1>2, <2>5, WordOfBytes
  <2> HIDE DEF value
  <2> QED BY <2>4, <2>6
<1> HIDE DEF value
<1>5. parse_minhash(value)
        = {[i \in 1..NUM_PERM |-> value[2 * i - 1] * BYTE + value[2 * i]]}
  BY <1>3 DEF parse_minhash
<1>6. [i \in 1..NUM_PERM |-> value[2 * i - 1] * BYTE + value[2 * i]] = sig
  BY <1>4
<1> QED BY <1>1, <1>5, <1>6

LEMMA SameSignatureMatches ==
  ASSUME NEW sig
  PROVE  JaccardMatches(sig, sig)
<1>1. Agreeing(sig, sig) = 1..NUM_PERM  BY DEF Agreeing
<1>2. NUM_PERM \in Nat  BY SignatureAssumption
<1>3. Cardinality(1..NUM_PERM) = NUM_PERM
  <2>1. 1 \in Int /\ NUM_PERM \in Int  BY <1>2
  <2> QED BY <1>2, <2>1, FS_Interval
<1> QED BY <1>1, <1>2, <1>3 DEF JaccardMatches

LEMMA BandRows ==
  ASSUME NEW sig \in [1..NUM_PERM -> Nat], NEW other \in [1..NUM_PERM -> Nat],
         shares_band(BandsOf(sig), BandsOf(other))
  PROVE  \E j, k \in 1..BANDS : \A r \in 1..ROWS :
           /\ (j - 1) * ROWS + r \in 1..NUM_PERM
           /\ (k - 1) * ROWS + r \in 1..NUM_PERM
           /\ sig[(j - 1) * ROWS + r] = other[(k - 1) * ROWS + r]
<1>1. NUM_PERM \in Nat /\ BANDS \in Nat /\ ROWS \in Nat /\ ROWS > 0
      /\ BANDS * ROWS = NUM_PERM
  BY SignatureAssumption
<1>2. PICK j, k \in 1..BANDS : band_hash(sig, j) = band_hash(other, k)
  BY DEF shares_band, BandsOf
<1>3. ASSUME NEW s \in [1..NUM_PERM -> Nat], NEW b \in 1..BANDS,
             NEW r \in 1..ROWS
      PROVE  /\ (b - 1) * ROWS + r \in 1..NUM_PERM
             /\ band_hash(s, b)[r] = s[(b - 1) * ROWS + r]
  <2> DEFINE x == (b - 1) * ROWS
             hi == b * ROWS
             y == (BANDS - b) * ROWS
  <2>1. x \in Int /\ x >= 0 /\ hi \in Int /\ y \in Int /\ y >= 0
    BY <1>1
  <2>2. hi = x + ROWS /\ BANDS * ROWS = hi + y  BY <1>1
  <2>3. band_hash(s, b) = SubSeq(s, x + 1, hi)  BY DEF band_hash
  <2>4. s \in Seq(Nat) /\ Len(s) = NUM_PERM  BY <1>1
  <2> HIDE DEF x, hi, y
  <2>5. NUM_PERM = hi + y  BY <1>1, <2>2
  <2>6. x + r \in 1..NUM_PERM  BY <1>1, <2>1, <2>2, <2>5
  <2>7. SubSeq(s, x + 1, hi)[r] = s[x + r]
    BY <1>1, <2>1, <2>2, <2>4, <2>5
  <2> QED BY <2>3, <2>6, <2>7 DEF x
<1>4. \A r \in 1..ROWS :
        /\ (j - 1) * ROWS + r \in 1..NUM_PERM
        /\ (k - 1) * ROWS + r \in 1..NUM_PERM
        /\ sig[(j - 1) * ROWS + r] = other[(k - 1) * ROWS + r]
  <2> TAKE r \in 1..ROWS
  <2>1. (j - 1) * ROWS + r \in 1..NUM_PERM
        /\ band_hash(sig, j)[r] = sig[(j - 1) * ROWS + r]
    BY <1>3
  <2>2. (k - 1) * ROWS + r \in 1..NUM_PERM
        /\ band_hash(other, k)[r] = other[(k - 1) * ROWS + r]
    BY <1>3
  <2> QED BY <1>2, <2>1, <2>2, Zenon
<1> QED BY <1>4

(* Each value of a signature is the value of one of its terms.             *)
LEMMA TermOf ==
  ASSUME NEW doc \in Docs, NEW i \in 1..NUM_PERM
  PROVE  \E u \in TermsAt(Words[doc], i) : u[2] = SignatureOf(Words[doc])[i]
<1> DEFINE S == ShingleSet(Words[doc])
           v == SignatureOf(Words[doc])[i]
<1>1. CASE S = {}
  <2>1. v = 0  BY <1>1, WordsValued, SignatureIsLeast
  <2> QED BY <1>1, <2>1 DEF TermsAt
<1>2. CASE S # {}
  <2>1. PICK s \in S : v = Value(i, s)  BY <1>2, WordsValued, SignatureIsLeast
  <2>2. << {s}, Value(i, s) >> \in TermsAt(Words[doc], i)
    BY <1>2 DEF TermsAt
  <2> QED BY <2>1, <2>2
<1> QED BY <1>1, <1>2

(* Equal values that are no coincidence are of a common shingle, or of two *)
(* texts without any.                                                      *)
LEMMA NoCoincidenceShares ==
  ASSUME NEW doc \in Docs, NEW source \in Docs,
         NEW i \in 1..NUM_PERM, NEW j \in 1..NUM_PERM,
         SignatureOf(Words[doc])[i] = SignatureOf(Words[source])[j],
         ~Coincide(Words[doc], Words[source], i, j)
  PROVE  SharesShingle(doc, source)
<1> DEFINE D == ShingleSet(Words[doc])
           S == ShingleSet(Words[source])
<1>1. PICK u \in TermsAt(Words[doc], i) : u[2] = SignatureOf(Words[doc])[i]
  BY TermOf
<1>2. PICK v \in TermsAt(Words[source], j) :
        v[2] = SignatureOf(Words[source])[j]
  BY TermOf
<1>3. u[1] = v[1]  BY <1>1, <1>2 DEF Coincide
<1>4. \/ D = {} /\ u[1] = {}
      \/ \E s \in D : u[1] = {s}
  BY <1>1 DEF TermsAt
<1>5. \/ S = {} /\ v[1] = {}
      \/ \E s \in S : v[1] = {s}
  BY <1>2 DEF TermsAt
<1> HIDE DEF D, S
<1>6. D = S \/ D \cap S # {}
  BY <1>3, <1>4, <1>5
<1> QED BY <1>6 DEF SharesShingle, D, S

(* A match of two signatures that is not made of coincidences is one of    *)
(* texts with a common shingle.                                            *)
LEMMA MatchShares ==
  ASSUME NEW doc \in Docs, NEW source \in Docs,
         ~Coincidental(Words[doc], Words[source]),
         LET sig == SignatureOf(Words[doc])
             other == SignatureOf(Words[source])
         IN JaccardMatches(sig, other)
            \/ shares_band(BandsOf(sig), BandsOf(other))
  PROVE  SharesShingle(doc, source)
<1> DEFINE toks == Words[doc]
           them == Words[source]
           sig == SignatureOf(toks)
           other == SignatureOf(them)
<1>1. sig \in [1..NUM_PERM -> Nat] /\ other \in [1..NUM_PERM -> Nat]
  <2>1. 0..(MERSENNE - 1) \subseteq Nat  BY SignatureAssumption
  <2>2. /\ sig \in [1..NUM_PERM -> 0..(MERSENNE - 1)]
        /\ other \in [1..NUM_PERM -> 0..(MERSENNE - 1)]
    BY WordsValued, SignatureIsLeast
  <2> HIDE DEF sig, other
  <2> QED BY <2>1, <2>2
<1>2. PICK i, j \in 1..NUM_PERM :
        sig[i] = other[j] /\ ~Coincide(toks, them, i, j)
  <2>1. CASE JaccardMatches(sig, other)
    <3> DEFINE C == {i \in 1..NUM_PERM : Coincide(toks, them, i, i)}
    <3>1. IsFiniteSet(C) /\ Cardinality(C) \in Nat
      <4>1. IsFiniteSet(1..NUM_PERM)  BY SignatureAssumption, FS_Interval
      <4>2. IsFiniteSet(C)  BY <4>1, FS_Subset
      <4> QED BY <4>2, FS_CardinalityType
    <3>2. ~(10 * Cardinality(C) >= 7 * NUM_PERM)  BY DEF Coincidental
    <3>3. ~(Agreeing(sig, other) \subseteq C)
      <4> SUFFICES ASSUME Agreeing(sig, other) \subseteq C  PROVE FALSE
        OBVIOUS
      <4> DEFINE A == Agreeing(sig, other)
      <4>1. /\ IsFiniteSet(A) /\ Cardinality(A) <= Cardinality(C)
        BY <3>1, FS_Subset
      <4>2. Cardinality(A) \in Nat  BY <4>1, FS_CardinalityType
      <4>3. 10 * Cardinality(A) >= 7 * NUM_PERM
        BY <2>1 DEF JaccardMatches
      <4> HIDE DEF A, C
      <4> QED BY <3>1, <3>2, <4>1, <4>2, <4>3, SignatureAssumption
    <3>4. PICK i \in Agreeing(sig, other) : i \notin C  BY <3>3
    <3> QED BY <3>4 DEF Agreeing
  <2>2. CASE shares_band(BandsOf(sig), BandsOf(other))
    <3>1. PICK j, k \in 1..BANDS :
            \A r \in 1..ROWS :
              /\ (j - 1) * ROWS + r \in 1..NUM_PERM
              /\ (k - 1) * ROWS + r \in 1..NUM_PERM
              /\ sig[(j - 1) * ROWS + r] = other[(k - 1) * ROWS + r]
      BY <1>1, <2>2, BandRows
    <3>2. PICK r \in 1..ROWS :
            ~Coincide(toks, them, (j - 1) * ROWS + r, (k - 1) * ROWS + r)
      BY DEF Coincidental
    <3> QED BY <3>1, <3>2
  <2> QED BY <2>1, <2>2
<1> QED BY <1>2, NoCoincidenceShares

-----------------------------------------------------------------------------
(* What BOUND means, for all signatures: it is given for a durable         *)
(* algorithm and a text whose tag was stored by the trusted signer, when   *)
(* the fingerprint published with that tag is near the text as it is now,  *)
(* or the signature published with it has a shingle of the text, unless    *)
(* the match is made of coincidences among hash values.                    *)
BoundIsNear ==
  answer = "Bound" =>
    /\ candidate.alg \in {ALG_FINGERPRINT, ALG_MINHASH}
    /\ checked # NoText
    /\ \E p \in Sources :
         /\ Canonical[p.doc] = Canonical[checked]
         /\ candidate.alg = ALG_FINGERPRINT => NearSurface(text, p.doc)
         /\ candidate.alg = ALG_MINHASH =>
              \/ SharesShingle(text, p.doc)
              \/ Coincidental(Words[text], Words[p.doc])

LEMMA MinhashBinding ==
  ASSUME NEW doc \in Docs, NEW binding \in Bindings(doc),
         binding.alg = ALG_MINHASH
  PROVE  binding = from_minhash(SignatureOf(Words[doc]))
<1>1. from_fingerprint(Surface[doc]).alg = ALG_FINGERPRINT
  BY FingerprintBlocks
<1> QED BY <1>1 DEF Bindings, from_structure, from_watermark_pointer, Whole,
       ALG_FINGERPRINT, ALG_STRUCTURE, ALG_MINHASH, ALG_WATERMARK

(* fingerprint_evidence compares the signature of the text with the one    *)
(* that was published: nothing is lost in bytes and hex                    *)
(* (crosscheck.rs:125).                                                    *)
LEMMA MinhashIsCompared ==
  ASSUME NEW doc \in Docs, NEW source \in Docs
  PROVE  LET sig == SignatureOf(Words[doc])
             other == SignatureOf(Words[source])
         IN  MinhashMatches(doc, from_minhash(other))
               <=> \/ JaccardMatches(sig, other)
                   \/ shares_band(BandsOf(sig), BandsOf(other))
<1> DEFINE other == SignatureOf(Words[source])
<1>1. other \in [1..NUM_PERM -> Nat]
  <2>1. 0..(MERSENNE - 1) \subseteq Nat  BY SignatureAssumption
  <2>2. other \in [1..NUM_PERM -> 0..(MERSENNE - 1)]
    BY WordsValued, SignatureIsLeast
  <2> HIDE DEF other
  <2> QED BY <2>1, <2>2
<1> HIDE DEF other
<1>2. parse_minhash(from_minhash(other).blocks[1].value) = {other}
  BY <1>1, MinhashParsed
<1>3. MinhashMatches(doc, from_minhash(other))
        <=> \/ JaccardMatches(SignatureOf(Words[doc]), other)
            \/ shares_band(BandsOf(SignatureOf(Words[doc])), BandsOf(other))
  BY <1>2 DEF MinhashMatches
<1> QED BY <1>3 DEF other

LEMMA BoundEvidence ==
  ASSUME NEW doc, NEW b, NEW w, NEW c, verify(doc, b, w, c) = "Bound"
  PROVE  c /\ b.alg \in {ALG_FINGERPRINT, ALG_MINHASH}
           /\ fingerprint_evidence(doc, b).durable
<1> DEFINE A == SurfaceMatches(doc, b)
           B == MinhashMatches(doc, b)
           durable == CASE b.alg = ALG_FINGERPRINT -> A
                        [] b.alg = ALG_MINHASH -> B
                        [] OTHER -> FALSE
           structural == b.alg = ALG_STRUCTURE /\ StructureMatches(doc, b)
<1>1. fingerprint_evidence(doc, b) =
        [durable |-> durable, structural |-> structural]
  BY DEF fingerprint_evidence
<1> HIDE DEF A, B
<1>2. durable => b.alg \in {ALG_FINGERPRINT, ALG_MINHASH}  OBVIOUS
<1> HIDE DEF durable, structural
<1>3. c /\ fingerprint_evidence(doc, b).durable
  BY DEF verify, classify
<1>4. durable  BY <1>1, <1>3
<1> QED BY <1>2, <1>3, <1>4

(* BOUND says of the text as it is now that it is near what the trusted    *)
(* signer published under the content the tag was checked for, or shares a *)
(* shingle with it (crosscheck.rs:90, :113).                               *)
THEOREM BoundIsClose == Spec => []BoundIsNear
<1>1. RInv => BoundIsNear
  <2> SUFFICES ASSUME RInv, answer = "Bound"
               PROVE  /\ candidate.alg \in {ALG_FINGERPRINT, ALG_MINHASH}
                      /\ checked # NoText
                      /\ \E p \in Sources :
                           /\ Canonical[p.doc] = Canonical[checked]
                           /\ candidate.alg = ALG_FINGERPRINT =>
                                NearSurface(text, p.doc)
                           /\ candidate.alg = ALG_MINHASH =>
                                \/ SharesShingle(text, p.doc)
                                \/ Coincidental(Words[text], Words[p.doc])
    BY DEF BoundIsNear
  <2>1. /\ candidate # Nothing
        /\ verify(text, candidate, watermark_verified, crosscheck_ok)
             = "Bound"
    BY DEF RInv, Answered, Tier
  <2>2. /\ crosscheck_ok
        /\ candidate.alg \in {ALG_FINGERPRINT, ALG_MINHASH}
        /\ fingerprint_evidence(text, candidate).durable
    BY <2>1, BoundEvidence
  <2>3. checked \in Docs /\ tag = TagOf(at, checked)
    BY <2>2 DEF RInv, Checked
  <2>4. checked # NoText  BY <2>3, NoTextAssumption
  <2>5. PICK p \in Origins(published, candidate, tag) : TRUE
    BY <2>1 DEF RInv, Fetched
  <2>6. /\ p \in Signed /\ p.doc \in Docs /\ p.binding = candidate
        /\ p.binding \in Bindings(p.doc) /\ tag = TagOf(p.repo, p.doc)
        /\ text \in Docs
    BY <2>5 DEF Origins, Signed, RInv, Types
  <2>7. p \in Sources /\ Canonical[p.doc] = Canonical[checked]
    BY <2>3, <2>6 DEF TagOf, crosscheck_tag, Sources
  <2>8. ASSUME candidate.alg = ALG_FINGERPRINT  PROVE NearSurface(text, p.doc)
    <3>1. candidate = from_fingerprint(Surface[p.doc])
      BY <2>6, <2>8, FingerprintBinding
    <3>2. SurfaceMatches(text, candidate)  BY <2>2, <2>8, DurableEvidence
    <3> QED BY <2>6, <3>1, <3>2, SurfaceIsCompared
  <2>9. ASSUME candidate.alg = ALG_MINHASH,
               ~Coincidental(Words[text], Words[p.doc])
        PROVE  SharesShingle(text, p.doc)
    <3>1. candidate = from_minhash(SignatureOf(Words[p.doc]))
      BY <2>6, <2>9, MinhashBinding
    <3>2. ALG_FINGERPRINT # ALG_MINHASH  BY DEF ALG_FINGERPRINT, ALG_MINHASH
    <3>3. MinhashMatches(text, candidate)
      BY <2>2, <2>9, <3>2, DurableEvidence
    <3> QED BY <2>6, <2>9, <3>1, <3>3, MinhashIsCompared, MatchShares
  <2> QED BY <2>2, <2>4, <2>6, <2>7, <2>8, <2>9
<1> QED BY InvHolds, <1>1, PTL

(* A reader is given a tier only for a binding that the signer they trust  *)
(* has published, and BOUND only where they published it: the tag of a     *)
(* manifest moved from elsewhere is not the one recomputed (manifest.rs    *)
(* :90, crosscheck.rs:41).                                                 *)
THEOREM AnswersSigned == Spec => []AnsweredWasSigned
<1>1. RInv /\ BoundIsNear => AnsweredWasSigned
  <2> SUFFICES ASSUME RInv, BoundIsNear  PROVE AnsweredWasSigned
    OBVIOUS
  <2>1. answer \in Tier => Signed # {}
    BY DEF RInv, Fetched, Answered, Signed, Origins
  <2>2. answer = "Bound" => Sources # {}
    BY DEF BoundIsNear
  <2> QED BY <2>1, <2>2 DEF AnsweredWasSigned, Tier
<1> QED BY InvHolds, BoundIsClose, <1>1, PTL

(* When no two documents have coincidences enough among their hash values  *)
(* to match by them alone, BOUND says of the text that it reproduces       *)
(* content of the trusted signer (crosscheck.rs:90, :113).                 *)
THEOREM BoundReproduces == NoCoincidences => (Spec => []BoundIsReproduced)
<1> SUFFICES ASSUME NoCoincidences  PROVE Spec => []BoundIsReproduced
  OBVIOUS
<1>1. RInv /\ BoundIsNear => BoundIsReproduced
  <2> SUFFICES ASSUME RInv, BoundIsNear, answer = "Bound"
               PROVE  BoundIsReproduced
    BY DEF BoundIsReproduced
  <2>1. PICK p \in Sources :
          /\ Canonical[p.doc] = Canonical[checked]
          /\ candidate.alg = ALG_FINGERPRINT => NearSurface(text, p.doc)
          /\ candidate.alg = ALG_MINHASH =>
               \/ SharesShingle(text, p.doc)
               \/ Coincidental(Words[text], Words[p.doc])
    BY DEF BoundIsNear
  <2>2. /\ p \in published /\ p.by = TRUSTED /\ p.repo = at
        /\ p.binding = candidate /\ p.doc \in Docs /\ text \in Docs
    BY <2>1 DEF Sources, Signed, RInv, Types
  <2>3. ~Coincidental(Words[text], Words[p.doc])  BY <2>2 DEF NoCoincidences
  <2>4. /\ candidate.alg \in {ALG_FINGERPRINT, ALG_MINHASH}
        /\ checked # NoText
    BY DEF BoundIsNear
  <2> QED BY <2>1, <2>2, <2>3, <2>4 DEF BoundIsReproduced
<1> QED BY InvHolds, BoundIsClose, <1>1, PTL

(* A text with the content of the published document gets BOUND: the way   *)
(* through hex, CBOR and envelope and back loses nothing (crosscheck.rs    *)
(* :113, :125).                                                            *)
THEOREM SameContentBound == Spec => []SameContentIsBound
<1>1. RInv => SameContentIsBound
  <2> SUFFICES ASSUME RInv, answer \in {"Likely", "Review"}, checked = text,
                      candidate.alg \in {ALG_FINGERPRINT, ALG_MINHASH},
                      tag = TagOf(at, text)
               PROVE  FALSE
    BY DEF SameContentIsBound, TagOf
  <2>1. /\ candidate # Nothing /\ text \in Docs
        /\ answer = verify(text, candidate, watermark_verified,
                           crosscheck_ok)
    BY DEF RInv, Types, Answered, Tier
  <2>2. crosscheck_ok  BY <2>1, NoTextAssumption DEF RInv, Checked
  <2>3. PICK p \in Origins(published, candidate, tag) : TRUE
    BY <2>1 DEF RInv, Fetched
  <2>4. /\ p.doc \in Docs /\ p.binding = candidate
        /\ p.binding \in Bindings(p.doc) /\ tag = TagOf(p.repo, p.doc)
    BY <2>3 DEF Origins, RInv, Types
  <2>5. Canonical[p.doc] = Canonical[text]
    BY <2>4 DEF TagOf, crosscheck_tag
  <2>6. fingerprint_evidence(text, candidate).durable
    <3>1. CASE candidate.alg = ALG_FINGERPRINT
      <4>1. Surface[p.doc] = Surface[text]
        BY <2>1, <2>4, <2>5, SurfaceAssumption
      <4>2. candidate = from_fingerprint(Surface[p.doc])
        BY <2>4, <3>1, FingerprintBinding
      <4>3. NearSurface(text, p.doc)  BY <2>1, <2>4, <4>1, SameHashIsNear
      <4>4. SurfaceMatches(text, candidate)
        BY <2>1, <2>4, <4>2, <4>3, SurfaceIsCompared
      <4> QED BY <3>1, <4>4, DurableEvidence
    <3>2. CASE candidate.alg = ALG_MINHASH
      <4>1. Words[p.doc] = Words[text]
        BY <2>1, <2>4, <2>5, WordsAssumption
      <4>2. candidate = from_minhash(SignatureOf(Words[p.doc]))
        BY <2>4, <3>2, MinhashBinding
      <4>3. MinhashMatches(text, candidate)
        BY <2>1, <2>4, <4>1, <4>2, MinhashIsCompared, SameSignatureMatches
      <4>4. ALG_FINGERPRINT # ALG_MINHASH
        BY DEF ALG_FINGERPRINT, ALG_MINHASH
      <4> QED BY <3>2, <4>3, <4>4, DurableEvidence
    <3> QED BY <3>1, <3>2
  <2> QED BY <2>1, <2>2, <2>6 DEF verify, classify
<1> QED BY InvHolds, <1>1, PTL
=============================================================================
