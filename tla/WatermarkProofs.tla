--------------------------- MODULE WatermarkProofs ----------------------------
(***************************************************************************)
(* What extract returns, for every key, pointer, host text, number and     *)
(* size of shards, and however often and in whatever way a text is marked  *)
(* and damaged: no wrong pointer verifies, a mark survives the loss of as  *)
(* many symbols as it has parity shards, and two marks under one key are   *)
(* refused.                                                                *)
(***************************************************************************)
EXTENDS Watermark, CarrierProofs

(* The argument is about where the characters of a text came from, which   *)
(* is part of the type invariant.                                          *)
IInv == TypeOK /\ VerifiedWasEmbedded

PointerType == [0..(POINTER_LEN - 1) -> PointerBytes]

LEMMA Lengths ==
  /\ POINTER_LEN \in Nat /\ POINTER_LEN > 0 /\ TAG_LEN \in Nat /\ TAG_LEN > 0
  /\ PARITY_SHARDS \in Nat
  /\ DATA_SHARDS = POINTER_LEN + TAG_LEN
  /\ TOTAL_SHARDS = DATA_SHARDS + PARITY_SHARDS
  /\ POINTER_LEN \in 0..(DATA_SHARDS - 1)
  /\ POINTER_LEN \in Shards
BY LengthsAssumption DEF DATA_SHARDS, Shards

LEMMA CharsGrow ==
  ASSUME NEW M, NEW N, M \subseteq N
  PROVE  CharsOf(M) \subseteq CharsOf(N)
BY DEF CharsOf

(* What a byte of a shard of a mark can be. *)
LEMMA ByteKinds ==
  ASSUME NEW m, m.pointer \in PointerType, NEW s \in Shards
  PROVE  \/ Byte(m, s) \in PointerBytes
         \/ Byte(m, s) = <<"tag", s, m>>
         \/ Byte(m, s) = <<"parity", s, m>>
<1>1. CASE s < POINTER_LEN
  <2>1. s \in 0..(POINTER_LEN - 1)  BY <1>1, Lengths, ShardArithmetic DEF Shards
  <2>2. m.pointer[s] \in PointerBytes  BY <2>1 DEF PointerType
  <2> QED BY <1>1, <2>2 DEF Byte
<1>2. CASE ~(s < POINTER_LEN)
  BY <1>2 DEF Byte
<1> QED BY <1>1, <1>2

LEMMA TagByte == \A m : Byte(m, POINTER_LEN) = <<"tag", POINTER_LEN, m>>
BY Lengths DEF Byte

(* embed's pointer has POINTER_LEN bytes, whatever it is called with. *)
LEMMA FitType ==
  ASSUME NEW p \in Seq(0..255)
  PROVE  Fit(p) \in PointerType
<1>1. ASSUME NEW b \in 0..(POINTER_LEN - 1)
      PROVE  <<"pointer", IF b < Len(p) THEN p[b + 1] ELSE 0>> \in PointerBytes
  <2>1. b \in Nat /\ Len(p) \in Nat  BY Lengths
  <2>2. CASE b < Len(p)
    <3>1. b + 1 \in 1..Len(p)  BY <2>1, <2>2
    <3>2. p[b + 1] \in 0..255  BY <3>1, ElementOfSeq
    <3> QED BY <2>2, <3>2 DEF PointerBytes
  <2>3. CASE ~(b < Len(p))
    <3>1. 0 \in 0..255  OBVIOUS
    <3> QED BY <2>3, <3>1 DEF PointerBytes
  <2> QED BY <2>2, <2>3
<1> QED BY <1>1 DEF Fit, PointerType

(* A tag or parity byte that a symbol stands for is one of a mark made.    *)
LEMMA SymbolOrigin ==
  ASSUME TypeOK, NEW c \in CharsOf(Marks), IsSymbol(c)
  PROVE  /\ \A s, m : c.byte = <<"tag", s, m>> => m \in Marks
         /\ c.byte[1] = "parity" => c.byte[3] \in Marks
<1>1. CASE c = Foreign
  <2>1. c.byte = <<"foreign">>  BY <1>1 DEF Foreign
  <2> QED BY <2>1
<1>2. CASE \E m \in Marks, s \in Shards, k \in 1..SYMBOLS_PER_SHARD :
             c = SymbolOf(Byte(m, s), k)
  <2>1. PICK m \in Marks, s \in Shards : c.byte = Byte(m, s)
    BY <1>2 DEF SymbolOf
  <2>2. m.pointer \in PointerType
    BY DEF TypeOK, Marks, PointerType
  <2>3. CASE c.byte \in PointerBytes
    <3>1. PICK v \in 0..255 : c.byte = <<"pointer", v>>
      BY <2>3 DEF PointerBytes
    <3> QED BY <3>1
  <2>4. CASE c.byte = <<"tag", s, m>>  BY <2>4
  <2>5. CASE c.byte = <<"parity", s, m>>  BY <2>5
  <2> QED BY <2>1, <2>2, <2>3, <2>4, <2>5, ByteKinds
<1> QED BY <1>1, <1>2, HostAssumption DEF CharsOf

(* The same of a shard that extract read. *)
LEMMA ShardOrigin ==
  ASSUME TypeOK, NEW r
  PROVE  /\ \A s, m : ReadShard(text, r) = <<"tag", s, m>> => m \in Marks
         /\ ReadShard(text, r)[1] = "parity" => ReadShard(text, r)[3] \in Marks
<1> DEFINE F == Filed(text, r, Len(text))
           run == At(text, F)
<1>1. ReadShard(text, r) = IF Len(run) = SYMBOLS_PER_SHARD THEN RunToByte(run)
                                                          ELSE <<"erased">>
  BY DEF ReadShard, Erased
<1>2. CASE Len(run) # SYMBOLS_PER_SHARD
  <2>1. ReadShard(text, r) = <<"erased">>  BY <1>1, <1>2
  <2> QED BY <2>1
<1>3. CASE Len(run) = SYMBOLS_PER_SHARD
  <2>1. Len(text) \in Nat /\ F \in SUBSET (1..Len(text))
    BY DEF TypeOK, Filed
  <2>2. Cardinality(F) \in Nat
    <3> HIDE DEF F
    <3> QED BY <2>1, PositionsFinite
  <2>3. Len(run) = Cardinality(F)
    <3> HIDE DEF F
    <3> QED BY <2>2 DEF At
  <2>4. 1 \in 1..Cardinality(F)  BY <1>3, <2>2, <2>3, ShardArithmetic
  <2>5. Nth(F, 1) \in F
    <3> HIDE DEF F
    <3> QED BY <2>1, <2>4, NthExists
  <2> DEFINE c == text[Nth(F, 1)]
  <2>6. run[1] = c
    <3> HIDE DEF F
    <3> QED BY <2>4 DEF At
  <2>7. Nth(F, 1) \in 1..Len(text) /\ IsSymbol(c)
    <3>1. ASSUME NEW i \in F PROVE i \in 1..Len(text) /\ IsSymbol(text[i])
      BY DEF Filed
    <3> HIDE DEF F
    <3> QED BY <3>1, <2>5
  <2>8. c \in CharsOf(Marks)  BY <2>7 DEF TypeOK
  <2>9. ReadShard(text, r) = c.byte \/ ReadShard(text, r) = <<"mixed", run>>
    BY <1>1, <1>3, <2>6 DEF RunToByte
  <2> HIDE DEF c, run
  <2>10. CASE ReadShard(text, r) = c.byte
    BY <2>7, <2>8, <2>10, SymbolOrigin
  <2>11. CASE ReadShard(text, r) = <<"mixed", run>>
    BY <2>11
  <2> QED BY <2>9, <2>10, <2>11
<1> QED BY <1>2, <1>3

(* And the same of a byte of the payload: reconstruction makes no tag that *)
(* was not embedded.                                                       *)
LEMMA TagOrigin ==
  ASSUME TypeOK, NEW sh, NEW m,
         \A s \in Shards : \E r : sh[s] = ReadShard(text, r),
         Reconstruct(sh)[POINTER_LEN] = <<"tag", POINTER_LEN, m>>
  PROVE  m \in Marks
<1> DEFINE P == POINTER_LEN
           w == CHOOSE x \in Codewords(sh) : TRUE
<1>1. Reconstruct(sh)[P] =
        IF sh[P] # Erased THEN sh[P]
        ELSE IF Codewords(sh) # {} THEN Byte(w, P)
        ELSE <<"garbage", P>>
  BY Lengths DEF Reconstruct
<1>2. CASE sh[P] # Erased
  <2>1. sh[P] = <<"tag", P, m>>  BY <1>1, <1>2
  <2>2. PICK r : sh[P] = ReadShard(text, r)  BY Lengths
  <2> QED BY <2>1, <2>2, ShardOrigin
<1>3. CASE sh[P] = Erased /\ Codewords(sh) # {}
  <2>1. w \in Codewords(sh)  BY <1>3
  <2>2. PICK s \in Shards : sh[s][1] = "parity" /\ w = sh[s][3]
    BY <2>1 DEF Codewords, Basis, Present
  <2>3. PICK r : sh[s] = ReadShard(text, r)  OBVIOUS
  <2>4. w \in Marks  BY <2>2, <2>3, ShardOrigin
  <2>5. Byte(w, P) = <<"tag", P, w>>  BY TagByte
  <2>6. <<"tag", P, w>> = <<"tag", P, m>>  BY <1>1, <1>3, <2>5
  <2>7. w = m  BY <2>6
  <2> QED BY <2>4, <2>7
<1>4. CASE sh[P] = Erased /\ Codewords(sh) = {}
  <2>1. <<"garbage", P>> = <<"tag", P, m>>  BY <1>1, <1>4
  <2> QED BY <2>1
<1> QED BY <1>2, <1>3, <1>4

-----------------------------------------------------------------------------
LEMMA InitInv == Init => IInv
<1> SUFFICES ASSUME Init PROVE IInv  OBVIOUS
<1>1. text \in Seq(HostChar)  BY HostAssumption DEF Init
<1>2. text \in Seq(CharsOf(Marks))
  <2>1. HostChar \subseteq CharsOf(Marks)  BY DEF CharsOf
  <2> QED BY <1>1, <2>1
<1>3. Len(sent) = 0 /\ sent \in Seq(Range(sent))  BY DEF Init
<1>4. losses \in 0..MaxLosses  BY BoundsAssumption DEF Init
<1> QED BY <1>2, <1>3, <1>4 DEF Init, IInv, TypeOK, VerifiedWasEmbedded, NoResult

(* A step that embeds nothing keeps the marks made. *)
LEMMA SameMarks ==
  ASSUME TypeOK, UNCHANGED sent,
         text' \in Seq(CharsOf(Marks)),
         losses' \in 0..MaxLosses,
         damage' \subseteq {"drop", "truncate", "remap", "strip"},
         result'.status \in {"none", "ok", "ContentTooShort",
                             "WatermarkUnrecoverable"}
  PROVE  TypeOK' /\ Marks' = Marks
<1>1. Marks' = Marks  BY DEF Marks
<1>2. CharsOf(Marks)' = CharsOf(Marks)  BY <1>1 DEF CharsOf
<1> QED BY <1>1, <1>2 DEF TypeOK, GapCount

LEMMA EmbedInv ==
  ASSUME IInv, NEW k \in Key, NEW p \in Pointer, Embed(k, p)
  PROVE  IInv'
<1> DEFINE m == MarkOf(k, ContentHash(text), Fit(p))
           run == [s \in Shards |-> RunOf(Byte(m, s))]
<1> USE DEF IInv
<1>0. PICK ord \in Draws(k, m.hash, text) :
        \E ins \in SortedInsertions(text, ord, run) :
          /\ text' = Woven(text, ins)
          /\ sent' = Append(sent, [mark |-> m, host |-> text, order |-> ord,
                                  output |-> Woven(text, ins)])
  BY DEF Embed
<1>1. PICK ins \in SortedInsertions(text, ord, run) :
        /\ text' = Woven(text, ins)
        /\ sent' = Append(sent, [mark |-> m, host |-> text, order |-> ord,
                                output |-> Woven(text, ins)])
  BY <1>0
<1> DEFINE e == [mark |-> m, host |-> text, order |-> ord,
                 output |-> Woven(text, ins)]
           n == Len(sent)
<1>2. /\ sent \in Seq(Range(sent)) /\ n \in Nat
      /\ Len(sent') = n + 1
      /\ sent'[n + 1] = e
      /\ \A i \in 1..n : sent'[i] = sent[i]
      /\ sent' \in Seq(Range(sent) \cup {e})
  BY <1>1 DEF TypeOK
<1>3. sent' \in Seq(Range(sent'))
  BY <1>2 DEF Range
<1>4. Marks \subseteq Marks' /\ m \in Marks'
  <2>1. \A i \in 1..n : i \in 1..Len(sent') /\ sent'[i].mark = sent[i].mark
    BY <1>2
  <2>2. n + 1 \in 1..Len(sent') /\ sent'[n + 1].mark = m  BY <1>2
  <2> QED BY <2>1, <2>2 DEF Marks
<1>5. CharsOf(Marks) \subseteq CharsOf(Marks')  BY <1>4, CharsGrow
<1>6. text \in Seq(CharsOf(Marks'))  BY <1>5 DEF TypeOK
<1>7. Woven(text, ins) \in Seq(CharsOf(Marks'))
  <2>1. ASSUME NEW r \in Range(run), NEW j \in 1..SYMBOLS_PER_SHARD
        PROVE  r[j] \in CharsOf(Marks')
    <3>1. PICK s \in Shards : r = RunOf(Byte(m, s))  BY DEF Range
    <3>2. r[j] = SymbolOf(Byte(m, s), j)  BY <3>1 DEF RunOf
    <3> QED BY <3>2, <1>4 DEF CharsOf
  <2> HIDE DEF run
  <2> QED BY <2>1, <1>6, WovenType
<1>8. m.key \in Key /\ m.pointer \in PointerType
  <2>1. p \in Seq(0..255)  BY PointerAssumption
  <2>2. Fit(p) \in PointerType  BY <2>1, FitType
  <2> QED BY <2>2 DEF MarkOf
<1>9. ord \in Orders(GapCount(text))  BY DEF Draws
<1> HIDE DEF m
<1>10. ASSUME NEW i \in 1..Len(sent')
       PROVE  /\ sent'[i].host \in Seq(CharsOf(Marks'))
              /\ sent'[i].output \in Seq(CharsOf(Marks'))
              /\ sent'[i].mark.key \in Key
              /\ sent'[i].mark.pointer \in PointerType
              /\ sent'[i].order \in Orders(GapCount(sent'[i].host))
  <2>1. CASE i = n + 1
    BY <2>1, <1>2, <1>6, <1>7, <1>8, <1>9
  <2>2. CASE i \in 1..n
    <3>1. sent'[i] = sent[i]  BY <2>2, <1>2
    <3>2. /\ sent[i].host \in Seq(CharsOf(Marks))
          /\ sent[i].output \in Seq(CharsOf(Marks))
      BY <2>2 DEF TypeOK
    <3> QED BY <3>1, <3>2, <2>2, <1>5 DEF TypeOK, PointerType
  <2> QED BY <2>1, <2>2, <1>2
<1>11. damage' = {} /\ result' = NoResult /\ losses' = losses
  BY DEF Embed
<1>12. CharsOf(Marks)' = CharsOf(Marks')  BY DEF CharsOf
<1>13. TypeOK'
  BY <1>1, <1>3, <1>7, <1>10, <1>11, <1>12
  DEF TypeOK, NoResult, PointerType, GapCount
<1>14. VerifiedWasEmbedded'
  BY <1>11 DEF VerifiedWasEmbedded, NoResult
<1> QED BY <1>13, <1>14

(* Damage leaves nothing but characters that were there, and noise.        *)
LEMMA LoseInv ==
  ASSUME IInv, NEW kind \in {"drop", "truncate", "remap", "strip"},
         NEW t \in Seq(CharsOf(Marks)), Lose(kind, t)
  PROVE  IInv'
<1>1. /\ text' = t /\ UNCHANGED sent /\ result' = NoResult
      /\ damage' = damage \cup {kind}
      /\ losses < MaxLosses /\ losses' = losses + 1
  BY DEF Lose
<1>2. losses' \in 0..MaxLosses
  BY <1>1, BoundsAssumption DEF IInv, TypeOK
<1>3. TypeOK'
  BY <1>1, <1>2, SameMarks DEF IInv, TypeOK, NoResult
<1>4. VerifiedWasEmbedded'  BY <1>1 DEF VerifiedWasEmbedded, NoResult
<1> QED BY <1>3, <1>4 DEF IInv

LEMMA DamageInv == IInv /\ (Drop \/ Truncate \/ Remap \/ StripAll) => IInv'
<1> SUFFICES ASSUME IInv, Drop \/ Truncate \/ Remap \/ StripAll PROVE IInv'
  OBVIOUS
<1> DEFINE C == CharsOf(Marks)
<1>1. text \in Seq(C) /\ Len(text) \in Nat  BY DEF IInv, TypeOK
<1>2. CASE Drop
  <2>1. PICK i \in 1..Len(text) : Lose("drop", RemoveAt(text, i))
    BY <1>2 DEF Drop
  <2>2. RemoveAt(text, i) \in Seq(C)
    <3> HIDE DEF C
    <3> QED BY <1>1 DEF RemoveAt
  <2> QED BY <2>1, <2>2, LoseInv
<1>3. CASE Truncate
  <2>1. PICK n \in 0..(Len(text) - 1) : Lose("truncate", SubSeq(text, 1, n))
    BY <1>3 DEF Truncate
  <2>2. SubSeq(text, 1, n) \in Seq(C)
    <3> HIDE DEF C
    <3> QED BY <1>1
  <2> QED BY <2>1, <2>2, LoseInv
<1>4. CASE Remap
  <2>1. PICK i \in {j \in 1..Len(text) : IsSymbol(text[j])} :
          \E c \in {d \in Range(text) : IsSymbol(d)} \cup {Foreign} :
            Lose("remap", [text EXCEPT ![i] = c])
    BY <1>4 DEF Remap
  <2>2. PICK c \in {d \in Range(text) : IsSymbol(d)} \cup {Foreign} :
          Lose("remap", [text EXCEPT ![i] = c])
    BY <2>1
  <2>3. c \in C
    <3>1. Range(text) \subseteq C  BY <1>1 DEF Range
    <3>2. Foreign \in C  BY DEF CharsOf
    <3> QED BY <3>1, <3>2
  <2>4. [text EXCEPT ![i] = c] \in Seq(C)
    <3> HIDE DEF C
    <3> QED BY <1>1, <2>3, ExceptSeq
  <2> QED BY <2>2, <2>4, LoseInv
<1>5. CASE StripAll
  <2>1. Lose("strip", Strip(text))  BY <1>5 DEF StripAll
  <2>2. Strip(text) \in Seq(C)
    <3> HIDE DEF C
    <3> QED BY <1>1, StripType
  <2> QED BY <2>1, <2>2, LoseInv
<1> QED BY <1>2, <1>3, <1>4, <1>5

LEMMA ExtractInv ==
  ASSUME IInv, NEW k \in Key, Extract(k)
  PROVE  IInv'
<1> DEFINE clean == Strip(text)
           h == ContentHash(clean)
           read == [r \in 0..(GapCount(clean) - 1) |-> ReadShard(text, r)]
           sh(ord) == [s \in Shards |-> read[ord[s]]]
           erased(ord) == TOTAL_SHARDS - Cardinality(Present(sh(ord)))
           payload(ord) == Reconstruct(sh(ord))
           m(ord) == MarkOf(k, h, [b \in 0..(POINTER_LEN - 1) |->
                                     payload(ord)[b]])
           verified(ord) == \A s \in POINTER_LEN..(DATA_SHARDS - 1) :
                              payload(ord)[s] = Byte(m(ord), s)
<1>1. PICK ord \in Draws(k, h, clean) :
        result' = IF TOTAL_SHARDS - erased(ord) < DATA_SHARDS
                    THEN Failed("WatermarkUnrecoverable", k)
                    ELSE Recovered(m(ord), verified(ord), erased(ord))
  BY DEF Extract, TooFew
<1>2. UNCHANGED <<text, sent, losses, damage>>  BY DEF Extract
<1>3. result'.status \in {"ok", "WatermarkUnrecoverable"}
  BY <1>1 DEF Failed, Recovered
<1>4. TypeOK' /\ Marks' = Marks
  BY <1>2, <1>3, SameMarks DEF IInv, TypeOK
<1>5. ASSUME result'.status = "ok", result'.tag_verified
      PROVE  MarkOf(result'.key, result'.hash, result'.pointer) \in Marks
  <2>1. result' = Recovered(m(ord), verified(ord), erased(ord))
    BY <1>1, <1>5 DEF Failed
  <2>2. /\ verified(ord)
        /\ result'.key = m(ord).key /\ result'.hash = m(ord).hash
        /\ result'.pointer = m(ord).pointer
    BY <2>1, <1>5 DEF Recovered
  <2>3. MarkOf(result'.key, result'.hash, result'.pointer) = m(ord)
    BY <2>2 DEF MarkOf
  <2>4. payload(ord)[POINTER_LEN] = <<"tag", POINTER_LEN, m(ord)>>
    <3>1. POINTER_LEN \in POINTER_LEN..(DATA_SHARDS - 1)  BY Lengths
    <3>2. payload(ord)[POINTER_LEN] = Byte(m(ord), POINTER_LEN)
      BY <2>2, <3>1
    <3>3. Byte(m(ord), POINTER_LEN) = <<"tag", POINTER_LEN, m(ord)>>
      BY TagByte
    <3> QED BY <3>2, <3>3
  <2>5. ASSUME NEW s \in Shards
        PROVE  \E r : sh(ord)[s] = ReadShard(text, r)
    <3>1. ord \in Orders(GapCount(clean))  BY DEF Draws
    <3>2. ord[s] \in 0..(GapCount(clean) - 1)  BY <3>1 DEF Orders
    <3>3. sh(ord)[s] = ReadShard(text, ord[s])  BY <3>2
    <3> QED BY <3>3
  <2> HIDE DEF sh, m
  <2>6. m(ord) \in Marks  BY <2>4, <2>5, TagOrigin DEF IInv
  <2> QED BY <2>3, <2>6
<1>6. VerifiedWasEmbedded'  BY <1>4, <1>5 DEF VerifiedWasEmbedded
<1> QED BY <1>4, <1>6 DEF IInv

LEMMA StepInv == IInv /\ [Next]_vars => IInv'
<1> SUFFICES ASSUME IInv, [Next]_vars PROVE IInv'  OBVIOUS
<1>1. ASSUME NEW k \in Key, EmbedTooShort(k) \/ ExtractTooShort(k)
      PROVE  IInv'
  <2>1. /\ UNCHANGED <<text, sent, losses, damage>>
        /\ result' = Failed("ContentTooShort", k)
    BY <1>1 DEF EmbedTooShort, ExtractTooShort
  <2>2. TypeOK'  BY <2>1, SameMarks DEF IInv, TypeOK, Failed
  <2>3. VerifiedWasEmbedded'  BY <2>1 DEF VerifiedWasEmbedded, Failed
  <2> QED BY <2>2, <2>3 DEF IInv
<1>2. CASE UNCHANGED vars
  <2>1. UNCHANGED <<text, sent, losses, damage, result>>  BY <1>2 DEF vars
  <2>2. TypeOK' /\ Marks' = Marks  BY <2>1, SameMarks DEF IInv, TypeOK
  <2>3. VerifiedWasEmbedded'  BY <2>1, <2>2 DEF IInv, VerifiedWasEmbedded
  <2> QED BY <2>2, <2>3 DEF IInv
<1> QED BY <1>1, <1>2, EmbedInv, ExtractInv, DamageInv DEF Next

(* A pointer that verifies was embedded, under this key and for this       *)
(* content: what Recovered::tag_verified tells the caller of extract.      *)
THEOREM OnlyEmbeddedVerifies == Spec => []VerifiedWasEmbedded
<1>1. IInv => VerifiedWasEmbedded  BY DEF IInv
<1> QED BY InitInv, StepInv, <1>1, PTL DEF Spec

(* The text consists, at any time, of the characters of hosts, of symbols  *)
(* of marks that were made and of noise.                                   *)
THEOREM TypeCorrect == Spec => []TypeOK
<1>1. IInv => TypeOK  BY DEF IInv
<1> QED BY InitInv, StepInv, <1>1, PTL DEF Spec

-----------------------------------------------------------------------------
(* What extract computes from a text that lost zero-width characters only. *)

(* The content hash does not see zero-width characters. *)
LEMMA HashShort ==
  ASSUME NEW s, NEW t, ShortOf(s, t)
  PROVE  ContentHash(t) = ContentHash(s)
<1> DEFINE kept(x) == {i \in 1..Len(x) : IsAlnum(x[i])}
           sep(x, a, b) == \E i \in (a + 1)..(b - 1) : ~IsZeroWidth(x[i])
           c == Cardinality(kept(s))
           at(x, k) == Nth(kept(x), k)
<1>1. PICK g : /\ Embeds(g, s, t)
               /\ \A p \in Missing(g, s, t) : IsZeroWidth(t[p])
  BY DEF ShortOf
<1>2. /\ Len(s) \in Nat /\ Len(t) \in Nat
      /\ \A i \in 1..Len(s) : g[i] \in 1..Len(t) /\ s[i] = t[g[i]]
      /\ \A i, j \in 1..Len(s) : g[i] < g[j] <=> i < j
  <2>1. \A i \in 1..Len(s) : s[i] = t[g[i]]  BY <1>1 DEF Embeds
  <2>2. Len(s) \in Nat /\ Len(t) \in Nat  BY <1>1 DEF Embeds
  <2>3. /\ \A i \in 1..Len(s) : g[i] \in 1..Len(t)
        /\ \A i, j \in 1..Len(s) : g[i] < g[j] <=> i < j
    BY <1>1, EmbedsFacts
  <2> QED BY <2>1, <2>2, <2>3
<1>3. \A p \in 1..Len(t) : ~IsZeroWidth(t[p]) => \E i \in 1..Len(s) : g[i] = p
  BY <1>1 DEF Missing
<1>4. \A x : IsAlnum(x) => ~IsZeroWidth(x)  BY DEF IsAlnum, IsZeroWidth
<1>5. kept(t) = {g[i] : i \in kept(s)}  BY <1>2, <1>3, <1>4
<1>6. kept(s) \in SUBSET (1..Len(s))  OBVIOUS
<1>7. /\ Cardinality(kept(t)) = c
      /\ \A k \in 1..c : at(t, k) = g[at(s, k)]
  <2> DEFINE P == kept(s)
             Q == kept(t)
  <2>1. P \in SUBSET (1..Len(s)) /\ Q = {g[i] : i \in P}
    BY <1>5, <1>6
  <2> HIDE DEF P, Q
  <2>2. /\ Cardinality(Q) = Cardinality(P)
        /\ \A k \in 1..Cardinality(P) : Nth(Q, k) = g[Nth(P, k)]
    BY <1>1, <2>1, EmbeddedAt
  <2> QED BY <2>2 DEF P, Q
<1>8. c \in Nat /\ \A k \in 1..c : at(s, k) \in 1..Len(s)
  <2> DEFINE P == kept(s)
             n == Len(s)
  <2>1. n \in Nat /\ P \in SUBSET (1..n)  BY <1>2, <1>6
  <2> HIDE DEF P, n
  <2>2. /\ Cardinality(P) \in Nat
        /\ \A k \in 1..Cardinality(P) : Nth(P, k) \in P
    BY <2>1, NthLists
  <2> QED BY <2>1, <2>2 DEF P, n
<1>9. ASSUME NEW a \in 1..Len(s), NEW b \in 1..Len(s)
      PROVE  sep(t, g[a], g[b]) <=> sep(s, a, b)
  <2>1. ASSUME NEW i \in (a + 1)..(b - 1), ~IsZeroWidth(s[i])
        PROVE  sep(t, g[a], g[b])
    <3>1. i \in 1..Len(s) /\ a < i /\ i < b  BY <1>2
    <3>2. g[a] < g[i] /\ g[i] < g[b]  BY <1>2, <3>1
    <3>3. g[a] \in 1..Len(t) /\ g[i] \in 1..Len(t) /\ g[b] \in 1..Len(t)
      BY <1>2, <3>1
    <3>4. g[i] \in (g[a] + 1)..(g[b] - 1)  BY <1>2, <3>2, <3>3
    <3> QED BY <1>2, <2>1, <3>1, <3>4
  <2>2. ASSUME NEW p \in (g[a] + 1)..(g[b] - 1), ~IsZeroWidth(t[p])
        PROVE  sep(s, a, b)
    <3>1. g[a] \in 1..Len(t) /\ g[b] \in 1..Len(t)  BY <1>2
    <3>2. p \in 1..Len(t) /\ g[a] < p /\ p < g[b]  BY <1>2, <3>1
    <3>3. PICK i \in 1..Len(s) : g[i] = p  BY <1>3, <2>2, <3>2
    <3>4. a < i /\ i < b  BY <1>2, <3>2, <3>3
    <3>5. i \in (a + 1)..(b - 1)  BY <1>2, <3>4
    <3> QED BY <1>2, <2>2, <3>3, <3>5
  <2> QED BY <2>1, <2>2
<1> DEFINE entry(x, k) == <<x[at(x, k)].val,
                           k > 1 /\ sep(x, at(x, k - 1), at(x, k))>>
<1>10. ASSUME NEW k \in 1..c PROVE entry(t, k) = entry(s, k)
  <2>1. t[at(t, k)] = s[at(s, k)]  BY <1>2, <1>7, <1>8
  <2>2. ASSUME k > 1
        PROVE  sep(t, at(t, k - 1), at(t, k)) <=> sep(s, at(s, k - 1), at(s, k))
    <3>1. k - 1 \in 1..c  BY <1>8, <2>2
    <3> HIDE DEF sep, at, c
    <3> QED BY <1>7, <1>8, <1>9, <3>1
  <2>3. (k > 1 /\ sep(t, at(t, k - 1), at(t, k)))
          = (k > 1 /\ sep(s, at(s, k - 1), at(s, k)))
    <3> HIDE DEF sep, at, c
    <3> QED BY <2>2
  <2> HIDE DEF sep, at, c
  <2> QED BY <2>1, <2>3
<1>11. /\ ContentHash(t) = [k \in 1..Cardinality(kept(t)) |-> entry(t, k)]
       /\ ContentHash(s) = [k \in 1..c |-> entry(s, k)]
  BY DEF ContentHash
<1> HIDE DEF entry, kept, c
<1> QED BY <1>7, <1>10, <1>11

(* run_to_byte undoes byte_to_run. *)
LEMMA RunOfByte ==
  ASSUME NEW b
  PROVE  RunToByte(RunOf(b)) = b
<1>1. 1 \in 1..SYMBOLS_PER_SHARD  BY ShardArithmetic
<1>2. RunOf(b)[1].byte = b  BY <1>1 DEF RunOf, SymbolOf
<1> QED BY <1>2 DEF RunToByte

(* The runs of a mark, shard by shard. *)
RunsOf(m) == [s \in Shards |-> RunOf(Byte(m, s))]
SymbolsOf(m) ==
  {SymbolOf(Byte(m, s), k) : s \in Shards, k \in 1..SYMBOLS_PER_SHARD}

LEMMA MarkRuns ==
  ASSUME NEW m
  PROVE  SymbolRuns(RunsOf(m), SymbolsOf(m))
<1> DEFINE Z == SYMBOLS_PER_SHARD
<1>1. Z \in Nat  BY ShardArithmetic
<1> SUFFICES ASSUME NEW s \in Shards
             PROVE  LET r == RunsOf(m)[s]
                    IN  /\ r \in Seq(SymbolsOf(m)) /\ Len(r) = Z
                        /\ \A k \in 1..Z : IsSymbol(r[k])
  BY DEF SymbolRuns, RunsOf
<1> DEFINE r == [k \in 1..Z |-> SymbolOf(Byte(m, s), k)]
<1>2. RunsOf(m)[s] = r  BY DEF RunsOf, RunOf
<1>3. \A k \in 1..Z : SymbolOf(Byte(m, s), k) \in SymbolsOf(m)
  BY DEF SymbolsOf
<1>4. \A k \in 1..Z : IsSymbol(SymbolOf(Byte(m, s), k))
  BY DEF IsSymbol, SymbolOf
<1>5. r \in Seq(SymbolsOf(m)) /\ Len(r) = Z
  BY <1>1, <1>3
<1> QED BY <1>2, <1>4, <1>5

(* A byte is never taken for an erasure. *)
LEMMA BytePresent ==
  ASSUME NEW m, m.pointer \in PointerType, NEW s \in Shards
  PROVE  Byte(m, s) # Erased
<1>1. ASSUME NEW b \in PointerBytes PROVE b # Erased
  <2>1. PICK v : b = <<"pointer", v>>  BY DEF PointerBytes
  <2> QED BY <2>1 DEF Erased
<1>2. <<"tag", s, m>> # Erased /\ <<"parity", s, m>> # Erased  BY DEF Erased
<1> QED BY <1>1, <1>2, ByteKinds

(* rs_reconstruct has the payload of a mark from the shards of the mark    *)
(* that are left, when no more than the parity is lost.                    *)
LEMMA Reconstructed ==
  ASSUME NEW m, m.pointer \in PointerType,
         NEW sh, \A s \in Shards : sh[s] = Byte(m, s) \/ sh[s] = Erased,
         Cardinality(Present(sh)) >= DATA_SHARDS,
         NEW s \in 0..(DATA_SHARDS - 1)
  PROVE  Reconstruct(sh)[s] = Byte(m, s)
<1> DEFINE D == DATA_SHARDS
           P == Present(sh)
           low == (0..(D - 1)) \ {s}
<1>1. /\ D \in Nat /\ D > 0 /\ TOTAL_SHARDS \in Nat /\ s \in Shards /\ s < D
      /\ 0 \in Int /\ D - 1 \in Int
  BY Lengths DEF Shards
<1>2. /\ P \subseteq Shards
      /\ \A u \in Shards : u \in P <=> sh[u] # Erased
      /\ \A u \in P : sh[u] = Byte(m, u)
  BY DEF Present
<1>3. CASE sh[s] # Erased
  <2>1. Reconstruct(sh)[s] = sh[s]  BY <1>3 DEF Reconstruct
  <2> QED BY <1>1, <1>3, <2>1
<1>4. CASE sh[s] = Erased
  <2>1. IsFiniteSet(low) /\ Cardinality(low) < D
    <3>1. \A a, b \in Int : IsFiniteSet(a..b)
            /\ Cardinality(a..b) = (IF a > b THEN 0 ELSE b - a + 1)
      BY FS_Interval
    <3> DEFINE I == 0..(D - 1)
    <3>2. IsFiniteSet(I) /\ Cardinality(I) = D
      <4>1. 0 \in Int /\ D - 1 \in Int /\ ~(0 > D - 1) /\ (D - 1) - 0 + 1 = D
        BY <1>1
      <4> HIDE DEF D
      <4> QED BY <3>1, <4>1
    <3> HIDE DEF I
    <3>3. s \in I  BY DEF I
    <3>4. IsFiniteSet(I \ {s}) /\ Cardinality(I \ {s}) = D - 1
      BY <3>2, <3>3, FS_RemoveElement
    <3> QED BY <1>1, <3>4 DEF I
  <2>2. s \notin P  BY <1>1, <1>2, <1>4
  <2>3. \A X : X \subseteq low => Cardinality(X) < D
    <3> HIDE DEF low, D
    <3> SUFFICES ASSUME NEW X, X \subseteq low PROVE Cardinality(X) < D
      OBVIOUS
    <3>1. IsFiniteSet(X) /\ Cardinality(X) <= Cardinality(low)
      BY <2>1, FS_Subset
    <3>2. Cardinality(X) \in Nat /\ Cardinality(low) \in Nat
      BY <2>1, <3>1, FS_CardinalityType
    <3> QED BY <1>1, <2>1, <3>1, <3>2
  <2> DEFINE U == {u \in P : u >= D}
  <2>4. U # {}
    <3> SUFFICES ASSUME U = {} PROVE FALSE  OBVIOUS
    <3>1. \A u \in P : u \in Nat  BY <1>2 DEF Shards
    <3>2. P \subseteq low  BY <1>1, <2>2, <3>1
    <3>3. Cardinality(P) < D  BY <2>3, <3>2
    <3>4. Cardinality(P) >= D  OBVIOUS
    <3>5. IsFiniteSet(P)  BY <2>1, <3>2, FS_Subset
    <3>6. Cardinality(P) \in Nat  BY <3>5, FS_CardinalityType
    <3> QED BY <1>1, <3>3, <3>4, <3>6
  <2>5. PICK u \in U : \A v \in U : u <= v
    <3>1. U \in SUBSET Nat  BY <1>2 DEF Shards
    <3> HIDE DEF U
    <3> QED BY <2>4, <3>1, LeastNumber
  <2>6. u \in P /\ u >= D /\ u \in Shards /\ u \in Nat
    BY <1>2 DEF Shards
  <2>7. {v \in P : v < u} \subseteq low
    <3> SUFFICES ASSUME NEW v \in P, v < u PROVE v \in low  OBVIOUS
    <3>1. v \in Nat  BY <1>2 DEF Shards
    <3>2. ~(v >= D)  BY <2>5, <2>6, <3>1
    <3> QED BY <1>1, <2>2, <3>1, <3>2
  <2>8. u \in Basis(sh)  BY <2>3, <2>6, <2>7 DEF Basis
  <2>9. \A x : Byte(x, u) = <<"parity", u, x>>
    <3>1. ~(u < POINTER_LEN) /\ ~(u < DATA_SHARDS)  BY <2>6, Lengths
    <3> QED BY <3>1 DEF Byte
  <2>10. sh[u] = <<"parity", u, m>>  BY <1>2, <2>6, <2>9
  <2>11. \A v \in Basis(sh) : sh[v] = Byte(m, v)  BY <1>2 DEF Basis
  <2>12. sh[u][1] = "parity" /\ sh[u][3] = m  BY <2>10
  <2>13. m \in Codewords(sh)  BY <2>8, <2>11, <2>12 DEF Codewords
  <2>14. ASSUME NEW x \in Codewords(sh) PROVE x = m
    <3>1. sh[u] = Byte(x, u)  BY <2>8 DEF Codewords
    <3>2. <<"parity", u, x>> = <<"parity", u, m>>  BY <2>9, <2>10, <3>1
    <3> QED BY <3>2
  <2>15. Codewords(sh) # {} /\ (CHOOSE x \in Codewords(sh) : TRUE) = m
    BY <2>13, <2>14
  <2> QED BY <1>4, <2>15 DEF Reconstruct
<1> QED BY <1>3, <1>4

-----------------------------------------------------------------------------
(* What is known of the texts that were sent, and of the one on its way.   *)

(* e.output is e.host with the runs of its mark woven in.                  *)
Embedding(e) ==
  /\ e.mark = MarkOf(e.mark.key, ContentHash(e.host), e.mark.pointer)
  /\ GapCount(e.host) >= TOTAL_SHARDS
  /\ \E ins \in SortedInsertions(e.host, e.order, RunsOf(e.mark)) :
       e.output = Woven(e.host, ins)

(* Two embeddings for which fisher_yates is called with the same           *)
(* arguments.                                                              *)
SameDraw(d, e) ==
  /\ d.mark.key = e.mark.key /\ d.mark.hash = e.mark.hash
  /\ GapCount(d.host) = GapCount(e.host)

(* Each embedding wove the runs of its mark into its host, in the order    *)
(* that was drawn for an earlier one if there was one to go by.            *)
SentInv ==
  \A i \in 1..Len(sent) :
    /\ Embedding(sent[i])
    /\ \A j \in 1..(i - 1) :
         SameDraw(sent[j], sent[i]) => sent[j].order = sent[i].order

(* Damage that only takes characters away leaves a text inside the output. *)
TextInv ==
  sent # << >> =>
    /\ damage = {} => text = Last(sent).output
    /\ damage \subseteq {"drop", "truncate"} =>
         \E g : Embeds(g, text, Last(sent).output)

History == SentInv /\ TextInv

LEMMA HistoryEmbed ==
  ASSUME TypeOK, History, NEW k \in Key, NEW p \in Pointer, Embed(k, p)
  PROVE  History'
<1> DEFINE m == MarkOf(k, ContentHash(text), Fit(p))
<1>1. GapCount(text) >= TOTAL_SHARDS /\ damage' = {}  BY DEF Embed
<1>2. PICK ord \in Draws(k, m.hash, text) :
        \E ins \in SortedInsertions(text, ord, RunsOf(m)) :
          /\ text' = Woven(text, ins)
          /\ sent' = Append(sent, [mark |-> m, host |-> text, order |-> ord,
                                   output |-> Woven(text, ins)])
  BY DEF Embed, RunsOf
<1>3. PICK ins \in SortedInsertions(text, ord, RunsOf(m)) :
        /\ text' = Woven(text, ins)
        /\ sent' = Append(sent, [mark |-> m, host |-> text, order |-> ord,
                                 output |-> Woven(text, ins)])
  BY <1>2
<1> DEFINE e == [mark |-> m, host |-> text, order |-> ord,
                 output |-> Woven(text, ins)]
           n == Len(sent)
<1>4. /\ e.mark = m /\ e.host = text /\ e.order = ord
      /\ e.output = Woven(text, ins)
      /\ m.key = k /\ m.hash = ContentHash(text) /\ m.pointer = Fit(p)
  BY DEF MarkOf
<1>5. /\ n \in Nat /\ Len(sent') = n + 1 /\ sent'[n + 1] = e
      /\ \A i \in 1..n : sent'[i] = sent[i]
  BY <1>3 DEF TypeOK
<1>6. \A i \in 1..n : SameDraw(sent[i], e) => sent[i].order = e.order
  <2> SUFFICES ASSUME NEW i \in 1..n, SameDraw(sent[i], e)
               PROVE  sent[i].order = ord
    BY <1>4
  <2> HIDE DEF e, m
  <2>1. /\ sent[i].mark.key = k /\ sent[i].mark.hash = m.hash
        /\ GapCount(sent[i].host) = GapCount(text)
    BY <1>4 DEF SameDraw
  <2> QED BY <2>1 DEF Draws
<1>7. Embedding(e)
  <2>1. m = MarkOf(m.key, ContentHash(text), m.pointer)
    BY <1>4
  <2>2. \E x \in SortedInsertions(e.host, e.order, RunsOf(e.mark)) :
          e.output = Woven(e.host, x)
    <3> HIDE DEF e, m
    <3> QED BY <1>4
  <2> HIDE DEF e, m
  <2> QED BY <1>1, <1>4, <2>1, <2>2 DEF Embedding
<1> HIDE DEF e, m
<1>8. SentInv'
  <2>1. ASSUME NEW i \in 1..(n + 1)
        PROVE  /\ Embedding(sent'[i])
               /\ \A j \in 1..(i - 1) :
                    SameDraw(sent'[j], sent'[i])
                      => sent'[j].order = sent'[i].order
    <3>1. CASE i = n + 1
      <4>1. sent'[i] = e /\ \A j \in 1..(i - 1) : j \in 1..n
        BY <1>5, <3>1
      <4> HIDE DEF n
      <4> QED BY <1>5, <1>6, <1>7, <4>1
    <3>2. CASE i # n + 1
      <4>1. i \in 1..n /\ \A j \in 1..(i - 1) : j \in 1..n
        BY <1>5, <3>2
      <4>2. sent'[i] = sent[i] /\ \A j \in 1..(i - 1) : sent'[j] = sent[j]
        BY <1>5, <4>1
      <4>3. /\ Embedding(sent[i])
            /\ \A j \in 1..(i - 1) :
                 SameDraw(sent[j], sent[i]) => sent[j].order = sent[i].order
        BY <4>1 DEF History, SentInv
      <4> HIDE DEF n
      <4> QED BY <4>2, <4>3
    <3> QED BY <3>1, <3>2
  <2>2. SentInv' = \A i \in 1..Len(sent') :
          /\ Embedding(sent'[i])
          /\ \A j \in 1..(i - 1) :
               SameDraw(sent'[j], sent'[i]) => sent'[j].order = sent'[i].order
    BY DEF SentInv, Embedding, SameDraw, GapCount
  <2> QED BY <1>5, <2>1, <2>2
<1>9. Last(sent') = e  BY <1>5 DEF Last
<1>10. \E g : Embeds(g, text', Last(sent').output)
  <2>1. Last(sent').output = text'  BY <1>3, <1>4, <1>9
  <2>2. Len(text') \in Nat
    <3>1. text \in Seq(CharsOf(Marks))  BY DEF TypeOK
    <3> QED BY <1>3, <3>1, WovenParts
  <2> QED BY <2>1, <2>2, SelfEmbeds
<1>11. TextInv'
  <2>1. Last(sent').output = text'  BY <1>3, <1>4, <1>9
  <2> QED BY <1>10, <2>1 DEF TextInv
<1> QED BY <1>8, <1>11 DEF History

LEMMA HistoryLose ==
  ASSUME TypeOK, History, Drop \/ Truncate \/ Remap \/ StripAll
  PROVE  History'
<1> DEFINE C == CharsOf(Marks)
           out == Last(sent).output
<1>1. text \in Seq(C)  BY DEF TypeOK
<1>2. PICK kind \in {"drop", "truncate", "remap", "strip"} : \E t :
        /\ Lose(kind, t)
        /\ kind = "drop" => \E i \in 1..Len(text) : t = RemoveAt(text, i)
        /\ kind = "truncate" =>
             \E n \in 0..(Len(text) - 1) : t = SubSeq(text, 1, n)
  <2>1. CASE Drop  BY <2>1 DEF Drop
  <2>2. CASE Truncate  BY <2>2 DEF Truncate
  <2>3. CASE Remap  BY <2>3 DEF Remap
  <2>4. CASE StripAll  BY <2>4 DEF StripAll
  <2> QED BY <2>1, <2>2, <2>3, <2>4
<1>3. PICK t :
        /\ Lose(kind, t)
        /\ kind = "drop" => \E i \in 1..Len(text) : t = RemoveAt(text, i)
        /\ kind = "truncate" =>
             \E n \in 0..(Len(text) - 1) : t = SubSeq(text, 1, n)
  BY <1>2
<1>4. /\ sent # << >> /\ text' = t /\ UNCHANGED sent
      /\ damage' = damage \cup {kind}
  BY <1>3 DEF Lose
<1>5. SentInv'  BY <1>4 DEF History, SentInv, GapCount
<1>6. ASSUME damage' \subseteq {"drop", "truncate"}
      PROVE  \E g : Embeds(g, t, out)
  <2>1. damage \subseteq {"drop", "truncate"} /\ kind \in {"drop", "truncate"}
    BY <1>4, <1>6
  <2>2. PICK g : Embeds(g, text, out)
    BY <1>4, <2>1 DEF History, TextInv
  <2>3. \E f : Embeds(f, t, text)
    <3>1. CASE kind = "drop"
      <4>1. PICK i \in 1..Len(text) : t = RemoveAt(text, i)  BY <1>3, <3>1
      <4> HIDE DEF C
      <4> QED BY <1>1, <4>1, ShortEmbeds
    <3>2. CASE kind = "truncate"
      <4>1. PICK n \in 0..(Len(text) - 1) : t = SubSeq(text, 1, n)
        BY <1>3, <3>2
      <4> HIDE DEF C
      <4>2. Len(text) \in Nat  BY <1>1
      <4>3. n \in 0..Len(text)  BY <4>1, <4>2
      <4> QED BY <1>1, <4>1, <4>3, PrefixEmbeds
    <3> QED BY <2>1, <3>1, <3>2
  <2>4. PICK f : Embeds(f, t, text)  BY <2>3
  <2> HIDE DEF out
  <2> QED BY <2>2, <2>4, EmbedsTransitive
<1>7. damage' # {}  BY <1>4
<1>8. TextInv'  BY <1>4, <1>6, <1>7 DEF TextInv
<1> QED BY <1>5, <1>8 DEF History

(* One mark in a text without zero-width characters, of which only such    *)
(* were lost.                                                              *)
LEMMA OneMark ==
  ASSUME TypeOK, History, Len(sent) = 1, NoZeroWidth(Last(sent).host),
         OnlySymbolsLost
  PROVE  /\ Last(sent) = sent[1] /\ 1 \in 1..Len(sent)
         /\ ShortOf(text, sent[1].output)
         /\ GapCount(text) >= TOTAL_SHARDS
         /\ GapCount(sent[1].host) >= TOTAL_SHARDS
<1> DEFINE e == sent[1]
           C == CharsOf(Marks)
<1>1. Last(sent) = e /\ 1 \in 1..Len(sent) /\ sent # << >>  BY DEF Last
<1>2. /\ text \in Seq(C) /\ e.host \in Seq(C) /\ e.output \in Seq(C)
      /\ e.order \in Orders(GapCount(e.host))
  BY <1>1 DEF TypeOK
<1>3. Embedding(e)  BY <1>1 DEF History, SentInv
<1>4. PICK ins \in SortedInsertions(e.host, e.order, RunsOf(e.mark)) :
        e.output = Woven(e.host, ins)
  BY <1>3 DEF Embedding
<1>5. PICK g : Embeds(g, text, e.output)
  BY <1>1 DEF History, TextInv, OnlySymbolsLost
<1>6. Strip(text) = e.host /\ NoZeroWidth(e.host)
  BY <1>1 DEF OnlySymbolsLost
<1>7. GapCount(e.host) >= TOTAL_SHARDS  BY <1>3 DEF Embedding
<1> HIDE DEF e, C
<1>8. Strip(e.output) = e.host
  <2>1. ShortOf(e.host, e.output)  BY <1>2, <1>4, MarkRuns, WovenMissing
  <2> QED BY <1>2, <1>6, <2>1, StripShort, StripSame
<1>9. ShortOf(text, e.output)
  BY <1>2, <1>5, <1>6, <1>8, SameStripIsShort
<1>10. GapCount(text) >= TOTAL_SHARDS
  <2>1. GapCount(e.host) <= GapCount(text)
    BY <1>2, <1>6, CountUnlessSplit DEF GapCount
  <2>2. GapCount(e.host) \in Nat /\ GapCount(text) \in Nat
    BY <1>2, EndsFinite DEF GapCount
  <2> QED BY <1>7, <2>1, <2>2, ShardArithmetic
<1> QED BY <1>1, <1>7, <1>9, <1>10 DEF e

(* A marked text marked again under the same key: no shard has a run of    *)
(* the length of a shard's.                                                *)
LEMMA TwoMarks ==
  ASSUME TypeOK, History, Len(sent) = 2, damage = {},
         sent[2].host = sent[1].output, NoZeroWidth(sent[1].host),
         sent[1].mark.key = sent[2].mark.key
  PROVE  /\ 1 \in 1..Len(sent)
         /\ Strip(text) = sent[1].host
         /\ GapCount(text) >= TOTAL_SHARDS
         /\ GapCount(sent[1].host) >= TOTAL_SHARDS
         /\ \A s \in Shards : ReadShard(text, sent[1].order[s]) = Erased
<1> DEFINE d == sent[1]
           e == sent[2]
           C == CharsOf(Marks)
<1>1. /\ Last(sent) = e /\ 1 \in 1..Len(sent) /\ 2 \in 1..Len(sent)
      /\ 1 \in 1..(2 - 1) /\ sent # << >>
  <2>1. Last(sent) = e  BY DEF Last
  <2>2. 1 \in 1..Len(sent) /\ 2 \in 1..Len(sent) /\ 1 \in 1..(2 - 1)
    OBVIOUS
  <2>3. sent # << >>
    <3>1. Len(<< >>) = 0 /\ Len(sent) # 0  OBVIOUS
    <3> QED BY <3>1
  <2> QED BY <2>1, <2>2, <2>3
<1>2. /\ text \in Seq(C) /\ d.host \in Seq(C) /\ e.host \in Seq(C)
      /\ d.order \in Orders(GapCount(d.host))
      /\ e.order \in Orders(GapCount(e.host))
  BY <1>1 DEF TypeOK
<1>3. /\ Embedding(d) /\ Embedding(e)
      /\ SameDraw(d, e) => d.order = e.order
  BY <1>1 DEF History, SentInv
<1>4. text = e.output  BY <1>1 DEF History, TextInv
<1>5. e.host = d.output /\ NoZeroWidth(d.host) /\ d.mark.key = e.mark.key
  OBVIOUS
<1> HIDE DEF d, e, C
<1>6. PICK ins \in SortedInsertions(d.host, d.order, RunsOf(d.mark)) :
        e.host = Woven(d.host, ins)
  BY <1>3, <1>5 DEF Embedding
<1>7. PICK more \in SortedInsertions(e.host, e.order, RunsOf(e.mark)) :
        text = Woven(e.host, more)
  BY <1>3, <1>4 DEF Embedding
<1>8. /\ d.mark.hash = ContentHash(d.host) /\ e.mark.hash = ContentHash(e.host)
      /\ GapCount(d.host) >= TOTAL_SHARDS
  <2>1. \A k, h, p : MarkOf(k, h, p).hash = h  BY DEF MarkOf
  <2> QED BY <1>3, <2>1 DEF Embedding
<1>9. ShortOf(d.host, e.host)  BY <1>2, <1>6, MarkRuns, WovenMissing
<1>10. ShortOf(e.host, text)  BY <1>2, <1>7, MarkRuns, WovenMissing
<1>11. Strip(e.host) = d.host /\ Strip(text) = d.host
  <2>1. Strip(d.host) = d.host  BY <1>2, <1>5, StripSame
  <2>2. Strip(e.host) = Strip(d.host)  BY <1>9, StripShort
  <2>3. Strip(text) = Strip(e.host)  BY <1>10, StripShort
  <2> QED BY <2>1, <2>2, <2>3
<1>12. GapCount(e.host) = GapCount(d.host)
  <2>1. ~SplitsWord(e.host)
    BY <1>2, <1>5, <1>6, MarkRuns, WovenClean
  <2> QED BY <1>2, <1>11, <2>1, CountUnlessSplit DEF GapCount
<1>13. e.order = d.order
  <2>1. d.mark.hash = e.mark.hash  BY <1>8, <1>9, HashShort
  <2> QED BY <1>3, <1>5, <1>12, <2>1 DEF SameDraw
<1>14. GapCount(text) >= TOTAL_SHARDS
  <2>1. GapCount(d.host) <= GapCount(text)
    BY <1>2, <1>11, CountUnlessSplit DEF GapCount
  <2>2. GapCount(d.host) \in Nat /\ GapCount(text) \in Nat
    BY <1>2, EndsFinite DEF GapCount
  <2> QED BY <1>8, <2>1, <2>2, ShardArithmetic
<1>15. ASSUME NEW s \in Shards
       PROVE  ReadShard(text, d.order[s]) = Erased
  <2> DEFINE ord == d.order
             n == GapCount(d.host)
             t == d.host
             w == e.host
             run == RunsOf(d.mark)
             again == RunsOf(e.mark)
  <2>1. /\ t \in Seq(C) /\ NoZeroWidth(t) /\ ord \in Orders(n)
        /\ ins \in SortedInsertions(t, ord, run) /\ w = Woven(t, ins)
        /\ w \in Seq(C)
        /\ more \in SortedInsertions(w, ord, again)
        /\ text = Woven(w, more)
    BY <1>2, <1>5, <1>6, <1>7, <1>13
  <2>2. /\ SymbolRuns(run, SymbolsOf(d.mark))
        /\ SymbolRuns(again, SymbolsOf(e.mark))
    BY MarkRuns
  <2> HIDE DEF ord, n, t, w, run, again
  <2>3. Len(At(text, Filed(text, ord[s], Len(text)))) # SYMBOLS_PER_SHARD
    BY <2>1, <2>2, RunsDoubled
  <2> QED BY <2>3 DEF ReadShard, ord
<1> QED BY <1>1, <1>8, <1>11, <1>14, <1>15 DEF d

-----------------------------------------------------------------------------
(* What extract returns, when what is left of the mark is enough.          *)

ReadInv == History /\ SurvivesPartialLoss /\ SecondMarkIsRefused

(* extract draws the order of the embedding whose key, content and number  *)
(* of gaps it has before it, and so finds the shards under its ranks.      *)
LEMMA SameOrder ==
  ASSUME TypeOK, History, NEW i \in 1..Len(sent),
         NEW t, Strip(t) = sent[i].host, NEW k, k = sent[i].mark.key,
         NEW ord \in Draws(k, ContentHash(Strip(t)), Strip(t))
  PROVE  /\ ord = sent[i].order
         /\ ord \in Orders(GapCount(Strip(t)))
         /\ ContentHash(Strip(t)) = sent[i].mark.hash
<1>1. Embedding(sent[i])  BY DEF History, SentInv
<1>2. sent[i].mark.hash = ContentHash(sent[i].host)
  <2>1. \A a, h, p : MarkOf(a, h, p).hash = h  BY DEF MarkOf
  <2> QED BY <1>1, <2>1 DEF Embedding
<1> QED BY <1>2 DEF Draws

(* extract returns the mark of which no more than the parity was lost.     *)
LEMMA ExtractsMark ==
  ASSUME TypeOK, History, Len(sent) = 1, NoZeroWidth(Last(sent).host),
         OnlySymbolsLost,
         Len(Last(sent).output) - Len(text) <= PARITY_SHARDS,
         NEW k, k = Last(sent).mark.key, Extract(k)
  PROVE  /\ result'.status = "ok" /\ result'.tag_verified
         /\ result'.pointer = Last(sent).mark.pointer
         /\ result'.shards_recovered <= Len(Last(sent).output) - Len(text)
<1> DEFINE e == sent[1]
           mark == e.mark
           w == e.output
           lost == Len(w) - Len(text)
           clean == Strip(text)
           h == ContentHash(clean)
           read == [r \in 0..(GapCount(clean) - 1) |-> ReadShard(text, r)]
           sh(ord) == [s \in Shards |-> read[ord[s]]]
           erased(ord) == TOTAL_SHARDS - Cardinality(Present(sh(ord)))
           payload(ord) == Reconstruct(sh(ord))
           m(ord) == MarkOf(k, h, [b \in 0..(POINTER_LEN - 1) |->
                                     payload(ord)[b]])
           verified(ord) == \A s \in POINTER_LEN..(DATA_SHARDS - 1) :
                              payload(ord)[s] = Byte(m(ord), s)
<1>1. PICK ord \in Draws(k, h, clean) :
        result' = IF TOTAL_SHARDS - erased(ord) < DATA_SHARDS
                    THEN Failed("WatermarkUnrecoverable", k)
                    ELSE Recovered(m(ord), verified(ord), erased(ord))
  BY DEF Extract, TooFew
<1>2. /\ Last(sent) = e /\ 1 \in 1..Len(sent) /\ ShortOf(text, w)
  BY OneMark
<1>3. clean = e.host /\ NoZeroWidth(e.host)  BY <1>2 DEF OnlySymbolsLost
<1>4. /\ ord = e.order /\ ord \in Orders(GapCount(clean)) /\ h = mark.hash
  BY <1>2, <1>3, SameOrder
<1>5. /\ mark.pointer \in PointerType /\ mark.key = k
      /\ e.host \in Seq(CharsOf(Marks))
  BY <1>2 DEF TypeOK, PointerType
<1>6. Embedding(e)  BY <1>2 DEF History, SentInv
<1>7. mark = MarkOf(k, h, mark.pointer)  BY <1>3, <1>5, <1>6 DEF Embedding
<1>8. PICK ins \in SortedInsertions(e.host, ord, RunsOf(mark)) :
        w = Woven(e.host, ins)
  BY <1>4, <1>6 DEF Embedding
<1>9. lost <= PARITY_SHARDS  BY <1>2
<1> DEFINE found == [s \in Shards |-> At(text, Filed(text, ord[s], Len(text)))]
           hit == {s \in Shards : found[s] # RunsOf(mark)[s]}
           S == sh(ord)
<1>10. /\ IsFiniteSet(hit) /\ Cardinality(hit) <= lost
       /\ \A s \in hit : Len(found[s]) # SYMBOLS_PER_SHARD
  <2> DEFINE t == e.host
             run == RunsOf(mark)
             n == GapCount(clean)
  <2>1. FoundIn(found, text, ord) /\ Differ(hit, found, run)
    BY DEF FoundIn, Differ
  <2>2. /\ t \in Seq(CharsOf(Marks)) /\ NoZeroWidth(t) /\ ord \in Orders(n)
        /\ SymbolRuns(run, SymbolsOf(mark))
        /\ ins \in SortedInsertions(t, ord, run)
        /\ w = Woven(t, ins) /\ ShortOf(text, w)
    BY <1>2, <1>3, <1>4, <1>5, <1>8, MarkRuns
  <2> HIDE DEF t, run, n, found, hit, w
  <2>3. /\ IsFiniteSet(hit) /\ Cardinality(hit) <= Len(w) - Len(text)
        /\ \A s \in hit : Len(found[s]) # SYMBOLS_PER_SHARD
    BY <2>1, <2>2, RunsRead
  <2> QED BY <2>3
<1>11. \A s \in Shards :
         S[s] = IF s \in hit THEN Erased ELSE Byte(mark, s)
  <2> SUFFICES ASSUME NEW s \in Shards
               PROVE  S[s] = IF s \in hit THEN Erased ELSE Byte(mark, s)
    OBVIOUS
  <2>1. S[s] = ReadShard(text, ord[s])  BY <1>4 DEF Orders
  <2>2. ReadShard(text, ord[s]) =
          IF Len(found[s]) = SYMBOLS_PER_SHARD THEN RunToByte(found[s])
                                              ELSE Erased
    BY DEF ReadShard
  <2>3. RunsOf(mark)[s] = RunOf(Byte(mark, s))  BY DEF RunsOf
  <2>4. Len(RunsOf(mark)[s]) = SYMBOLS_PER_SHARD
    BY MarkRuns DEF SymbolRuns
  <2>5. s \notin hit => found[s] = RunsOf(mark)[s]  OBVIOUS
  <2> HIDE DEF S, found, hit, mark
  <2> QED BY <1>10, <2>1, <2>2, <2>3, <2>4, <2>5, RunOfByte
<1>12. \A s \in Shards : Byte(mark, s) # Erased  BY <1>5, BytePresent
<1>13. Present(S) = Shards \ hit
  <2> HIDE DEF S, hit, mark
  <2> QED BY <1>11, <1>12 DEF Present
<1>14. erased(ord) = Cardinality(hit)
  <2>1. IsFiniteSet(Shards) /\ Cardinality(Shards) = TOTAL_SHARDS
    BY ShardCount
  <2>2. hit \subseteq Shards  OBVIOUS
  <2> HIDE DEF hit, sh
  <2>3. Cardinality(Shards \ hit) = TOTAL_SHARDS - Cardinality(Shards \cap hit)
    BY <2>1, FS_Difference
  <2>4. Shards \cap hit = hit /\ Cardinality(hit) \in Nat
    BY <1>10, <2>2, FS_CardinalityType
  <2> DEFINE T == TOTAL_SHARDS
             c == Cardinality(hit)
  <2>5. Cardinality(Present(sh(ord))) = T - c  BY <1>13, <2>3, <2>4
  <2>6. T \in Nat /\ c \in Nat  BY <2>4, ShardArithmetic
  <2> HIDE DEF T, c
  <2>7. T - (T - c) = c  BY <2>6
  <2> QED BY <2>5, <2>7 DEF T, c
<1>15. /\ erased(ord) <= lost /\ erased(ord) \in Nat
       /\ Cardinality(Present(S)) >= DATA_SHARDS
       /\ ~(TOTAL_SHARDS - erased(ord) < DATA_SHARDS)
  <2> DEFINE c == Cardinality(hit)
             q == Cardinality(Present(S))
             l == lost
  <2>1. c \in Nat /\ l \in Int
    <3>1. c \in Nat  BY <1>10, FS_CardinalityType
    <3>2. Len(w) \in Nat /\ Len(text) \in Nat
      BY <1>2 DEF ShortOf, Embeds
    <3> QED BY <3>1, <3>2
  <2>2. c <= l /\ l <= PARITY_SHARDS  BY <1>9, <1>10
  <2>3. TOTAL_SHARDS - q = c  BY <1>14
  <2>4. q \in Nat
    <3>1. IsFiniteSet(Shards)  BY ShardCount
    <3>2. IsFiniteSet(Shards \ hit)  BY <3>1, FS_Subset
    <3> HIDE DEF hit, S
    <3> QED BY <1>13, <3>2, FS_CardinalityType
  <2> HIDE DEF c, q, l
  <2>5. c <= l /\ q >= DATA_SHARDS /\ ~(TOTAL_SHARDS - c < DATA_SHARDS)
    BY <2>1, <2>2, <2>3, <2>4, Lengths
  <2> QED BY <1>14, <2>1, <2>5 DEF c, q, l
<1>16. \A s \in 0..(DATA_SHARDS - 1) : payload(ord)[s] = Byte(mark, s)
  <2>1. \A s \in Shards : S[s] = Byte(mark, s) \/ S[s] = Erased
    BY <1>11
  <2> HIDE DEF S, mark
  <2>2. \A s \in 0..(DATA_SHARDS - 1) : Reconstruct(S)[s] = Byte(mark, s)
    BY <1>5, <1>15, <2>1, Reconstructed
  <2> QED BY <2>2 DEF S
<1>17. m(ord) = mark
  <2> DEFINE got == [b \in 0..(POINTER_LEN - 1) |-> payload(ord)[b]]
  <2>1. \A b \in 0..(POINTER_LEN - 1) :
          b \in 0..(DATA_SHARDS - 1) /\ b < POINTER_LEN
    BY Lengths
  <2> HIDE DEF payload, mark
  <2>2. \A b \in 0..(POINTER_LEN - 1) : got[b] = mark.pointer[b]
    BY <1>16, <2>1 DEF Byte
  <2>3. got = mark.pointer  BY <1>5, <2>2 DEF PointerType
  <2> QED BY <1>7, <2>3
<1>18. verified(ord)
  <2>1. \A s \in POINTER_LEN..(DATA_SHARDS - 1) : s \in 0..(DATA_SHARDS - 1)
    BY Lengths
  <2> HIDE DEF m, payload, mark
  <2> QED BY <1>16, <1>17, <2>1
<1>19. result' = Recovered(mark, TRUE, erased(ord))
  <2> HIDE DEF m, erased, verified, mark
  <2>1. verified(ord) = TRUE \/ verified(ord) = FALSE
    BY DEF verified
  <2> QED BY <1>1, <1>15, <1>17, <1>18, <2>1
<1> HIDE DEF erased, mark, lost
<1>20. /\ result'.status = "ok" /\ result'.tag_verified
       /\ result'.pointer = mark.pointer
       /\ result'.shards_recovered = erased(ord)
  BY <1>19 DEF Recovered
<1> QED BY <1>2, <1>15, <1>20 DEF mark, lost

(* Of two marks under one key extract has no shard left to decode.         *)
LEMMA ExtractsNoMark ==
  ASSUME TypeOK, History, Len(sent) = 2, damage = {},
         sent[2].host = sent[1].output, NoZeroWidth(sent[1].host),
         sent[1].mark.key = sent[2].mark.key,
         NEW k, k = sent[1].mark.key, Extract(k)
  PROVE  result'.status = "WatermarkUnrecoverable"
<1> DEFINE clean == Strip(text)
           h == ContentHash(clean)
           read == [r \in 0..(GapCount(clean) - 1) |-> ReadShard(text, r)]
           sh(ord) == [s \in Shards |-> read[ord[s]]]
           erased(ord) == TOTAL_SHARDS - Cardinality(Present(sh(ord)))
<1>1. /\ 1 \in 1..Len(sent) /\ clean = sent[1].host
      /\ \A s \in Shards : ReadShard(text, sent[1].order[s]) = Erased
  BY TwoMarks
<1>2. PICK ord \in Draws(k, h, clean) :
        TOTAL_SHARDS - erased(ord) < DATA_SHARDS =>
          result' = Failed("WatermarkUnrecoverable", k)
  BY DEF Extract, TooFew
<1>3. ord = sent[1].order /\ ord \in Orders(GapCount(clean))
  BY <1>1, SameOrder
<1>4. \A s \in Shards : sh(ord)[s] = Erased
  <2>1. \A s \in Shards : sh(ord)[s] = ReadShard(text, ord[s])
    BY <1>3 DEF Orders
  <2> QED BY <1>1, <1>3, <2>1
<1> HIDE DEF sh
<1>5. Present(sh(ord)) = {}  BY <1>4 DEF Present
<1>6. Cardinality(Present(sh(ord))) = 0  BY <1>5, FS_EmptySet
<1>7. TOTAL_SHARDS - erased(ord) < DATA_SHARDS
  BY <1>6, Lengths, ShardArithmetic
<1> QED BY <1>2, <1>7 DEF Failed

(* Neither function refuses such a text as too short: it has the words of  *)
(* its host.                                                               *)
LEMMA TooShortRead ==
  ASSUME TypeOK, ReadInv, NEW k, EmbedTooShort(k) \/ ExtractTooShort(k)
  PROVE  SurvivesPartialLoss' /\ SecondMarkIsRefused'
<1>1. /\ UNCHANGED <<text, sent, losses, damage>>
      /\ GapCount(text) < TOTAL_SHARDS \/ GapCount(Strip(text)) < TOTAL_SHARDS
  BY DEF EmbedTooShort, ExtractTooShort
<1>2. \A a \in Nat : a >= TOTAL_SHARDS => ~(a < TOTAL_SHARDS)
  BY ShardArithmetic
<1>3. GapCount(text) \in Nat /\ GapCount(Strip(text)) \in Nat
  <2>1. text \in Seq(CharsOf(Marks)) /\ Strip(text) \in Seq(CharsOf(Marks))
    BY StripType DEF TypeOK
  <2> QED BY <2>1, EndsFinite DEF GapCount
<1>4. ~(Len(sent) = 1 /\ NoZeroWidth(Last(sent).host) /\ OnlySymbolsLost)
  <2> SUFFICES ASSUME Len(sent) = 1, NoZeroWidth(Last(sent).host),
                      OnlySymbolsLost
               PROVE  FALSE
    OBVIOUS
  <2>1. /\ GapCount(text) >= TOTAL_SHARDS
        /\ GapCount(Last(sent).host) >= TOTAL_SHARDS
    BY OneMark DEF ReadInv
  <2>2. Strip(text) = Last(sent).host  BY DEF OnlySymbolsLost
  <2> QED BY <1>1, <1>2, <1>3, <2>1, <2>2
<1>5. ~(/\ Len(sent) = 2 /\ damage = {} /\ sent[2].host = sent[1].output
        /\ NoZeroWidth(sent[1].host) /\ sent[1].mark.key = sent[2].mark.key)
  <2> SUFFICES ASSUME Len(sent) = 2, damage = {},
                      sent[2].host = sent[1].output,
                      NoZeroWidth(sent[1].host),
                      sent[1].mark.key = sent[2].mark.key
               PROVE  FALSE
    OBVIOUS
  <2>1. /\ Strip(text) = sent[1].host /\ GapCount(text) >= TOTAL_SHARDS
        /\ GapCount(sent[1].host) >= TOTAL_SHARDS
    BY TwoMarks DEF ReadInv
  <2> QED BY <1>1, <1>2, <1>3, <2>1
<1>6. SurvivesPartialLoss'
  BY <1>1, <1>4 DEF SurvivesPartialLoss, OnlySymbolsLost
<1>7. SecondMarkIsRefused'
  BY <1>1, <1>5 DEF SecondMarkIsRefused
<1> QED BY <1>6, <1>7

LEMMA ExtractRead ==
  ASSUME TypeOK, ReadInv, NEW k, Extract(k)
  PROVE  SurvivesPartialLoss' /\ SecondMarkIsRefused'
<1>1. UNCHANGED <<text, sent, losses, damage>> /\ result'.key = k
  BY DEF Extract, Failed, Recovered, MarkOf
<1>2. SurvivesPartialLoss'
  <2> SUFFICES ASSUME Len(sent) = 1, NoZeroWidth(Last(sent).host),
                      OnlySymbolsLost,
                      Len(Last(sent).output) - Len(text) <= PARITY_SHARDS,
                      k = Last(sent).mark.key
               PROVE  /\ result'.status = "ok" /\ result'.tag_verified
                      /\ result'.pointer = Last(sent).mark.pointer
                      /\ result'.shards_recovered
                           <= Len(Last(sent).output) - Len(text)
    BY <1>1 DEF SurvivesPartialLoss, OnlySymbolsLost
  <2> QED BY ExtractsMark DEF ReadInv
<1>3. SecondMarkIsRefused'
  <2> SUFFICES ASSUME Len(sent) = 2, damage = {},
                      sent[2].host = sent[1].output,
                      NoZeroWidth(sent[1].host),
                      sent[1].mark.key = sent[2].mark.key,
                      k = sent[1].mark.key
               PROVE  result'.status = "WatermarkUnrecoverable"
    BY <1>1 DEF SecondMarkIsRefused
  <2> QED BY ExtractsNoMark DEF ReadInv
<1> QED BY <1>2, <1>3

LEMMA ReadStep == TypeOK /\ ReadInv /\ [Next]_vars => ReadInv'
<1> SUFFICES ASSUME TypeOK, ReadInv, [Next]_vars PROVE ReadInv'  OBVIOUS
<1>1. ASSUME result' = NoResult
      PROVE  SurvivesPartialLoss' /\ SecondMarkIsRefused'
  BY <1>1 DEF NoResult, SurvivesPartialLoss, SecondMarkIsRefused
<1>2. ASSUME UNCHANGED <<text, sent, damage>> PROVE History'
  BY <1>2 DEF ReadInv, History, SentInv, TextInv, GapCount
<1>3. ASSUME NEW k \in Key, NEW p \in Pointer, Embed(k, p) PROVE ReadInv'
  <2>1. result' = NoResult  BY <1>3 DEF Embed
  <2> QED BY <1>1, <1>3, <2>1, HistoryEmbed DEF ReadInv
<1>4. CASE Drop \/ Truncate \/ Remap \/ StripAll
  <2>1. result' = NoResult
    BY <1>4 DEF Drop, Truncate, Remap, StripAll, Lose
  <2> QED BY <1>1, <1>4, <2>1, HistoryLose DEF ReadInv
<1>5. ASSUME NEW k \in Key, EmbedTooShort(k) \/ ExtractTooShort(k)
      PROVE  ReadInv'
  <2>1. UNCHANGED <<text, sent, damage>>
    BY <1>5 DEF EmbedTooShort, ExtractTooShort
  <2> QED BY <1>2, <1>5, <2>1, TooShortRead DEF ReadInv
<1>6. ASSUME NEW k \in Key, Extract(k) PROVE ReadInv'
  <2>1. UNCHANGED <<text, sent, damage>>  BY <1>6 DEF Extract
  <2> QED BY <1>2, <1>6, <2>1, ExtractRead DEF ReadInv
<1>7. CASE UNCHANGED vars
  <2>1. UNCHANGED <<text, sent, losses, damage, result>>  BY <1>7 DEF vars
  <2>2. SurvivesPartialLoss' /\ SecondMarkIsRefused'
    BY <2>1 DEF ReadInv, SurvivesPartialLoss, OnlySymbolsLost,
                SecondMarkIsRefused
  <2> QED BY <1>2, <2>1, <2>2 DEF ReadInv
<1> QED BY <1>3, <1>4, <1>5, <1>6, <1>7 DEF Next

LEMMA ReadInit == Init => ReadInv
<1> SUFFICES ASSUME Init PROVE ReadInv  OBVIOUS
<1>1. sent = << >> /\ Len(sent) = 0 /\ result.status = "none"
  BY DEF Init, NoResult
<1>2. History  BY <1>1 DEF History, SentInv, TextInv
<1>3. SurvivesPartialLoss /\ SecondMarkIsRefused
  BY <1>1 DEF SurvivesPartialLoss, SecondMarkIsRefused
<1> QED BY <1>2, <1>3 DEF ReadInv

(* "Extraction recovers from partial loss": of a clean text marked once,   *)
(* with at most PARITY_SHARDS of its symbols lost, wherever they were, and *)
(* nothing visible, extract under the same key returns the pointer,        *)
(* verified, and reports no more erasures than symbols lost.               *)
THEOREM PartialLossSurvived == Spec => []SurvivesPartialLoss
<1>1. ReadInv => SurvivesPartialLoss  BY DEF ReadInv
<1> QED BY TypeCorrect, ReadInit, ReadStep, <1>1, PTL DEF Spec

(* A clean text marked twice under one key is refused by extract: embed    *)
(* draws the same order again, so that under every shard there are the     *)
(* symbols of two runs, and none is taken.                                 *)
THEOREM SecondMarkRefused == Spec => []SecondMarkIsRefused
<1>1. ReadInv => SecondMarkIsRefused  BY DEF ReadInv
<1> QED BY TypeCorrect, ReadInit, ReadStep, <1>1, PTL DEF Spec
=============================================================================
