---------------------------- MODULE TransportProofs ----------------------------
(***************************************************************************)
(* What examples/transport_survivability.rs relies on, for every host,     *)
(* payload and number of transports, and for every number of shards.       *)
(*                                                                         *)
(* The argument: a text on its way is the one that was sent with letters   *)
(* and blanks replaced (Aged) and characters removed (PartOf), however     *)
(* many transports it went through.  What is read out of such a text       *)
(* follows from which of the carrier's code points are left and, for the   *)
(* watermark, from whether letters and gaps are (Kept).                    *)
(***************************************************************************)
EXTENDS Transport, CarrierProofs, TLAPS

-----------------------------------------------------------------------------
(* Parts of a text. *)

LEMMA AtEmbeds ==
  ASSUME NEW t, Len(t) \in Nat, NEW P \in SUBSET (1..Len(t))
  PROVE  /\ Len(At(t, P)) = Cardinality(P) /\ Cardinality(P) \in Nat
         /\ At(t, P) \in Seq(Range(At(t, P)))
         /\ \E g : /\ Embeds(g, At(t, P), t)
                   /\ Missing(g, At(t, P), t) = (1..Len(t)) \ P
                   /\ \A i \in 1..Len(At(t, P)) : g[i] \in P
<1> DEFINE n == Len(t)
           m == Cardinality(P)
           u == At(t, P)
           g == [k \in 1..m |-> Nth(P, k)]
<1>1. /\ m \in Nat
      /\ \A k \in 1..m : Nth(P, k) \in P
      /\ \A j, k \in 1..m : j < k => Nth(P, j) < Nth(P, k)
      /\ \A x \in P : \E k \in 1..m : Nth(P, k) = x
  BY NthLists
<1>2. u = [k \in 1..m |-> t[Nth(P, k)]]  BY DEF At
<1> HIDE DEF m, u
<1>3. Len(u) = m /\ \A k \in 1..m : u[k] = t[Nth(P, k)]  BY <1>1, <1>2
<1>4. u \in Seq(Range(u))
  <2>1. DOMAIN u = 1..m /\ \A k \in 1..m : u[k] \in Range(u)
    BY <1>2 DEF Range
  <2>2. u \in [1..m -> Range(u)]  BY <1>2, <2>1
  <2> QED BY <1>1, <2>2
<1>5. \A k \in 1..m : g[k] = Nth(P, k)  OBVIOUS
<1>6. g \in [1..m -> 1..n]  BY <1>1
<1> HIDE DEF g
<1>7. Embeds(g, u, t)
  BY <1>1, <1>3, <1>5, <1>6 DEF Embeds, Rising, n
<1>8. Missing(g, u, t) = (1..n) \ P
  BY <1>1, <1>3, <1>5 DEF Missing, n
<1>9. \A i \in 1..Len(u) : g[i] \in P  BY <1>1, <1>3, <1>5
<1> QED BY <1>1, <1>3, <1>4, <1>7, <1>8, <1>9 DEF m, u, n

LEMMA AtAll ==
  ASSUME NEW S, NEW t \in Seq(S)
  PROVE  At(t, 1..Len(t)) = t
<1> DEFINE n == Len(t)
           f == [k \in 1..n |-> k]
<1>1. n \in Nat /\ t = [k \in 1..n |-> t[k]]  OBVIOUS
<1> HIDE DEF n
<1>2. Enumerates(f, n, 1..n)  BY <1>1 DEF Enumerates, Rising
<1>3. (1..n) \in SUBSET Nat  BY <1>1
<1>4. Cardinality(1..n) = n /\ \A k \in 1..n : Nth(1..n, k) = f[k]
  BY <1>1, <1>2, <1>3, Enumeration
<1>5. \A k \in 1..n : Nth(1..n, k) = k  BY <1>4
<1> QED BY <1>1, <1>4, <1>5 DEF At, n

-----------------------------------------------------------------------------
(* What time does to a text: letters lose their compatibility form (p),    *)
(* line ends become blanks (e).                                            *)
Worn(c, p, e) ==
  IF p /\ c = Compat THEN Plain ELSE IF e /\ c = Newline THEN Blank ELSE c
Aged(t, p, e) == [k \in 1..Len(t) |-> Worn(t[k], p, e)]

LEMMA Letters ==
  /\ Compat # Plain /\ Compat # Newline /\ Compat # Blank
  /\ Newline # Plain /\ Newline # Blank
  /\ \A c \in {Compat, Plain, Newline, Blank} :
       /\ "digit" \notin DOMAIN c /\ "astral" \notin DOMAIN c /\ ~IsVs(c)
       /\ ~IsZeroWidth(c) /\ ~IsCarrierCp(c)
  BY DEF Compat, Plain, Newline, Blank, IsCarrierCp, IsVs, IsTag, IsZeroWidth

LEMMA WornFacts ==
  \A c : \A p, e \in BOOLEAN :
    /\ Worn(c, p, e).class = c.class
    /\ "digit" \in DOMAIN Worn(c, p, e) <=> "digit" \in DOMAIN c
    /\ IsCarrierCp(Worn(c, p, e)) <=> IsCarrierCp(c)
    /\ "digit" \in DOMAIN c \/ IsZeroWidth(c) => Worn(c, p, e) = c
    /\ "digit" \in DOMAIN Worn(c, p, e) \/ IsZeroWidth(Worn(c, p, e))
         => Worn(c, p, e) = c
<1> TAKE c
<1> TAKE p, e \in BOOLEAN
<1>1. CASE c \in {Compat, Newline}
  <2>1. Worn(c, p, e) \in {Compat, Plain, Newline, Blank}  BY <1>1 DEF Worn
  <2>2. Worn(c, p, e).class = c.class
    BY <1>1 DEF Worn, Compat, Plain, Newline, Blank
  <2> QED BY <1>1, <2>1, <2>2, Letters
<1>2. CASE c \notin {Compat, Newline}
  <2>1. Worn(c, p, e) = c  BY <1>2 DEF Worn
  <2> QED BY <2>1
<1> QED BY <1>1, <1>2

LEMMA WornTwice ==
  \A c : \A p, e, q, d \in BOOLEAN :
    /\ Worn(Worn(c, p, e), q, d) = Worn(c, p \/ q, e \/ d)
    /\ Worn(c, p \/ q, e \/ d) = c => Worn(c, p, e) = c
  BY Letters DEF Worn

LEMMA AgedFacts ==
  ASSUME NEW t, Len(t) \in Nat, NEW p \in BOOLEAN, NEW e \in BOOLEAN
  PROVE  /\ Len(Aged(t, p, e)) = Len(t)
         /\ Aged(t, p, e) \in Seq(Range(Aged(t, p, e)))
         /\ \A k \in 1..Len(t) : Aged(t, p, e)[k] = Worn(t[k], p, e)
<1> DEFINE n == Len(t)
           u == Aged(t, p, e)
<1>1. n \in Nat /\ u = [k \in 1..n |-> Worn(t[k], p, e)]  BY DEF Aged
<1> HIDE DEF n, u
<1>2. Len(u) = n /\ DOMAIN u = 1..n /\ \A k \in 1..n : u[k] \in Range(u)
  BY <1>1 DEF Range
<1>3. u \in [1..n -> Range(u)]  BY <1>1, <1>2
<1>4. u \in Seq(Range(u))  BY <1>1, <1>3
<1> QED BY <1>1, <1>2, <1>4 DEF n, u

LEMMA AgedTwice ==
  ASSUME NEW t, Len(t) \in Nat, NEW p \in BOOLEAN, NEW e \in BOOLEAN,
         NEW q \in BOOLEAN, NEW d \in BOOLEAN
  PROVE  Aged(Aged(t, p, e), q, d) = Aged(t, p \/ q, e \/ d)
<1> DEFINE u == Aged(t, p, e)
           n == Len(t)
<1>1. Len(u) = n /\ \A k \in 1..n : u[k] = Worn(t[k], p, e)  BY AgedFacts
<1> HIDE DEF u, n
<1>2. \A k \in 1..n : Worn(u[k], q, d) = Worn(t[k], p \/ q, e \/ d)
  BY <1>1, WornTwice
<1> QED BY <1>1, <1>2 DEF Aged, u, n

LEMMA AgedNot ==
  ASSUME NEW S, NEW t \in Seq(S)
  PROVE  Aged(t, FALSE, FALSE) = t
  BY DEF Aged, Worn

-----------------------------------------------------------------------------
(* What transports leave of a text: some of its characters, in their       *)
(* order.                                                                  *)

PartOf(s, t) == s \in Seq(Range(s)) /\ \E g : Embeds(g, s, t)

LEMMA PartSelf ==
  ASSUME NEW t, t \in Seq(Range(t))
  PROVE  PartOf(t, t)
<1>1. Len(t) \in Nat  OBVIOUS
<1>2. PICK g : Embeds(g, t, t)  BY <1>1, SelfEmbeds
<1> QED BY <1>2 DEF PartOf

LEMMA PartAt ==
  ASSUME NEW t, Len(t) \in Nat, NEW P \in SUBSET (1..Len(t))
  PROVE  PartOf(At(t, P), t)
<1>1. PICK g : Embeds(g, At(t, P), t)  BY AtEmbeds
<1>2. At(t, P) \in Seq(Range(At(t, P)))  BY AtEmbeds
<1> QED BY <1>1, <1>2 DEF PartOf

LEMMA PartTwice ==
  ASSUME NEW r, NEW s, NEW t, PartOf(r, s), PartOf(s, t)
  PROVE  PartOf(r, t)
<1>1. PICK f : Embeds(f, r, s)  BY DEF PartOf
<1>2. PICK g : Embeds(g, s, t)  BY DEF PartOf
<1>3. \E h : Embeds(h, r, t)  BY <1>1, <1>2, EmbedsTransitive
<1> QED BY <1>3 DEF PartOf

LEMMA PartAged ==
  ASSUME NEW s, NEW t, PartOf(s, t), NEW p \in BOOLEAN, NEW e \in BOOLEAN
  PROVE  PartOf(Aged(s, p, e), Aged(t, p, e))
<1> DEFINE u == Aged(s, p, e)
           v == Aged(t, p, e)
<1>1. PICK g : Embeds(g, s, t)  BY DEF PartOf
<1>2. /\ Len(s) \in Nat /\ Len(t) \in Nat
      /\ g \in [1..Len(s) -> 1..Len(t)] /\ Rising(g, Len(s))
      /\ \A i \in 1..Len(s) : s[i] = t[g[i]] /\ g[i] \in 1..Len(t)
  BY <1>1 DEF Embeds
<1>3. /\ Len(u) = Len(s) /\ Len(v) = Len(t) /\ u \in Seq(Range(u))
      /\ \A k \in 1..Len(s) : u[k] = Worn(s[k], p, e)
      /\ \A k \in 1..Len(t) : v[k] = Worn(t[k], p, e)
  BY <1>2, AgedFacts
<1> HIDE DEF u, v
<1>4. Embeds(g, u, v)  BY <1>2, <1>3 DEF Embeds
<1> QED BY <1>3, <1>4 DEF PartOf, u, v

(* t is s with carrier code points put in. *)
Carries(t, s) ==
  \E g : Embeds(g, s, t) /\ \A q \in Missing(g, s, t) : IsCarrierCp(t[q])

-----------------------------------------------------------------------------
(* The carriers without a code: two digits of a base make a byte, and the  *)
(* magic is one byte.                                                      *)

Pair(run, base, b) == run[2 * b - 1].digit * base + run[2 * b].digit
Pairs(run, base) == [b \in 1..(Len(run) \div 2) |-> Pair(run, base, b)]

(* What extract makes of a run. *)
Decoded(run, base, magic) ==
  LET bytes == Pairs(run, base)
  IN  IF run = << >> THEN [status |-> "none"]
      ELSE IF \/ Len(run) % 2 # 0
              \/ \E k \in 1..Len(run) : run[k].digit = base
        THEN [status |-> "corrupt"]
      ELSE IF Len(bytes) >= 1 /\ bytes[1] = magic
        THEN [status |-> "payload", bytes |-> SubSeq(bytes, 2, Len(bytes))]
      ELSE [status |-> "corrupt"]

LEMMA PairFold ==
  ASSUME NEW base \in Nat, NEW run, NEW b \in Nat \ {0},
         run[2 * b - 1].digit \in Nat, run[2 * b].digit \in Nat
  PROVE  LET upto == CHOOSE u : u = [k \in 0..2 |-> IF k = 0 THEN 0
                       ELSE u[k - 1] * base + run[2 * (b - 1) + k].digit]
         IN  upto[2] = Pair(run, base, b)
<1> DEFINE R(u) == [k \in 0..2 |-> IF k = 0 THEN 0
                      ELSE u[k - 1] * base + run[2 * (b - 1) + k].digit]
           w == [k \in 0..2 |-> IF k = 0 THEN 0
                   ELSE IF k = 1 THEN run[2 * b - 1].digit ELSE Pair(run, base, b)]
           v == CHOOSE u : u = R(u)
<1>1. 2 * (b - 1) + 1 = 2 * b - 1 /\ 2 * (b - 1) + 2 = 2 * b  OBVIOUS
<1>2. 0 * base + run[2 * b - 1].digit = run[2 * b - 1].digit  OBVIOUS
<1>3. w = R(w)
  <2>1. w[0] = 0 /\ w[1] = run[2 * b - 1].digit /\ w[2] = Pair(run, base, b)
    OBVIOUS
  <2>2. w = [k \in 0..2 |-> w[k]]  OBVIOUS
  <2> HIDE DEF w
  <2>3. ASSUME NEW k \in 0..2 PROVE w[k] = R(w)[k]
    <3>1. k = 0 \/ k = 1 \/ k = 2  OBVIOUS
    <3>2. R(w)[0] = 0  OBVIOUS
    <3>3. R(w)[1] = 0 * base + run[2 * b - 1].digit  BY <1>1, <2>1
    <3>4. R(w)[2] = run[2 * b - 1].digit * base + run[2 * b].digit
      BY <1>1, <2>1
    <3> HIDE DEF R
    <3> QED BY <1>2, <2>1, <3>1, <3>2, <3>3, <3>4 DEF Pair
  <2>4. \A k \in 0..2 : w[k] = IF k = 0 THEN 0
                          ELSE w[k - 1] * base + run[2 * (b - 1) + k].digit
    BY <2>3
  <2> QED BY <2>2, <2>4
<1>4. v = R(v)  BY <1>3
<1> HIDE DEF v, w
<1>5. v[0] = 0  BY <1>4
<1>6. v[1] = 0 * base + run[2 * b - 1].digit  BY <1>1, <1>4, <1>5
<1>7. v[2] = v[1] * base + run[2 * b].digit  BY <1>1, <1>4
<1>8. v[2] = Pair(run, base, b)  BY <1>2, <1>6, <1>7 DEF Pair
<1> QED BY <1>8 DEF v

LEMMA TagByte ==
  ASSUME NEW run, NEW b \in Nat \ {0},
         run[2 * b - 1].digit \in Nat, run[2 * b].digit \in Nat
  PROVE  Tag!ByteAt(run, b) = Pair(run, 16, b)
  BY 16 \in Nat, PairFold DEF Tag!ByteAt

LEMMA ZwbinByte ==
  ASSUME NEW run, NEW b \in Nat \ {0},
         run[2 * b - 1].digit \in Nat, run[2 * b].digit \in Nat
  PROVE  Zwbin!ByteAt(run, b) = Pair(run, 2, b)
  BY 2 \in Nat, PairFold DEF Zwbin!ByteAt

(* Where the digits of a carrier stand, NoDigit among them, and what they  *)
(* are when put together.                                                  *)
InClass(t, cl) == {k \in 1..Len(t) : t[k].class = cl /\ "digit" \in DOMAIN t[k]}
RunOf(t, cl) == At(t, InClass(t, cl))
HasDigits(t) ==
  \A k \in 1..Len(t) : "digit" \in DOMAIN t[k] => t[k].digit \in Nat

LEMMA RunOfFacts ==
  ASSUME NEW t, Len(t) \in Nat, HasDigits(t), NEW cl
  PROVE  /\ Len(RunOf(t, cl)) = Cardinality(InClass(t, cl))
         /\ Len(RunOf(t, cl)) \in Nat
         /\ RunOf(t, cl) \in Seq(Range(RunOf(t, cl)))
         /\ \A k \in 1..Len(RunOf(t, cl)) :
              /\ RunOf(t, cl)[k].digit \in Nat
              /\ \E p \in InClass(t, cl) : RunOf(t, cl)[k] = t[p]
         /\ \A p \in InClass(t, cl) :
              \E k \in 1..Len(RunOf(t, cl)) : RunOf(t, cl)[k] = t[p]
<1> DEFINE P == InClass(t, cl)
           u == RunOf(t, cl)
<1>1. P \in SUBSET (1..Len(t))  BY DEF InClass
<1>2. \A p \in P : t[p].digit \in Nat  BY DEF InClass, HasDigits
<1>3. u = At(t, P)  BY DEF RunOf
<1> HIDE DEF P, u
<1>4. /\ Len(u) = Cardinality(P) /\ Cardinality(P) \in Nat
      /\ u \in Seq(Range(u))
  BY <1>1, <1>3, AtEmbeds
<1>5. /\ \A k \in 1..Len(u) : Nth(P, k) \in P /\ u[k] = t[Nth(P, k)]
      /\ \A p \in P : \E k \in 1..Len(u) : Nth(P, k) = p
  BY <1>1, <1>3, <1>4, NthLists DEF At
<1> QED BY <1>2, <1>4, <1>5 DEF P, u

LEMMA TagRun == \A t : Tag!RunIn(t) = RunOf(t, "punct")
<1>0. \A S : Tag!Cardinality(S) = Cardinality(S)
  BY DEF Tag!Cardinality, Cardinality
<1>1. \A P, k : Tag!Nth(P, k) = Nth(P, k)  BY <1>0 DEF Tag!Nth, Nth
<1>2. \A t, P : Tag!At(t, P) = At(t, P)  BY <1>0, <1>1 DEF Tag!At, At
<1>3. \A t : InClass(t, "punct") = {k \in 1..Len(t) : Tag!InAlphabet(t[k])}
  BY DEF InClass, Tag!InAlphabet
<1> QED BY <1>2, <1>3 DEF Tag!RunIn, RunOf

LEMMA TagReads ==
  ASSUME NEW t, Len(t) \in Nat, HasDigits(t)
  PROVE  Tag!Extract(t) = Decoded(RunOf(t, "punct"), 16, 195)
<1> DEFINE run == RunOf(t, "punct")
           l == Len(run)
           raw == [b \in 1..(l \div 2) |-> Tag!ByteAt(run, b)]
           bytes == Pairs(run, 16)
<1>1. l \in Nat /\ \A k \in 1..l : run[k].digit \in Nat  BY RunOfFacts
<1>2. Tag!RunIn(t) = run  BY TagRun
<1> HIDE DEF run
<1>3. ASSUME NEW b \in 1..(l \div 2)
      PROVE  Tag!ByteAt(run, b) = Pair(run, 16, b)
  <2>1. b \in Nat \ {0} /\ 2 * b - 1 \in 1..l /\ 2 * b \in 1..l  BY <1>1
  <2> HIDE DEF l
  <2> QED BY <1>1, <2>1, TagByte
<1>4. raw = bytes  BY <1>3 DEF Pairs
<1>5. Len(bytes) \in Nat  BY <1>1 DEF Pairs
<1>6. Tag!Extract(t) =
        IF run = << >> THEN [status |-> "none"]
        ELSE IF l % 2 # 0 \/ \E n \in 1..l : run[n].digit = 16
          THEN [status |-> "corrupt"]
        ELSE IF Len(raw) >= Len(<<195>>) /\ SubSeq(raw, 1, Len(<<195>>)) = <<195>>
          THEN [status |-> "payload",
                bytes |-> SubSeq(raw, Len(<<195>>) + 1, Len(raw))]
        ELSE [status |-> "corrupt"]
  BY <1>2 DEF Tag!Extract, Tag!None, Tag!Corrupt, Tag!Payload, Tag!Body,
       Tag!Undecodable, Tag!NoDigit
<1> HIDE DEF l, raw
<1>7. Len(bytes) >= 1 => (SubSeq(bytes, 1, 1) = <<195>> <=> bytes[1] = 195)
  <2>1. bytes \in Seq(Range(bytes))  BY <1>1 DEF Pairs, Range, l
  <2> HIDE DEF bytes
  <2> DEFINE s == SubSeq(bytes, 1, 1)
  <2> SUFFICES ASSUME Len(bytes) >= 1 PROVE s = <<195>> <=> bytes[1] = 195
    OBVIOUS
  <2>2. Len(s) = 1 /\ s \in Seq(Range(bytes)) /\ s[1] = bytes[1]
    BY <1>5, <2>1
  <2> HIDE DEF s
  <2>3. s = <<s[1]>>  BY <2>2
  <2> QED BY <2>2, <2>3
<1>8. Len(<<195>>) = 1 /\ Len(<<195>>) + 1 = 2  OBVIOUS
<1> QED BY <1>4, <1>6, <1>7, <1>8 DEF Decoded, l, run

LEMMA ZwbinRun == \A t : Zwbin!RunIn(t) = RunOf(t, "symbol")
<1>0. \A S : Zwbin!Cardinality(S) = Cardinality(S)
  BY DEF Zwbin!Cardinality, Cardinality
<1>1. \A P, k : Zwbin!Nth(P, k) = Nth(P, k)  BY <1>0 DEF Zwbin!Nth, Nth
<1>2. \A t, P : Zwbin!At(t, P) = At(t, P)  BY <1>0, <1>1 DEF Zwbin!At, At
<1>3. \A t : InClass(t, "symbol") = {k \in 1..Len(t) : Zwbin!InAlphabet(t[k])}
  BY DEF InClass, Zwbin!InAlphabet
<1> QED BY <1>2, <1>3 DEF Zwbin!RunIn, RunOf

LEMMA ZwbinReads ==
  ASSUME NEW t, Len(t) \in Nat, HasDigits(t)
  PROVE  Zwbin!Extract(t) = Decoded(RunOf(t, "symbol"), 2, 2)
<1> DEFINE run == RunOf(t, "symbol")
           l == Len(run)
           raw == [b \in 1..(l \div 2) |-> Zwbin!ByteAt(run, b)]
           bytes == Pairs(run, 2)
<1>1. l \in Nat /\ \A k \in 1..l : run[k].digit \in Nat  BY RunOfFacts
<1>2. Zwbin!RunIn(t) = run  BY ZwbinRun
<1> HIDE DEF run
<1>3. ASSUME NEW b \in 1..(l \div 2)
      PROVE  Zwbin!ByteAt(run, b) = Pair(run, 2, b)
  <2>1. b \in Nat \ {0} /\ 2 * b - 1 \in 1..l /\ 2 * b \in 1..l  BY <1>1
  <2> HIDE DEF l
  <2> QED BY <1>1, <2>1, ZwbinByte
<1>4. raw = bytes  BY <1>3 DEF Pairs
<1>5. Len(bytes) \in Nat  BY <1>1 DEF Pairs
<1>6. Zwbin!Extract(t) =
        IF run = << >> THEN [status |-> "none"]
        ELSE IF l % 2 # 0 \/ \E n \in 1..l : run[n].digit = 2
          THEN [status |-> "corrupt"]
        ELSE IF Len(raw) >= Len(<<2>>) /\ SubSeq(raw, 1, Len(<<2>>)) = <<2>>
          THEN [status |-> "payload",
                bytes |-> SubSeq(raw, Len(<<2>>) + 1, Len(raw))]
        ELSE [status |-> "corrupt"]
  BY <1>2 DEF Zwbin!Extract, Zwbin!None, Zwbin!Corrupt, Zwbin!Payload,
       Zwbin!Body,
       Zwbin!Undecodable, Zwbin!NoDigit
<1> HIDE DEF l, raw
<1>7. Len(bytes) >= 1 => (SubSeq(bytes, 1, 1) = <<2>> <=> bytes[1] = 2)
  <2>1. bytes \in Seq(Range(bytes))  BY <1>1 DEF Pairs, Range, l
  <2> HIDE DEF bytes
  <2> DEFINE s == SubSeq(bytes, 1, 1)
  <2> SUFFICES ASSUME Len(bytes) >= 1 PROVE s = <<2>> <=> bytes[1] = 2
    OBVIOUS
  <2>2. Len(s) = 1 /\ s \in Seq(Range(bytes)) /\ s[1] = bytes[1]
    BY <1>5, <2>1
  <2> HIDE DEF s
  <2>3. s = <<s[1]>>  BY <2>2
  <2> QED BY <2>2, <2>3
<1>8. Len(<<2>>) = 1 /\ Len(<<2>>) + 1 = 2  OBVIOUS
<1> QED BY <1>4, <1>6, <1>7, <1>8 DEF Decoded, l, run

(* c is magic and payload p in digits. *)
IsCode(c, cl, base, magic, p) ==
  /\ c \in Seq(Range(c)) /\ Len(c) = 2 * (Len(p) + 1)
  /\ \A k \in 1..Len(c) : /\ c[k] = [class |-> cl, digit |-> c[k].digit]
                          /\ c[k].digit \in 0..(base - 1)
  /\ Pair(c, base, 1) = magic
  /\ \A b \in 1..Len(p) : Pair(c, base, b + 1) = p[b]

LEMMA TagCode ==
  ASSUME NEW p \in Seq(0..3)
  PROVE  IsCode(Tag!Encode(p), "punct", 16, 195, p)
<1> DEFINE bytes == <<195>> \o p
           n == Len(p)
           c == Tag!Encode(p)
<1>1. n \in Nat /\ \A b \in 1..n : p[b] \in 0..3  OBVIOUS
<1>2. /\ Len(bytes) = n + 1 /\ bytes[1] = 195
      /\ \A b \in 1..n : bytes[b + 1] = p[b]
      /\ \A b \in 1..(n + 1) : bytes[b] \in 0..255
  <2>1. <<195>> \in Seq({195}) /\ Len(<<195>>) = 1 /\ <<195>>[1] = 195
    OBVIOUS
  <2> DEFINE one == <<195>>
  <2> HIDE DEF one
  <2>2. /\ Len(one \o p) = Len(one) + n
        /\ \A b \in 1..(Len(one) + n) :
             (one \o p)[b] = IF b <= Len(one) THEN one[b] ELSE p[b - Len(one)]
    BY <1>1, <2>1 DEF one
  <2> DEFINE s == bytes
  <2>3. /\ Len(s) = 1 + n
        /\ \A b \in 1..(1 + n) : s[b] = IF b <= 1 THEN 195 ELSE p[b - 1]
    BY <2>1, <2>2 DEF one
  <2> HIDE DEF s
  <2>4. \A b \in 1..n : s[b + 1] = p[b]
    <3> SUFFICES ASSUME NEW b \in 1..n PROVE s[b + 1] = p[b]  OBVIOUS
    <3>1. b + 1 \in 1..(1 + n) /\ ~(b + 1 <= 1) /\ b + 1 - 1 = b  BY <1>1
    <3> QED BY <2>3, <3>1
  <2>5. \A b \in 1..(n + 1) : s[b] \in 0..255
    <3> SUFFICES ASSUME NEW b \in 1..(n + 1) PROVE s[b] \in 0..255  OBVIOUS
    <3>1. b \in 1..(1 + n) /\ (b <= 1 \/ b - 1 \in 1..n)  BY <1>1
    <3>2. CASE b <= 1
      <4>1. s[b] = 195  BY <2>3, <3>1, <3>2
      <4> QED BY <4>1
    <3>3. CASE ~(b <= 1)
      <4>1. s[b] = p[b - 1] /\ b - 1 \in 1..n  BY <2>3, <3>1, <3>3
      <4>2. p[b - 1] \in 0..3  BY <1>1, <4>1
      <4> QED BY <4>1, <4>2
    <3> QED BY <3>2, <3>3
  <2>6. Len(s) = n + 1 /\ s[1] = 195  BY <1>1, <2>3
  <2> QED BY <2>4, <2>5, <2>6 DEF s
<1>3. 16^(2 - 1) = 16 /\ 16^(2 - 2) = 1  OBVIOUS
<1>4. c = [k \in 1..(2 * (n + 1)) |->
             Tag!CodePoint(Tag!Digit(bytes[((k - 1) \div 2) + 1],
                                     ((k - 1) % 2) + 1))]
  BY <1>2 DEF Tag!Encode
<1>5. \A d : Tag!CodePoint(d) = [class |-> "punct", digit |-> d]
  BY DEF Tag!CodePoint
<1>6. ASSUME NEW v \in 0..255
      PROVE  /\ Tag!Digit(v, 1) = (v \div 16) % 16
             /\ Tag!Digit(v, 2) = v % 16
             /\ Tag!Digit(v, 1) \in 0..15 /\ Tag!Digit(v, 2) \in 0..15
             /\ Tag!Digit(v, 1) * 16 + Tag!Digit(v, 2) = v
  <2>1. Tag!Digit(v, 1) = (v \div 16^(2 - 1)) % 16
        /\ Tag!Digit(v, 2) = (v \div 16^(2 - 2)) % 16
    BY DEF Tag!Digit
  <2>2. Tag!Digit(v, 1) = (v \div 16) % 16 /\ Tag!Digit(v, 2) = v % 16
    BY <1>3, <2>1
  <2>3. /\ (v \div 16) % 16 \in 0..15 /\ v % 16 \in 0..15
        /\ ((v \div 16) % 16) * 16 + (v % 16) = v
    OBVIOUS
  <2> QED BY <2>2, <2>3
<1> HIDE DEF n, bytes, c
<1>7. ASSUME NEW b \in 1..(n + 1)
      PROVE  /\ 2 * b - 1 \in 1..(2 * (n + 1)) /\ 2 * b \in 1..(2 * (n + 1))
             /\ c[2 * b - 1] = Tag!CodePoint(Tag!Digit(bytes[b], 1))
             /\ c[2 * b] = Tag!CodePoint(Tag!Digit(bytes[b], 2))
  <2>1. /\ ((2 * b - 1 - 1) \div 2) + 1 = b /\ ((2 * b - 1 - 1) % 2) + 1 = 1
        /\ ((2 * b - 1) \div 2) + 1 = b /\ ((2 * b - 1) % 2) + 1 = 2
    BY <1>1
  <2>2. 2 * b - 1 \in 1..(2 * (n + 1)) /\ 2 * b \in 1..(2 * (n + 1))  BY <1>1
  <2>3. \A k \in 1..(2 * (n + 1)) :
          c[k] = Tag!CodePoint(Tag!Digit(bytes[((k - 1) \div 2) + 1],
                                         ((k - 1) % 2) + 1))
    BY <1>4
  <2> DEFINE o == 2 * b - 1
             e == 2 * b
  <2>4. /\ ((o - 1) \div 2) + 1 = b /\ ((o - 1) % 2) + 1 = 1
        /\ ((e - 1) \div 2) + 1 = b /\ ((e - 1) % 2) + 1 = 2
        /\ o \in 1..(2 * (n + 1)) /\ e \in 1..(2 * (n + 1))
    BY <2>1, <2>2
  <2> HIDE DEF o, e
  <2>5. c[o] = Tag!CodePoint(Tag!Digit(bytes[b], 1))
        /\ c[e] = Tag!CodePoint(Tag!Digit(bytes[b], 2))
    BY <2>3, <2>4
  <2> QED BY <2>2, <2>5 DEF o, e
<1>8. ASSUME NEW b \in 1..(n + 1) PROVE Pair(c, 16, b) = bytes[b]
  <2>1. c[2 * b - 1].digit = Tag!Digit(bytes[b], 1)
        /\ c[2 * b].digit = Tag!Digit(bytes[b], 2)
    BY <1>5, <1>7
  <2>2. bytes[b] \in 0..255  BY <1>2
  <2>3. Tag!Digit(bytes[b], 1) * 16 + Tag!Digit(bytes[b], 2) = bytes[b]
    BY <1>6, <2>2
  <2> QED BY <2>1, <2>3 DEF Pair
<1>9. ASSUME NEW k \in 1..(2 * (n + 1))
      PROVE  \E d \in 0..15 : c[k] = [class |-> "punct", digit |-> d]
  <2>1. PICK b \in 1..(n + 1) : k = 2 * b - 1 \/ k = 2 * b
    <3> DEFINE x == (k + 1) \div 2
    <3>1. x \in 1..(n + 1) /\ (k = 2 * x - 1 \/ k = 2 * x)  BY <1>1
    <3> HIDE DEF x
    <3> QED BY <3>1
  <2>2. /\ c[2 * b - 1] = Tag!CodePoint(Tag!Digit(bytes[b], 1))
        /\ c[2 * b] = Tag!CodePoint(Tag!Digit(bytes[b], 2))
    BY <1>7
  <2>3. Tag!Digit(bytes[b], 1) \in 0..15 /\ Tag!Digit(bytes[b], 2) \in 0..15
    BY <1>2, <1>6
  <2> QED BY <1>5, <2>1, <2>2, <2>3
<1>10. Len(c) = 2 * (n + 1) /\ c \in Seq(Range(c))
  <2>1. 2 * (n + 1) \in Nat /\ DOMAIN c = 1..(2 * (n + 1))  BY <1>1, <1>4
  <2>2. Len(c) = 2 * (n + 1)  BY <1>4, <2>1
  <2>3. c \in [1..(2 * (n + 1)) -> Range(c)]  BY <1>4, <2>1 DEF Range
  <2> QED BY <2>1, <2>2, <2>3
<1>11. \A k \in 1..Len(c) : /\ c[k] = [class |-> "punct", digit |-> c[k].digit]
                            /\ c[k].digit \in 0..(16 - 1)
  BY <1>9, <1>10
<1>12. Pair(c, 16, 1) = 195 /\ \A b \in 1..n : Pair(c, 16, b + 1) = p[b]
  BY <1>1, <1>2, <1>8
<1> QED BY <1>10, <1>11, <1>12 DEF IsCode, n, c

LEMMA ZwbinCode ==
  ASSUME NEW p \in Seq(0..3)
  PROVE  IsCode(Zwbin!Encode(p), "symbol", 2, 2, p)
<1> DEFINE bytes == <<2>> \o p
           n == Len(p)
           c == Zwbin!Encode(p)
<1>1. n \in Nat /\ \A b \in 1..n : p[b] \in 0..3  OBVIOUS
<1>2. /\ Len(bytes) = n + 1 /\ bytes[1] = 2
      /\ \A b \in 1..n : bytes[b + 1] = p[b]
      /\ \A b \in 1..(n + 1) : bytes[b] \in 0..3
  <2>1. <<2>> \in Seq({2}) /\ Len(<<2>>) = 1 /\ <<2>>[1] = 2
    OBVIOUS
  <2> DEFINE one == <<2>>
  <2> HIDE DEF one
  <2>2. /\ Len(one \o p) = Len(one) + n
        /\ \A b \in 1..(Len(one) + n) :
             (one \o p)[b] = IF b <= Len(one) THEN one[b] ELSE p[b - Len(one)]
    BY <1>1, <2>1 DEF one
  <2> DEFINE s == bytes
  <2>3. /\ Len(s) = 1 + n
        /\ \A b \in 1..(1 + n) : s[b] = IF b <= 1 THEN 2 ELSE p[b - 1]
    BY <2>1, <2>2 DEF one
  <2> HIDE DEF s
  <2>4. \A b \in 1..n : s[b + 1] = p[b]
    <3> SUFFICES ASSUME NEW b \in 1..n PROVE s[b + 1] = p[b]  OBVIOUS
    <3>1. b + 1 \in 1..(1 + n) /\ ~(b + 1 <= 1) /\ b + 1 - 1 = b  BY <1>1
    <3> QED BY <2>3, <3>1
  <2>5. \A b \in 1..(n + 1) : s[b] \in 0..3
    <3> SUFFICES ASSUME NEW b \in 1..(n + 1) PROVE s[b] \in 0..3  OBVIOUS
    <3>1. b \in 1..(1 + n) /\ (b <= 1 \/ b - 1 \in 1..n)  BY <1>1
    <3>2. CASE b <= 1
      <4>1. s[b] = 2  BY <2>3, <3>1, <3>2
      <4> QED BY <4>1
    <3>3. CASE ~(b <= 1)
      <4>1. s[b] = p[b - 1] /\ b - 1 \in 1..n  BY <2>3, <3>1, <3>3
      <4>2. p[b - 1] \in 0..3  BY <1>1, <4>1
      <4> QED BY <4>1, <4>2
    <3> QED BY <3>2, <3>3
  <2>6. Len(s) = n + 1 /\ s[1] = 2  BY <1>1, <2>3
  <2> QED BY <2>4, <2>5, <2>6 DEF s
<1>3. 2^(2 - 1) = 2 /\ 2^(2 - 2) = 1  OBVIOUS
<1>4. c = [k \in 1..(2 * (n + 1)) |->
             Zwbin!CodePoint(Zwbin!Digit(bytes[((k - 1) \div 2) + 1],
                                     ((k - 1) % 2) + 1))]
  BY <1>2 DEF Zwbin!Encode
<1>5. \A d : Zwbin!CodePoint(d) = [class |-> "symbol", digit |-> d]
  BY DEF Zwbin!CodePoint
<1>6. ASSUME NEW v \in 0..3
      PROVE  /\ Zwbin!Digit(v, 1) = (v \div 2) % 2
             /\ Zwbin!Digit(v, 2) = v % 2
             /\ Zwbin!Digit(v, 1) \in 0..1 /\ Zwbin!Digit(v, 2) \in 0..1
             /\ Zwbin!Digit(v, 1) * 2 + Zwbin!Digit(v, 2) = v
  <2>1. Zwbin!Digit(v, 1) = (v \div 2^(2 - 1)) % 2
        /\ Zwbin!Digit(v, 2) = (v \div 2^(2 - 2)) % 2
    BY DEF Zwbin!Digit
  <2>2. Zwbin!Digit(v, 1) = (v \div 2) % 2 /\ Zwbin!Digit(v, 2) = v % 2
    BY <1>3, <2>1
  <2>3. /\ (v \div 2) % 2 \in 0..1 /\ v % 2 \in 0..1
        /\ ((v \div 2) % 2) * 2 + (v % 2) = v
    OBVIOUS
  <2> QED BY <2>2, <2>3
<1> HIDE DEF n, bytes, c
<1>7. ASSUME NEW b \in 1..(n + 1)
      PROVE  /\ 2 * b - 1 \in 1..(2 * (n + 1)) /\ 2 * b \in 1..(2 * (n + 1))
             /\ c[2 * b - 1] = Zwbin!CodePoint(Zwbin!Digit(bytes[b], 1))
             /\ c[2 * b] = Zwbin!CodePoint(Zwbin!Digit(bytes[b], 2))
  <2>1. /\ ((2 * b - 1 - 1) \div 2) + 1 = b /\ ((2 * b - 1 - 1) % 2) + 1 = 1
        /\ ((2 * b - 1) \div 2) + 1 = b /\ ((2 * b - 1) % 2) + 1 = 2
    BY <1>1
  <2>2. 2 * b - 1 \in 1..(2 * (n + 1)) /\ 2 * b \in 1..(2 * (n + 1))  BY <1>1
  <2>3. \A k \in 1..(2 * (n + 1)) :
          c[k] = Zwbin!CodePoint(Zwbin!Digit(bytes[((k - 1) \div 2) + 1],
                                         ((k - 1) % 2) + 1))
    BY <1>4
  <2> DEFINE o == 2 * b - 1
             e == 2 * b
  <2>4. /\ ((o - 1) \div 2) + 1 = b /\ ((o - 1) % 2) + 1 = 1
        /\ ((e - 1) \div 2) + 1 = b /\ ((e - 1) % 2) + 1 = 2
        /\ o \in 1..(2 * (n + 1)) /\ e \in 1..(2 * (n + 1))
    BY <2>1, <2>2
  <2> HIDE DEF o, e
  <2>5. c[o] = Zwbin!CodePoint(Zwbin!Digit(bytes[b], 1))
        /\ c[e] = Zwbin!CodePoint(Zwbin!Digit(bytes[b], 2))
    BY <2>3, <2>4
  <2> QED BY <2>2, <2>5 DEF o, e
<1>8. ASSUME NEW b \in 1..(n + 1) PROVE Pair(c, 2, b) = bytes[b]
  <2>1. c[2 * b - 1].digit = Zwbin!Digit(bytes[b], 1)
        /\ c[2 * b].digit = Zwbin!Digit(bytes[b], 2)
    BY <1>5, <1>7
  <2>2. bytes[b] \in 0..3  BY <1>2
  <2>3. Zwbin!Digit(bytes[b], 1) * 2 + Zwbin!Digit(bytes[b], 2) = bytes[b]
    BY <1>6, <2>2
  <2> QED BY <2>1, <2>3 DEF Pair
<1>9. ASSUME NEW k \in 1..(2 * (n + 1))
      PROVE  \E d \in 0..1 : c[k] = [class |-> "symbol", digit |-> d]
  <2>1. PICK b \in 1..(n + 1) : k = 2 * b - 1 \/ k = 2 * b
    <3> DEFINE x == (k + 1) \div 2
    <3>1. x \in 1..(n + 1) /\ (k = 2 * x - 1 \/ k = 2 * x)  BY <1>1
    <3> HIDE DEF x
    <3> QED BY <3>1
  <2>2. /\ c[2 * b - 1] = Zwbin!CodePoint(Zwbin!Digit(bytes[b], 1))
        /\ c[2 * b] = Zwbin!CodePoint(Zwbin!Digit(bytes[b], 2))
    BY <1>7
  <2>3. Zwbin!Digit(bytes[b], 1) \in 0..1 /\ Zwbin!Digit(bytes[b], 2) \in 0..1
    BY <1>2, <1>6
  <2> QED BY <1>5, <2>1, <2>2, <2>3
<1>10. Len(c) = 2 * (n + 1) /\ c \in Seq(Range(c))
  <2>1. 2 * (n + 1) \in Nat /\ DOMAIN c = 1..(2 * (n + 1))  BY <1>1, <1>4
  <2>2. Len(c) = 2 * (n + 1)  BY <1>4, <2>1
  <2>3. c \in [1..(2 * (n + 1)) -> Range(c)]  BY <1>4, <2>1 DEF Range
  <2> QED BY <2>1, <2>2, <2>3
<1>11. \A k \in 1..Len(c) : /\ c[k] = [class |-> "symbol", digit |-> c[k].digit]
                            /\ c[k].digit \in 0..(2 - 1)
  BY <1>9, <1>10
<1>12. Pair(c, 2, 1) = 2 /\ \A b \in 1..n : Pair(c, 2, b + 1) = p[b]
  BY <1>1, <1>2, <1>8
<1> QED BY <1>10, <1>11, <1>12 DEF IsCode, n, c

LEMMA DecodedFacts ==
  ASSUME NEW run, Len(run) \in Nat, NEW base, NEW magic,
         NEW e, e = Decoded(run, base, magic)
  PROVE  /\ e.status \in {"none", "corrupt", "payload"}
         /\ run = << >> <=> e.status = "none"
         /\ e.status = "payload" =>
              /\ Len(run) % 2 = 0 /\ Len(run) > 0
              /\ \A k \in 1..Len(run) : run[k].digit # base
              /\ Len(e.bytes) = (Len(run) \div 2) - 1
<1> DEFINE l == Len(run)
           bytes == Pairs(run, base)
<1>1. Len(bytes) = l \div 2 /\ l \div 2 \in Nat
      /\ bytes \in Seq(Range(bytes))
  <2> DEFINE n == l \div 2
  <2>1. n \in Nat  OBVIOUS
  <2>2. bytes = [b \in 1..n |-> Pair(run, base, b)]  BY DEF Pairs
  <2> HIDE DEF bytes, n
  <2>3. Len(bytes) = n /\ bytes \in [1..n -> Range(bytes)]
    BY <2>1, <2>2 DEF Range
  <2> QED BY <2>1, <2>3 DEF n
<1> HIDE DEF bytes
<1>2. e = IF run = << >> THEN [status |-> "none"]
          ELSE IF l % 2 # 0 \/ \E k \in 1..l : run[k].digit = base
            THEN [status |-> "corrupt"]
          ELSE IF Len(bytes) >= 1 /\ bytes[1] = magic
            THEN [status |-> "payload", bytes |-> SubSeq(bytes, 2, Len(bytes))]
          ELSE [status |-> "corrupt"]
  BY DEF Decoded, bytes
<1>3. Len(bytes) >= 1 => Len(SubSeq(bytes, 2, Len(bytes))) = (l \div 2) - 1
  BY <1>1
<1>4. l % 2 = 0 /\ Len(bytes) >= 1 => l > 0  BY <1>1
<1> QED BY <1>2, <1>3, <1>4

(* As many whole bytes of a code as are there are read. *)
LEMMA DecodedCode ==
  ASSUME NEW p \in Seq(0..3), NEW base \in Nat, NEW magic, NEW c, NEW cl,
         IsCode(c, cl, base, magic, p),
         NEW m \in 1..(Len(p) + 1), NEW run, Len(run) = 2 * m,
         \A k \in 1..Len(run) : run[k] = c[k]
  PROVE  Decoded(run, base, magic)
           = [status |-> "payload", bytes |-> SubSeq(p, 1, m - 1)]
<1> DEFINE n == Len(p)
           l == Len(run)
           bytes == Pairs(run, base)
<1>1. /\ n \in Nat /\ m \in Nat /\ m >= 1 /\ m <= n + 1
      /\ l = 2 * m /\ l \in Nat /\ l % 2 = 0 /\ l \div 2 = m
  OBVIOUS
<1>2. Len(c) = 2 * (n + 1) /\ \A k \in 1..(2 * (n + 1)) : c[k].digit # base
  BY DEF IsCode
<1> HIDE DEF n, l
<1>3. \A k \in 1..l : run[k] = c[k] /\ run[k].digit # base
  BY <1>1, <1>2 DEF l
<1>4. ASSUME NEW b \in 1..m PROVE Pair(run, base, b) = Pair(c, base, b)
  <2>1. 2 * b - 1 \in 1..l /\ 2 * b \in 1..l  BY <1>1
  <2> QED BY <1>3, <2>1 DEF Pair
<1>5. /\ Pair(c, base, 1) = magic
      /\ \A b \in 1..n : Pair(c, base, b + 1) = p[b]
  BY DEF IsCode, n
<1>6. bytes = [b \in 1..m |-> Pair(run, base, b)]  BY <1>1 DEF Pairs, l
<1> HIDE DEF bytes
<1>7. Len(bytes) = m /\ bytes[1] = magic
  <2>1. 1 \in 1..m  BY <1>1
  <2> QED BY <1>1, <1>4, <1>5, <1>6, <2>1
<1>8. \A b \in 1..(m - 1) : bytes[b + 1] = p[b]
  <2> SUFFICES ASSUME NEW b \in 1..(m - 1) PROVE bytes[b + 1] = p[b]  OBVIOUS
  <2>1. b + 1 \in 1..m /\ b \in 1..n  BY <1>1
  <2>2. bytes[b + 1] = Pair(run, base, b + 1)  BY <1>6, <2>1
  <2>3. Pair(run, base, b + 1) = Pair(c, base, b + 1)  BY <1>4, <2>1
  <2> QED BY <1>5, <2>1, <2>2, <2>3
<1>9. SubSeq(bytes, 2, Len(bytes)) = SubSeq(p, 1, m - 1)
  <2> DEFINE u == SubSeq(bytes, 2, Len(bytes))
             v == SubSeq(p, 1, m - 1)
  <2>0. bytes \in Seq(Range(bytes))
    <3>1. bytes \in [1..m -> Range(bytes)]  BY <1>6 DEF Range
    <3> QED BY <1>1, <3>1
  <2>1. Len(u) = m - 1 /\ u \in Seq(Range(bytes))
        /\ \A b \in 1..(m - 1) : u[b] = bytes[b + 1]
    BY <1>1, <1>7, <2>0
  <2>2. Len(v) = m - 1 /\ v \in Seq(0..3) /\ \A b \in 1..(m - 1) : v[b] = p[b]
    BY <1>1 DEF n
  <2> HIDE DEF u, v
  <2>3. u = v  BY <1>1, <1>8, <2>1, <2>2
  <2> QED BY <2>3 DEF u, v
<1>10. run # << >> /\ Len(bytes) >= 1 /\ ~(l % 2 # 0)
       /\ ~\E k \in 1..l : run[k].digit = base
  BY <1>1, <1>3, <1>7 DEF l
<1> QED BY <1>7, <1>9, <1>10 DEF Decoded, bytes, l

-----------------------------------------------------------------------------
(* What was sent with a carrier behind the host, and what is left of it. *)

CarrierFree(t) == \A k \in 1..Len(t) : ~IsCarrierCp(t[k])

LEMMA HostFacts ==
  ASSUME NEW h \in Hosts
  PROVE  /\ h \in Seq(Range(h)) /\ Len(h) \in Nat /\ NoZeroWidth(h)
         /\ \A k \in 1..Len(h) :
              ~IsZeroWidth(h[k]) /\ ~IsTag(h[k]) /\ "digit" \notin DOMAIN h[k]
<1>1. /\ h \in Seq(Range(h)) /\ NoZeroWidth(h)
      /\ \A k \in 1..Len(h) : "digit" \notin DOMAIN h[k]
  BY HostsAssumption
<1>2. Len(h) \in Nat  BY <1>1
<1>3. \A k \in 1..Len(h) : ~IsZeroWidth(h[k])  BY <1>1 DEF NoZeroWidth
<1>4. \A k \in 1..Len(h) : ~IsTag(h[k])  BY <1>1 DEF IsTag
<1> QED BY <1>1, <1>2, <1>3, <1>4

(* The class and the base of tag and of zwbin. *)
Alphabets == {<<"punct", 16>>, <<"symbol", 2>>}

LEMMA Joined ==
  ASSUME NEW A, NEW B, NEW s \in Seq(A), NEW t \in Seq(B)
  PROVE  /\ s \o t \in Seq(Range(s \o t))
         /\ Len(s \o t) = Len(s) + Len(t)
         /\ \A k \in 1..Len(s) : (s \o t)[k] = s[k]
         /\ \A k \in 1..Len(t) : (s \o t)[Len(s) + k] = t[k]
<1> DEFINE m == Len(s)
           n == Len(t)
           w == s \o t
           S == A \cup B
<1>1. m \in Nat /\ n \in Nat  OBVIOUS
<1>2. s \in Seq(S) /\ t \in Seq(S)  OBVIOUS
<1> HIDE DEF S
<1>3. /\ w \in Seq(S) /\ Len(w) = m + n
      /\ \A k \in 1..(m + n) : w[k] = IF k <= m THEN s[k] ELSE t[k - m]
  BY <1>2
<1> HIDE DEF m, n, w
<1>4. ASSUME NEW k \in 1..m PROVE w[k] = s[k]
  BY <1>1, <1>3
<1>5. ASSUME NEW k \in 1..n PROVE w[m + k] = t[k]
  <2> DEFINE j == m + k
  <2>1. j \in 1..(m + n) /\ ~(j <= m) /\ j - m = k  BY <1>1
  <2> HIDE DEF j
  <2>2. w[j] = t[k]  BY <1>3, <2>1
  <2> QED BY <2>2 DEF j
<1>6. w \in Seq(Range(w))
  <2>1. w \in [1..(m + n) -> Range(w)]  BY <1>1, <1>3 DEF Range
  <2>2. m + n \in Nat  BY <1>1
  <2> QED BY <2>1, <2>2
<1> QED BY <1>3, <1>4, <1>5, <1>6 DEF m, n, w

LEMMA BehindFacts ==
  ASSUME NEW h \in Hosts, NEW c, NEW cl, NEW base, NEW magic,
         NEW p \in Seq(0..3),
         <<cl, base>> \in Alphabets, IsCode(c, cl, base, magic, p)
  PROVE  /\ h \o c \in Seq(Range(h \o c)) /\ Len(h \o c) = Len(h) + Len(c)
         /\ Len(h) \in Nat /\ Len(c) \in Nat
         /\ \A k \in 1..Len(h) : (h \o c)[k] = h[k]
         /\ \A k \in 1..Len(c) :
              /\ (h \o c)[Len(h) + k] = c[k]
              /\ c[k].class = cl /\ "digit" \in DOMAIN c[k]
              /\ c[k].digit \in 0..(base - 1) /\ c[k].digit # 16
              /\ IsCarrierCp(c[k])
         /\ Carries(h \o c, h)
<1> DEFINE m == Len(h)
           n == Len(c)
           out == h \o c
           f == [k \in 1..m |-> k]
<1>1. /\ h \in Seq(Range(h)) /\ c \in Seq(Range(c)) /\ m \in Nat /\ n \in Nat
      /\ \A k \in 1..n : /\ c[k] = [class |-> cl, digit |-> c[k].digit]
                         /\ c[k].digit \in 0..(base - 1)
  BY HostFacts DEF IsCode
<1>2. /\ Len(out) = m + n
      /\ \A k \in 1..m : out[k] = h[k]
      /\ \A k \in 1..n : out[m + k] = c[k]
  BY <1>1, Joined
<1>3. out \in Seq(Range(out))  BY <1>1, Joined
<1> HIDE DEF m, n, out
<1>4. (cl = "punct" /\ base = 16) \/ (cl = "symbol" /\ base = 2)
  BY DEF Alphabets
<1>5. ASSUME NEW k \in 1..n
      PROVE  /\ c[k].class = cl /\ "digit" \in DOMAIN c[k]
             /\ c[k].digit # 16
  <2>1. PICK d \in 0..(base - 1) : c[k] = [class |-> cl, digit |-> d]  BY <1>1
  <2>2. c[k].digit = d /\ c[k].class = cl /\ "digit" \in DOMAIN c[k]  BY <2>1
  <2> QED BY <1>4, <2>1, <2>2
<1>6. \A k \in 1..n : IsCarrierCp(c[k])
  BY <1>4, <1>5 DEF IsCarrierCp, IsTag, IsZeroWidth
<1>7. Embeds(f, h, out)
  <2>1. Len(h) = m /\ f \in [1..m -> 1..(m + n)]  BY <1>1 DEF m
  <2>2. \A k \in 1..m : h[k] = out[f[k]]  BY <1>2
  <2>3. Rising(f, m)  BY <1>1 DEF Rising
  <2> HIDE DEF f
  <2>4. Len(h) \in Nat /\ Len(out) \in Nat /\ f \in [1..Len(h) -> 1..Len(out)]
    BY <1>1, <1>2, <2>1
  <2> QED BY <2>1, <2>2, <2>3, <2>4 DEF Embeds
<1>8. ASSUME NEW q \in Missing(f, h, out) PROVE IsCarrierCp(out[q])
  <2>1. q \in 1..(m + n) /\ \A i \in 1..m : f[i] # q
    BY <1>2, <1>8 DEF Missing, m
  <2>2. ~(q <= m)  BY <1>1, <2>1
  <2>3. q - m \in 1..n /\ m + (q - m) = q  BY <1>1, <2>1, <2>2
  <2> QED BY <1>2, <1>6, <2>3
<1> HIDE DEF f
<1>9. Carries(out, h)  BY <1>7, <1>8 DEF Carries
<1> QED BY <1>1, <1>2, <1>3, <1>5, <1>6, <1>9 DEF m, n, out

(* The digits that Digits counts. *)
DigitAt(t) == {k \in 1..Len(t) : "digit" \in DOMAIN t[k] /\ t[k].digit # 16}

LEMMA DigitsIs == \A t : Digits(t) = Cardinality(DigitAt(t))
  BY DEF Digits, DigitAt, Tag!NoDigit

LEMMA DigitsTravel ==
  ASSUME NEW h \in Hosts, NEW c, NEW cl, NEW base, NEW magic,
         NEW p \in Seq(0..3),
         <<cl, base>> \in Alphabets, IsCode(c, cl, base, magic, p),
         NEW a \in BOOLEAN, NEW b \in BOOLEAN, NEW u,
         PartOf(u, Aged(h \o c, a, b))
  PROVE  /\ u \in Seq(Range(u)) /\ Len(u) \in Nat /\ HasDigits(u)
         /\ Digits(u) \in Nat /\ Digits(u) <= Len(c)
         /\ Digits(u) = Len(c) => At(u, DigitAt(u)) = c
         /\ InClass(u, cl) = DigitAt(u)
<1> DEFINE out == h \o c
           v == Aged(out, a, b)
           m == Len(h)
           n == Len(c)
           C == {m + k : k \in 1..n}
<1>1. PICK g : Embeds(g, u, v)  BY DEF PartOf
<1>2. /\ m \in Nat /\ n \in Nat /\ Len(out) = m + n
      /\ out \in Seq(Range(out))
      /\ \A k \in 1..m : out[k] = h[k]
      /\ \A k \in 1..n :
           /\ out[m + k] = c[k]
           /\ c[k].class = cl /\ "digit" \in DOMAIN c[k]
           /\ c[k].digit \in 0..(base - 1) /\ c[k].digit # 16
  BY BehindFacts
<1>3. (cl = "punct" /\ base = 16) \/ (cl = "symbol" /\ base = 2)
  BY DEF Alphabets
<1>4. \A k \in 1..m : "digit" \notin DOMAIN h[k]  BY HostFacts
<1> HIDE DEF out, m, n
<1>0. m \in Nat /\ n \in Nat /\ m + n \in Nat /\ Len(out) = m + n
  BY <1>2
<1>5. Len(v) = m + n /\ \A k \in 1..(m + n) : v[k] = Worn(out[k], a, b)
  <2>1. Len(out) \in Nat  BY <1>0
  <2>2. Len(v) = Len(out) /\ \A k \in 1..Len(out) : v[k] = Worn(out[k], a, b)
    BY <2>1, AgedFacts
  <2> HIDE DEF v
  <2> QED BY <1>0, <2>2
<1> HIDE DEF v
<1>20. ASSUME NEW k \in 1..(m + n)
       PROVE  /\ "digit" \in DOMAIN v[k] <=> "digit" \in DOMAIN out[k]
              /\ "digit" \in DOMAIN v[k] => v[k] = out[k]
  <2>1. v[k] = Worn(out[k], a, b)  BY <1>5
  <2>2. /\ "digit" \in DOMAIN Worn(out[k], a, b) <=> "digit" \in DOMAIN out[k]
        /\ "digit" \in DOMAIN out[k] => Worn(out[k], a, b) = out[k]
    BY WornFacts
  <2> QED BY <2>1, <2>2
<1>6. \A k \in 1..(m + n) : k \in 1..m \/ (k - m \in 1..n /\ k = m + (k - m))
  BY <1>2
<1>7. ASSUME NEW k \in 1..(m + n), "digit" \in DOMAIN v[k]
      PROVE  /\ v[k] = out[k]
             /\ v[k].digit \in Nat
             /\ k \in C /\ v[k].class = cl /\ v[k].digit # 16
  <2>1. v[k] = out[k] /\ "digit" \in DOMAIN out[k]  BY <1>7, <1>20
  <2>2. CASE k \in 1..m
    <3>1. out[k] = h[k] /\ "digit" \notin DOMAIN h[k]  BY <1>2, <1>4, <2>2
    <3> QED BY <2>1, <3>1
  <2>3. CASE k - m \in 1..n /\ k = m + (k - m)
    <3>1. PICK j \in 1..n : k = m + j  BY <2>3
    <3>2. k \in C /\ out[k] = c[j]  BY <1>2, <3>1
    <3>3. c[j].class = cl /\ c[j].digit \in 0..(base - 1) /\ c[j].digit # 16
      BY <1>2
    <3> HIDE DEF C
    <3> QED BY <1>3, <2>1, <3>2, <3>3
  <2> QED BY <1>6, <2>2, <2>3
<1>8. ASSUME NEW k \in C
      PROVE  k \in 1..(m + n) /\ "digit" \in DOMAIN v[k] /\ v[k] = out[k]
  <2>1. PICK j \in 1..n : k = m + j  OBVIOUS
  <2>2. out[m + j] = c[j] /\ "digit" \in DOMAIN c[j]  BY <1>2
  <2>3. k \in 1..(m + n)  BY <1>0, <2>1
  <2> HIDE DEF C
  <2> QED BY <1>20, <2>1, <2>2, <2>3
<1> DEFINE D == DigitAt(u)
           Q == {g[i] : i \in D}
<1>9. /\ Len(u) \in Nat
      /\ \A i \in 1..Len(u) : g[i] \in 1..(m + n) /\ u[i] = v[g[i]]
      /\ \A i, j \in 1..Len(u) : g[i] = g[j] <=> i = j
  <2>1. Embeds(g, u, v)  BY <1>1
  <2>2. /\ Len(u) \in Nat
        /\ \A i \in 1..Len(u) : u[i] = v[g[i]]
    BY <2>1 DEF Embeds
  <2>3. /\ \A i \in 1..Len(u) : g[i] \in 1..Len(v)
        /\ \A i, j \in 1..Len(u) : g[i] = g[j] <=> i = j
    BY <2>1, EmbedsFacts
  <2> QED BY <1>5, <2>2, <2>3
<1>10. D \in SUBSET (1..Len(u)) /\ Q \subseteq C
  <2>1. ASSUME NEW i \in D PROVE g[i] \in C
    <3>1. /\ i \in 1..Len(u) /\ "digit" \in DOMAIN u[i] /\ u[i].digit # 16
      BY DEF DigitAt
    <3> HIDE DEF C, D
    <3> QED BY <1>7, <1>9, <3>1
  <2>2. D \subseteq 1..Len(u)  BY DEF DigitAt
  <2> HIDE DEF C, D
  <2> QED BY <2>1, <2>2
<1>11. HasDigits(u)
  <2> SUFFICES ASSUME NEW k \in 1..Len(u), "digit" \in DOMAIN u[k]
               PROVE  u[k].digit \in Nat
    BY DEF HasDigits
  <2> HIDE DEF C
  <2> QED BY <1>7, <1>9
<1>12. IsFiniteSet(C) /\ Cardinality(C) = n /\ C \in SUBSET Nat
       /\ At(out, C) = c
  <2> DEFINE f == [k \in 1..n |-> m + k]
  <2>1. \A k \in 1..n : f[k] = m + k  OBVIOUS
  <2>2. Enumerates(f, n, C)
    <3>1. \A k \in 1..n : f[k] \in C  BY <2>1
    <3>2. Rising(f, n)  BY <1>0, <2>1 DEF Rising
    <3>3. \A x \in C : \E k \in 1..n : f[k] = x  BY <2>1
    <3> HIDE DEF C, f
    <3> QED BY <3>1, <3>2, <3>3 DEF Enumerates
  <2>3. C \in SUBSET Nat  BY <1>0
  <2> HIDE DEF C, f
  <2>4. /\ IsFiniteSet(C) /\ Cardinality(C) = n
        /\ \A k \in 1..n : Nth(C, k) = m + k
    <3>1. /\ IsFiniteSet(C) /\ Cardinality(C) = n
          /\ \A k \in 1..n : Nth(C, k) = f[k]
      BY <1>0, <2>2, <2>3, Enumeration
    <3> QED BY <2>1, <3>1
  <2>5. At(out, C) = [k \in 1..n |-> c[k]]  BY <1>2, <2>4 DEF At
  <2>6. c = [k \in 1..n |-> c[k]]
    <3>1. c \in Seq(Range(c))  BY DEF IsCode
    <3> QED BY <3>1 DEF n
  <2> QED BY <2>3, <2>4, <2>5, <2>6
<1> HIDE DEF C
<1>13. /\ IsFiniteSet(Q) /\ Cardinality(Q) <= n
       /\ Cardinality(Q) = n => Q = C
  <2>1. IsFiniteSet(Q) /\ Cardinality(Q) <= Cardinality(C)
    BY <1>10, <1>12, FS_Subset
  <2>2. Cardinality(Q) = Cardinality(C) => Q = C  BY <1>10, <1>12, FS_Subset
  <2> QED BY <1>12, <2>1, <2>2
<1> HIDE DEF D
<1>14. Cardinality(Q) = Cardinality(D) /\ At(v, Q) = At(u, D)
  BY <1>1, <1>10, EmbeddedAt
<1>15. Cardinality(Q) \in Nat  BY <1>13, FS_CardinalityType
<1>16. Digits(u) = Cardinality(D)  BY DigitsIs DEF D
<1>17. Cardinality(D) = n => At(u, D) = c
  <2> SUFFICES ASSUME Q = C PROVE At(u, D) = c  BY <1>13, <1>14
  <2>1. At(v, C) = At(out, C)
    <3>1. C \in SUBSET (1..(m + n)) /\ \A j \in C : v[j] = out[j]  BY <1>8
    <3> QED BY <1>0, <3>1, AtSame
  <2> QED BY <1>12, <1>14, <2>1
<1>18. InClass(u, cl) = D
  <2> SUFFICES ASSUME NEW k PROVE k \in InClass(u, cl) <=> k \in D
    OBVIOUS
  <2>1. ASSUME k \in InClass(u, cl) PROVE k \in D
    <3>1. k \in 1..Len(u) /\ u[k].class = cl /\ "digit" \in DOMAIN u[k]
      BY <2>1 DEF InClass
    <3>2. u[k] = v[g[k]] /\ g[k] \in 1..(m + n)  BY <1>9, <3>1
    <3>3. u[k].digit # 16  BY <1>7, <3>1, <3>2
    <3> QED BY <3>1, <3>3 DEF D, DigitAt
  <2>2. ASSUME k \in D PROVE k \in InClass(u, cl)
    <3>1. k \in 1..Len(u) /\ u[k].digit # 16 /\ "digit" \in DOMAIN u[k]
      BY <2>2 DEF D, DigitAt
    <3>2. u[k] = v[g[k]] /\ g[k] \in 1..(m + n)  BY <1>9, <3>1
    <3>3. u[k].class = cl  BY <1>7, <3>1, <3>2
    <3> QED BY <3>1, <3>3 DEF InClass
  <2> QED BY <2>1, <2>2
<1>19. u \in Seq(Range(u))  BY DEF PartOf
<1> QED BY <1>9, <1>11, <1>13, <1>14, <1>15, <1>16, <1>17, <1>18, <1>19
     DEF D, n, v, out

(* What reading the carrier behind a host on its way comes to, when d of   *)
(* its n digits are left.                                                  *)
ReadAs(o, d, n) ==
  /\ d \in Nat /\ d <= n /\ n \in Nat
  /\ o \in {"gone", "safe", "intact", "unsafe"}
  /\ o = "intact" <=> d = n
  /\ o = "unsafe" => d < n /\ (n - d) % 2 = 0
  /\ d = 0 => o = "gone"

LEMMA DigitsRead ==
  ASSUME NEW h \in Hosts, NEW c, NEW cl, NEW base, NEW magic,
         NEW p \in Seq(0..3),
         <<cl, base>> \in Alphabets, IsCode(c, cl, base, magic, p),
         NEW a \in BOOLEAN, NEW b \in BOOLEAN, NEW u,
         PartOf(u, Aged(h \o c, a, b)),
         NEW e, e = Decoded(RunOf(u, cl), base, magic),
         NEW o, o = Classify(e, p)
  PROVE  ReadAs(o, Digits(u), Len(c))
<1> DEFINE run == RunOf(u, cl)
           d == Digits(u)
           n == Len(c)
           w == Len(p)
<1>1. /\ Len(u) \in Nat /\ HasDigits(u) /\ d \in Nat /\ d <= n
      /\ d = n => At(u, DigitAt(u)) = c
      /\ InClass(u, cl) = DigitAt(u)
  BY DigitsTravel
<1>2. d = Cardinality(DigitAt(u))  BY DigitsIs
<1>3. w \in Nat /\ n = 2 * (w + 1) /\ n \in Nat  BY DEF IsCode
<1>4. base \in Nat  BY DEF Alphabets
<1>5. /\ Len(run) = Cardinality(InClass(u, cl)) /\ Len(run) \in Nat
      /\ run \in Seq(Range(run))
      /\ \A k \in InClass(u, cl) : \E j \in 1..Len(run) : run[j] = u[k]
  BY <1>1, RunOfFacts
<1>6. run = At(u, InClass(u, cl))  BY DEF RunOf
<1> HIDE DEF run, d, n, w
<1>7. /\ e.status \in {"none", "corrupt", "payload"}
      /\ run = << >> <=> e.status = "none"
      /\ e.status = "payload" =>
           /\ Len(run) % 2 = 0 /\ Len(run) > 0
           /\ \A k \in 1..Len(run) : run[k].digit # base
           /\ Len(e.bytes) = (Len(run) \div 2) - 1
  <2>1. e = Decoded(run, base, magic)  BY DEF run
  <2> QED BY <1>5, <2>1, DecodedFacts
<1>8. InClass(u, cl) = DigitAt(u) /\ Len(run) = d
  BY <1>1, <1>2, <1>5, <1>7
<1>9. d = n => e = [status |-> "payload", bytes |-> p]
  <2> SUFFICES ASSUME d = n PROVE e = [status |-> "payload", bytes |-> p]
    OBVIOUS
  <2>1. run = c  BY <1>1, <1>6, <1>8
  <2>2. Len(run) = 2 * (w + 1) /\ w + 1 \in 1..(w + 1)  BY <1>3, <2>1 DEF n
  <2> DEFINE m == w + 1
  <2>5. /\ m \in 1..(Len(p) + 1) /\ Len(run) = 2 * m
        /\ \A k \in 1..Len(run) : run[k] = c[k]
    BY <2>1, <2>2 DEF w
  <2> HIDE DEF m
  <2>3. Decoded(run, base, magic)
          = [status |-> "payload", bytes |-> SubSeq(p, 1, m - 1)]
    <3>1. m \in 1..(Len(p) + 1) /\ Len(run) = 2 * m  BY <2>5
    <3>2. \A k \in 1..Len(run) : run[k] = c[k]  BY <2>5
    <3>3. IsCode(c, cl, base, magic, p) /\ p \in Seq(0..3)  OBVIOUS
    <3> QED BY ONLY <1>4, <3>1, <3>2, <3>3, DecodedCode
  <2>4. SubSeq(p, 1, m - 1) = p  BY <1>3 DEF w, m
  <2> QED BY <2>3, <2>4 DEF run
<1>10. e.status = "payload" => (d # n => Len(e.bytes) # w) /\ d % 2 = 0
  <2> SUFFICES ASSUME e.status = "payload"
               PROVE  (d # n => Len(e.bytes) # w) /\ d % 2 = 0
    OBVIOUS
  <2>1. d % 2 = 0 /\ Len(e.bytes) = (d \div 2) - 1  BY <1>7, <1>8
  <2> QED BY <1>1, <1>3, <2>1
<1>11. /\ e.status = "none" => o = "gone"
       /\ e.status = "corrupt" => o = "safe"
       /\ e.status = "payload" => o = IF e.bytes = p THEN "intact" ELSE "unsafe"
  BY DEF Classify
<1>12. o \in {"gone", "safe", "intact", "unsafe"}  BY <1>7, <1>11
<1>13. o = "intact" \/ o = "unsafe" => e.status = "payload"  BY <1>7, <1>11
<1>14. e.status = "payload" /\ e.bytes = p => d = n  BY <1>10 DEF w
<1>15. o = "intact" <=> d = n
  <2>1. o = "intact" => d = n  BY <1>11, <1>13, <1>14
  <2>2. d = n => o = "intact"
    <3> SUFFICES ASSUME d = n PROVE o = "intact"  OBVIOUS
    <3>1. e.status = "payload" /\ e.bytes = p  BY <1>9
    <3> QED BY <1>11, <3>1
  <2> QED BY <2>1, <2>2
<1>16. o = "unsafe" => d < n /\ (n - d) % 2 = 0
  <2> SUFFICES ASSUME o = "unsafe" PROVE d < n /\ (n - d) % 2 = 0  OBVIOUS
  <2>1. e.status = "payload" /\ e.bytes # p  BY <1>11, <1>13
  <2>2. d # n
    <3> SUFFICES ASSUME d = n PROVE FALSE  OBVIOUS
    <3>1. e = [status |-> "payload", bytes |-> p]  BY <1>9, <2>1
    <3> QED BY <2>1, <3>1
  <2>3. d % 2 = 0  BY <1>10, <2>1
  <2> QED BY <1>1, <1>3, <2>2, <2>3
<1>17. d = 0 => o = "gone"
  <2> SUFFICES ASSUME d = 0 PROVE o = "gone"  OBVIOUS
  <2>1. Len(run) = 0  BY <1>8
  <2>2. run = << >>  BY <1>5, <2>1
  <2> QED BY <1>7, <1>11, <2>2
<1>18. ReadAs(o, d, n)  BY <1>1, <1>3, <1>12, <1>15, <1>16, <1>17 DEF ReadAs
<1> QED BY <1>18 DEF d, n

-----------------------------------------------------------------------------
(* What is left of a watermark. *)

(* The counting of read_runs depends on the classes alone. *)
LEMMA SameClasses ==
  ASSUME NEW t, NEW u, Len(t) \in Nat, Len(u) = Len(t),
         \A k \in 1..Len(t) : u[k].class = t[k].class
  PROVE  /\ \A i \in 1..Len(t) : OpensWord(u, i) <=> OpensWord(t, i)
         /\ \A i \in 1..(Len(t) + 1) : RankBefore(u, i) = RankBefore(t, i)
         /\ \A r : Filed(u, r, Len(u)) = Filed(t, r, Len(t))
<1> DEFINE n == Len(t)
<1>1. n \in Nat /\ Len(u) = n /\ \A k \in 1..n : u[k].class = t[k].class
  OBVIOUS
<1>2. \A o \in 1..n : OpensWord(t, o) <=>
        /\ ~IsSymbol(t[o]) /\ ~IsSpace(t[o])
        /\ \A j \in 1..(o - 1) :
             (\A k \in j..(o - 1) : ~IsSpace(t[k])) => IsSymbol(t[j])
  BY <1>1, OpensIs DEF n
<1>3. \A o \in 1..n : OpensWord(u, o) <=>
        /\ ~IsSymbol(u[o]) /\ ~IsSpace(u[o])
        /\ \A j \in 1..(o - 1) :
             (\A k \in j..(o - 1) : ~IsSpace(u[k])) => IsSymbol(u[j])
  BY <1>1, OpensIs
<1> HIDE DEF n
<1>4. ASSUME NEW o \in 1..n PROVE OpensWord(u, o) <=> OpensWord(t, o)
  <2>1. ASSUME NEW j \in 1..(o - 1)
        PROVE  /\ IsSymbol(u[j]) <=> IsSymbol(t[j])
               /\ (\A k \in j..(o - 1) : ~IsSpace(u[k]))
                    <=> (\A k \in j..(o - 1) : ~IsSpace(t[k]))
    <3>1. j \in 1..n /\ \A k \in j..(o - 1) : k \in 1..n  BY <1>1
    <3> QED BY <1>1, <3>1 DEF IsSymbol, IsSpace
  <2>2. (IsSymbol(u[o]) <=> IsSymbol(t[o])) /\ (IsSpace(u[o]) <=> IsSpace(t[o]))
    BY <1>1 DEF IsSymbol, IsSpace
  <2> QED BY <1>2, <1>3, <2>1, <2>2, Zenon
<1>5. ASSUME NEW i \in 1..(n + 1) PROVE RankBefore(u, i) = RankBefore(t, i)
  <2>1. \A j \in 1..(i - 1) : j \in 1..n  BY <1>1
  <2>2. {j \in 1..(i - 1) : OpensWord(u, j)} = {j \in 1..(i - 1) : OpensWord(t, j)}
    BY <1>4, <2>1
  <2> QED BY <2>2 DEF RankBefore
<1>6. ASSUME NEW r PROVE Filed(u, r, n) = Filed(t, r, n)
  <2>1. ASSUME NEW i \in 1..n
        PROVE  i \in Filed(u, r, n) <=> i \in Filed(t, r, n)
    <3>1. i \in 1..(n + 1)  BY <1>1
    <3>2. RankBefore(u, i) = RankBefore(t, i)  BY <1>5, <3>1
    <3>3. IsSymbol(u[i]) <=> IsSymbol(t[i])  BY <1>1 DEF IsSymbol
    <3> QED BY <3>2, <3>3 DEF Filed
  <2> QED BY <2>1 DEF Filed
<1> QED BY <1>1, <1>4, <1>5, <1>6 DEF n

LEMMA RunsDiffer ==
  \A x, y \in Shards : \A j, k \in 1..SYMBOLS_PER_SHARD :
    Run[x][j] = Run[y][k] => x = y /\ j = k
<1> SUFFICES ASSUME NEW x \in Shards, NEW y \in Shards,
                    NEW j \in 1..SYMBOLS_PER_SHARD,
                    NEW k \in 1..SYMBOLS_PER_SHARD,
                    Run[x][j] = Run[y][k]
             PROVE  x = y /\ j = k
  OBVIOUS
<1> DEFINE c == [class |-> "symbol", shard |-> x, part |-> j]
           d == [class |-> "symbol", shard |-> y, part |-> k]
<1>1. Run[x][j] = c /\ Run[y][k] = d  BY DEF Run
<1>2. c.shard = x /\ c.part = j /\ d.shard = y /\ d.part = k  OBVIOUS
<1> HIDE DEF c, d
<1> QED BY <1>1, <1>2

(* A run stands right behind a word: nothing but it and the runs of other  *)
(* embeddings is between that word's end and the blank that follows.       *)
Spaced(t) ==
  \A q, r \in 1..Len(t) : q < r /\ IsSymbol(t[q]) /\ ~IsSymbol(t[r]) =>
    \E k \in q..r : IsSpace(t[k])

LEMMA WovenSpaced ==
  ASSUME NEW h \in Hosts, NEW n, NEW ord \in Orders(n),
         NEW ins \in SortedInsertions(h, ord, Run), NEW w, w = Woven(h, ins)
  PROVE  Spaced(w)
<1> DEFINE f == HostAt(h, ins)
           l == Len(w)
           m == Len(h)
<1>1. h \in Seq(Range(h)) /\ m \in Nat /\ NoZeroWidth(h)  BY HostFacts
<1>2. \A j \in 1..TOTAL_SHARDS :
        /\ ins[j].off \in WordEnds(h) /\ ins[j].off \in Nat
        /\ 1 <= ins[j].off /\ ins[j].off <= m
  BY <1>1, InsertionFacts
<1>3. /\ l \in Nat /\ Embeds(f, h, w)
      /\ \A j \in 1..TOTAL_SHARDS, k \in 1..SYMBOLS_PER_SHARD :
           \A i \in 1..m :
             f[i] < RunStart(ins, j) + k <=> i <= ins[j].off
  BY <1>1, WovenParts
<1>4. /\ \A p \in Missing(f, h, w) :
           /\ IsSymbol(w[p])
           /\ \E j \in 1..TOTAL_SHARDS, k \in 1..SYMBOLS_PER_SHARD :
                p = RunStart(ins, j) + k
  BY <1>1, RunsAreRuns, WovenMissing
<1>5. /\ \A p \in 1..l : p \in Missing(f, h, w) \/ \E i \in 1..m : p = f[i]
      /\ \A i \in 1..m : h[i] = w[f[i]] /\ f[i] \in 1..l /\ f[i] \in Nat
      /\ \A i, j \in 1..m : f[i] <= f[j] <=> i <= j
  BY <1>3, EmbedsFacts DEF Missing, Embeds
<1>6. \A i \in 1..m : ~IsZeroWidth(h[i])  BY <1>1 DEF NoZeroWidth
<1> HIDE DEF f, l, m
<1> SUFFICES ASSUME NEW q \in 1..l, NEW r \in 1..l, q < r,
                    IsSymbol(w[q]), ~IsSymbol(w[r])
             PROVE  \E k \in q..r : IsSpace(w[k])
  BY DEF Spaced, l
<1>7. q \in Missing(f, h, w)
  <2> SUFFICES ASSUME q \notin Missing(f, h, w) PROVE FALSE  OBVIOUS
  <2>1. PICK i \in 1..m : q = f[i]  BY <1>5
  <2> QED BY <1>5, <1>6, <2>1, CharKinds
<1>8. PICK j \in 1..TOTAL_SHARDS, k \in 1..SYMBOLS_PER_SHARD :
        q = RunStart(ins, j) + k
  BY <1>4, <1>7
<1>9. PICK i \in 1..m : r = f[i]  BY <1>4, <1>5
<1> DEFINE e == ins[j].off
<1>10. e \in Nat /\ 1 <= e /\ e <= m /\ e \in WordEnds(h)  BY <1>2
<1> HIDE DEF e
<1>11. ~(f[i] < q)  BY <1>3, <1>8, <1>9
<1>12. ~(i <= e)  BY <1>3, <1>8, <1>9, <1>11 DEF e
<1> DEFINE x == e + 1
<1>13. x \in 1..m /\ x <= i /\ e < m /\ ~(x <= e)  BY <1>1, <1>10, <1>12
<1>14. IsSpace(h[x])
  <2>1. IsSep(h[e + 1])  BY <1>10, <1>13 DEF WordEnds, m
  <2> QED BY <1>6, <1>13, <2>1, CharKinds
<1> HIDE DEF x
<1>15. ~(f[x] < q)  BY <1>3, <1>8, <1>13 DEF e
<1>16. f[x] <= r /\ f[x] \in Nat /\ IsSpace(w[f[x]])
  BY <1>5, <1>9, <1>13, <1>14
<1>17. f[x] \in q..r  BY <1>15, <1>16
<1> QED BY <1>16, <1>17

(* What becomes of the marked text as time passes over it. *)
OfRuns(q, ins) ==
  \E j \in 1..TOTAL_SHARDS, k \in 1..SYMBOLS_PER_SHARD :
    q = RunStart(ins, j) + k

Marked(v, w, h, ins) ==
  /\ Len(w) \in Nat /\ w \in Seq(Range(w)) /\ Len(v) = Len(w)
  /\ ShortOf(h, w) /\ Spaced(v)
  /\ \A q \in 1..Len(w) :
       /\ IsZeroWidth(v[q]) => IsSymbol(v[q])
       /\ IsZeroWidth(w[q]) => v[q] = w[q]
       /\ IsSymbol(v[q]) => v[q] = w[q] /\ OfRuns(q, ins)
  /\ \A r : Filed(v, r, Len(v)) = Filed(w, r, Len(w))
  /\ RankBefore(v, Len(v) + 1) = RankBefore(h, Len(h) + 1)

LEMMA WovenAged ==
  ASSUME NEW h \in Hosts, NEW n, NEW ord \in Orders(n),
         NEW ins \in SortedInsertions(h, ord, Run), NEW w, w = Woven(h, ins),
         NEW a \in BOOLEAN, NEW b \in BOOLEAN, NEW v, v = Aged(w, a, b)
  PROVE  Marked(v, w, h, ins)
<1> DEFINE f == HostAt(h, ins)
           l == Len(w)
           m == Len(h)
<1>1. /\ h \in Seq(Range(h)) /\ m \in Nat /\ NoZeroWidth(h)
      /\ \A k \in 1..m : ~IsZeroWidth(h[k])
  BY HostFacts
<1>2. l \in Nat /\ w = [p \in 1..l |-> w[p]]  BY <1>1, WovenParts
<1>3. w \in Seq(Range(w))
  <2>1. w \in [1..l -> Range(w)]  BY <1>2 DEF Range
  <2> QED BY <1>2, <2>1
<1>4. /\ Embeds(f, h, w)
      /\ \A p \in Missing(f, h, w) : IsSymbol(w[p]) /\ OfRuns(p, ins)
  BY <1>1, RunsAreRuns, WovenMissing DEF OfRuns
<1>5. /\ \A p \in 1..l : p \in Missing(f, h, w) \/ \E i \in 1..m : p = f[i]
      /\ \A i \in 1..m : h[i] = w[f[i]] /\ f[i] \in 1..l
  BY <1>4, EmbedsFacts DEF Missing, Embeds
<1>6. Len(v) = l /\ \A k \in 1..l : v[k] = Worn(w[k], a, b)
  BY <1>2, AgedFacts
<1>20. Spaced(w)  BY WovenSpaced
<1> HIDE DEF f, l, m
<1>7. ASSUME NEW k \in 1..l
      PROVE  /\ v[k].class = w[k].class
             /\ IsZeroWidth(v[k]) <=> IsZeroWidth(w[k])
             /\ IsZeroWidth(w[k]) => v[k] = w[k]
  <2>1. v[k] = Worn(w[k], a, b)  BY <1>6
  <2> DEFINE c == w[k]
  <2> HIDE DEF c
  <2>2. /\ Worn(c, a, b).class = c.class
        /\ IsZeroWidth(c) => Worn(c, a, b) = c
    BY WornFacts
  <2>3. v[k].class = w[k].class  BY <2>1, <2>2 DEF c
  <2>4. IsZeroWidth(v[k]) <=> IsZeroWidth(w[k])  BY <2>3 DEF IsZeroWidth
  <2> QED BY <2>1, <2>2, <2>3, <2>4 DEF c
<1>8. /\ \A i \in 1..(l + 1) : RankBefore(v, i) = RankBefore(w, i)
      /\ \A r : Filed(v, r, Len(v)) = Filed(w, r, Len(w))
  <2>1. Len(w) \in Nat /\ Len(v) = Len(w)
        /\ \A k \in 1..Len(w) : v[k].class = w[k].class
    BY <1>2, <1>6, <1>7 DEF l
  <2> QED BY <2>1, SameClasses DEF l
<1>9. \A p \in Missing(f, h, w) : Inert(w, p)  BY <1>4, SymbolsInert
<1>12. ASSUME NEW q \in 1..l, IsZeroWidth(w[q])
       PROVE  q \in Missing(f, h, w) /\ IsSymbol(w[q]) /\ v[q] = w[q]
  <2>1. q \in Missing(f, h, w)
    <3> SUFFICES ASSUME q \notin Missing(f, h, w) PROVE FALSE  OBVIOUS
    <3>1. PICK i \in 1..m : q = f[i]  BY <1>5
    <3> QED BY <1>1, <1>5, <1>12, <3>1
  <2> QED BY <1>4, <1>7, <1>12, <2>1
<1>14. RankBefore(h, m + 1) = RankBefore(w, l + 1)
  <2> DEFINE i == m + 1
             p == l + 1
  <2>1. i \in 1..(Len(h) + 1) /\ p \in 1..(Len(w) + 1)
    BY <1>1, <1>2 DEF m, l
  <2>2. \A j \in 1..Len(h) : f[j] < p <=> j < i
    BY <1>1, <1>2, <1>5 DEF m
  <2> HIDE DEF i, p
  <2>3. RankBefore(h, i) = RankBefore(w, p)
    BY <1>4, <1>9, <2>1, <2>2, RankEmbedded
  <2> QED BY <2>3 DEF i, p
<1>15. RankBefore(v, l + 1) = RankBefore(w, l + 1)
  <2>1. l + 1 \in 1..(l + 1)  BY <1>2
  <2> QED BY <1>8, <2>1
<1>16. ShortOf(h, w)  BY <1>4, CharKinds DEF ShortOf
<1>17. ASSUME NEW q \in 1..l, IsSymbol(v[q])
       PROVE  v[q] = w[q] /\ OfRuns(q, ins)
  <2>1. IsZeroWidth(w[q])  BY <1>7, <1>17, CharKinds
  <2> QED BY <1>4, <1>12, <2>1
<1>18. \A q \in 1..l : IsZeroWidth(v[q]) => IsSymbol(v[q])
  BY <1>7, <1>12
<1>19. Spaced(v)
  <2> SUFFICES ASSUME NEW q \in 1..l, NEW r \in 1..l, q < r,
                      IsSymbol(v[q]), ~IsSymbol(v[r])
               PROVE  \E k \in q..r : IsSpace(v[k])
    BY <1>6 DEF Spaced
  <2>1. IsSymbol(w[q]) /\ ~IsSymbol(w[r])  BY <1>7 DEF IsSymbol
  <2>2. PICK k \in q..r : IsSpace(w[k])  BY <1>20, <2>1 DEF Spaced, l
  <2>3. k \in 1..l  BY <1>2
  <2>4. IsSpace(v[k])  BY <1>7, <2>2, <2>3 DEF IsSpace
  <2> QED BY <2>4
<1> QED BY <1>2, <1>3, <1>6, <1>7, <1>8, <1>14, <1>15, <1>16, <1>17, <1>18,
           <1>19 DEF Marked, l, m

-----------------------------------------------------------------------------
(* What is lost of a text opens no words, and moves no symbol to another   *)
(* word as long as the words are as many.                                  *)

(* To every word of a part there is one of the text, at or before it and   *)
(* with no blank between.                                                  *)
LEMMA OpenerBefore ==
  ASSUME NEW t, Len(t) \in Nat, NEW q \in 1..Len(t),
         ~IsSymbol(t[q]), ~IsSpace(t[q])
  PROVE  \E o \in Openers(t) : o <= q /\ \A x \in o..q : ~IsSpace(t[x])
<1> DEFINE n == Len(t)
           M == {x \in 1..q : /\ ~IsSymbol(t[x])
                              /\ \A y \in x..q : ~IsSpace(t[y])}
<1>1. n \in Nat /\ q \in Nat /\ q \in 1..n  OBVIOUS
<1>2. q \in M
  <2>1. \A y \in q..q : y = q  BY <1>1
  <2> QED BY <1>1, <2>1
<1>3. M \in SUBSET Nat  BY <1>1
<1>4. \A x \in M : /\ x \in 1..q /\ ~IsSymbol(t[x])
                   /\ \A y \in x..q : ~IsSpace(t[y])
  OBVIOUS
<1>5. \A x \in 1..q : ~IsSymbol(t[x]) /\ (\A y \in x..q : ~IsSpace(t[y]))
        => x \in M
  OBVIOUS
<1> HIDE DEF M, n
<1>6. PICK o \in M : \A x \in M : o <= x  BY <1>2, <1>3, LeastNumber
<1>7. o \in 1..n /\ o \in Nat /\ o <= q  BY <1>1, <1>4
<1>8. ~IsSymbol(t[o]) /\ ~IsSpace(t[o])
  <2>1. o \in o..q  BY <1>7
  <2> QED BY <1>4, <2>1
<1>9. ASSUME NEW j \in 1..(o - 1), \A k \in j..(o - 1) : ~IsSpace(t[k])
      PROVE  IsSymbol(t[j])
  <2> SUFFICES ASSUME ~IsSymbol(t[j]) PROVE FALSE  OBVIOUS
  <2>1. j \in 1..q /\ j \in Nat /\ j < o  BY <1>1, <1>7
  <2>2. ASSUME NEW y \in j..q PROVE ~IsSpace(t[y])
    <3>1. y \in j..(o - 1) \/ y \in o..q  BY <1>1, <1>7, <2>1
    <3> QED BY <1>4, <1>9, <3>1
  <2>3. j \in M  BY <1>5, <2>1, <2>2
  <2> QED BY <1>6, <1>7, <2>1, <2>3
<1>10. OpensWord(t, o)
  <2>1. Len(t) \in Nat /\ o \in 1..Len(t)  BY <1>1, <1>7 DEF n
  <2> QED BY <1>8, <1>9, <2>1, OpensIs
<1>11. o \in Openers(t)  BY <1>7, <1>10 DEF Openers, n
<1> QED BY <1>4, <1>7, <1>11

(* Where the words of a part were opened in the text. *)
Opening(f, g, u, v) ==
  /\ f \in [Openers(u) -> Openers(v)]
  /\ \A j \in Openers(u) : f[j] <= g[j] /\ \A x \in f[j]..g[j] : ~IsSpace(v[x])
  /\ \A j, k \in Openers(u) : f[j] = f[k] => j = k

LEMMA OpeningExists ==
  ASSUME NEW g, NEW u, NEW v, Embeds(g, u, v)
  PROVE  \E f : Opening(f, g, u, v)
<1>1. /\ Len(u) \in Nat /\ Len(v) \in Nat
      /\ \A i \in 1..Len(u) : g[i] \in 1..Len(v) /\ g[i] \in Nat /\ u[i] = v[g[i]]
      /\ \A i, j \in 1..Len(u) : g[i] < g[j] <=> i < j
      /\ \A i, j \in 1..Len(u) : g[i] <= g[j] <=> i <= j
  BY EmbedsFacts DEF Embeds
<1>2. \A j \in Openers(u) :
        j \in 1..Len(u) /\ ~IsSymbol(u[j]) /\ ~IsSpace(u[j])
        /\ \A i \in 1..(j - 1) :
             (\A k \in i..(j - 1) : ~IsSpace(u[k])) => IsSymbol(u[i])
  BY <1>1, OpensIs DEF Openers
<1> DEFINE Fits(j, o) ==
             o \in Openers(v) /\ o <= g[j] /\ \A x \in o..g[j] : ~IsSpace(v[x])
           f == [j \in Openers(u) |-> CHOOSE o : Fits(j, o)]
<1>3. ASSUME NEW j \in Openers(u) PROVE Fits(j, f[j])
  <2>1. \E o : Fits(j, o)
    <3>1. /\ g[j] \in 1..Len(v) /\ ~IsSymbol(v[g[j]]) /\ ~IsSpace(v[g[j]])
      BY <1>1, <1>2
    <3> QED BY <1>1, <3>1, OpenerBefore
  <2> HIDE DEF Fits
  <2> QED BY <2>1
<1>4. f \in [Openers(u) -> Openers(v)]  BY <1>3
<1>5. \A j \in Openers(u) :
        f[j] <= g[j] /\ \A x \in f[j]..g[j] : ~IsSpace(v[x])
  BY <1>3
<1>6. \A j \in Openers(u) : f[j] \in 1..Len(v)  BY <1>4 DEF Openers
<1> HIDE DEF f
<1>7. ASSUME NEW j \in Openers(u), NEW k \in Openers(u), f[j] = f[k], j < k
      PROVE  FALSE
  <2>1. j \in 1..(k - 1) /\ j \in 1..Len(u) /\ k \in 1..Len(u)  BY <1>1, <1>2, <1>7
  <2>2. ASSUME NEW i \in j..(k - 1) PROVE ~IsSpace(u[i])
    <3>1. i \in 1..Len(u) /\ j <= i /\ i <= k  BY <1>1, <2>1
    <3>2. g[j] <= g[i] /\ g[i] <= g[k]  BY <1>1, <2>1, <3>1
    <3>3. f[k] <= g[j] /\ f[k] \in Nat  BY <1>5, <1>6, <1>7
    <3>4. g[i] \in f[k]..g[k]  BY <1>1, <2>1, <3>1, <3>2, <3>3
    <3> QED BY <1>1, <1>5, <3>1, <3>4
  <2> QED BY <1>2, <2>1, <2>2
<1>8. ASSUME NEW j \in Openers(u), NEW k \in Openers(u), f[j] = f[k]
      PROVE  j = k
  <2>1. j \in Nat /\ k \in Nat  BY <1>1, <1>2
  <2> QED BY <1>7, <1>8, <2>1
<1> QED BY <1>4, <1>5, <1>8 DEF Opening

LEMMA OpenersFinite ==
  ASSUME NEW t, Len(t) \in Nat
  PROVE  /\ IsFiniteSet(Openers(t)) /\ Cardinality(Openers(t)) \in Nat
         /\ RankBefore(t, Len(t) + 1) = Cardinality(Openers(t))
<1> DEFINE n == Len(t)
           O == Openers(t)
<1>1. n \in Nat /\ O \in SUBSET (1..n)  BY DEF Openers
<1>2. IsFiniteSet(O) /\ Cardinality(O) \in Nat
  <2> HIDE DEF O, n
  <2> QED BY <1>1, PositionsFinite
<1>3. (n + 1) - 1 = n  BY <1>1
<1>4. RankBefore(t, n + 1) = Cardinality(O)  BY <1>3 DEF RankBefore, Openers
<1> QED BY <1>2, <1>4

LEMMA WordsFall ==
  ASSUME NEW g, NEW u, NEW v, Embeds(g, u, v)
  PROVE  Cardinality(Openers(u)) <= Cardinality(Openers(v))
<1>1. PICK f : Opening(f, g, u, v)  BY OpeningExists
<1>2. IsFiniteSet(Openers(v))  BY OpenersFinite DEF Embeds
<1> QED BY <1>1, <1>2, NoLarger DEF Opening

LEMMA RanksKept ==
  ASSUME NEW g, NEW u, NEW v, Embeds(g, u, v), Spaced(v),
         Cardinality(Openers(u)) = Cardinality(Openers(v)),
         NEW i \in 1..Len(u), IsSymbol(u[i])
  PROVE  RankBefore(u, i) = RankBefore(v, g[i])
<1>1. /\ Len(u) \in Nat /\ Len(v) \in Nat
      /\ \A k \in 1..Len(u) : g[k] \in 1..Len(v) /\ g[k] \in Nat /\ u[k] = v[g[k]]
      /\ \A k, j \in 1..Len(u) : g[k] < g[j] <=> k < j
  BY EmbedsFacts DEF Embeds
<1>2. PICK f : Opening(f, g, u, v)  BY OpeningExists
<1>3. /\ f \in [Openers(u) -> Openers(v)]
      /\ \A j \in Openers(u) :
           f[j] <= g[j] /\ \A x \in f[j]..g[j] : ~IsSpace(v[x])
      /\ \A j, k \in Openers(u) : f[j] = f[k] => j = k
  BY <1>2 DEF Opening
<1>4. IsFiniteSet(Openers(u)) /\ IsFiniteSet(Openers(v))
  BY <1>1, OpenersFinite
<1>5. \A o \in Openers(v) : \E j \in Openers(u) : f[j] = o
  BY <1>3, <1>4, NoLarger
<1>6. /\ \A j \in Openers(u) : j \in 1..Len(u) /\ ~IsSymbol(u[j])
      /\ \A j \in Openers(v) : j \in 1..Len(v)
  BY DEF Openers, OpensWord
<1> DEFINE q == g[i]
           A == {j \in 1..(i - 1) : OpensWord(u, j)}
           B == {j \in 1..(q - 1) : OpensWord(v, j)}
           h == [j \in A |-> f[j]]
<1>7. q \in 1..Len(v) /\ i \in Nat /\ q \in Nat /\ IsSymbol(v[q])  BY <1>1
<1>8. /\ A \subseteq Openers(u) /\ B \subseteq Openers(v)
      /\ \A j \in Openers(u) : j \in A <=> j < i
      /\ \A j \in Openers(v) : j \in B <=> j < q
  BY <1>1, <1>7 DEF Openers
<1> HIDE DEF A, B, q
<1>9. ASSUME NEW j \in Openers(u) PROVE j < i <=> f[j] < q
  <2>1. j \in 1..Len(u) /\ f[j] \in 1..Len(v) /\ f[j] <= g[j] /\ g[j] \in Nat
        /\ f[j] \in Nat /\ j \in Nat
    BY <1>1, <1>3, <1>6
  <2>2. j # i  BY <1>6
  <2>3. CASE j < i
    <3>1. g[j] < q  BY <1>1, <2>1, <2>3 DEF q
    <3> QED BY <1>7, <2>1, <2>3, <3>1
  <2>4. CASE i < j
    <3>1. q < g[j]  BY <1>1, <2>1, <2>4 DEF q
    <3>2. ~IsSymbol(v[g[j]]) /\ g[j] \in 1..Len(v)  BY <1>1, <1>6, <2>1
    <3>3. PICK x \in q..g[j] : IsSpace(v[x])  BY <1>7, <3>1, <3>2 DEF Spaced
    <3>4. x \notin f[j]..g[j]  BY <1>3, <3>3
    <3>5. ~(f[j] < q)  BY <1>7, <2>1, <3>4
    <3> QED BY <1>7, <2>1, <2>4, <3>5
  <2> QED BY <1>7, <2>1, <2>2, <2>3, <2>4
<1>10. h \in [A -> B]
  <2>1. ASSUME NEW j \in A PROVE f[j] \in B
    <3>1. j \in Openers(u) /\ j < i /\ f[j] \in Openers(v)  BY <1>3, <1>8
    <3> QED BY <1>8, <1>9, <3>1
  <2> QED BY <2>1
<1>11. \A x, y \in A : h[x] = h[y] => x = y  BY <1>3, <1>8
<1>12. \A o \in B : \E j \in A : h[j] = o
  <2> SUFFICES ASSUME NEW o \in B PROVE \E j \in A : h[j] = o  OBVIOUS
  <2>1. o \in Openers(v) /\ o < q  BY <1>8
  <2>2. PICK j \in Openers(u) : f[j] = o  BY <1>5, <2>1
  <2>3. j \in A  BY <1>8, <1>9, <2>1, <2>2
  <2> QED BY <2>2, <2>3
<1>13. IsFiniteSet(A)  BY <1>4, <1>8, FS_Subset
<1> HIDE DEF h
<1>14. Cardinality(B) = Cardinality(A)  BY <1>10, <1>11, <1>12, <1>13, SameSize
<1> QED BY <1>14 DEF A, B, RankBefore, q

(* The gaps that extract counts are the words that read_runs counts, when  *)
(* nothing but symbols is without width.                                   *)
LEMMA GapsAre ==
  ASSUME NEW t, t \in Seq(Range(t)),
         \A k \in 1..Len(t) : IsZeroWidth(t[k]) => IsSymbol(t[k])
  PROVE  Gaps(t) = Cardinality(Openers(t))
<1>1. Len(t) \in Nat  OBVIOUS
<1>2. ~HasGhostWord(t)
  <2> SUFFICES ASSUME NEW i \in 1..Len(t), OpensWord(t, i),
                      \A k \in i..Len(t) : (\A j \in i..k : ~IsSpace(t[j]))
                                         => IsZeroWidth(t[k])
               PROVE  FALSE
    BY DEF HasGhostWord
  <2>1. i \in i..Len(t) /\ \A j \in i..i : j = i  BY <1>1
  <2>2. ~IsSpace(t[i]) /\ ~IsSymbol(t[i])  BY DEF OpensWord
  <2>3. IsZeroWidth(t[i])  BY <2>1, <2>2
  <2> QED BY <2>2, <2>3
<1>3. RankBefore(t, Len(t) + 1) = Cardinality(WordEnds(Strip(t)))
  BY <1>2, CountUnlessGhost
<1> QED BY <1>1, <1>3, OpenersFinite DEF Gaps

(* On its way a watermark has no more gaps than its host. *)
LEMMA GapsOfPart ==
  ASSUME NEW h \in Hosts, NEW ins, NEW w, NEW v, Marked(v, w, h, ins),
         NEW u, NEW g, Embeds(g, u, v), u \in Seq(Range(u))
  PROVE  /\ Gaps(u) = Cardinality(Openers(u))
         /\ Gaps(h) = Cardinality(Openers(v)) /\ Gaps(u) <= Gaps(h)
         /\ \A k \in 1..Len(u) : IsZeroWidth(u[k]) => IsSymbol(u[k])
<1>1. /\ Len(v) \in Nat /\ Len(v) = Len(w)
      /\ \A q \in 1..Len(v) : IsZeroWidth(v[q]) => IsSymbol(v[q])
      /\ RankBefore(v, Len(v) + 1) = RankBefore(h, Len(h) + 1)
  BY DEF Marked
<1>2. \A k \in 1..Len(u) : g[k] \in 1..Len(v) /\ u[k] = v[g[k]]
  BY DEF Embeds
<1>3. \A k \in 1..Len(u) : IsZeroWidth(u[k]) => IsSymbol(u[k])
  BY <1>1, <1>2
<1>4. Gaps(u) = Cardinality(Openers(u))  BY <1>3, GapsAre
<1>5. h \in Seq(Range(h)) /\ Len(h) \in Nat
      /\ \A k \in 1..Len(h) : ~IsZeroWidth(h[k])
  BY HostFacts
<1>6. Gaps(h) = Cardinality(Openers(h))  BY <1>5, GapsAre
<1>7. Cardinality(Openers(h)) = Cardinality(Openers(v))
  BY <1>1, <1>5, OpenersFinite
<1>8. Cardinality(Openers(u)) <= Cardinality(Openers(v))  BY WordsFall
<1> QED BY <1>3, <1>4, <1>6, <1>7, <1>8

(* The symbols of shard x are all there. *)
There(t, x) ==
  \A k \in 1..SYMBOLS_PER_SHARD : \E p \in 1..Len(t) : t[p] = Run[x][k]

(* A run is read whole, and is then the run that was woven in, when all    *)
(* its symbols are there.                                                  *)
LEMMA ShardsLeft ==
  ASSUME NEW h \in Hosts, NEW n, NEW ord \in Orders(n),
         NEW ins \in SortedInsertions(h, ord, Run),
         NEW a \in BOOLEAN, NEW b \in BOOLEAN, NEW u,
         PartOf(u, Aged(Woven(h, ins), a, b)), Gaps(u) = Gaps(h),
         NEW x \in Shards, NEW read, read = At(u, Filed(u, ord[x], Len(u)))
  PROVE  /\ Len(read) = SYMBOLS_PER_SHARD <=> There(u, x)
         /\ There(u, x) => read = Run[x]
<1> DEFINE w == Woven(h, ins)
           v == Aged(w, a, b)
           Z == SYMBOLS_PER_SHARD
           P == Filed(u, ord[x], Len(u))
<1>1. PICK g : Embeds(g, u, v)  BY DEF PartOf
<1> DEFINE Q == {g[i] : i \in P}
<1>0. Marked(v, w, h, ins)
  <2> DEFINE vv == v
             ww == w
  <2>1. ww = Woven(h, ins) /\ vv = Aged(ww, a, b)  OBVIOUS
  <2> HIDE DEF vv, ww
  <2>2. Marked(vv, ww, h, ins)  BY <2>1, WovenAged
  <2> QED BY <2>2 DEF vv, ww
<1>2. /\ Len(w) \in Nat /\ w \in Seq(Range(w)) /\ Len(v) = Len(w)
      /\ \A q \in 1..Len(w) :
           /\ IsZeroWidth(w[q]) => v[q] = w[q]
           /\ IsSymbol(v[q]) =>
                /\ v[q] = w[q]
                /\ \E j \in 1..TOTAL_SHARDS, k \in 1..Z :
                     q = RunStart(ins, j) + k
      /\ \A r : Filed(v, r, Len(v)) = Filed(w, r, Len(w))
      /\ Spaced(v)
  <2> HIDE DEF w, v
  <2> QED BY <1>0 DEF Marked, OfRuns
<1>22. u \in Seq(Range(u))  BY DEF PartOf
<1>23. Cardinality(Openers(u)) = Cardinality(Openers(v))
  <2> HIDE DEF w, v
  <2> QED BY <1>0, <1>1, <1>22, GapsOfPart
<1>3. h \in Seq(Range(h)) /\ NoZeroWidth(h)  BY HostFacts
<1>4. /\ DOMAIN Run = Shards
      /\ \A s \in Shards :
           /\ Run[s] \in Seq(Symbol) /\ Len(Run[s]) = Z
           /\ \A k \in 1..Z : IsSymbol(Run[s][k])
  BY RunsAreRuns DEF SymbolRuns
<1>5. \A r \in Range(Run) : \A k \in 1..Z : IsSymbol(r[k])
  BY RunsAreRuns, AreSymbols
<1>6. PICK j \in 1..TOTAL_SHARDS :
         /\ Filed(w, ord[x], Len(w)) = RunPlaces(ins, j)
         /\ ins[j].run = Run[x]
  BY <1>3, <1>5, WovenRuns
<1>7. /\ RunPlaces(ins, j) \in SUBSET (1..Len(w))
      /\ IsFiniteSet(RunPlaces(ins, j))
      /\ Cardinality(RunPlaces(ins, j)) = Z
      /\ At(w, RunPlaces(ins, j)) = [k \in 1..Z |-> ins[j].run[k]]
  BY <1>3, RunPlacesFacts
<1>20. /\ \A i \in 1..TOTAL_SHARDS : ins[i].run \in Range(Run)
       /\ \A i \in 1..TOTAL_SHARDS, k \in 1..Z :
            w[RunStart(ins, i) + k] = ins[i].run[k]
  BY <1>3, InsertionFacts, WovenParts
<1>21. \A i \in 1..TOTAL_SHARDS : ins[i].run = Run[x] => i = j
  <2> SUFFICES ASSUME NEW i \in 1..TOTAL_SHARDS, ins[i].run = Run[x]
               PROVE  i = j
    OBVIOUS
  <2>1. ins \in [1..TOTAL_SHARDS -> Insertions(h, ord, Run)]
    BY DEF SortedInsertions
  <2>2. ins[i] \in Insertions(h, ord, Run) /\ ins[j] \in Insertions(h, ord, Run)
    BY <2>1
  <2>3. PICK s \in Shards : GapRank(h, ins[i].off) = ord[s] /\ ins[i].run = Run[s]
    BY <2>2 DEF Insertions
  <2>4. PICK y \in Shards : GapRank(h, ins[j].off) = ord[y] /\ ins[j].run = Run[y]
    BY <2>2 DEF Insertions
  <2>5. 1 \in 1..Z  BY ShardArithmetic
  <2>6. Run[s][1] = Run[x][1] /\ Run[y][1] = Run[x][1]  BY <1>6, <2>3, <2>4
  <2>7. s = x /\ y = x  BY <2>5, <2>6, RunsDiffer
  <2> QED BY <1>3, <2>3, <2>4, <2>7, ShardRuns
<1> HIDE DEF w, v, Z
<1>8. /\ Len(u) \in Nat
      /\ \A i \in 1..Len(u) : g[i] \in 1..Len(v) /\ u[i] = v[g[i]]
      /\ \A i, k \in 1..Len(u) : g[i] = g[k] <=> i = k
  <2>1. /\ Len(u) \in Nat
        /\ \A i \in 1..Len(u) : g[i] \in 1..Len(v) /\ u[i] = v[g[i]]
    BY <1>1 DEF Embeds
  <2>2. \A i, k \in 1..Len(u) : g[i] = g[k] <=> i = k
    BY <1>1, EmbedsFacts
  <2> QED BY <2>1, <2>2
<1>9. /\ P \in SUBSET (1..Len(u))
      /\ \A i \in 1..Len(u) : i \in P <=> g[i] \in RunPlaces(ins, j)
  <2>1. P \in SUBSET (1..Len(u))  BY DEF Filed
  <2>2. ASSUME NEW i \in 1..Len(u)
        PROVE  i \in P <=> g[i] \in Filed(v, ord[x], Len(v))
    <3>1. g[i] \in 1..Len(v) /\ u[i] = v[g[i]]  BY <1>8
    <3>2. IsSymbol(u[i]) => RankBefore(u, i) = RankBefore(v, g[i])
      BY <1>1, <1>2, <1>23, RanksKept
    <3> QED BY <3>1, <3>2 DEF Filed
  <2> QED BY <1>2, <1>6, <2>1, <2>2
<1> HIDE DEF P
<1>10. Cardinality(Q) = Cardinality(P) /\ At(v, Q) = At(u, P)
  BY <1>1, <1>9, EmbeddedAt
<1>11. Q \subseteq RunPlaces(ins, j)  BY <1>9
<1>12. /\ IsFiniteSet(Q) /\ Cardinality(Q) <= Z
       /\ Cardinality(Q) = Z <=> Q = RunPlaces(ins, j)
  BY <1>7, <1>11, FS_Subset
<1>13. Cardinality(P) \in Nat  BY <1>10, <1>12, FS_CardinalityType
<1>14. Len(read) = Cardinality(P)  BY <1>13, AtLength DEF P
<1>15. ASSUME NEW q \in RunPlaces(ins, j)
       PROVE  /\ q \in 1..Len(w) /\ v[q] = w[q] /\ IsSymbol(w[q])
  <2>1. PICK k \in 1..Z : q = RunStart(ins, j) + k  BY DEF RunPlaces, Z
  <2>2. w[RunStart(ins, j) + k] = Run[x][k]  BY <1>6, <1>20
  <2>3. IsSymbol(w[q])  BY <1>4, <2>1, <2>2
  <2> QED BY <1>2, <1>7, <2>3, CharKinds
<1>16. Q = RunPlaces(ins, j) => read = Run[x]
  <2> SUFFICES ASSUME Q = RunPlaces(ins, j) PROVE read = Run[x]  OBVIOUS
  <2>1. read = At(v, RunPlaces(ins, j))  BY <1>10 DEF P
  <2>2. At(v, RunPlaces(ins, j)) = At(w, RunPlaces(ins, j))
    BY <1>2, <1>7, <1>15, AtSame
  <2>3. At(w, RunPlaces(ins, j)) = [k \in 1..Z |-> Run[x][k]]  BY <1>6, <1>7
  <2>4. Run[x] = [k \in 1..Z |-> Run[x][k]]  BY <1>4
  <2> QED BY <2>1, <2>2, <2>3, <2>4
<1>17. Q = RunPlaces(ins, j) => There(u, x)
  <2> SUFFICES ASSUME Q = RunPlaces(ins, j), NEW k \in 1..Z
               PROVE  \E p \in 1..Len(u) : u[p] = Run[x][k]
    BY DEF There, Z
  <2>1. RunStart(ins, j) + k \in Q  BY DEF RunPlaces, Z
  <2>2. PICK i \in P : g[i] = RunStart(ins, j) + k  BY <2>1
  <2>3. u[i] = v[RunStart(ins, j) + k] /\ i \in 1..Len(u)  BY <1>8, <1>9, <2>2
  <2>4. RunStart(ins, j) + k \in RunPlaces(ins, j)  BY DEF RunPlaces, Z
  <2>5. v[RunStart(ins, j) + k] = w[RunStart(ins, j) + k]  BY <1>15, <2>4
  <2>6. w[RunStart(ins, j) + k] = Run[x][k]  BY <1>6, <1>20
  <2> QED BY <2>3, <2>5, <2>6
<1>18. There(u, x) => Q = RunPlaces(ins, j)
  <2> SUFFICES ASSUME There(u, x), NEW q \in RunPlaces(ins, j) PROVE q \in Q
    BY <1>11
  <2>1. PICK k \in 1..Z : q = RunStart(ins, j) + k  BY DEF RunPlaces, Z
  <2>2. PICK p \in 1..Len(u) : u[p] = Run[x][k]  BY DEF There, Z
  <2>3. g[p] \in 1..Len(w) /\ v[g[p]] = Run[x][k] /\ IsSymbol(v[g[p]])
    BY <1>2, <1>4, <1>8, <2>2
  <2>4. PICK i \in 1..TOTAL_SHARDS, m \in 1..Z : g[p] = RunStart(ins, i) + m
    BY <1>2, <2>3
  <2>5. w[g[p]] = Run[x][k]  BY <1>2, <2>3
  <2>6. ins[i].run[m] = Run[x][k]  BY <1>20, <2>4, <2>5
  <2>7. PICK s \in Shards : ins[i].run = Run[s]  BY <1>4, <1>20 DEF Range
  <2>8. s = x /\ m = k  BY <2>6, <2>7, RunsDiffer DEF Z
  <2>9. i = j  BY <1>21, <2>7, <2>8
  <2>10. g[p] = q  BY <2>1, <2>4, <2>8, <2>9
  <2>11. p \in P  BY <1>9, <2>10
  <2> QED BY <2>10, <2>11
<1> QED BY <1>10, <1>12, <1>14, <1>16, <1>17, <1>18 DEF Z

-----------------------------------------------------------------------------
(* What can be seen of a text on its way, and what it was bound to. *)

Seen(t) == {k \in 1..Len(t) : ~IsCarrierCp(t[k])}

LEMMA VisibleGrows ==
  ASSUME NEW g, NEW s, NEW t, Embeds(g, s, t)
  PROVE  /\ Len(Visible(s)) \in Nat /\ Len(Visible(t)) \in Nat
         /\ Len(Visible(s)) <= Len(Visible(t))
         /\ Len(Visible(s)) = Len(Visible(t)) => Visible(s) = Visible(t)
<1> DEFINE P == Seen(s)
           Q == {g[i] : i \in P}
           T == Seen(t)
<1>1. /\ Len(s) \in Nat /\ Len(t) \in Nat
      /\ \A i \in 1..Len(s) : g[i] \in 1..Len(t) /\ s[i] = t[g[i]]
  BY DEF Embeds
<1>2. P \in SUBSET (1..Len(s)) /\ T \in SUBSET (1..Len(t))  BY DEF Seen
<1>3. \A i \in P : g[i] \in T  BY <1>1 DEF Seen
<1>4. Q \in SUBSET T  BY <1>3
<1>5. Visible(s) = At(s, P) /\ Visible(t) = At(t, T)  BY DEF Visible, Seen
<1> HIDE DEF P, T
<1>6. Cardinality(Q) = Cardinality(P) /\ At(t, Q) = At(s, P)
  BY <1>2, EmbeddedAt
<1>7. /\ Cardinality(P) \in Nat
      /\ IsFiniteSet(T) /\ Cardinality(T) \in Nat
  BY <1>1, <1>2, PositionsFinite
<1>8. /\ Cardinality(Q) <= Cardinality(T)
      /\ Cardinality(T) = Cardinality(Q) => T = Q
  BY <1>4, <1>7, FS_Subset
<1>9. Len(At(s, P)) = Cardinality(P) /\ Len(At(t, T)) = Cardinality(T)
  BY <1>7, AtLength
<1> QED BY <1>5, <1>6, <1>7, <1>8, <1>9

LEMMA VisibleCarried ==
  ASSUME NEW s, NEW t, Carries(t, s)
  PROVE  Visible(s) = Visible(t)
<1>1. PICK g : /\ Embeds(g, s, t)
               /\ \A q \in Missing(g, s, t) : IsCarrierCp(t[q])
  BY DEF Carries
<1> DEFINE P == Seen(s)
           Q == {g[i] : i \in P}
<1>2. \A i \in 1..Len(s) : g[i] \in 1..Len(t) /\ s[i] = t[g[i]]
  BY <1>1 DEF Embeds
<1>3. P \in SUBSET (1..Len(s))  BY DEF Seen
<1>4. ASSUME NEW q \in Seen(t) PROVE q \in Q
  <2>1. q \in 1..Len(t) /\ ~IsCarrierCp(t[q])  BY DEF Seen
  <2>2. PICK i \in 1..Len(s) : g[i] = q  BY <1>1, <2>1 DEF Missing
  <2>3. i \in P  BY <1>2, <2>1, <2>2 DEF Seen
  <2> QED BY <2>2, <2>3
<1>5. \A i \in P : g[i] \in Seen(t)  BY <1>2 DEF Seen
<1>6. Q = Seen(t)  BY <1>4, <1>5
<1> HIDE DEF P
<1>7. At(t, Q) = At(s, P)  BY <1>1, <1>3, EmbeddedAt
<1> QED BY <1>6, <1>7 DEF Visible, Seen, P
LEMMA VisibleAged ==
  ASSUME NEW t, Len(t) \in Nat, NEW p \in BOOLEAN, NEW e \in BOOLEAN
  PROVE  Visible(Aged(t, p, e)) = Aged(Visible(t), p, e)
<1> DEFINE u == Aged(t, p, e)
           S == Seen(t)
           m == Cardinality(S)
<1>1. Len(u) = Len(t) /\ \A k \in 1..Len(t) : u[k] = Worn(t[k], p, e)
  BY AgedFacts
<1>2. S \in SUBSET (1..Len(t))  BY DEF Seen
<1> HIDE DEF u
<1>3. \A k \in 1..Len(t) : IsCarrierCp(u[k]) <=> IsCarrierCp(t[k])
  <2> TAKE k \in 1..Len(t)
  <2>1. u[k] = Worn(t[k], p, e)  BY <1>1
  <2>2. IsCarrierCp(Worn(t[k], p, e)) <=> IsCarrierCp(t[k])  BY WornFacts
  <2> QED BY <2>1, <2>2
<1>4. Seen(u) = S  BY <1>1, <1>3 DEF Seen
<1> HIDE DEF S
<1>5. m \in Nat /\ Len(At(t, S)) = m  BY <1>2, AtEmbeds
<1>6. \A k \in 1..m : Nth(S, k) \in 1..Len(t)  BY <1>2, NthLists
<1>7. At(u, S) = [k \in 1..m |-> Worn(t[Nth(S, k)], p, e)]
  BY <1>1, <1>6 DEF At
<1>8. \A k \in 1..m : At(t, S)[k] = t[Nth(S, k)]  BY DEF At
<1>9. Aged(At(t, S), p, e) = [k \in 1..m |-> Worn(t[Nth(S, k)], p, e)]
  <2> HIDE DEF m
  <2> QED BY <1>5, <1>8 DEF Aged
<1> QED BY <1>4, <1>7, <1>9 DEF Visible, Seen, u, S

LEMMA VisibleWhole ==
  ASSUME NEW t, t \in Seq(Range(t))
  PROVE  /\ CarrierFree(t) => Visible(t) = t
         /\ Len(Visible(t)) = Len(t) => CarrierFree(t)
<1> DEFINE n == Len(t)
           S == Seen(t)
<1>1. n \in Nat /\ S \in SUBSET (1..n)  BY DEF Seen
<1>2. IsFiniteSet(1..n) /\ Cardinality(1..n) = n
  <2>1. \A m \in Nat : IsFiniteSet(1..m) /\ Cardinality(1..m) = m
    BY FS_Interval
  <2> QED BY <1>1, <2>1
<1>3. CarrierFree(t) <=> S = 1..n  BY DEF CarrierFree, Seen
<1>4. S = 1..n => At(t, S) = t  BY AtAll
<1>5. Len(At(t, S)) = Cardinality(S)  BY <1>1, AtEmbeds
<1>6. Cardinality(S) = n => S = 1..n
  <2> DEFINE N == 1..n
  <2> HIDE DEF S, n
  <2>1. S \subseteq N /\ IsFiniteSet(N) /\ Cardinality(N) = n  BY <1>1, <1>2
  <2> HIDE DEF N
  <2>2. Cardinality(S) = Cardinality(N) => S = N  BY <2>1, FS_Subset
  <2> QED BY <2>1, <2>2 DEF N
<1> QED BY <1>3, <1>4, <1>5, <1>6 DEF Visible, Seen

(* What Init chooses. *)
Sending(s) ==
  /\ s.method \in Methods /\ s.host \in Hosts
  /\ s.payload \in IF s.method \in {"tag", "zwbin"} THEN Payloads ELSE {<< >>}
  /\ s.method = "zwc" =>
       /\ Cardinality(WordEnds(s.host)) >= TOTAL_SHARDS
       /\ s.order \in Orders(Cardinality(WordEnds(s.host)))
  /\ s.out \in Embeddings(s.method, s.host, s.payload, s.order)

LEMMA SentFacts ==
  ASSUME NEW s, Sending(s)
  PROVE  /\ s.payload \in Seq(0..3)
         /\ s.method \in {"tag", "zwbin", "zwc", "simhash"}
         /\ s.method = "tag" =>
              /\ s.out = s.host \o Tag!Encode(s.payload)
              /\ IsCode(Tag!Encode(s.payload), "punct", 16, 195, s.payload)
         /\ s.method = "zwbin" =>
              /\ s.out = s.host \o Zwbin!Encode(s.payload)
              /\ IsCode(Zwbin!Encode(s.payload), "symbol", 2, 2, s.payload)
         /\ s.method = "zwc" =>
              \E ins \in SortedInsertions(s.host, s.order, Run) :
                s.out = Woven(s.host, ins)
         /\ s.method = "simhash" => s.out = s.host
         /\ s.method = "zwc" => ShortOf(s.host, s.out)
         /\ Carries(s.out, s.host)
         /\ s.out \in Seq(Range(s.out)) /\ Len(s.out) \in Nat
<1>1. s.payload \in Seq(0..3)
  <2>1. << >> \in Seq(0..3)  OBVIOUS
  <2> QED BY <2>1, PayloadsAssumption DEF Sending
<1>2. s.method \in {"tag", "zwbin", "zwc", "simhash"}
  BY MethodsAssumption DEF Sending
<1>3. s.host \in Hosts /\ s.out \in Embeddings(s.method, s.host, s.payload, s.order)
  BY DEF Sending
<1>4. CASE s.method = "tag"
  <2> DEFINE c == Tag!Encode(s.payload)
  <2>1. s.out = s.host \o c  BY <1>3, <1>4 DEF Embeddings, Tag!Embed
  <2>2. IsCode(c, "punct", 16, 195, s.payload)  BY <1>1, TagCode
  <2>3. <<"punct", 16>> \in Alphabets  BY DEF Alphabets
  <2> HIDE DEF c
  <2>4. /\ Carries(s.out, s.host)
        /\ s.out \in Seq(Range(s.out)) /\ Len(s.out) \in Nat
    BY <1>1, <1>3, <2>1, <2>2, <2>3, BehindFacts
  <2> QED BY <1>1, <1>4, <2>1, <2>2, <2>4 DEF c
<1>5. CASE s.method = "zwbin"
  <2> DEFINE c == Zwbin!Encode(s.payload)
  <2>1. s.out = s.host \o c  BY <1>3, <1>5 DEF Embeddings, Zwbin!Embed
  <2>2. IsCode(c, "symbol", 2, 2, s.payload)  BY <1>1, ZwbinCode
  <2>3. <<"symbol", 2>> \in Alphabets  BY DEF Alphabets
  <2> HIDE DEF c
  <2>4. /\ Carries(s.out, s.host)
        /\ s.out \in Seq(Range(s.out)) /\ Len(s.out) \in Nat
    BY <1>1, <1>3, <2>1, <2>2, <2>3, BehindFacts
  <2> QED BY <1>1, <1>5, <2>1, <2>2, <2>4 DEF c
<1>6. CASE s.method = "zwc"
  <2>1. PICK ins \in SortedInsertions(s.host, s.order, Run) :
          s.out = Woven(s.host, ins)
    BY <1>3, <1>6 DEF Embeddings
  <2> DEFINE h == s.host
             ord == s.order
             w == s.out
             n == Cardinality(WordEnds(h))
             v == Aged(w, FALSE, FALSE)
  <2>2. ord \in Orders(n)  BY <1>6 DEF Sending
  <2>3. h \in Hosts /\ ins \in SortedInsertions(h, ord, Run) /\ w = Woven(h, ins)
    BY <1>3, <2>1
  <2>5. FALSE \in BOOLEAN /\ v = Aged(w, FALSE, FALSE)  OBVIOUS
  <2> HIDE DEF h, ord, w, n, v
  <2>7. Marked(v, w, h, ins)  BY <2>2, <2>3, <2>5, WovenAged
  <2>6. ShortOf(h, w) /\ w \in Seq(Range(w)) /\ Len(w) \in Nat
    BY <2>7 DEF Marked
  <2>8. Carries(w, h)  BY <2>6 DEF ShortOf, Carries, IsCarrierCp
  <2>4. /\ Carries(s.out, s.host) /\ ShortOf(s.host, s.out)
        /\ s.out \in Seq(Range(s.out)) /\ Len(s.out) \in Nat
    BY <2>6, <2>8 DEF h, w
  <2> QED BY <1>1, <1>6, <2>1, <2>4
<1>7. CASE s.method = "simhash"
  <2>1. s.out = s.host  BY <1>3, <1>7 DEF Embeddings
  <2>2. s.host \in Seq(Range(s.host)) /\ Len(s.host) \in Nat  BY <1>3, HostFacts
  <2> DEFINE h == s.host
  <2>4. Len(h) \in Nat  BY <2>2
  <2> HIDE DEF h
  <2>5. PICK g : Embeds(g, h, h) /\ Missing(g, h, h) = {}
    BY <2>4, SelfEmbeds
  <2>3. Carries(s.host, s.host)  BY <2>5 DEF Carries, h
  <2> QED BY <1>1, <1>7, <2>1, <2>2, <2>3
<1> QED BY <1>2, <1>4, <1>5, <1>6, <1>7

(* The text a carrier was bound to is there only while the host has no     *)
(* carrier characters of its own and nothing that has aged.                *)
LEMMA Bound ==
  ASSUME NEW s, Sending(s), NEW p \in BOOLEAN, NEW e \in BOOLEAN,
         NEW t, PartOf(t, Aged(s.out, p, e)), BindingOk(s, t)
  PROVE  CarrierFree(s.host) /\ Aged(s.host, p, e) = s.host
<1> DEFINE h == s.host
           w == Aged(s.out, p, e)
<1>1. Carries(s.out, h) /\ Len(s.out) \in Nat /\ h \in Hosts
  BY SentFacts DEF Sending
<1>2. h \in Seq(Range(h)) /\ Len(h) \in Nat  BY <1>1, HostFacts
<1>3. Visible(w) = Aged(Visible(h), p, e)
  BY <1>1, VisibleCarried, VisibleAged
<1>4. PICK g : Embeds(g, t, w)  BY DEF PartOf
<1> HIDE DEF h, w
<1>5. /\ Len(Visible(t)) \in Nat /\ Len(Visible(w)) \in Nat
      /\ Len(Visible(t)) <= Len(Visible(w))
      /\ Len(Visible(t)) = Len(Visible(w)) => Visible(t) = Visible(w)
  BY <1>4, VisibleGrows
<1>6. Len(Visible(h)) \in Nat /\ Len(Visible(h)) <= Len(h)
  <2>1. Seen(h) \in SUBSET (1..Len(h))  BY DEF Seen
  <2>2. Visible(h) = At(h, Seen(h))  BY DEF Visible, Seen
  <2>3. Len(At(h, Seen(h))) = Cardinality(Seen(h))  BY <1>2, <2>1, AtEmbeds
  <2>4. Cardinality(Seen(h)) \in Nat  BY <1>2, <2>1, PositionsFinite
  <2>5. IsFiniteSet(1..Len(h)) /\ Cardinality(1..Len(h)) = Len(h)
    <3>1. \A k \in Nat : IsFiniteSet(1..k) /\ Cardinality(1..k) = k
      BY FS_Interval
    <3> QED BY <1>2, <3>1
  <2>6. Cardinality(Seen(h)) <= Len(h)  BY <2>1, <2>5, FS_Subset
  <2> QED BY <2>2, <2>3, <2>4, <2>6
<1>7. Len(Aged(Visible(h), p, e)) = Len(Visible(h))  BY <1>6, AgedFacts
<1>8. Visible(t) = h  BY DEF BindingOk, h
<1>9. Len(Visible(h)) = Len(h) /\ Visible(t) = Visible(w)
  BY <1>2, <1>3, <1>5, <1>6, <1>7, <1>8
<1>10. CarrierFree(h) /\ Visible(h) = h  BY <1>2, <1>9, VisibleWhole
<1>11. Aged(h, p, e) = h  BY <1>3, <1>8, <1>9, <1>10
<1> QED BY <1>10, <1>11 DEF h

LEMMA BindingStays ==
  ASSUME NEW h, Len(h) \in Nat, h \in Seq(Range(h)),
         NEW p \in BOOLEAN, NEW e \in BOOLEAN, NEW q \in BOOLEAN,
         NEW d \in BOOLEAN,
         Aged(h, p \/ q, e \/ d) = h
  PROVE  Aged(h, p, e) = h
<1> DEFINE n == Len(h)
<1>1. h = [k \in 1..n |-> h[k]]  OBVIOUS
<1> DEFINE a == p \/ q
           b == e \/ d
<1>4. a \in BOOLEAN /\ b \in BOOLEAN /\ Aged(h, a, b) = h  OBVIOUS
<1>5. \A k \in 1..n : Worn(h[k], a, b) = h[k]
  <2> HIDE DEF a, b
  <2>1. \A k \in 1..n : Aged(h, a, b)[k] = Worn(h[k], a, b)  BY <1>4, AgedFacts
  <2> QED BY <1>4, <2>1
<1>2. \A k \in 1..n : Worn(h[k], p \/ q, e \/ d) = h[k]  BY <1>5
<1>3. \A k \in 1..n : Worn(h[k], p, e) = h[k]  BY <1>2, WornTwice
<1> HIDE DEF n
<1> QED BY <1>1, <1>3 DEF Aged, n

(* One transport, and what it can do. *)
HopOf(t, u) == \E a, b \in BOOLEAN : PartOf(u, Aged(t, a, b))

Travels(s, t) == \E p, e \in BOOLEAN : PartOf(t, Aged(s.out, p, e))

LEMMA TravelsOn ==
  ASSUME NEW s, Sending(s), NEW p \in BOOLEAN, NEW e \in BOOLEAN,
         NEW t, PartOf(t, Aged(s.out, p, e)),
         NEW a \in BOOLEAN, NEW b \in BOOLEAN, NEW u, PartOf(u, Aged(t, a, b))
  PROVE  PartOf(u, Aged(s.out, p \/ a, e \/ b))
<1>1. Len(s.out) \in Nat  BY SentFacts
<1>2. PartOf(Aged(t, a, b), Aged(Aged(s.out, p, e), a, b))  BY PartAged
<1>3. Aged(Aged(s.out, p, e), a, b) = Aged(s.out, p \/ a, e \/ b)
  BY <1>1, AgedTwice
<1> QED BY <1>2, <1>3, PartTwice

LEMMA BindStays ==
  ASSUME NEW s, Sending(s), NEW t, Travels(s, t), NEW u, HopOf(t, u),
         BindingOk(s, u)
  PROVE  BindingOk(s, t)
<1>1. PICK p \in BOOLEAN, e \in BOOLEAN : PartOf(t, Aged(s.out, p, e))
  BY DEF Travels
<1>2. PICK a \in BOOLEAN, b \in BOOLEAN : PartOf(u, Aged(t, a, b))
  BY DEF HopOf
<1> DEFINE q == p \/ a
           d == e \/ b
           h == s.host
           w == Aged(s.out, p, e)
           v == Aged(t, a, b)
<1>3. q \in BOOLEAN /\ d \in BOOLEAN /\ PartOf(u, Aged(s.out, q, d))
  BY <1>1, <1>2, TravelsOn
<1>4. CarrierFree(h) /\ Aged(h, q, d) = h
  <2> HIDE DEF q, d
  <2> QED BY <1>3, Bound
<1>5. Len(h) \in Nat /\ h \in Seq(Range(h))  BY HostFacts DEF Sending
<1>6. Aged(h, p, e) = h
  <2>1. Aged(h, p \/ a, e \/ b) = h  BY <1>4
  <2> HIDE DEF h
  <2> QED BY <1>5, <2>1, BindingStays
<1>7. Visible(h) = h  BY <1>4, <1>5, VisibleWhole
<1>8. Visible(w) = Aged(Visible(h), p, e)
  <2>1. Carries(s.out, h) /\ Len(s.out) \in Nat  BY SentFacts
  <2> QED BY <2>1, VisibleCarried, VisibleAged
<1>9. Visible(w) = h  BY <1>6, <1>7, <1>8
<1>10. PICK g : Embeds(g, t, w)  BY <1>1 DEF PartOf
<1>11. PICK f : Embeds(f, u, v)  BY <1>2 DEF PartOf
<1>12. Len(t) \in Nat  BY <1>10 DEF Embeds
<1>13. Visible(v) = Aged(Visible(t), a, b)  BY <1>12, VisibleAged
<1>14. Visible(u) = h  BY DEF BindingOk
<1> HIDE DEF h, w, v
<1>15. /\ Len(Visible(t)) \in Nat /\ Len(Visible(w)) \in Nat
       /\ Len(Visible(t)) <= Len(Visible(w))
       /\ Len(Visible(t)) = Len(Visible(w)) => Visible(t) = Visible(w)
  BY <1>10, VisibleGrows
<1>16. Len(Visible(u)) \in Nat /\ Len(Visible(u)) <= Len(Visible(v))
  BY <1>11, VisibleGrows
<1>17. Len(Aged(Visible(t), a, b)) = Len(Visible(t))  BY <1>15, AgedFacts
<1>18. Visible(t) = h  BY <1>9, <1>13, <1>14, <1>15, <1>16, <1>17
<1> QED BY <1>18 DEF BindingOk, h

-----------------------------------------------------------------------------
(* What of a text the content hash is taken from. *)

LettersOf(t) == {k \in 1..Len(t) : IsAlnum(t[k])}
Letter(t, n) == Nth(LettersOf(t), n)
Words(t) == Cardinality(LettersOf(t))

SameLetters(t, u) ==
  /\ Words(t) = Words(u)
  /\ \A n \in 1..Words(t) : /\ t[Letter(t, n)] = u[Letter(u, n)]
                            /\ Apart(t, Letter(t, n)) <=> Apart(u, Letter(u, n))

LEMMA LetterFacts ==
  ASSUME NEW t, Len(t) \in Nat
  PROVE  /\ LettersOf(t) \in SUBSET (1..Len(t))
         /\ IsFiniteSet(LettersOf(t)) /\ Words(t) \in Nat
         /\ \A n \in 1..Words(t) :
              Letter(t, n) \in LettersOf(t) /\ Letter(t, n) \in 1..Len(t)
<1>1. LettersOf(t) \in SUBSET (1..Len(t))  BY DEF LettersOf
<1>2. IsFiniteSet(LettersOf(t)) /\ Words(t) \in Nat
  BY <1>1, PositionsFinite DEF Words
<1>3. \A n \in 1..Words(t) : Letter(t, n) \in LettersOf(t)
  BY <1>1, NthExists DEF Words, Letter
<1> QED BY <1>1, <1>2, <1>3

LEMMA CanonicalIs ==
  ASSUME NEW t, Len(t) \in Nat, NEW u, Len(u) \in Nat
  PROVE  Canonical(t) = Canonical(u) <=> SameLetters(t, u)
<1> DEFINE F(v) == [n \in 1..Words(v) |-> [letter |-> v[Letter(v, n)],
                                           apart |-> Apart(v, Letter(v, n))]]
<1>1. Canonical(t) = F(t) /\ Canonical(u) = F(u)
  BY DEF Canonical, Words, Letter, LettersOf
<1>2. Words(t) \in Nat /\ Words(u) \in Nat  BY LetterFacts
<1>3. \A v, k : Apart(v, k) \in BOOLEAN  BY DEF Apart
<1>4. ASSUME F(t) = F(u) PROVE SameLetters(t, u)
  <2>1. DOMAIN F(t) = 1..Words(t) /\ DOMAIN F(u) = 1..Words(u)  OBVIOUS
  <2>2. 1..Words(t) = 1..Words(u)  BY <1>4, <2>1, Zenon
  <2>3. Words(t) = Words(u)  BY <1>2, <2>2
  <2>4. ASSUME NEW n \in 1..Words(t)
        PROVE  /\ t[Letter(t, n)] = u[Letter(u, n)]
               /\ Apart(t, Letter(t, n)) <=> Apart(u, Letter(u, n))
    <3> DEFINE R == [letter |-> t[Letter(t, n)], apart |-> Apart(t, Letter(t, n))]
               S == [letter |-> u[Letter(u, n)], apart |-> Apart(u, Letter(u, n))]
    <3>1. F(t)[n] = R /\ F(u)[n] = S  BY <2>3
    <3>2. R = S  BY <1>4, <3>1
    <3>3. /\ R.letter = t[Letter(t, n)] /\ S.letter = u[Letter(u, n)]
          /\ R.apart = Apart(t, Letter(t, n))
          /\ S.apart = Apart(u, Letter(u, n))
      OBVIOUS
    <3> HIDE DEF R, S
    <3>4. t[Letter(t, n)] = u[Letter(u, n)]  BY <3>2, <3>3
    <3>5. Apart(t, Letter(t, n)) = Apart(u, Letter(u, n))  BY <3>2, <3>3, Zenon
    <3> QED BY <3>4, <3>5, Zenon
  <2> QED BY <2>3, <2>4 DEF SameLetters
<1>5. ASSUME SameLetters(t, u) PROVE F(t) = F(u)
  <2>1. Words(t) = Words(u)  BY <1>5 DEF SameLetters
  <2>2. \A n \in 1..Words(t) :
          /\ t[Letter(t, n)] = u[Letter(u, n)]
          /\ Apart(t, Letter(t, n)) = Apart(u, Letter(u, n))
    <3> TAKE n \in 1..Words(t)
    <3>1. /\ t[Letter(t, n)] = u[Letter(u, n)]
          /\ Apart(t, Letter(t, n)) <=> Apart(u, Letter(u, n))
      BY <1>5 DEF SameLetters
    <3>2. Apart(t, Letter(t, n)) = Apart(u, Letter(u, n))  BY <1>3, <3>1
    <3> QED BY <3>1, <3>2, Zenon
  <2> QED BY <2>1, <2>2, Zenon
<1> QED BY <1>1, <1>4, <1>5

(* What is between two letters of a part was between them before. *)
LEMMA ApartGrows ==
  ASSUME NEW g, NEW s, NEW t, Embeds(g, s, t),
         \A q \in Missing(g, s, t) : ~IsAlnum(t[q]),
         NEW k \in 1..Len(s)
  PROVE  /\ Apart(s, k) => Apart(t, g[k])
         /\ (\A q \in Missing(g, s, t) : IsZeroWidth(t[q]))
              => (Apart(t, g[k]) => Apart(s, k))
<1>1. /\ Len(s) \in Nat /\ Len(t) \in Nat
      /\ \A i \in 1..Len(s) : g[i] \in 1..Len(t) /\ g[i] \in Nat /\ s[i] = t[g[i]]
      /\ \A i, j \in 1..Len(s) : g[i] < g[j] <=> i < j
      /\ \A q \in 1..Len(t) : q \in Missing(g, s, t)
                              \/ \E i \in 1..Len(s) : g[i] = q
  BY EmbedsFacts DEF Embeds, Missing
<1>2. ASSUME NEW i \in 1..Len(s),
             \A x \in (i + 1)..(k - 1) : ~IsAlnum(s[x])
      PROVE  \A x \in (g[i] + 1)..(g[k] - 1) : ~IsAlnum(t[x])
  <2> SUFFICES ASSUME NEW x \in (g[i] + 1)..(g[k] - 1), IsAlnum(t[x]) PROVE FALSE
    OBVIOUS
  <2>1. x \in 1..Len(t) /\ g[i] < x /\ x < g[k]
    <3>1. /\ g[i] \in Nat /\ g[k] \in Nat /\ g[i] \in 1..Len(t)
          /\ g[k] \in 1..Len(t)
      BY <1>1
    <3> QED BY <1>1, <3>1
  <2>2. PICK y \in 1..Len(s) : g[y] = x  BY <1>1, <2>1
  <2>3. i < y /\ y < k  BY <1>1, <2>1, <2>2
  <2>4. y \in (i + 1)..(k - 1)  BY <1>1, <2>3
  <2>5. s[y] = t[x]  BY <1>1, <2>2
  <2> QED BY <1>2, <2>4, <2>5
<1>3. ASSUME Apart(s, k) PROVE Apart(t, g[k])
  <2>1. PICK i \in 1..(k - 1) :
          /\ Separates(s[i]) /\ \E j \in 1..(i - 1) : IsAlnum(s[j])
          /\ \A x \in (i + 1)..(k - 1) : ~IsAlnum(s[x])
    BY <1>3 DEF Apart
  <2>2. PICK j \in 1..(i - 1) : IsAlnum(s[j])  BY <2>1
  <2>3. i \in 1..Len(s) /\ j \in 1..Len(s) /\ j < i /\ i < k  BY <1>1
  <2>4. /\ g[i] \in 1..(g[k] - 1) /\ g[j] \in 1..(g[i] - 1)
        /\ Separates(t[g[i]]) /\ IsAlnum(t[g[j]])
    <3>1. g[j] < g[i] /\ g[i] < g[k] /\ s[i] = t[g[i]] /\ s[j] = t[g[j]]
      BY <1>1, <2>3
    <3>2. /\ g[i] \in Nat /\ g[i] >= 1 /\ g[j] \in Nat /\ g[j] >= 1
          /\ g[k] \in Nat
      BY <1>1, <2>3
    <3> QED BY <2>1, <2>2, <3>1, <3>2
  <2>5. \A x \in (g[i] + 1)..(g[k] - 1) : ~IsAlnum(t[x])
    BY <1>2, <2>1, <2>3
  <2> QED BY <2>4, <2>5 DEF Apart
<1>4. ASSUME \A q \in Missing(g, s, t) : IsZeroWidth(t[q]), Apart(t, g[k])
      PROVE  Apart(s, k)
  <2>1. PICK a \in 1..(g[k] - 1) :
          /\ Separates(t[a]) /\ \E j \in 1..(a - 1) : IsAlnum(t[j])
          /\ \A x \in (a + 1)..(g[k] - 1) : ~IsAlnum(t[x])
    BY <1>4 DEF Apart
  <2>2. PICK b \in 1..(a - 1) : IsAlnum(t[b])  BY <2>1
  <2>3. /\ g[k] \in Nat /\ g[k] \in 1..Len(t)
        /\ a \in 1..Len(t) /\ b \in 1..Len(t) /\ b < a /\ a < g[k]
    <3>1. g[k] \in Nat /\ g[k] \in 1..Len(t)  BY <1>1
    <3> QED BY <1>1, <3>1
  <2>4. a \notin Missing(g, s, t)  BY <1>4, <2>1 DEF Separates
  <2>5. b \notin Missing(g, s, t)  BY <2>2
  <2>6. PICK i \in 1..Len(s) : g[i] = a  BY <1>1, <2>3, <2>4
  <2>7. PICK j \in 1..Len(s) : g[j] = b  BY <1>1, <2>3, <2>5
  <2>8. j < i /\ i < k /\ s[i] = t[a] /\ s[j] = t[b]
    BY <1>1, <2>3, <2>6, <2>7
  <2>9. i \in 1..(k - 1) /\ j \in 1..(i - 1)  BY <1>1, <2>8
  <2>10. ASSUME NEW x \in (i + 1)..(k - 1) PROVE ~IsAlnum(s[x])
    <3>1. x \in 1..Len(s) /\ i < x /\ x < k  BY <1>1, <2>9
    <3>2. g[i] < g[x] /\ g[x] < g[k] /\ g[x] \in Nat /\ s[x] = t[g[x]]
      BY <1>1, <3>1
    <3>3. g[x] \in (a + 1)..(g[k] - 1)  BY <2>3, <2>6, <3>2
    <3> QED BY <2>1, <3>2, <3>3
  <2> QED BY <2>1, <2>2, <2>8, <2>9, <2>10 DEF Apart
<1> QED BY <1>3, <1>4

(* The letters of a part, when all letters are there. *)
LEMMA LettersPart ==
  ASSUME NEW g, NEW s, NEW t, Embeds(g, s, t)
  PROVE  /\ Words(s) <= Words(t)
         /\ (\A q \in Missing(g, s, t) : ~IsAlnum(t[q])) => Words(s) = Words(t)
         /\ Words(s) = Words(t) =>
              /\ \A q \in Missing(g, s, t) : ~IsAlnum(t[q])
              /\ \A n \in 1..Words(s) :
                   /\ Letter(s, n) \in 1..Len(s)
                   /\ Letter(t, n) = g[Letter(s, n)]
                   /\ t[Letter(t, n)] = s[Letter(s, n)]
<1> DEFINE P == LettersOf(s)
           T == LettersOf(t)
           Q == {g[i] : i \in P}
<1>1. /\ Len(s) \in Nat /\ Len(t) \in Nat
      /\ \A i \in 1..Len(s) : g[i] \in 1..Len(t) /\ s[i] = t[g[i]]
      /\ \A q \in 1..Len(t) : q \in Missing(g, s, t) <=>
                              ~\E i \in 1..Len(s) : g[i] = q
  BY DEF Embeds, Missing
<1>2. /\ P \in SUBSET (1..Len(s)) /\ T \in SUBSET (1..Len(t))
      /\ IsFiniteSet(T) /\ Words(s) \in Nat /\ Words(t) \in Nat
  BY <1>1, LetterFacts
<1>3. /\ \A i \in 1..Len(s) : i \in P <=> IsAlnum(s[i])
      /\ \A q \in 1..Len(t) : q \in T <=> IsAlnum(t[q])
  BY DEF LettersOf
<1>5. Words(s) = Cardinality(P) /\ Words(t) = Cardinality(T)  BY DEF Words
<1> HIDE DEF P, T
<1>6. Q \in SUBSET T  BY <1>1, <1>2, <1>3
<1>7. /\ Cardinality(Q) = Cardinality(P)
      /\ \A n \in 1..Cardinality(P) : Nth(Q, n) = g[Nth(P, n)]
  BY <1>2, EmbeddedAt
<1>8. /\ Cardinality(Q) <= Cardinality(T)
      /\ Cardinality(T) = Cardinality(Q) => T = Q
  BY <1>2, <1>6, FS_Subset
<1>9. ASSUME \A q \in Missing(g, s, t) : ~IsAlnum(t[q])
      PROVE  Words(s) = Words(t)
  <2>1. ASSUME NEW q \in T PROVE q \in Q
    <3>1. q \in 1..Len(t) /\ IsAlnum(t[q])  BY <1>2, <1>3
    <3>2. q \notin Missing(g, s, t)  BY <1>9, <3>1
    <3>3. PICK i \in 1..Len(s) : g[i] = q  BY <1>1, <3>1, <3>2
    <3> QED BY <1>1, <1>3, <3>1, <3>3
  <2>2. T = Q  BY <1>6, <2>1
  <2> QED BY <1>5, <1>7, <2>2
<1>10. ASSUME Words(s) = Words(t)
       PROVE  /\ \A q \in Missing(g, s, t) : ~IsAlnum(t[q])
              /\ \A n \in 1..Words(s) :
                   /\ Letter(s, n) \in 1..Len(s)
                   /\ Letter(t, n) = g[Letter(s, n)]
                   /\ t[Letter(t, n)] = s[Letter(s, n)]
  <2>1. T = Q  BY <1>5, <1>7, <1>8, <1>10
  <2>2. ASSUME NEW q \in Missing(g, s, t), IsAlnum(t[q]) PROVE FALSE
    <3>1. q \in 1..Len(t)  BY DEF Missing
    <3>2. q \in Q  BY <1>3, <2>1, <2>2, <3>1
    <3>3. PICK i \in P : g[i] = q  BY <3>2
    <3> QED BY <1>1, <1>2, <3>1, <3>3
  <2>3. ASSUME NEW n \in 1..Words(s)
        PROVE  /\ Letter(s, n) \in 1..Len(s)
               /\ Letter(t, n) = g[Letter(s, n)]
               /\ t[Letter(t, n)] = s[Letter(s, n)]
    <3>1. Letter(s, n) \in 1..Len(s)  BY <1>1, LetterFacts
    <3>2. Letter(t, n) = g[Letter(s, n)]
      BY <1>5, <1>7, <2>1 DEF Letter, P, T
    <3> QED BY <1>1, <3>1, <3>2
  <2> QED BY <2>2, <2>3
<1> QED BY <1>5, <1>7, <1>8, <1>9, <1>10

LEMMA LettersAged ==
  ASSUME NEW t, Len(t) \in Nat, NEW p \in BOOLEAN, NEW e \in BOOLEAN,
         NEW u, u = Aged(t, p, e)
  PROVE  /\ Words(u) = Words(t)
         /\ \A n \in 1..Words(t) :
              /\ Letter(u, n) = Letter(t, n)
              /\ u[Letter(u, n)] = Worn(t[Letter(t, n)], p, e)
              /\ Apart(u, Letter(u, n)) <=> Apart(t, Letter(t, n))
<1>1. Len(u) = Len(t) /\ \A k \in 1..Len(t) : u[k] = Worn(t[k], p, e)
  BY AgedFacts
<1>2. ASSUME NEW k \in 1..Len(t)
      PROVE  (IsAlnum(u[k]) <=> IsAlnum(t[k])) /\ (Separates(u[k]) <=> Separates(t[k]))
  <2>1. u[k] = Worn(t[k], p, e)  BY <1>1
  <2>2. Worn(t[k], p, e).class = t[k].class  BY WornFacts
  <2>3. u[k].class = t[k].class  BY <2>1, <2>2
  <2> QED BY <2>3 DEF Separates, IsAlnum, IsZeroWidth
<1>3. LettersOf(u) = LettersOf(t)  BY <1>1, <1>2 DEF LettersOf
<1>4. \A n : Letter(u, n) = Letter(t, n)  BY <1>3 DEF Letter
<1>5. Words(u) = Words(t)  BY <1>3 DEF Words
<1>6. ASSUME NEW k \in 1..Len(t) PROVE Apart(u, k) <=> Apart(t, k)
  <2>1. \A i \in 1..(k - 1) : i \in 1..Len(t)  OBVIOUS
  <2>2. \A i \in 1..(k - 1) :
          /\ \A j \in 1..(i - 1) : j \in 1..Len(t)
          /\ \A j \in (i + 1)..(k - 1) : j \in 1..Len(t)
    OBVIOUS
  <2>3. ASSUME NEW i \in 1..(k - 1)
        PROVE  /\ Separates(u[i]) <=> Separates(t[i])
               /\ (\E j \in 1..(i - 1) : IsAlnum(u[j]))
                    <=> \E j \in 1..(i - 1) : IsAlnum(t[j])
               /\ (\A j \in (i + 1)..(k - 1) : ~IsAlnum(u[j]))
                    <=> \A j \in (i + 1)..(k - 1) : ~IsAlnum(t[j])
    BY <1>2, <2>1, <2>2
  <2> QED BY <2>3 DEF Apart
<1>7. \A n \in 1..Words(t) : Letter(t, n) \in 1..Len(t)  BY LetterFacts
<1> QED BY <1>1, <1>4, <1>5, <1>6, <1>7

(* Zero-width characters are nothing to the content hash. *)
LEMMA CanonicalShort ==
  ASSUME NEW s, NEW t, ShortOf(s, t)
  PROVE  Canonical(s) = Canonical(t) /\ SameLetters(s, t)
<1>1. PICK g : /\ Embeds(g, s, t)
               /\ \A q \in Missing(g, s, t) : IsZeroWidth(t[q])
  BY DEF ShortOf
<1>2. \A q \in Missing(g, s, t) : ~IsAlnum(t[q])
  BY <1>1 DEF IsAlnum, IsZeroWidth
<1>3. /\ Words(s) = Words(t)
      /\ \A n \in 1..Words(s) :
           /\ Letter(s, n) \in 1..Len(s)
           /\ Letter(t, n) = g[Letter(s, n)]
           /\ t[Letter(t, n)] = s[Letter(s, n)]
  BY <1>1, <1>2, LettersPart
<1>4. ASSUME NEW n \in 1..Words(s)
      PROVE  Apart(s, Letter(s, n)) <=> Apart(t, Letter(t, n))
  <2>1. Letter(s, n) \in 1..Len(s) /\ Letter(t, n) = g[Letter(s, n)]  BY <1>3
  <2> DEFINE k == Letter(s, n)
  <2> HIDE DEF k
  <2>2. Apart(s, k) <=> Apart(t, g[k])
    BY <1>1, <1>2, <2>1, ApartGrows DEF k
  <2> QED BY <2>1, <2>2 DEF k
<1>5. SameLetters(s, t)  BY <1>3, <1>4 DEF SameLetters
<1> QED BY <1>1, <1>5, CanonicalIs DEF Embeds

-----------------------------------------------------------------------------
(* Content hash and number of gaps: what they are kept by. *)

(* The sent text as it is on the way, before anything is removed of it.    *)
LEMMA MarkedSent ==
  ASSUME NEW s, Sending(s), s.method = "zwc", NEW p \in BOOLEAN, NEW e \in BOOLEAN
  PROVE  \E ins : Marked(Aged(s.out, p, e), s.out, s.host, ins)
<1> DEFINE h == s.host
           ord == s.order
           n == Cardinality(WordEnds(h))
           w == s.out
           v == Aged(w, p, e)
<1>1. PICK ins \in SortedInsertions(h, ord, Run) : w = Woven(h, ins)
  BY SentFacts
<1>2. h \in Hosts /\ ord \in Orders(n)  BY DEF Sending
<1>3. v = Aged(w, p, e)  OBVIOUS
<1> HIDE DEF h, ord, n, w, v
<1>4. Marked(v, w, h, ins)  BY <1>1, <1>2, <1>3, WovenAged
<1> QED BY <1>4 DEF v, w, h

(* On its way a watermark has no more gaps and no more letters than its    *)
(* host.                                                                   *)
LEMMA GapsSent ==
  ASSUME NEW s, Sending(s), s.method = "zwc", NEW t, Travels(s, t)
  PROVE  /\ Gaps(t) = Cardinality(Openers(t)) /\ Gaps(t) <= Gaps(s.host)
         /\ Gaps(t) \in Nat /\ Gaps(s.host) \in Nat
<1>1. PICK p \in BOOLEAN, e \in BOOLEAN : PartOf(t, Aged(s.out, p, e))
  BY DEF Travels
<1> DEFINE h == s.host
           w == s.out
           v == Aged(w, p, e)
<1>2. PICK g : Embeds(g, t, v)  BY <1>1 DEF PartOf
<1>3. t \in Seq(Range(t))  BY <1>1 DEF PartOf
<1>4. h \in Hosts  BY DEF Sending
<1>5. PICK ins : Marked(v, w, h, ins)  BY MarkedSent
<1> HIDE DEF h, w, v
<1>6. /\ Gaps(t) = Cardinality(Openers(t)) /\ Gaps(t) <= Gaps(h)
      /\ Gaps(h) = Cardinality(Openers(v))
  BY <1>2, <1>3, <1>4, <1>5, GapsOfPart
<1>7. Len(t) \in Nat /\ Len(v) \in Nat  BY <1>2 DEF Embeds
<1>8. Cardinality(Openers(t)) \in Nat /\ Cardinality(Openers(v)) \in Nat
  BY <1>7, OpenersFinite
<1> QED BY <1>6, <1>8 DEF h

LEMMA OpenersAged ==
  ASSUME NEW t, Len(t) \in Nat, NEW p \in BOOLEAN, NEW e \in BOOLEAN
  PROVE  Openers(Aged(t, p, e)) = Openers(t)
<1> DEFINE u == Aged(t, p, e)
<1>1. Len(u) = Len(t) /\ \A k \in 1..Len(t) : u[k] = Worn(t[k], p, e)
  BY AgedFacts
<1> HIDE DEF u
<1>2. ASSUME NEW k \in 1..Len(t) PROVE u[k].class = t[k].class
  <2>1. u[k] = Worn(t[k], p, e)  BY <1>1
  <2>2. Worn(t[k], p, e).class = t[k].class  BY WornFacts
  <2> QED BY <2>1, <2>2
<1>3. \A i \in 1..Len(t) : OpensWord(u, i) <=> OpensWord(t, i)
  BY <1>1, <1>2, SameClasses
<1> QED BY <1>1, <1>3 DEF Openers, u

(* Where the text a watermark was bound to is there, so are both.          *)
LEMMA BoundIsKept ==
  ASSUME NEW s, Sending(s), s.method = "zwc", NEW t, Travels(s, t),
         BindingOk(s, t)
  PROVE  Kept(s, t)
<1>1. PICK p \in BOOLEAN, e \in BOOLEAN : PartOf(t, Aged(s.out, p, e))
  BY DEF Travels
<1> DEFINE h == s.host
           w == s.out
           v == Aged(w, p, e)
           S == Seen(t)
<1>2. CarrierFree(h)  BY <1>1, Bound
<1>3. Visible(t) = h /\ Visible(t) = At(t, S)  BY DEF BindingOk, Visible, Seen
<1>4. PICK f : /\ Embeds(f, h, w)
               /\ \A q \in Missing(f, h, w) : IsZeroWidth(w[q])
  BY SentFacts DEF ShortOf
<1>5. PICK g : Embeds(g, t, v)  BY <1>1 DEF PartOf
<1>6. Len(w) \in Nat  BY <1>4 DEF Embeds
<1>7. Len(v) = Len(w) /\ \A k \in 1..Len(w) : v[k] = Worn(w[k], p, e)
  BY <1>6, AgedFacts
<1>8. Len(t) \in Nat /\ S \in SUBSET (1..Len(t))  BY <1>5 DEF Embeds, Seen
<1>9. PICK k : Embeds(k, At(t, S), t) /\ Missing(k, At(t, S), t) = (1..Len(t)) \ S
  BY <1>8, AtEmbeds
<1>10. Embeds(k, h, t) /\ Missing(k, h, t) = (1..Len(t)) \ S  BY <1>3, <1>9
<1> HIDE DEF h, w, v
<1>11. ASSUME NEW q \in (1..Len(t)) \ S PROVE IsZeroWidth(t[q])
  <2>1. IsCarrierCp(t[q])  BY <1>11 DEF Seen
  <2> DEFINE r == g[q]
  <2>2. r \in 1..Len(w) /\ t[q] = Worn(w[r], p, e)  BY <1>5, <1>7 DEF Embeds
  <2> HIDE DEF r
  <2> DEFINE c == w[r]
  <2>6. /\ IsCarrierCp(Worn(c, p, e)) <=> IsCarrierCp(c)
        /\ IsZeroWidth(c) => Worn(c, p, e) = c
    <3> HIDE DEF c
    <3> QED BY WornFacts
  <2>3. IsCarrierCp(w[r])  BY <2>1, <2>2, <2>6
  <2>4. r \in Missing(f, h, w)
    <3> SUFFICES ASSUME r \notin Missing(f, h, w) PROVE FALSE  OBVIOUS
    <3>1. PICK i \in 1..Len(h) : f[i] = r  BY <2>2 DEF Missing
    <3>2. h[i] = w[r]  BY <1>4, <3>1 DEF Embeds
    <3> QED BY <1>2, <2>3, <3>2 DEF CarrierFree
  <2>5. IsZeroWidth(w[r])  BY <1>4, <2>4
  <2> QED BY <2>2, <2>5, <2>6
<1> HIDE DEF S
<1>12. ShortOf(h, t)  BY <1>10, <1>11 DEF ShortOf
<1>13. Canonical(t) = Canonical(h)  BY <1>12, CanonicalShort
<1>14. Strip(t) = Strip(h)  BY <1>12, StripShort
<1> QED BY <1>13, <1>14 DEF Kept, Gaps, h

(* What was lost of them does not come back. *)
LEMMA KeptStays ==
  ASSUME NEW s, Sending(s), s.method = "zwc", NEW t, Travels(s, t),
         NEW u, HopOf(t, u), Kept(s, u)
  PROVE  Kept(s, t)
<1>1. PICK p \in BOOLEAN, e \in BOOLEAN : PartOf(t, Aged(s.out, p, e))
  BY DEF Travels
<1>2. PICK a \in BOOLEAN, b \in BOOLEAN : PartOf(u, Aged(t, a, b))
  BY DEF HopOf
<1>3. Travels(s, u)
  <2> DEFINE q == p \/ a
             d == e \/ b
  <2>1. q \in BOOLEAN /\ d \in BOOLEAN  OBVIOUS
  <2>2. PartOf(u, Aged(s.out, q, d))  BY <1>1, <1>2, TravelsOn
  <2> HIDE DEF q, d
  <2> QED BY <2>1, <2>2 DEF Travels
<1> DEFINE h == s.host
           o == s.out
           w == Aged(o, p, e)
           v == Aged(t, a, b)
<1>4. PICK g : Embeds(g, t, w)  BY <1>1 DEF PartOf
<1>5. PICK f : Embeds(f, u, v)  BY <1>2 DEF PartOf
<1>6. /\ Len(h) \in Nat /\ ShortOf(h, o) /\ Len(o) \in Nat
      /\ Canonical(u) = Canonical(h) /\ Gaps(u) = Gaps(h)
  BY SentFacts, HostFacts DEF Sending, Kept
<1>7. w = Aged(o, p, e) /\ v = Aged(t, a, b)  OBVIOUS
<1>8. Gaps(t) = Gaps(h)
  <2>1. /\ Gaps(t) = Cardinality(Openers(t)) /\ Gaps(t) <= Gaps(h)
        /\ Gaps(t) \in Nat /\ Gaps(h) \in Nat
    BY GapsSent
  <2>2. Gaps(u) = Cardinality(Openers(u))  BY <1>3, GapsSent
  <2>3. Len(t) \in Nat  BY <1>4 DEF Embeds
  <2>4. Cardinality(Openers(v)) = Cardinality(Openers(t))
    BY <2>3, OpenersAged
  <2> HIDE DEF h, v
  <2>5. Cardinality(Openers(u)) <= Cardinality(Openers(v))  BY <1>5, WordsFall
  <2> QED BY <1>6, <2>1, <2>2, <2>4, <2>5
<1> HIDE DEF h, o, w, v
<1>9. Len(t) \in Nat /\ Len(u) \in Nat /\ Len(w) \in Nat /\ Len(v) \in Nat
  BY <1>4, <1>5 DEF Embeds
<1>10. SameLetters(u, h)  BY <1>6, <1>9, CanonicalIs
<1>11. SameLetters(h, o)  BY <1>6, CanonicalShort
<1>12. /\ Words(w) = Words(o)
       /\ \A n \in 1..Words(o) :
            /\ w[Letter(w, n)] = Worn(o[Letter(o, n)], p, e)
            /\ Apart(w, Letter(w, n)) <=> Apart(o, Letter(o, n))
  BY <1>6, <1>7, LettersAged
<1>13. /\ Words(v) = Words(t)
       /\ \A n \in 1..Words(t) :
            /\ v[Letter(v, n)] = Worn(t[Letter(t, n)], a, b)
            /\ Apart(v, Letter(v, n)) <=> Apart(t, Letter(t, n))
  BY <1>7, <1>9, LettersAged
<1>14. /\ Words(t) <= Words(w)
       /\ Words(t) = Words(w) =>
            /\ \A q \in Missing(g, t, w) : ~IsAlnum(w[q])
            /\ \A n \in 1..Words(t) :
                 /\ Letter(t, n) \in 1..Len(t)
                 /\ Letter(w, n) = g[Letter(t, n)]
                 /\ w[Letter(w, n)] = t[Letter(t, n)]
  BY <1>4, LettersPart
<1>15. /\ Words(u) <= Words(v)
       /\ Words(u) = Words(v) =>
            /\ \A q \in Missing(f, u, v) : ~IsAlnum(v[q])
            /\ \A n \in 1..Words(u) :
                 /\ Letter(u, n) \in 1..Len(u)
                 /\ Letter(v, n) = f[Letter(u, n)]
                 /\ v[Letter(v, n)] = u[Letter(u, n)]
  BY <1>5, LettersPart
<1>16. Words(u) = Words(h) /\ Words(h) = Words(o)
  BY <1>10, <1>11 DEF SameLetters
<1>17. Words(t) = Words(w) /\ Words(u) = Words(v) /\ Words(t) = Words(h)
       /\ Words(o) = Words(h)
  <2>1. Words(t) \in Nat /\ Words(h) \in Nat /\ Words(w) \in Nat
    BY <1>6, <1>9, LetterFacts
  <2> QED BY <1>12, <1>13, <1>14, <1>15, <1>16, <2>1
<1>18. ASSUME NEW n \in 1..Words(t)
       PROVE  /\ t[Letter(t, n)] = h[Letter(h, n)]
              /\ Apart(t, Letter(t, n)) <=> Apart(h, Letter(h, n))
  <2>1. /\ u[Letter(u, n)] = h[Letter(h, n)]
        /\ Apart(u, Letter(u, n)) <=> Apart(h, Letter(h, n))
    BY <1>10, <1>16, <1>17 DEF SameLetters
  <2>2. /\ h[Letter(h, n)] = o[Letter(o, n)]
        /\ Apart(h, Letter(h, n)) <=> Apart(o, Letter(o, n))
    BY <1>11, <1>16, <1>17 DEF SameLetters
  <2>3. /\ w[Letter(w, n)] = Worn(o[Letter(o, n)], p, e)
        /\ Apart(w, Letter(w, n)) <=> Apart(o, Letter(o, n))
    BY <1>12, <1>17
  <2>4. /\ v[Letter(v, n)] = Worn(t[Letter(t, n)], a, b)
        /\ Apart(v, Letter(v, n)) <=> Apart(t, Letter(t, n))
    BY <1>13
  <2>5. /\ Letter(t, n) \in 1..Len(t) /\ Letter(w, n) = g[Letter(t, n)]
        /\ w[Letter(w, n)] = t[Letter(t, n)]
    BY <1>14, <1>17
  <2>6. /\ Letter(u, n) \in 1..Len(u) /\ Letter(v, n) = f[Letter(u, n)]
        /\ v[Letter(v, n)] = u[Letter(u, n)]
    BY <1>15, <1>16, <1>17
  <2>7. Apart(t, Letter(t, n)) => Apart(w, Letter(w, n))
    <3> DEFINE k == Letter(t, n)
    <3>1. k \in 1..Len(t) /\ Letter(w, n) = g[k]  BY <2>5
    <3> HIDE DEF k
    <3>2. Apart(t, k) => Apart(w, g[k])
      BY <1>4, <1>14, <1>17, <3>1, ApartGrows
    <3> QED BY <3>1, <3>2 DEF k
  <2>8. Apart(u, Letter(u, n)) => Apart(v, Letter(v, n))
    <3> DEFINE k == Letter(u, n)
    <3>1. k \in 1..Len(u) /\ Letter(v, n) = f[k]  BY <2>6
    <3> HIDE DEF k
    <3>2. Apart(u, k) => Apart(v, f[k])
      BY <1>5, <1>15, <1>17, <3>1, ApartGrows
    <3> QED BY <3>1, <3>2 DEF k
  <2>9. t[Letter(t, n)] = h[Letter(h, n)]
    <3> DEFINE c == h[Letter(h, n)]
               d == t[Letter(t, n)]
    <3>1. d = Worn(c, p, e) /\ c = Worn(d, a, b)
      BY <2>1, <2>2, <2>3, <2>4, <2>5, <2>6
    <3> HIDE DEF c, d
    <3>2. Worn(Worn(c, p, e), a, b) = Worn(c, p \/ a, e \/ b)
          /\ (Worn(c, p \/ a, e \/ b) = c => Worn(c, p, e) = c)
      BY WornTwice
    <3>3. d = c  BY <3>1, <3>2
    <3> QED BY <3>3 DEF c, d
  <2> QED BY <2>1, <2>2, <2>3, <2>4, <2>7, <2>8, <2>9
<1>19. SameLetters(t, h)  BY <1>17, <1>18 DEF SameLetters
<1>20. Canonical(t) = Canonical(h)  BY <1>6, <1>9, <1>19, CanonicalIs
<1> QED BY <1>8, <1>20 DEF Kept, h

-----------------------------------------------------------------------------
(* What the watermark's reader makes of a text whose content hash and      *)
(* number of gaps are as they were.                                        *)

LEMMA RunsHaveSymbols == \A x \in Shards : Run[x] # << >>
<1> TAKE x \in Shards
<1>1. Len(Run[x]) = SYMBOLS_PER_SHARD  BY RunsAreRuns DEF SymbolRuns
<1>2. SYMBOLS_PER_SHARD # 0  BY ShardsAssumption
<1> QED BY <1>1, <1>2

LEMMA ZwcReads ==
  ASSUME NEW s, Sending(s), s.method = "zwc",
         NEW p \in BOOLEAN, NEW e \in BOOLEAN,
         NEW t, PartOf(t, Aged(s.out, p, e)),
         Kept(s, t), NEW hit, hit = {x \in Shards : ~There(t, x)}
  PROVE  ZwcOutcomes(s, t) = IF Cardinality(hit) > PARITY_SHARDS THEN {"gone"}
                             ELSE {"intact"}
<1> DEFINE h == s.host
           o == s.order
           n == Gaps(t)
           T == TOTAL_SHARDS
           found(ord, x) ==
             LET run == At(t, Filed(t, ord[x], Len(t)))
             IN  IF Len(run) = SYMBOLS_PER_SHARD THEN run ELSE << >>
           present(ord) == {x \in Shards : found(ord, x) # << >>}
           outcomes(ord) ==
             IF TooFew(TOTAL_SHARDS - Cardinality(present(ord))) THEN {"gone"}
             ELSE IF \A x \in present(ord) : found(ord, x) = Run[x] THEN {"intact"}
             ELSE {"intact", "unsafe"}
<1>1. ZwcOutcomes(s, t) =
        IF n < TOTAL_SHARDS THEN {"gone"}
        ELSE UNION {outcomes(ord) : ord \in IF Kept(s, t) THEN {s.order}
                                            ELSE Orders(n)}
  BY DEF ZwcOutcomes
<1>2. /\ h \in Hosts /\ Cardinality(WordEnds(h)) >= T
      /\ o \in Orders(Cardinality(WordEnds(h)))
  BY DEF Sending
<1>3. PICK ins \in SortedInsertions(h, o, Run) : s.out = Woven(h, ins)
  BY SentFacts
<1>4. n = Cardinality(WordEnds(h))
  <2>1. h \in Seq(Range(h)) /\ NoZeroWidth(h)  BY <1>2, HostFacts
  <2>2. Strip(h) = h  BY <2>1, StripSame
  <2> QED BY <2>2 DEF Kept, Gaps
<1>7. n >= T  BY <1>2, <1>4
<1>8. T \in Nat /\ PARITY_SHARDS \in Nat /\ n \in Nat
  <2>1. T \in Nat /\ PARITY_SHARDS \in Nat
    BY ShardsAssumption, ParityAssumption
  <2>2. h \in Seq(Range(h))  BY <1>2, HostFacts
  <2>3. WordEnds(h) \subseteq 1..Len(h) /\ Len(h) \in Nat
    BY <2>2 DEF WordEnds
  <2>4. Cardinality(WordEnds(h)) \in Nat  BY <2>3, PositionsFinite
  <2> QED BY <1>4, <2>1, <2>4
<1>9. ZwcOutcomes(s, t) = outcomes(o)
  <2> DEFINE out(ord) == outcomes(ord)
  <2>1. ~(n < TOTAL_SHARDS)  BY <1>7, <1>8
  <2>2. UNION {out(ord) : ord \in {o}} = out(o)
    <3> HIDE DEF out
    <3> QED OBVIOUS
  <2> HIDE DEF outcomes, n
  <2>3. ZwcOutcomes(s, t) = UNION {outcomes(ord) : ord \in {o}}
    BY <1>1, <2>1
  <2> QED BY <2>2, <2>3
<1>10. \A x \in Shards : /\ found(o, x) # << >> <=> There(t, x)
                         /\ There(t, x) => found(o, x) = Run[x]
  <2> TAKE x \in Shards
  <2> DEFINE read == At(t, Filed(t, o[x], Len(t)))
             m == Cardinality(WordEnds(h))
             there == There(t, x)
  <2>1. /\ o \in Orders(m) /\ PartOf(t, Aged(Woven(h, ins), p, e))
        /\ Gaps(t) = Gaps(h)
    BY <1>2, <1>3 DEF Kept
  <2>2. found(o, x) = IF Len(read) = SYMBOLS_PER_SHARD THEN read ELSE << >>
    OBVIOUS
  <2>3. read = At(t, Filed(t, o[x], Len(t)))  OBVIOUS
  <2> HIDE DEF h, o, m, read, n
  <2>4. /\ Len(read) = SYMBOLS_PER_SHARD <=> There(t, x)
        /\ There(t, x) => read = Run[x]
    BY <1>2, <2>1, <2>3, ShardsLeft
  <2> HIDE DEF found
  <2> QED BY <2>2, <2>4, RunsHaveSymbols
<1> HIDE DEF found
<1>11. present(o) = Shards \ hit /\ hit \subseteq Shards  BY <1>10
<1>12. Cardinality(present(o)) = T - Cardinality(hit) /\ Cardinality(hit) \in Nat
  <2>1. Shards \cap hit = hit  BY <1>11
  <2>2. IsFiniteSet(Shards) /\ Cardinality(Shards) = T  BY ShardCount
  <2>3. IsFiniteSet(hit)  BY <1>11, <2>2, FS_Subset
  <2>4. Cardinality(Shards \ hit)
          = Cardinality(Shards) - Cardinality(Shards \cap hit)
    BY <2>2, FS_Difference
  <2> QED BY <1>11, <2>1, <2>2, <2>3, <2>4, FS_CardinalityType
<1>13. \A x \in present(o) : found(o, x) = Run[x]  BY <1>10
<1>14. TooFew(TOTAL_SHARDS - Cardinality(present(o)))
         <=> Cardinality(hit) > PARITY_SHARDS
  BY <1>8, <1>12 DEF TooFew
<1>15. outcomes(o) = IF Cardinality(hit) > PARITY_SHARDS THEN {"gone"}
                     ELSE {"intact"}
  <2> HIDE DEF present
  <2> QED BY <1>13, <1>14
<1> QED BY <1>9, <1>15
-----------------------------------------------------------------------------
(* Which readings are intact, and that what is lost stays lost. *)

(* Nothing adds digits. *)
LEMMA DigitsFade ==
  ASSUME NEW t, Len(t) \in Nat, NEW a \in BOOLEAN, NEW b \in BOOLEAN,
         NEW u, PartOf(u, Aged(t, a, b))
  PROVE  /\ Digits(u) <= Digits(t) /\ Digits(u) \in Nat /\ Digits(t) \in Nat
         /\ \A i \in 1..Len(u) : IsZeroWidth(u[i]) \/ "digit" \in DOMAIN u[i] =>
              \E q \in 1..Len(t) : t[q] = u[i]
<1> DEFINE v == Aged(t, a, b)
           A == DigitAt(u)
           B == DigitAt(t)
           f == [i \in A |-> i]
<1>1. PICK g : Embeds(g, u, v)  BY DEF PartOf
<1>2. Len(v) = Len(t) /\ \A k \in 1..Len(t) : v[k] = Worn(t[k], a, b)
  BY AgedFacts
<1> HIDE DEF v
<1>3. /\ Len(u) \in Nat
      /\ \A i \in 1..Len(u) : g[i] \in 1..Len(t) /\ u[i] = v[g[i]]
  BY <1>1, <1>2 DEF Embeds
<1>4. \A i, k \in 1..Len(u) : g[i] = g[k] <=> i = k  BY <1>1, EmbedsFacts
<1>5. ASSUME NEW i \in 1..Len(u), IsZeroWidth(u[i]) \/ "digit" \in DOMAIN u[i]
      PROVE  g[i] \in 1..Len(t) /\ t[g[i]] = u[i]
  <2>1. u[i] = Worn(t[g[i]], a, b) /\ g[i] \in 1..Len(t)  BY <1>2, <1>3
  <2> DEFINE c == t[g[i]]
             d == Worn(c, a, b)
  <2>2. "digit" \in DOMAIN d \/ IsZeroWidth(d) => d = c  BY WornFacts
  <2>3. u[i] = d  BY <2>1
  <2> HIDE DEF d
  <2>4. "digit" \in DOMAIN d \/ IsZeroWidth(d)  BY <1>5, <2>3
  <2> QED BY <2>1, <2>2, <2>3, <2>4
<1>6. IsFiniteSet(A) /\ IsFiniteSet(B) /\ Cardinality(A) \in Nat
      /\ Cardinality(B) \in Nat
  <2>1. \A m \in Nat : IsFiniteSet(1..m)  BY FS_Interval
  <2>2. A \subseteq 1..Len(u) /\ B \subseteq 1..Len(t)  BY DEF DigitAt
  <2>3. IsFiniteSet(A) /\ IsFiniteSet(B)  BY <1>3, <2>1, <2>2, FS_Subset
  <2> QED BY <2>3, FS_CardinalityType
<1>7. \A i \in A : /\ i \in 1..Len(u) /\ "digit" \in DOMAIN u[i]
                   /\ u[i].digit # 16
  BY DEF DigitAt
<1>8. \A i \in A : g[i] \in B  BY <1>5, <1>7 DEF DigitAt
<1>9. Cardinality(A) <= Cardinality(B)
  <2> DEFINE G == [i \in A |-> g[i]]
  <2>1. G \in [A -> B]  BY <1>8
  <2>2. \A x, y \in A : G[x] = G[y] => x = y  BY <1>4, <1>7
  <2> HIDE DEF G, A, B
  <2> QED BY <1>6, <2>1, <2>2, NoLarger
<1> QED BY <1>5, <1>6, <1>9, DigitsIs

(* All digits of the carrier are in what is sent. *)
LEMMA DigitsSent ==
  ASSUME NEW h \in Hosts, NEW c, NEW cl, NEW base, NEW magic,
         NEW p \in Seq(0..3),
         <<cl, base>> \in Alphabets, IsCode(c, cl, base, magic, p)
  PROVE  Digits(h \o c) = Len(c)
<1> DEFINE out == h \o c
           m == Len(h)
           n == Len(c)
           D == DigitAt(out)
           f == [k \in 1..n |-> m + k]
<1>1. /\ m \in Nat /\ n \in Nat /\ Len(out) = m + n
      /\ \A k \in 1..m : out[k] = h[k]
      /\ \A k \in 1..n : /\ out[m + k] = c[k]
                         /\ "digit" \in DOMAIN c[k] /\ c[k].digit # 16
  BY BehindFacts
<1>2. \A k \in 1..m : "digit" \notin DOMAIN h[k]
  BY HostFacts
<1> HIDE DEF out, m, n
<1>3. \A k \in 1..n : m + k \in D
  <2> TAKE k \in 1..n
  <2>1. m + k \in 1..(m + n)  BY <1>1
  <2>2. m + k \in 1..Len(out)  BY <1>1, <2>1
  <2>3. "digit" \in DOMAIN out[m + k] /\ out[m + k].digit # 16  BY <1>1
  <2> QED BY <2>2, <2>3 DEF DigitAt
<1>4. ASSUME NEW d \in D PROVE \E k \in 1..n : m + k = d
  <2>1. d \in 1..Len(out) /\ "digit" \in DOMAIN out[d] /\ out[d].digit # 16
    BY DEF DigitAt
  <2>2. d \in 1..(m + n)  BY <1>1, <2>1
  <2>3. d \notin 1..m  BY <1>1, <1>2, <2>1
  <2>4. d - m \in 1..n /\ m + (d - m) = d  BY <1>1, <2>2, <2>3
  <2> QED BY <2>4
<1> HIDE DEF D
<1>5. f \in [1..n -> D]  BY <1>3
<1>6. \A x, y \in 1..n : f[x] = f[y] => x = y  BY <1>1
<1>7. \A d \in D : \E x \in 1..n : f[x] = d  BY <1>4
<1>8. IsFiniteSet(1..n) /\ Cardinality(1..n) = n
  <2>1. \A k \in Nat : IsFiniteSet(1..k) /\ Cardinality(1..k) = k
    <3> TAKE k \in Nat
    <3>1. 1 \in Int /\ k \in Int  OBVIOUS
    <3>2. /\ IsFiniteSet(1..k)
          /\ Cardinality(1..k) = IF 1 > k THEN 0 ELSE k - 1 + 1
      BY <3>1, FS_Interval, Zenon
    <3> QED BY <3>2
  <2> QED BY <1>1, <2>1
<1> HIDE DEF f
<1>9. Cardinality(D) = Cardinality(1..n)  BY <1>5, <1>6, <1>7, <1>8, SameSize
<1> QED BY <1>8, <1>9, DigitsIs DEF D, n, out

(* How tag and zwbin fare. *)
LEMMA DigitOutcome ==
  ASSUME NEW s, Sending(s), s.method \in {"tag", "zwbin"},
         NEW p \in BOOLEAN, NEW e \in BOOLEAN,
         NEW t, PartOf(t, Aged(s.out, p, e)),
         NEW o \in RecoverOutcomes(s, t)
  PROVE  ReadAs(o, Digits(t), Digits(s.out))
<1> DEFINE h == s.host
           w == s.payload
<1>1. h \in Hosts /\ w \in Seq(0..3)  BY SentFacts DEF Sending
<1>2. CASE s.method = "tag"
  <2> DEFINE c == Tag!Encode(w)
             d == Decoded(RunOf(t, "punct"), 16, 195)
  <2>1. s.out = h \o c /\ IsCode(c, "punct", 16, 195, w)  BY <1>2, SentFacts
  <2>2. <<"punct", 16>> \in Alphabets  BY DEF Alphabets
  <2>3. RecoverOutcomes(s, t) = {Classify(Tag!Extract(t), w)}
    BY <1>2 DEF RecoverOutcomes
  <2> HIDE DEF c, h, w
  <2>4. PartOf(t, Aged(h \o c, p, e))  BY <2>1
  <2>5. Len(t) \in Nat /\ HasDigits(t)  BY <1>1, <2>1, <2>2, <2>4, DigitsTravel
  <2>6. Tag!Extract(t) = d  BY <2>5, TagReads
  <2>7. o = Classify(d, w)  BY <2>3, <2>6
  <2>8. Digits(h \o c) = Len(c)  BY <1>1, <2>1, <2>2, DigitsSent
  <2> DEFINE dd == d
  <2>9. dd = Decoded(RunOf(t, "punct"), 16, 195) /\ o = Classify(dd, w)
    BY <2>7
  <2> HIDE DEF dd, d
  <2>10. ReadAs(o, Digits(t), Len(c))
    BY <1>1, <2>1, <2>2, <2>4, <2>9, DigitsRead
  <2>11. Digits(s.out) = Len(c)  BY <2>1, <2>8
  <2> QED BY <2>10, <2>11 DEF h
<1>3. CASE s.method = "zwbin"
  <2> DEFINE c == Zwbin!Encode(w)
             d == Decoded(RunOf(t, "symbol"), 2, 2)
  <2>1. s.out = h \o c /\ IsCode(c, "symbol", 2, 2, w)  BY <1>3, SentFacts
  <2>2. <<"symbol", 2>> \in Alphabets  BY DEF Alphabets
  <2>3. RecoverOutcomes(s, t) = {Classify(Zwbin!Extract(t), w)}
    BY <1>3 DEF RecoverOutcomes
  <2> HIDE DEF c, h, w
  <2>4. PartOf(t, Aged(h \o c, p, e))  BY <2>1
  <2>5. Len(t) \in Nat /\ HasDigits(t)  BY <1>1, <2>1, <2>2, <2>4, DigitsTravel
  <2>6. Zwbin!Extract(t) = d  BY <2>5, ZwbinReads
  <2>7. o = Classify(d, w)  BY <2>3, <2>6
  <2>8. Digits(h \o c) = Len(c)  BY <1>1, <2>1, <2>2, DigitsSent
  <2> DEFINE dd == d
  <2>9. dd = Decoded(RunOf(t, "symbol"), 2, 2) /\ o = Classify(dd, w)
    BY <2>7
  <2> HIDE DEF dd, d
  <2>10. ReadAs(o, Digits(t), Len(c))
    BY <1>1, <2>1, <2>2, <2>4, <2>9, DigitsRead
  <2>11. Digits(s.out) = Len(c)  BY <2>1, <2>8
  <2> QED BY <2>10, <2>11 DEF h
<1> QED BY <1>2, <1>3
Hit(t) == {x \in Shards : ~There(t, x)}

(* What of the carrier has to be left. *)
Complete(s, t) ==
  IF s.method = "zwc" THEN Cardinality(Hit(t)) <= PARITY_SHARDS
                      ELSE Digits(t) = Digits(s.out)

Whole(s, t) == (s.method = "zwc" => Kept(s, t)) /\ Complete(s, t)
Safe(s, t) == BindingOk(s, t) /\ Complete(s, t)

LEMMA HitFinite ==
  \A t : /\ IsFiniteSet(Hit(t)) /\ Cardinality(Hit(t)) \in Nat
         /\ PARITY_SHARDS \in Nat
<1> TAKE t
<1>1. Hit(t) \subseteq Shards  BY DEF Hit
<1>2. IsFiniteSet(Hit(t))  BY <1>1, ShardCount, FS_Subset
<1>3. PARITY_SHARDS \in Nat  BY ShardsAssumption, ParityAssumption
<1> QED BY <1>2, <1>3, FS_CardinalityType

(* A reading without the binding is "intact" exactly when what it needs is *)
(* left, as long as the watermark's reader looks in the right places.      *)
LEMMA Fate ==
  ASSUME NEW s, Sending(s), s.method # "simhash", NEW t, Travels(s, t),
         s.method = "zwc" => Kept(s, t), NEW o \in RecoverOutcomes(s, t)
  PROVE  /\ o = "intact" <=> Complete(s, t)
         /\ s.method = "zwc" => o \in {"intact", "gone"}
<1>1. PICK p \in BOOLEAN, e \in BOOLEAN : PartOf(t, Aged(s.out, p, e))
  BY DEF Travels
<1>2. CASE s.method = "zwc"
  <2>1. o \in ZwcOutcomes(s, t)  BY <1>2 DEF RecoverOutcomes
  <2> DEFINE hit == Hit(t)
  <2>2. hit = {x \in Shards : ~There(t, x)}  BY DEF Hit
  <2> HIDE DEF hit
  <2>3. ZwcOutcomes(s, t) = IF Cardinality(hit) > PARITY_SHARDS THEN {"gone"}
                            ELSE {"intact"}
    BY <1>1, <1>2, <2>2, ZwcReads
  <2>4. Cardinality(hit) \in Nat /\ PARITY_SHARDS \in Nat
    BY HitFinite DEF hit
  <2>5. /\ o = "intact" <=> Cardinality(hit) <= PARITY_SHARDS
        /\ o \in {"intact", "gone"}
    BY <2>1, <2>3, <2>4
  <2> QED BY <1>2, <2>5 DEF Complete, hit
<1>3. CASE s.method \in {"tag", "zwbin"}
  <2>1. ReadAs(o, Digits(t), Digits(s.out))
    BY <1>1, <1>3, DigitOutcome
  <2>2. o = "intact" <=> Digits(t) = Digits(s.out)  BY <2>1 DEF ReadAs
  <2> QED BY <1>3, <2>2 DEF Complete
<1>4. s.method \in {"tag", "zwbin", "zwc"}  BY SentFacts
<1> QED BY <1>2, <1>3, <1>4

(* A reading with the binding is "intact" only when that is there as well. *)
LEMMA SafeFate ==
  ASSUME NEW s, Sending(s), s.method # "simhash", NEW t, Travels(s, t),
         NEW o \in RecoverOutcomes(s, t)
  PROVE  Refine(s, t, o) = "intact" <=> Safe(s, t)
<1>1. CASE ~BindingOk(s, t)
  <2>1. Refine(s, t, o) # "intact"  BY <1>1 DEF Refine
  <2> QED BY <1>1, <2>1 DEF Safe
<1>2. CASE BindingOk(s, t)
  <2>1. Refine(s, t, o) = o  BY <1>2 DEF Refine
  <2>2. s.method = "zwc" => Kept(s, t)  BY <1>2, BoundIsKept
  <2>3. o = "intact" <=> Complete(s, t)  BY <2>2, Fate
  <2> QED BY <1>2, <2>1, <2>3 DEF Safe
<1> QED BY <1>1, <1>2

(* What is complete was complete before. *)
LEMMA CompleteStays ==
  ASSUME NEW s, Sending(s), NEW t, Travels(s, t), NEW u, HopOf(t, u),
         Complete(s, u)
  PROVE  Complete(s, t)
<1>1. PICK p \in BOOLEAN, e \in BOOLEAN : PartOf(t, Aged(s.out, p, e))
  BY DEF Travels
<1>2. PICK a \in BOOLEAN, b \in BOOLEAN : PartOf(u, Aged(t, a, b))
  BY DEF HopOf
<1>7. t \in Seq(Range(t)) /\ Len(t) \in Nat  BY <1>1 DEF PartOf
<1>8. /\ Digits(u) <= Digits(t) /\ Digits(u) \in Nat /\ Digits(t) \in Nat
      /\ \A i \in 1..Len(u) : IsZeroWidth(u[i]) \/ "digit" \in DOMAIN u[i] =>
           \E k \in 1..Len(t) : t[k] = u[i]
  BY <1>2, <1>7, DigitsFade
<1>9. CASE s.method = "zwc"
  <2>1. \A x \in Shards : There(u, x) => There(t, x)
    <3> SUFFICES ASSUME NEW x \in Shards, There(u, x),
                        NEW k \in 1..SYMBOLS_PER_SHARD
                 PROVE  \E r \in 1..Len(t) : t[r] = Run[x][k]
      BY DEF There
    <3>1. PICK i \in 1..Len(u) : u[i] = Run[x][k]  BY DEF There
    <3>2. IsSymbol(Run[x][k])  BY RunsAreRuns DEF SymbolRuns
    <3>3. IsZeroWidth(u[i])  BY <3>1, <3>2, CharKinds
    <3> QED BY <1>8, <3>1, <3>3
  <2>2. Hit(t) \subseteq Hit(u)  BY <2>1 DEF Hit
  <2>3. Cardinality(Hit(t)) <= Cardinality(Hit(u))
    BY <2>2, HitFinite, FS_Subset
  <2>4. Cardinality(Hit(u)) <= PARITY_SHARDS  BY <1>9 DEF Complete
  <2>5. Cardinality(Hit(t)) <= PARITY_SHARDS  BY <2>3, <2>4, HitFinite
  <2> QED BY <1>9, <2>5 DEF Complete
<1>10. CASE s.method # "zwc"
  <2>1. Digits(u) = Digits(s.out)  BY <1>10 DEF Complete
  <2>2. Len(s.out) \in Nat  BY SentFacts
  <2>3. Digits(t) <= Digits(s.out) /\ Digits(s.out) \in Nat
    BY <1>1, <2>2, DigitsFade
  <2>4. Digits(t) = Digits(s.out)  BY <1>8, <2>1, <2>3
  <2> QED BY <1>10, <2>4 DEF Complete
<1> QED BY <1>9, <1>10

LEMMA SafeStays ==
  ASSUME NEW s, Sending(s), NEW t, Travels(s, t), NEW u, HopOf(t, u)
  PROVE  /\ Safe(s, u) => Safe(s, t)
         /\ Whole(s, u) => Whole(s, t)
<1>1. Complete(s, u) => Complete(s, t)  BY CompleteStays
<1>2. BindingOk(s, u) => BindingOk(s, t)  BY BindStays
<1>3. s.method = "zwc" => (Kept(s, u) => Kept(s, t))  BY KeptStays
<1> QED BY <1>1, <1>2, <1>3 DEF Safe, Whole

-----------------------------------------------------------------------------
(* The transports. *)

LEMMA HopSame ==
  ASSUME NEW t, t \in Seq(Range(t))
  PROVE  PartOf(t, Aged(t, FALSE, FALSE)) /\ HopOf(t, t)
<1>1. Aged(t, FALSE, FALSE) = t  BY AgedNot
<1>2. PartOf(t, Aged(t, FALSE, FALSE))  BY <1>1, PartSelf
<1>3. FALSE \in BOOLEAN  OBVIOUS
<1> QED BY <1>2, <1>3 DEF HopOf

LEMMA HopAged ==
  ASSUME NEW t, t \in Seq(Range(t)), NEW a \in BOOLEAN, NEW b \in BOOLEAN
  PROVE  PartOf(Aged(t, a, b), Aged(t, a, b)) /\ HopOf(t, Aged(t, a, b))
<1>1. Aged(t, a, b) \in Seq(Range(Aged(t, a, b)))
  <2>1. Len(t) \in Nat  OBVIOUS
  <2> QED BY <2>1, AgedFacts
<1>2. PartOf(Aged(t, a, b), Aged(t, a, b))  BY <1>1, PartSelf
<1> QED BY <1>2 DEF HopOf

(* Characters are removed. *)
LEMMA HopThin ==
  ASSUME NEW t, t \in Seq(Range(t)), NEW u, PartOf(u, t)
  PROVE  PartOf(u, Aged(t, FALSE, FALSE)) /\ HopOf(t, u)
<1>1. Aged(t, FALSE, FALSE) = t  BY AgedNot
<1>2. PartOf(u, Aged(t, FALSE, FALSE))  BY <1>1
<1>3. FALSE \in BOOLEAN  OBVIOUS
<1> QED BY <1>2, <1>3 DEF HopOf

LEMMA StripThin ==
  ASSUME NEW t, t \in Seq(Range(t))
  PROVE  PartOf(Strip(t), t)
<1> DEFINE P == {i \in 1..Len(t) : ~IsZeroWidth(t[i])}
<1>1. Len(t) \in Nat /\ P \in SUBSET (1..Len(t))  OBVIOUS
<1> HIDE DEF P
<1>3. PartOf(At(t, P), t)  BY <1>1, PartAt
<1> QED BY <1>3 DEF Strip, P

LEMMA CutThin ==
  ASSUME NEW t, t \in Seq(Range(t)), NEW n \in 0..Len(t)
  PROVE  PartOf(SubSeq(t, 1, n), t)
<1> DEFINE u == SubSeq(t, 1, n)
<1>1. PICK g : Embeds(g, u, t)  BY PrefixEmbeds
<1>2. Len(u) = n /\ \A i \in 1..n : u[i] = t[i]  OBVIOUS
<1>3. u \in Seq(Range(u))
  <2>1. u = [i \in 1..n |-> t[i]] /\ n \in Nat  OBVIOUS
  <2>2. u \in [1..n -> Range(u)]  BY <2>1 DEF Range
  <2> HIDE DEF u
  <2> QED BY <2>1, <2>2
<1> QED BY <1>1, <1>3 DEF PartOf

-----------------------------------------------------------------------------
(* The inductive invariant: the text is what transports leave of the one   *)
(* that was sent, an outcome is one of this text's, and after a reading    *)
(* that failed something is gone that a reading needs.                     *)

TravelInv ==
  /\ Sending(sent)
  /\ Travels(sent, text)
  /\ outcome # "unread" => outcome \in RecoverOutcomes(sent, text)
  /\ sent.method # "simhash" =>
       /\ failed # {} => ~Safe(sent, text)
       /\ failed \ {"bind-broke"} # {} => ~Whole(sent, text)

LEMMA SendingInit == Init => Sending(sent)
<1> SUFFICES ASSUME Init PROVE Sending(sent)  OBVIOUS
<1>1. PICK m \in Methods, h \in Hosts :
        \E p \in IF m \in {"tag", "zwbin"} THEN Payloads ELSE {<< >>} :
        /\ m = "zwc" => Cardinality(WordEnds(h)) >= TOTAL_SHARDS
        /\ \E ord \in IF m = "zwc" THEN Orders(Cardinality(WordEnds(h)))
                                   ELSE {<< >>} :
           \E out \in Embeddings(m, h, p, ord) :
             sent = [method |-> m, host |-> h, payload |-> p, order |-> ord,
                     out |-> out]
  BY DEF Init
<1>6. PICK p \in IF m \in {"tag", "zwbin"} THEN Payloads ELSE {<< >>} :
        /\ m = "zwc" => Cardinality(WordEnds(h)) >= TOTAL_SHARDS
        /\ \E ord \in IF m = "zwc" THEN Orders(Cardinality(WordEnds(h)))
                                   ELSE {<< >>} :
           \E out \in Embeddings(m, h, p, ord) :
             sent = [method |-> m, host |-> h, payload |-> p, order |-> ord,
                     out |-> out]
  BY <1>1
<1>2. PICK ord \in IF m = "zwc" THEN Orders(Cardinality(WordEnds(h)))
                                ELSE {<< >>} :
        \E out \in Embeddings(m, h, p, ord) :
          sent = [method |-> m, host |-> h, payload |-> p, order |-> ord,
                  out |-> out]
  BY <1>6
<1>3. PICK out \in Embeddings(m, h, p, ord) :
        sent = [method |-> m, host |-> h, payload |-> p, order |-> ord,
                out |-> out]
  BY <1>2
<1>4. /\ sent.method = m /\ sent.host = h /\ sent.payload = p
      /\ sent.order = ord /\ sent.out = out
  BY <1>3
<1>5. m = "zwc" => ord \in Orders(Cardinality(WordEnds(h)))  BY <1>2
<1> QED BY <1>1, <1>3, <1>4, <1>5, <1>6 DEF Sending

LEMMA TravelInit == Init => TravelInv
<1> SUFFICES ASSUME Init PROVE TravelInv  OBVIOUS
<1>1. Sending(sent)  BY SendingInit
<1>2. text = sent.out /\ failed = {} /\ outcome = "unread"  BY DEF Init
<1>3. sent.out \in Seq(Range(sent.out))  BY <1>1, SentFacts
<1>4. PartOf(sent.out, Aged(sent.out, FALSE, FALSE))  BY <1>3, HopSame
<1>5. FALSE \in BOOLEAN  OBVIOUS
<1>6. Travels(sent, text)  BY <1>2, <1>4, <1>5 DEF Travels
<1> QED BY <1>1, <1>2, <1>6 DEF TravelInv

AnyHop ==
  \/ Identity \/ Nfc \/ Nfkc \/ Nfkd \/ StripBom \/ BmpOnly
  \/ StripZeroWidth \/ StripVariationSel \/ StripTags
  \/ DropCarrier \/ BurstLoss \/ TruncateAfterHost \/ Reflow

(* Transports that remove characters. *)
LEMMA WithoutThin ==
  ASSUME text \in Seq(Range(text)), NEW P
  PROVE  PartOf(Without(P), text)
<1> DEFINE K == (1..Len(text)) \ P
<1>1. Len(text) \in Nat /\ K \in SUBSET (1..Len(text))  OBVIOUS
<1> HIDE DEF K
<1>3. PartOf(At(text, K), text)  BY <1>1, PartAt
<1> QED BY <1>3 DEF Without, K

(* A compatibility form is replaced. *)
LEMMA PlainAged ==
  [k \in 1..Len(text) |-> ToPlain(text[k])] = Aged(text, TRUE, FALSE)
<1>1. \A k \in 1..Len(text) : ToPlain(text[k]) = Worn(text[k], TRUE, FALSE)
  BY DEF ToPlain, Worn
<1> QED BY <1>1 DEF Aged

LEMMA ReflowAged ==
  [k \in 1..Len(text) |-> IF text[k] = Newline THEN Blank ELSE text[k]]
    = Aged(text, FALSE, TRUE)
<1>1. \A k \in 1..Len(text) :
        (IF text[k] = Newline THEN Blank ELSE text[k])
          = Worn(text[k], FALSE, TRUE)
  BY DEF Worn
<1> QED BY <1>1 DEF Aged

LEMMA HopStep ==
  ASSUME TravelInv, AnyHop
  PROVE  /\ HopOf(text, text')
         /\ sent' = sent /\ failed' = failed /\ outcome' = "unread"
<1>1. PICK p \in BOOLEAN, e \in BOOLEAN : PartOf(text, Aged(sent.out, p, e))
  BY DEF TravelInv, Travels
<1>2. text \in Seq(Range(text)) /\ Sending(sent)  BY <1>1 DEF PartOf, TravelInv
<1>3. TRUE \in BOOLEAN /\ FALSE \in BOOLEAN  OBVIOUS
<1>4. HopOf(text, text)  BY <1>2, HopSame
<1>5. ASSUME NEW name, NEW u, Hop(name, u), HopOf(text, u)
      PROVE  /\ HopOf(text, text')
             /\ sent' = sent /\ failed' = failed /\ outcome' = "unread"
  BY <1>5 DEF Hop
<1>6. CASE Identity  BY <1>4, <1>5, <1>6 DEF Identity
<1>7. CASE Nfc  BY <1>4, <1>5, <1>7 DEF Nfc
<1>8. HopOf(text, Aged(text, TRUE, FALSE))  BY <1>2, <1>3, HopAged
<1>9. CASE Nfkc
  <2>1. Hop("nfkc", Aged(text, TRUE, FALSE))  BY <1>9, PlainAged DEF Nfkc
  <2> QED BY <1>5, <1>8, <2>1
<1>10. CASE Nfkd
  <2>1. Hop("nfkd", Aged(text, TRUE, FALSE))  BY <1>10, PlainAged DEF Nfkd
  <2> QED BY <1>5, <1>8, <2>1
<1>11. CASE StripBom  BY <1>4, <1>5, <1>11 DEF StripBom
<1>12. \A P : HopOf(text, Without(P))
  <2> TAKE P
  <2>1. PartOf(Without(P), text)  BY <1>2, WithoutThin
  <2> QED BY <1>2, <2>1, HopThin
<1>13. CASE BmpOnly
  <2> DEFINE P == {k \in 1..Len(text) : AboveBmp(text[k])}
  <2>1. Hop("bmp-only", Without(P))  BY <1>13 DEF BmpOnly
  <2> HIDE DEF P
  <2> QED BY <1>5, <1>12, <2>1
<1>14. CASE StripZeroWidth
  <2>1. HopOf(text, Strip(text))  BY <1>2, StripThin, HopThin
  <2> QED BY <1>5, <1>14, <2>1 DEF StripZeroWidth
<1>15. CASE StripVariationSel
  <2> DEFINE P == {k \in 1..Len(text) : IsVs(text[k])}
  <2>1. Hop("strip-variation-sel", Without(P))  BY <1>15 DEF StripVariationSel
  <2> HIDE DEF P
  <2> QED BY <1>5, <1>12, <2>1
<1>16. CASE StripTags
  <2> DEFINE P == {k \in 1..Len(text) : IsTag(text[k])}
  <2>1. Hop("strip-tags", Without(P))  BY <1>16 DEF StripTags, TagsRemoved
  <2> HIDE DEF P
  <2> QED BY <1>5, <1>12, <2>1
<1>17. CASE DropCarrier
  <2>1. PICK P \in SUBSET CarrierPositions : Hop("drop", Without(P))
    BY <1>17 DEF DropCarrier
  <2> QED BY <1>5, <1>12, <2>1
<1>18. CASE BurstLoss
  <2>1. PICK first \in CarrierPositions, last \in CarrierPositions :
          Hop("burst", Without({k \in CarrierPositions :
                                  first <= k /\ k <= last}))
    BY <1>18 DEF BurstLoss
  <2> DEFINE P == {k \in CarrierPositions : first <= k /\ k <= last}
  <2>2. Hop("burst", Without(P))  BY <2>1
  <2> HIDE DEF P
  <2> QED BY <1>5, <1>12, <2>2
<1>19. CASE TruncateAfterHost
  <2>1. PICK n \in 0..Len(text) : Hop("truncate", SubSeq(text, 1, n))
    BY <1>19 DEF TruncateAfterHost
  <2>2. PartOf(SubSeq(text, 1, n), text)  BY <1>2, <2>1, CutThin
  <2>3. HopOf(text, SubSeq(text, 1, n))  BY <1>2, <2>2, HopThin
  <2> QED BY <1>5, <2>1, <2>3
<1>20. CASE Reflow
  <2>1. Hop("reflow", Aged(text, FALSE, TRUE))  BY <1>20, ReflowAged DEF Reflow
  <2>2. HopOf(text, Aged(text, FALSE, TRUE))  BY <1>2, <1>3, HopAged
  <2> QED BY <1>5, <2>1, <2>2
<1> QED BY <1>6, <1>7, <1>9, <1>10, <1>11, <1>13, <1>14, <1>15, <1>16, <1>17,
           <1>18, <1>19, <1>20 DEF AnyHop

LEMMA TravelNext == TravelInv /\ [Next]_vars => TravelInv'
<1> SUFFICES ASSUME TravelInv, [Next]_vars PROVE TravelInv'  OBVIOUS
<1>1. /\ Sending(sent) /\ Travels(sent, text)
      /\ sent.method # "simhash" =>
           /\ failed # {} => ~Safe(sent, text)
           /\ failed \ {"bind-broke"} # {} => ~Whole(sent, text)
      /\ outcome # "unread" => outcome \in RecoverOutcomes(sent, text)
  BY DEF TravelInv
<1>2. PICK p \in BOOLEAN, e \in BOOLEAN : PartOf(text, Aged(sent.out, p, e))
  BY <1>1 DEF Travels
<1>3. CASE AnyHop
  <2>1. /\ HopOf(text, text')
        /\ sent' = sent /\ failed' = failed /\ outcome' = "unread"
    BY <1>3, HopStep
  <2>2. PICK a \in BOOLEAN, b \in BOOLEAN : PartOf(text', Aged(text, a, b))
    BY <2>1 DEF HopOf
  <2>3. PartOf(text', Aged(sent.out, p \/ a, e \/ b))
    BY <1>1, <1>2, <2>2, TravelsOn
  <2>4. (p \/ a) \in BOOLEAN /\ (e \/ b) \in BOOLEAN  OBVIOUS
  <2>5. Travels(sent, text')  BY <2>3, <2>4 DEF Travels
  <2>6. /\ Safe(sent, text') => Safe(sent, text)
        /\ Whole(sent, text') => Whole(sent, text)
    BY <1>1, <2>1, SafeStays
  <2> QED BY <1>1, <2>1, <2>5, <2>6 DEF TravelInv
<1>4. CASE Recover
  <2> DEFINE o == outcome'
             cell == Refine(sent, text, outcome')
  <2>1. /\ o \in RecoverOutcomes(sent, text)
        /\ failed' = failed \cup ({o, cell} \ {"intact"})
        /\ sent' = sent /\ text' = text
    BY <1>4 DEF Recover
  <2>2. cell = o \/ (cell = "bind-broke" /\ o = "intact")  BY DEF Refine
  <2>3. sent.method # "simhash" => (cell = "intact" <=> Safe(sent, text))
    BY <1>1, <2>1, SafeFate
  <2>4. sent.method # "simhash" /\ Whole(sent, text) => o = "intact"
    BY <1>1, <2>1, Fate DEF Whole
  <2> HIDE DEF o, cell
  <2>5. sent.method # "simhash" /\ failed' # {} => ~Safe(sent, text)
    <3> SUFFICES ASSUME sent.method # "simhash", failed' # {}, Safe(sent, text)
                 PROVE  FALSE
      OBVIOUS
    <3>1. cell = "intact" /\ failed = {}  BY <1>1, <2>3
    <3> QED BY <2>1, <2>2, <3>1
  <2>6. sent.method # "simhash" /\ failed' \ {"bind-broke"} # {} =>
          ~Whole(sent, text)
    <3> SUFFICES ASSUME sent.method # "simhash", failed' \ {"bind-broke"} # {},
                        Whole(sent, text)
                 PROVE  FALSE
      OBVIOUS
    <3>1. o = "intact" /\ failed \ {"bind-broke"} = {}  BY <1>1, <2>4
    <3> QED BY <2>1, <2>2, <3>1
  <2>7. outcome' \in RecoverOutcomes(sent, text)  BY <2>1 DEF o
  <2> QED BY <1>1, <2>1, <2>5, <2>6, <2>7 DEF TravelInv
<1>5. CASE UNCHANGED vars
  BY <1>1, <1>5 DEF vars, TravelInv
<1>6. Next => AnyHop \/ Recover  BY DEF Next, AnyHop
<1> QED BY <1>3, <1>4, <1>5, <1>6

LEMMA TravelAlways == Spec => []TravelInv
  BY TravelInit, TravelNext, PTL DEF Spec
-----------------------------------------------------------------------------
(* What a fingerprint reads as, and a watermark whose reader looks in the  *)
(* right places.                                                           *)
LEMMA CodedNeverWrong ==
  ASSUME NEW s, Sending(s), NEW t, Travels(s, t),
         s.method = "zwc" => Kept(s, t),
         s.method \notin {"tag", "zwbin"}, NEW o \in RecoverOutcomes(s, t)
  PROVE  o \in {"intact", "gone"}
<1>1. CASE s.method = "zwc"  BY <1>1, Fate
<1>2. CASE s.method = "simhash"
  <2>1. o \in SimhashOutcomes(s, t)  BY <1>2 DEF RecoverOutcomes
  <2> QED BY <2>1 DEF SimhashOutcomes
<1>3. s.method \in {"zwc", "simhash"}
  <2>1. s.method \in {"tag", "zwbin", "zwc", "simhash"}  BY SentFacts
  <2> QED BY <2>1
<1> QED BY <1>1, <1>2, <1>3

(* transport_survivability.rs: a wrong payload is read only out of the     *)
(* carriers without a code, and only when whole bytes' worth of their      *)
(* digits is gone, whatever transports did it, however many and whatever   *)
(* became of the host; a watermark never reads wrong while content hash    *)
(* and number of gaps are kept.                                            *)
THEOREM OnlyWholeBytesMislead == Spec => []WrongOnlyByWholeBytes
<1>1. TravelInv => WrongOnlyByWholeBytes
  <2> SUFFICES ASSUME TravelInv, outcome = "unsafe",
                      sent.method = "zwc" => Kept(sent, text)
               PROVE  /\ sent.method \in {"tag", "zwbin"}
                      /\ DigitsLost > 0 /\ DigitsLost % 2 = 0
    BY DEF WrongOnlyByWholeBytes
  <2>1. Sending(sent) /\ Travels(sent, text)  BY DEF TravelInv
  <2>2. PICK p \in BOOLEAN, e \in BOOLEAN : PartOf(text, Aged(sent.out, p, e))
    BY <2>1 DEF Travels
  <2>3. outcome \in RecoverOutcomes(sent, text)  BY DEF TravelInv
  <2>4. sent.method \in {"tag", "zwbin"}
    <3> SUFFICES ASSUME sent.method \notin {"tag", "zwbin"} PROVE FALSE
      OBVIOUS
    <3>1. outcome \in {"intact", "gone"}  BY <2>1, <2>3, CodedNeverWrong
    <3> QED BY <3>1
  <2>5. ReadAs(outcome, Digits(text), Digits(sent.out))
    BY <2>1, <2>2, <2>3, <2>4, DigitOutcome
  <2>6. /\ Digits(text) \in Nat /\ Digits(sent.out) \in Nat
        /\ Digits(text) < Digits(sent.out)
        /\ (Digits(sent.out) - Digits(text)) % 2 = 0
    BY <2>5 DEF ReadAs
  <2> QED BY <2>4, <2>6 DEF DigitsLost
<1> QED BY <1>1, TravelAlways, PTL

(* transport_survivability.rs, "erasure coding is count-based": while      *)
(* content hash and number of gaps are kept, a watermark is recovered      *)
(* exactly when at most PARITY_SHARDS of its runs were hit, and is         *)
(* otherwise gone.                                                         *)
THEOREM ErasureCodeCounts == Spec => []CodedCountsShards
<1>1. TravelInv => CodedCountsShards
  <2> SUFFICES ASSUME TravelInv, sent.method = "zwc", outcome # "unread",
                      Kept(sent, text)
               PROVE  outcome = IF Cardinality(Hit(text)) > PARITY_SHARDS
                                THEN "gone" ELSE "intact"
    BY DEF CodedCountsShards, Hit, There
  <2>1. Sending(sent) /\ Travels(sent, text)  BY DEF TravelInv
  <2>2. outcome \in RecoverOutcomes(sent, text)  BY DEF TravelInv
  <2>3. outcome \in {"intact", "gone"}  BY <2>1, <2>2, Fate
  <2>4. outcome = "intact" <=> Complete(sent, text)  BY <2>1, <2>2, Fate
  <2>5. Cardinality(Hit(text)) \in Nat /\ PARITY_SHARDS \in Nat  BY HitFinite
  <2> QED BY <2>3, <2>4, <2>5 DEF Complete
<1> QED BY <1>1, TravelAlways, PTL

(* transport_survivability.rs, "one lossy hop kills the whole chain": no   *)
(* cell of tier0 is intact after further transports when the carrier was   *)
(* once not read intact or its binding was broken, and no reading of       *)
(* robustness_summary, which stops at the first budget that fails, when it *)
(* was not read intact.                                                    *)
THEOREM LossIsForGood == Spec => []LostStaysLost
<1>1. TravelInv => LostStaysLost
  <2> SUFFICES ASSUME TravelInv, sent.method # "simhash"
               PROVE  /\ failed # {} => Cell # "intact"
                      /\ /\ failed \ {"bind-broke"} # {}
                         /\ sent.method = "zwc" => Kept(sent, text)
                         => outcome # "intact"
    BY DEF LostStaysLost
  <2>1. /\ Sending(sent) /\ Travels(sent, text)
        /\ outcome # "unread" => outcome \in RecoverOutcomes(sent, text)
        /\ failed # {} => ~Safe(sent, text)
        /\ failed \ {"bind-broke"} # {} => ~Whole(sent, text)
    BY DEF TravelInv
  <2>2. ASSUME failed # {}, Cell = "intact" PROVE FALSE
    <3>1. Refine(sent, text, outcome) = "intact"  BY <2>2 DEF Cell
    <3>2. outcome # "unread"  BY <3>1 DEF Refine
    <3>3. outcome \in RecoverOutcomes(sent, text)  BY <2>1, <3>2
    <3>4. Safe(sent, text)  BY <2>1, <3>1, <3>3, SafeFate
    <3> QED BY <2>1, <2>2, <3>4
  <2>3. ASSUME failed \ {"bind-broke"} # {},
               sent.method = "zwc" => Kept(sent, text), outcome = "intact"
        PROVE  FALSE
    <3>1. outcome \in RecoverOutcomes(sent, text)  BY <2>1, <2>3
    <3>2. Complete(sent, text)
      <4>1. sent.method = "zwc" => Kept(sent, text)  BY <2>3
      <4>2. Sending(sent) /\ Travels(sent, text)  BY <2>1
      <4>3. outcome = "intact" <=> Complete(sent, text)
        BY <3>1, <4>1, <4>2, Fate
      <4> QED BY <2>3, <4>3
    <3>3. Whole(sent, text)  BY <2>3, <3>2 DEF Whole
    <3> QED BY <2>1, <2>3, <3>3
  <2> QED BY <2>2, <2>3
<1> QED BY <1>1, TravelAlways, PTL

-----------------------------------------------------------------------------
(* A text that was only cut off behind the host. *)

CutOff(s, t) ==
  \E e \in BOOLEAN : \E n \in Len(s.host)..Len(s.out) :
    t = SubSeq(Aged(s.out, FALSE, e), 1, n)

CutKinds == {"truncate", "identity", "nfc", "reflow"}

(* A cut of a cut, and the lines of a cut set anew. *)
LEMMA CutAgain ==
  ASSUME NEW s, Sending(s), NEW t, CutOff(s, t)
  PROVE  /\ \A n \in Len(s.host)..Len(t) : CutOff(s, SubSeq(t, 1, n))
         /\ Len(t) \in Len(s.host)..Len(t)
         /\ CutOff(s, Aged(t, FALSE, TRUE))
         /\ Len(s.host) \in Nat /\ Len(s.out) \in Nat
<1> DEFINE out == s.out
           m == Len(s.host)
           l == Len(out)
<1>1. out \in Seq(Range(out)) /\ l \in Nat  BY SentFacts
<1>2. m \in Nat  BY HostFacts DEF Sending
<1>3. PICK e \in BOOLEAN, n \in m..l :
        t = SubSeq(Aged(out, FALSE, e), 1, n)
  BY DEF CutOff
<1> DEFINE v == Aged(out, FALSE, e)
<1>4. FALSE \in BOOLEAN /\ TRUE \in BOOLEAN  OBVIOUS
<1>5. Len(v) = l /\ v \in Seq(Range(v)) /\ \A k \in 1..l : v[k] = Worn(out[k], FALSE, e)
  BY <1>1, <1>4, AgedFacts
<1> HIDE DEF v, l, m, out
<1>6. Len(t) = n /\ n \in Nat /\ m <= n /\ n <= l
      /\ t = [k \in 1..n |-> v[k]]
  <2>1. n \in Nat /\ m <= n /\ n <= l  BY <1>1, <1>2
  <2>2. t = SubSeq(v, 1, n)  BY <1>3 DEF v, out
  <2>3. n \in 0..Len(v)  BY <1>5, <2>1
  <2> QED BY <1>5, <2>1, <2>2, <2>3
<1>7. ASSUME NEW i \in m..n
      PROVE  CutOff(s, SubSeq(t, 1, i))
  <2>1. i \in Nat /\ i <= n /\ i \in m..l  BY <1>1, <1>2, <1>6
  <2>2. SubSeq(t, 1, i) = [k \in 1..i |-> t[k]]  BY <1>6, <2>1
  <2>3. SubSeq(v, 1, i) = [k \in 1..i |-> v[k]]  BY <1>5, <1>6, <2>1
  <2>4. SubSeq(t, 1, i) = SubSeq(v, 1, i)  BY <1>6, <2>1, <2>2, <2>3
  <2> QED BY <2>1, <2>4 DEF CutOff, v, m, l, out
<1>8. CutOff(s, Aged(t, FALSE, TRUE))
  <2> DEFINE d == e \/ TRUE
             w == Aged(out, FALSE, d)
  <2>0. d \in BOOLEAN /\ n \in m..l  BY <1>3
  <2>1. Len(w) = l /\ w \in Seq(Range(w))
        /\ \A k \in 1..l : w[k] = Worn(out[k], FALSE, d)
    <3> HIDE DEF d
    <3> QED BY <1>1, <1>4, <2>0, AgedFacts DEF l
  <2> HIDE DEF w
  <2>2. \A k \in 1..n : Worn(t[k], FALSE, TRUE) = w[k]
    <3> TAKE k \in 1..n
    <3>1. k \in 1..l /\ t[k] = v[k]  BY <1>1, <1>6
    <3>2. Worn(Worn(out[k], FALSE, e), FALSE, TRUE)
            = Worn(out[k], FALSE \/ FALSE, e \/ TRUE)
      BY <1>4, WornTwice
    <3>3. Worn(out[k], FALSE \/ FALSE, e \/ TRUE) = Worn(out[k], FALSE, d)
      BY DEF Worn
    <3> QED BY <1>5, <2>1, <3>1, <3>2, <3>3
  <2>3. Aged(t, FALSE, TRUE) = [k \in 1..n |-> Worn(t[k], FALSE, TRUE)]
    BY <1>6 DEF Aged
  <2>4. SubSeq(w, 1, n) = [k \in 1..n |-> w[k]]  BY <1>6, <2>1
  <2>5. Aged(t, FALSE, TRUE) = SubSeq(w, 1, n)  BY <2>2, <2>3, <2>4
  <2> HIDE DEF d
  <2> QED BY <1>3, <2>0, <2>5 DEF CutOff, w, out, m, l
<1>9. \A i \in m..Len(t) : CutOff(s, SubSeq(t, 1, i))  BY <1>6, <1>7
<1>10. Len(t) \in m..Len(t)  BY <1>2, <1>6
<1> QED BY <1>1, <1>2, <1>8, <1>9, <1>10 DEF m, l, out

LEMMA CutNothing == \A s : Sending(s) => CutOff(s, s.out)
<1> SUFFICES ASSUME NEW s, Sending(s) PROVE CutOff(s, s.out)  OBVIOUS
<1> DEFINE out == s.out
           m == Len(s.host)
           l == Len(out)
<1>1. out \in Seq(Range(out)) /\ l \in Nat /\ Carries(out, s.host)  BY SentFacts
<1>2. m \in Nat  BY HostFacts DEF Sending
<1>3. PICK g : Embeds(g, s.host, out)  BY <1>1 DEF Carries
<1>4. m <= l
  <2> DEFINE M == Missing(g, s.host, out)
  <2>1. IsFiniteSet(M) /\ Cardinality(M) = l - m  BY <1>3, MissingCount
  <2> HIDE DEF M
  <2>2. Cardinality(M) \in Nat  BY <2>1, FS_CardinalityType
  <2> QED BY <1>1, <1>2, <2>1, <2>2
<1>5. Aged(out, FALSE, FALSE) = out  BY <1>1, AgedNot
<1>6. SubSeq(out, 1, l) = out  BY <1>1
<1>7. l \in m..l /\ FALSE \in BOOLEAN  BY <1>1, <1>2, <1>4
<1> HIDE DEF out, m, l
<1>8. out = SubSeq(Aged(out, FALSE, FALSE), 1, l)  BY <1>5, <1>6
<1> QED BY <1>7, <1>8 DEF CutOff, out, m, l

-----------------------------------------------------------------------------
(* The transports by their names. *)

Untagged(t) == At(t, {k \in 1..Len(t) : ~IsTag(t[k])})

InBmp(t) == At(t, {k \in 1..Len(t) : ~AboveBmp(t[k])})
Unselected(t) == At(t, {k \in 1..Len(t) : ~IsVs(t[k])})

KeepingKinds == {"identity", "nfc", "strip-bom"}
Kinds == KeepingKinds \cup {"nfkc", "nfkd", "bmp-only", "strip-tags",
           "strip-variation-sel", "strip-zero-width", "drop", "burst",
           "truncate", "reflow"}

NamedHop(name, s, t, u) ==
  /\ name \in Kinds
  /\ name \in KeepingKinds => u = t
  /\ name \in {"nfkc", "nfkd"} => u = Aged(t, TRUE, FALSE)
  /\ name = "bmp-only" => u = InBmp(t)
  /\ name = "strip-tags" => u = Untagged(t)
  /\ name = "strip-variation-sel" => u = Unselected(t)
  /\ name = "strip-zero-width" => u = Strip(t)
  /\ name = "truncate" =>
       \E n \in 0..Len(t) : /\ n >= Len(s.host) \/ n = Len(t)
                            /\ u = SubSeq(t, 1, n)
  /\ name = "reflow" => u = Aged(t, FALSE, TRUE)

LEMMA Removals ==
  /\ TagsRemoved = Untagged(text)
  /\ Without({k \in 1..Len(text) : AboveBmp(text[k])}) = InBmp(text)
  /\ Without({k \in 1..Len(text) : IsVs(text[k])}) = Unselected(text)
<1>1. (1..Len(text)) \ {k \in 1..Len(text) : IsTag(text[k])}
        = {k \in 1..Len(text) : ~IsTag(text[k])}
  OBVIOUS
<1>2. (1..Len(text)) \ {k \in 1..Len(text) : AboveBmp(text[k])}
        = {k \in 1..Len(text) : ~AboveBmp(text[k])}
  OBVIOUS
<1>3. (1..Len(text)) \ {k \in 1..Len(text) : IsVs(text[k])}
        = {k \in 1..Len(text) : ~IsVs(text[k])}
  OBVIOUS
<1> QED BY <1>1, <1>2, <1>3 DEF TagsRemoved, Without, Untagged, InBmp, Unselected

LEMMA HopsNamed ==
  ASSUME AnyHop
  PROVE  \E name, u : Hop(name, u) /\ NamedHop(name, sent, text, u)
<1>1. CASE Identity
  <2>1. Hop("identity", text)  BY <1>1 DEF Identity
  <2>2. NamedHop("identity", sent, text, text)
    BY DEF NamedHop, Kinds, KeepingKinds
  <2> QED BY <2>1, <2>2
<1>2. CASE Nfc
  <2>1. Hop("nfc", text)  BY <1>2 DEF Nfc
  <2>2. NamedHop("nfc", sent, text, text)  BY DEF NamedHop, Kinds, KeepingKinds
  <2> QED BY <2>1, <2>2
<1>3. CASE StripBom
  <2>1. Hop("strip-bom", text)  BY <1>3 DEF StripBom
  <2>2. NamedHop("strip-bom", sent, text, text)
    BY DEF NamedHop, Kinds, KeepingKinds
  <2> QED BY <2>1, <2>2
<1>4. CASE StripVariationSel
  <2>1. Hop("strip-variation-sel", Unselected(text))
    BY <1>4, Removals DEF StripVariationSel
  <2>2. NamedHop("strip-variation-sel", sent, text, Unselected(text))
    BY DEF NamedHop, Kinds, KeepingKinds
  <2> QED BY <2>1, <2>2
<1>5. CASE Nfkc
  <2> DEFINE u == Aged(text, TRUE, FALSE)
  <2>1. Hop("nfkc", u)  BY <1>5, PlainAged DEF Nfkc
  <2>2. NamedHop("nfkc", sent, text, u)  BY DEF NamedHop, Kinds, KeepingKinds
  <2> QED BY <2>1, <2>2
<1>6. CASE Nfkd
  <2> DEFINE u == Aged(text, TRUE, FALSE)
  <2>1. Hop("nfkd", u)  BY <1>6, PlainAged DEF Nfkd
  <2>2. NamedHop("nfkd", sent, text, u)  BY DEF NamedHop, Kinds, KeepingKinds
  <2> QED BY <2>1, <2>2
<1>7. CASE BmpOnly
  <2>1. Hop("bmp-only", InBmp(text))  BY <1>7, Removals DEF BmpOnly
  <2>2. NamedHop("bmp-only", sent, text, InBmp(text))
    BY DEF NamedHop, Kinds, KeepingKinds
  <2> QED BY <2>1, <2>2
<1>8. CASE StripTags
  <2>1. Hop("strip-tags", Untagged(text))  BY <1>8, Removals DEF StripTags
  <2>2. NamedHop("strip-tags", sent, text, Untagged(text))
    BY DEF NamedHop, Kinds, KeepingKinds
  <2> QED BY <2>1, <2>2
<1>9. CASE StripZeroWidth
  <2>1. Hop("strip-zero-width", Strip(text))  BY <1>9 DEF StripZeroWidth
  <2>2. NamedHop("strip-zero-width", sent, text, Strip(text))
    BY DEF NamedHop, Kinds, KeepingKinds
  <2> QED BY <2>1, <2>2
<1>10. CASE DropCarrier
  <2>1. PICK u : Hop("drop", u)  BY <1>10 DEF DropCarrier
  <2>2. NamedHop("drop", sent, text, u)  BY DEF NamedHop, Kinds, KeepingKinds
  <2> QED BY <2>1, <2>2
<1>11. CASE BurstLoss
  <2>1. PICK u : Hop("burst", u)  BY <1>11 DEF BurstLoss
  <2>2. NamedHop("burst", sent, text, u)  BY DEF NamedHop, Kinds, KeepingKinds
  <2> QED BY <2>1, <2>2
<1>12. CASE TruncateAfterHost
  <2>1. PICK n \in 0..Len(text) :
          /\ n >= Len(sent.host) \/ n = Len(text)
          /\ Hop("truncate", SubSeq(text, 1, n))
    BY <1>12 DEF TruncateAfterHost
  <2>2. NamedHop("truncate", sent, text, SubSeq(text, 1, n))
    BY <2>1 DEF NamedHop, Kinds, KeepingKinds
  <2> QED BY <2>1, <2>2
<1>13. CASE Reflow
  <2> DEFINE u == Aged(text, FALSE, TRUE)
  <2>1. Hop("reflow", u)  BY <1>13, ReflowAged DEF Reflow
  <2>2. NamedHop("reflow", sent, text, u)  BY DEF NamedHop, Kinds, KeepingKinds
  <2> QED BY <2>1, <2>2
<1> QED BY <1>1, <1>2, <1>3, <1>4, <1>5, <1>6, <1>7, <1>8, <1>9, <1>10, <1>11,
           <1>12, <1>13 DEF AnyHop

(* What the history of the journey says of the text. *)
HistoryInv ==
  /\ hops \in Seq(Kinds)
  /\ Len(hops) = 0 => text = sent.out
  /\ Len(hops) = 1 => NamedHop(hops[1], sent, sent.out, text)
  /\ HopKinds \subseteq CutKinds => CutOff(sent, text)

LEMMA HistoryInit == Init => HistoryInv
<1> SUFFICES ASSUME Init PROVE HistoryInv  OBVIOUS
<1>1. text = sent.out /\ hops = << >>  BY DEF Init
<1>2. CutOff(sent, text)  BY <1>1, SendingInit, CutNothing
<1>3. hops \in Seq(Kinds) /\ Len(hops) = 0  BY <1>1
<1> QED BY <1>1, <1>2, <1>3 DEF HistoryInv

LEMMA HistoryNext == Sending(sent) /\ HistoryInv /\ [Next]_vars => HistoryInv'
<1> SUFFICES ASSUME Sending(sent), HistoryInv, [Next]_vars PROVE HistoryInv'
  OBVIOUS
<1>1. /\ hops \in Seq(Kinds)
      /\ Len(hops) = 0 => text = sent.out
      /\ Len(hops) = 1 => NamedHop(hops[1], sent, sent.out, text)
      /\ HopKinds \subseteq CutKinds => CutOff(sent, text)
  BY DEF HistoryInv
<1>2. CASE AnyHop
  <2>1. PICK name, u : Hop(name, u) /\ NamedHop(name, sent, text, u)
    BY <1>2, HopsNamed
  <2>2. text' = u /\ hops' = Append(hops, name) /\ sent' = sent
    BY <2>1 DEF Hop
  <2>3. name \in Kinds  BY <2>1 DEF NamedHop
  <2>4. /\ hops' \in Seq(Kinds) /\ Len(hops') = Len(hops) + 1
        /\ Len(hops) \in Nat
        /\ hops'[Len(hops) + 1] = name
        /\ \A k \in 1..Len(hops) : hops'[k] = hops[k]
    BY <1>1, <2>2, <2>3
  <2>5. Len(hops') = 1 => NamedHop(hops'[1], sent, sent.out, text')
    <3> SUFFICES ASSUME Len(hops') = 1
                 PROVE  NamedHop(hops'[1], sent, sent.out, text')
      OBVIOUS
    <3>0. Len(hops) = 0
      <4>1. Len(hops') = Len(hops) + 1 /\ Len(hops) \in Nat  BY <2>4
      <4> QED BY <4>1
    <3>1. Len(hops) = 0 /\ hops'[1] = name
      <4>1. hops'[Len(hops) + 1] = name  BY <2>4
      <4>2. Len(hops) + 1 = 1  BY <3>0
      <4> QED BY <3>0, <4>1, <4>2
    <3> QED BY <1>1, <2>1, <2>2, <3>1
  <2>6. HopKinds' \subseteq CutKinds => CutOff(sent, text')
    <3> SUFFICES ASSUME HopKinds' \subseteq CutKinds PROVE CutOff(sent, text')
      OBVIOUS
    <3>1. \A k \in 1..Len(hops') : hops'[k] \in CutKinds  BY DEF HopKinds
    <3>2. name \in CutKinds /\ \A k \in 1..Len(hops) : hops[k] \in CutKinds
      BY <2>4, <3>1
    <3>3. CutOff(sent, text)  BY <1>1, <3>2 DEF HopKinds
    <3>4. /\ \A n \in Len(sent.host)..Len(text) :
               CutOff(sent, SubSeq(text, 1, n))
          /\ Len(text) \in Len(sent.host)..Len(text)
          /\ CutOff(sent, Aged(text, FALSE, TRUE))
          /\ Len(sent.host) \in Nat
      BY <3>3, CutAgain
    <3>5. \/ u = text \/ u = Aged(text, FALSE, TRUE)
          \/ \E n \in 0..Len(text) : /\ n >= Len(sent.host) \/ n = Len(text)
                                     /\ u = SubSeq(text, 1, n)
      BY <2>1, <3>2 DEF NamedHop, CutKinds, KeepingKinds
    <3>6. \A n \in 0..Len(text) :
            n >= Len(sent.host) \/ n = Len(text) => n \in Len(sent.host)..Len(text)
      BY <3>4
    <3> QED BY <2>2, <3>3, <3>4, <3>5, <3>6
  <2>7. ~(Len(hops') = 0)  BY <2>4
  <2> QED BY <2>2, <2>4, <2>5, <2>6, <2>7 DEF HistoryInv
<1>3. CASE Recover \/ UNCHANGED vars
  <2>1. text' = text /\ hops' = hops /\ sent' = sent
    BY <1>3 DEF Recover, vars
  <2> QED BY <1>1, <2>1 DEF HistoryInv, HopKinds
<1>4. Next => AnyHop \/ Recover  BY DEF Next, AnyHop
<1> QED BY <1>2, <1>3, <1>4

LEMMA HistoryAlways == Spec => [](TravelInv /\ HistoryInv)
<1>1. TravelInv => Sending(sent)  BY DEF TravelInv
<1> QED BY <1>1, TravelAlways, HistoryInit, HistoryNext, PTL DEF Spec
(* The numbers that follow m, listed. *)
LEMMA NthBehind ==
  ASSUME NEW m \in Nat, NEW r \in Nat, NEW S \in SUBSET Nat,
         \A k \in 1..r : m + k \in S,
         \A q \in S : \E k \in 1..r : m + k = q
  PROVE  Cardinality(S) = r /\ \A k \in 1..r : Nth(S, k) = m + k
<1> DEFINE f == [k \in 1..r |-> m + k]
<1>1. \A k \in 1..r : f[k] = m + k  OBVIOUS
<1> HIDE DEF f
<1>2. Enumerates(f, r, S)  BY <1>1 DEF Enumerates, Rising
<1>3. Cardinality(S) = r /\ \A k \in 1..r : Nth(S, k) = f[k]
  BY <1>2, Enumeration
<1> QED BY <1>1, <1>3

(* Behind position m, the digits of c; before it none. *)
DigitsBehind(out, m, c) ==
  /\ \A k \in 1..m : "digit" \in DOMAIN out[k] => out[k].digit = 16
  /\ \A k \in 1..Len(c) : /\ out[m + k] = c[k]
                           /\ "digit" \in DOMAIN c[k] /\ c[k].digit # 16

(* The first n characters, as line ends have aged. *)
FirstOf(u, out, n, e) ==
  Len(u) = n /\ \A k \in 1..n : u[k] = Worn(out[k], FALSE, e)

(* The digits of a text cut off behind the host. *)
LEMMA CutDigits ==
  ASSUME NEW m \in Nat, NEW c, Len(c) \in Nat, NEW out, NEW e \in BOOLEAN,
         DigitsBehind(out, m, c),
         NEW n \in m..(m + Len(c)), NEW u, FirstOf(u, out, n, e)
  PROVE  At(u, DigitAt(u)) = [k \in 1..(n - m) |-> c[k]]
<1> DEFINE l == Len(c)
           r == n - m
           S == DigitAt(u)
<1>1. \A k \in 1..m : "digit" \in DOMAIN out[k] => out[k].digit = 16
  BY DEF DigitsBehind
<1>2. \A k \in 1..l : /\ out[m + k] = c[k]
                      /\ "digit" \in DOMAIN c[k] /\ c[k].digit # 16
  BY DEF DigitsBehind
<1>3. Len(u) = n /\ \A k \in 1..n : u[k] = Worn(out[k], FALSE, e)
  BY DEF FirstOf
<1>5. n \in Nat /\ m <= n /\ r \in Nat /\ r <= l /\ n = m + r
      /\ l \in Nat
  OBVIOUS
<1> HIDE DEF r, l
<1>8. ASSUME NEW k \in 1..n
      PROVE  /\ "digit" \in DOMAIN u[k] <=> "digit" \in DOMAIN out[k]
             /\ "digit" \in DOMAIN u[k] => u[k] = out[k]
  <2>1. u[k] = Worn(out[k], FALSE, e) /\ FALSE \in BOOLEAN  BY <1>3
  <2>2. /\ "digit" \in DOMAIN Worn(out[k], FALSE, e) <=> "digit" \in DOMAIN out[k]
        /\ "digit" \in DOMAIN out[k] => Worn(out[k], FALSE, e) = out[k]
    BY <2>1, WornFacts
  <2> QED BY <2>1, <2>2
<1>13. \A k \in 1..r : m + k \in S /\ u[m + k] = c[k]
  <2> TAKE k \in 1..r
  <2>1. k \in Nat /\ k >= 1 /\ k <= r  BY <1>5
  <2>6. k \in 1..l /\ m + k \in 1..n  BY <1>5, <2>1
  <2>2. out[m + k] = c[k] /\ "digit" \in DOMAIN c[k] /\ c[k].digit # 16
    BY <1>2, <2>6
  <2> DEFINE i == m + k
  <2>3. i \in 1..n /\ out[i] = c[k]  BY <2>2, <2>6
  <2> HIDE DEF i
  <2>4. "digit" \in DOMAIN u[i] /\ u[i] = c[k]  BY <1>8, <2>2, <2>3
  <2>5. i \in DigitAt(u)  BY <1>3, <2>2, <2>3, <2>4 DEF DigitAt
  <2> QED BY <2>4, <2>5 DEF i
<1>14. ASSUME NEW q \in S PROVE \E k \in 1..r : m + k = q
  <2>1. q \in 1..n /\ "digit" \in DOMAIN u[q] /\ u[q].digit # 16
    BY <1>3 DEF DigitAt
  <2>2. "digit" \in DOMAIN out[q] /\ out[q].digit # 16  BY <1>8, <2>1
  <2>3. q \notin 1..m  BY <1>1, <2>2
  <2>4. q - m \in 1..r /\ m + (q - m) = q  BY <1>5, <2>1, <2>3
  <2> QED BY <2>4
<1>15. S \in SUBSET Nat  BY <1>3, <1>5 DEF DigitAt
<1> HIDE DEF S
<1>17. Cardinality(S) = r /\ \A k \in 1..r : Nth(S, k) = m + k
  <2>1. \A k \in 1..r : m + k \in S  BY <1>13
  <2> QED BY <1>5, <1>14, <1>15, <2>1, NthBehind
<1>18. At(u, S) = [k \in 1..r |-> c[k]]
  <2>1. At(u, S) = [k \in 1..r |-> u[Nth(S, k)]]  BY <1>17 DEF At
  <2> QED BY <1>13, <1>17, <2>1
<1> QED BY <1>18 DEF S, r

LEMMA ProperPrefix ==
  ASSUME NEW S, NEW p \in Seq(S), NEW j \in 0..Len(p), SubSeq(p, 1, j) # p
  PROVE  IsStrictPrefix(SubSeq(p, 1, j), p)
<1> DEFINE s == SubSeq(p, 1, j)
<1>1. j \in Nat /\ j <= Len(p)  OBVIOUS
<1>2. Len(s) = j /\ s \in Seq(S)  BY <1>1
<1>3. SubSeq(s, 1, j) = s
  <2> HIDE DEF s
  <2> QED BY <1>2
<1> HIDE DEF s
<1>4. SubSeq(s, 1, Len(s)) = SubSeq(p, 1, Len(s))  BY <1>2, <1>3 DEF s
<1> QED BY <1>1, <1>2, <1>4 DEF IsStrictPrefix, IsPrefix, s

(* What is cut off behind the host, as letters and line ends have aged. *)
LEMMA Beginning ==
  ASSUME NEW w, w \in Seq(Range(w)), NEW n \in Nat, n <= Len(w)
  PROVE  Len(SubSeq(w, 1, n)) = n /\ \A k \in 1..n : SubSeq(w, 1, n)[k] = w[k]
  OBVIOUS

LEMMA CutText ==
  ASSUME NEW v, v \in Seq(Range(v)), NEW n \in Nat, n <= Len(v),
         NEW e \in BOOLEAN
  PROVE  FirstOf(SubSeq(Aged(v, FALSE, e), 1, n), v, n, e)
<1> DEFINE w == Aged(v, FALSE, e)
           l == Len(v)
           u == SubSeq(w, 1, n)
<1>1. l \in Nat /\ FALSE \in BOOLEAN  OBVIOUS
<1>2. /\ Len(w) = l /\ w \in Seq(Range(w))
      /\ \A k \in 1..l : w[k] = Worn(v[k], FALSE, e)
  BY <1>1, AgedFacts
<1>3. Len(u) = n /\ \A k \in 1..n : u[k] = w[k]
  <2> HIDE DEF w
  <2> QED BY <1>2, Beginning
<1>4. \A k \in 1..n : k \in 1..l  BY <1>1
<1> HIDE DEF u, w, l
<1>5. FirstOf(u, v, n, e)  BY <1>2, <1>3, <1>4 DEF FirstOf
<1> QED BY <1>5 DEF u, w

(* What tag and zwbin read of such a text. *)
LEMMA CutRun ==
  ASSUME NEW r \in Nat, NEW c, NEW cl, NEW base \in Nat, NEW magic,
         NEW p \in Seq(0..3), IsCode(c, cl, base, magic, p), r <= Len(c),
         NEW run, Len(run) = r, \A k \in 1..r : run[k] = c[k],
         NEW d, d = Decoded(run, base, magic),
         d.status = "payload", d.bytes # p
  PROVE  IsStrictPrefix(d.bytes, p)
<1> DEFINE q == r \div 2
           j == q - 1
<1>1. Len(c) = 2 * (Len(p) + 1) /\ Len(p) \in Nat  BY DEF IsCode
<1>2. Len(run) % 2 = 0 /\ Len(run) > 0  BY DecodedFacts
<1>3. q \in 1..(Len(p) + 1) /\ r = 2 * q  BY <1>1, <1>2
<1> HIDE DEF q
<1>4. Decoded(run, base, magic)
        = [status |-> "payload", bytes |-> SubSeq(p, 1, q - 1)]
  BY <1>3, DecodedCode
<1>5. j \in 0..Len(p) /\ d.bytes = SubSeq(p, 1, j)  BY <1>1, <1>3, <1>4
<1> HIDE DEF j
<1> QED BY <1>5, ProperPrefix

LEMMA CutReads ==
  ASSUME NEW h \in Hosts, NEW c, NEW cl, NEW base \in Nat, NEW magic,
         NEW p \in Seq(0..3), <<cl, base>> \in Alphabets,
         IsCode(c, cl, base, magic, p),
         NEW a \in BOOLEAN, NEW b \in BOOLEAN, NEW e \in BOOLEAN,
         NEW n \in Len(h)..Len(h \o c), NEW u, FirstOf(u, h \o c, n, e),
         PartOf(u, Aged(h \o c, a, b)),
         NEW d, d = Decoded(RunOf(u, cl), base, magic),
         d.status = "payload", d.bytes # p
  PROVE  IsStrictPrefix(d.bytes, p)
<1> DEFINE m == Len(h)
           l == Len(c)
           r == n - m
           out == h \o c
           run == RunOf(u, cl)
<1>1. /\ m \in Nat /\ l \in Nat /\ Len(out) = m + l
      /\ \A k \in 1..m : out[k] = h[k]
      /\ \A k \in 1..l : /\ out[m + k] = c[k]
                         /\ "digit" \in DOMAIN c[k] /\ c[k].digit # 16
  BY BehindFacts
<1>9. /\ HasDigits(u) /\ Len(u) \in Nat
      /\ InClass(u, cl) = DigitAt(u)
  BY DigitsTravel
<1>12. InClass(u, cl) = DigitAt(u)  BY <1>9
<1>13. FirstOf(u, out, n, e)  OBVIOUS
<1>2. DigitsBehind(out, m, c)
  <2>1. \A k \in 1..m : "digit" \in DOMAIN out[k] => out[k].digit = 16
    BY <1>1, HostFacts
  <2> HIDE DEF out, m
  <2> QED BY <1>1, <2>1 DEF DigitsBehind
<1> HIDE DEF out
<1>14. n \in m..(m + l)  BY <1>1 DEF out
<1> HIDE DEF m
<1>15. At(u, DigitAt(u)) = [k \in 1..(n - m) |-> c[k]]
  BY <1>1, <1>2, <1>13, <1>14, CutDigits
<1> HIDE DEF l
<1>16. run = [k \in 1..r |-> c[k]]  BY <1>12, <1>15 DEF RunOf
<1>17. r \in Nat /\ r <= l  BY <1>1, <1>14
<1> HIDE DEF r
<1>18. Len(run) = r /\ \A k \in 1..r : run[k] = c[k]  BY <1>16, <1>17
<1>19. d = Decoded(run, base, magic)  OBVIOUS
<1> HIDE DEF run
<1> QED BY <1>17, <1>18, <1>19, CutRun DEF l

(* examples/transport_survivability.rs, truncate_after_host: what tag and  *)
(* zwbin yield of a text that was cut off behind the host and is not what  *)
(* was sent is a proper beginning of it.                                   *)
THEOREM CutsYieldPrefixes == Spec => []TruncatedIsPrefix
<1>1. TravelInv /\ HistoryInv => TruncatedIsPrefix
  <2> DEFINE got == IF sent.method = "tag" THEN Tag!Extract(text)
                                           ELSE Zwbin!Extract(text)
  <2> SUFFICES ASSUME TravelInv, HistoryInv, HopKinds \subseteq CutKinds,
                      sent.method \in {"tag", "zwbin"}, outcome = "unsafe"
               PROVE  IsStrictPrefix(got.bytes, sent.payload)
    BY DEF TruncatedIsPrefix, CutKinds
  <2>1. Sending(sent) /\ CutOff(sent, text)  BY DEF TravelInv, HistoryInv
  <2>2. PICK p \in BOOLEAN, b \in BOOLEAN : PartOf(text, Aged(sent.out, p, b))
    BY DEF TravelInv, Travels
  <2>3. outcome \in RecoverOutcomes(sent, text)  BY DEF TravelInv
  <2>5. PICK e \in BOOLEAN, n \in Len(sent.host)..Len(sent.out) :
          text = SubSeq(Aged(sent.out, FALSE, e), 1, n)
    BY <2>1 DEF CutOff
  <2>10. FirstOf(text, sent.out, n, e)
    <3> DEFINE out == sent.out
    <3>1. out \in Seq(Range(out)) /\ Len(out) \in Nat  BY <2>1, SentFacts
    <3>2. Len(sent.host) \in Nat  BY <2>1, HostFacts DEF Sending
    <3>3. n \in Nat /\ n <= Len(out)  BY <3>1, <3>2
    <3>4. text = SubSeq(Aged(out, FALSE, e), 1, n)  BY <2>5
    <3> HIDE DEF out
    <3>5. FirstOf(SubSeq(Aged(out, FALSE, e), 1, n), out, n, e)
      BY <3>1, <3>3, CutText
    <3> QED BY <3>4, <3>5 DEF out
  <2> DEFINE h == sent.host
             w == sent.payload
  <2>7. h \in Hosts /\ w \in Seq(0..3)  BY <2>1, SentFacts DEF Sending
  <2>8. CASE sent.method = "tag"
    <3> DEFINE c == Tag!Encode(w)
    <3>1. sent.out = h \o c /\ IsCode(c, "punct", 16, 195, w)
      BY <2>1, <2>8, SentFacts
    <3>2. <<"punct", 16>> \in Alphabets  BY DEF Alphabets
    <3>3. RecoverOutcomes(sent, text) = {Classify(Tag!Extract(text), w)}
      BY <2>8 DEF RecoverOutcomes
    <3> HIDE DEF c, h, w
    <3>4. PartOf(text, Aged(h \o c, p, b))  BY <2>2, <3>1
    <3>5. Len(text) \in Nat /\ HasDigits(text)
      BY <2>7, <3>1, <3>2, <3>4, DigitsTravel
    <3> DEFINE d == Tag!Extract(text)
    <3>6. d = Decoded(RunOf(text, "punct"), 16, 195)  BY <3>5, TagReads
    <3>7. Classify(d, w) = "unsafe"  BY <2>3, <3>3
    <3> HIDE DEF d
    <3>8. d.status \in {"none", "corrupt", "payload"}
      <4> DEFINE run == RunOf(text, "punct")
      <4>1. Len(run) \in Nat  BY <3>5, RunOfFacts
      <4> HIDE DEF run
      <4> QED BY <3>6, <4>1, DecodedFacts DEF run
    <3>9. d.status = "payload" /\ d.bytes # w  BY <3>7, <3>8 DEF Classify
    <3>10. n \in Len(h)..Len(sent.out) /\ 16 \in Nat
      BY <2>5 DEF h
    <3>12. n \in Len(h)..Len(h \o c) /\ FirstOf(text, h \o c, n, e)
      BY <2>10, <3>1, <3>10
    <3>11. IsStrictPrefix(d.bytes, w)
      BY <2>7, <3>1, <3>2, <3>4, <3>6, <3>9, <3>10, <3>12, CutReads
    <3> QED BY <2>8, <3>11 DEF d, w
  <2>9. CASE sent.method = "zwbin"
    <3> DEFINE c == Zwbin!Encode(w)
    <3>1. sent.out = h \o c /\ IsCode(c, "symbol", 2, 2, w)
      BY <2>1, <2>9, SentFacts
    <3>2. <<"symbol", 2>> \in Alphabets  BY DEF Alphabets
    <3>3. RecoverOutcomes(sent, text) = {Classify(Zwbin!Extract(text), w)}
      BY <2>9 DEF RecoverOutcomes
    <3> HIDE DEF c, h, w
    <3>4. PartOf(text, Aged(h \o c, p, b))  BY <2>2, <3>1
    <3>5. Len(text) \in Nat /\ HasDigits(text)
      BY <2>7, <3>1, <3>2, <3>4, DigitsTravel
    <3> DEFINE d == Zwbin!Extract(text)
    <3>6. d = Decoded(RunOf(text, "symbol"), 2, 2)  BY <3>5, ZwbinReads
    <3>7. Classify(d, w) = "unsafe"  BY <2>3, <3>3
    <3> HIDE DEF d
    <3>8. d.status \in {"none", "corrupt", "payload"}
      <4> DEFINE run == RunOf(text, "symbol")
      <4>1. Len(run) \in Nat  BY <3>5, RunOfFacts
      <4> HIDE DEF run
      <4> QED BY <3>6, <4>1, DecodedFacts DEF run
    <3>9. d.status = "payload" /\ d.bytes # w  BY <3>7, <3>8 DEF Classify
    <3>10. n \in Len(h)..Len(sent.out) /\ 2 \in Nat
      BY <2>5 DEF h
    <3>12. n \in Len(h)..Len(h \o c) /\ FirstOf(text, h \o c, n, e)
      BY <2>10, <3>1, <3>10
    <3>11. IsStrictPrefix(d.bytes, w)
      BY <2>7, <3>1, <3>2, <3>4, <3>6, <3>9, <3>10, <3>12, CutReads
    <3> QED BY <2>9, <3>11 DEF d, w
  <2> QED BY <2>8, <2>9
<1> QED BY <1>1, HistoryAlways, PTL
-----------------------------------------------------------------------------
(* One transport, for a host of letters and blanks: the rows of the table. *)

PlainText(h) == \A k \in 1..Len(h) : h[k] \in {Plain, Blank, Newline}

Bare(c) == ~IsVs(c) /\ "astral" \notin DOMAIN c

LEMMA PlainFacts ==
  ASSUME NEW h, PlainText(h)
  PROVE  /\ CarrierFree(h)
         /\ \A k \in 1..Len(h) : Bare(h[k])
  BY Letters DEF PlainText, CarrierFree, Bare

(* What the characters of a marked text are. *)
LEMMA OutChars ==
  ASSUME NEW s, Sending(s), PlainText(s.host), NEW k \in 1..Len(s.out)
  PROVE  /\ Bare(s.out[k])
         /\ s.method = "tag" =>
              /\ ~IsZeroWidth(s.out[k])
              /\ "digit" \in DOMAIN s.out[k] => IsTag(s.out[k])
         /\ s.method = "zwbin" =>
              /\ ~IsTag(s.out[k])
              /\ "digit" \in DOMAIN s.out[k] => IsZeroWidth(s.out[k])
         /\ s.method = "zwc" => ~IsTag(s.out[k])
         /\ s.method = "simhash" => ~IsTag(s.out[k]) /\ ~IsZeroWidth(s.out[k])
<1> DEFINE h == s.host
           w == s.payload
           out == s.out
<1>1. h \in Hosts /\ w \in Seq(0..3)  BY SentFacts DEF Sending
<1>2. /\ h \in Seq(Range(h)) /\ Len(h) \in Nat
      /\ \A i \in 1..Len(h) : /\ ~IsZeroWidth(h[i]) /\ ~IsTag(h[i])
                              /\ "digit" \notin DOMAIN h[i] /\ Bare(h[i])
  BY <1>1, HostFacts, PlainFacts
<1>3. ASSUME NEW c, NEW cl, NEW base, NEW magic, <<cl, base>> \in Alphabets,
             IsCode(c, cl, base, magic, w), out = h \o c
      PROVE  \/ \E i \in 1..Len(h) : out[k] = h[i]
             \/ /\ out[k].class = cl /\ "digit" \in DOMAIN out[k]
                /\ Bare(out[k])
  <2> DEFINE o == h \o c
  <2>0. k \in 1..Len(o)  BY <1>3
  <2> HIDE DEF h, w, out
  <2>1. /\ Len(o) = Len(h) + Len(c) /\ Len(c) \in Nat
        /\ \A i \in 1..Len(h) : o[i] = h[i]
        /\ \A i \in 1..Len(c) : /\ o[Len(h) + i] = c[i]
                                /\ c[i].class = cl /\ "digit" \in DOMAIN c[i]
    BY <1>1, <1>3, BehindFacts
  <2>4. \A i \in 1..Len(c) : Bare(c[i])
    <3> TAKE i \in 1..Len(c)
    <3>1. c[i] = [class |-> cl, digit |-> c[i].digit]  BY <1>3 DEF IsCode
    <3>2. "vs" \notin DOMAIN c[i] /\ "astral" \notin DOMAIN c[i]  BY <3>1
    <3> QED BY <3>2 DEF Bare, IsVs
  <2> HIDE DEF o
  <2>2. CASE k <= Len(h)
    <3>1. k \in 1..Len(h)  BY <1>2, <2>0, <2>1, <2>2
    <3> QED BY <1>3, <2>1, <3>1 DEF o
  <2>3. CASE k > Len(h)
    <3> DEFINE i == k - Len(h)
    <3>1. i \in 1..Len(c) /\ k = Len(h) + i  BY <1>2, <2>0, <2>1, <2>3
    <3> HIDE DEF i
    <3>2. o[k].class = cl /\ "digit" \in DOMAIN o[k] /\ Bare(o[k])
      BY <2>1, <2>4, <3>1
    <3> QED BY <1>3, <3>2 DEF o
  <2> QED BY <1>2, <2>0, <2>1, <2>2, <2>3
<1>4. CASE s.method = "tag"
  <2>1. \/ \E i \in 1..Len(h) : out[k] = h[i]
        \/ /\ out[k].class = "punct" /\ "digit" \in DOMAIN out[k]
           /\ Bare(out[k])
    <3> DEFINE c == Tag!Encode(w)
    <3>1. out = h \o c /\ IsCode(c, "punct", 16, 195, w)  BY <1>4, SentFacts
    <3>2. <<"punct", 16>> \in Alphabets  BY DEF Alphabets
    <3> HIDE DEF c, out, h, w
    <3> QED BY <1>3, <3>1, <3>2
  <2> HIDE DEF h, w, out
  <2>3. Bare(out[k])  BY <1>2, <2>1
  <2>2. /\ ~IsZeroWidth(out[k])
        /\ "digit" \in DOMAIN out[k] => IsTag(out[k])
    BY <1>2, <2>1 DEF IsTag, IsZeroWidth
  <2> QED BY <1>4, <2>2, <2>3 DEF out
<1>5. CASE s.method = "zwbin"
  <2>1. \/ \E i \in 1..Len(h) : out[k] = h[i]
        \/ /\ out[k].class = "symbol" /\ "digit" \in DOMAIN out[k]
           /\ Bare(out[k])
    <3> DEFINE c == Zwbin!Encode(w)
    <3>1. out = h \o c /\ IsCode(c, "symbol", 2, 2, w)  BY <1>5, SentFacts
    <3>2. <<"symbol", 2>> \in Alphabets  BY DEF Alphabets
    <3> HIDE DEF c, out, h, w
    <3> QED BY <1>3, <3>1, <3>2
  <2> HIDE DEF h, w, out
  <2>3. Bare(out[k])  BY <1>2, <2>1
  <2>2. /\ ~IsTag(out[k])
        /\ "digit" \in DOMAIN out[k] => IsZeroWidth(out[k])
    BY <1>2, <2>1 DEF IsTag, IsZeroWidth
  <2> QED BY <1>5, <2>2, <2>3 DEF out
<1>6. CASE s.method = "zwc"
  <2>1. PICK ins \in SortedInsertions(h, s.order, Run) : out = Woven(h, ins)
    BY <1>6, SentFacts
  <2> DEFINE ord == s.order
             f == HostAt(h, ins)
  <2>2. ins \in SortedInsertions(h, ord, Run)  BY <2>1
  <2>3. \A r \in Range(Run) : \A i \in 1..SYMBOLS_PER_SHARD :
          IsSymbol(r[i]) /\ Bare(r[i])
    <3> TAKE r \in Range(Run)
    <3> TAKE i \in 1..SYMBOLS_PER_SHARD
    <3>1. IsSymbol(r[i])  BY RunsAreRuns, AreSymbols
    <3>2. PICK x \in Shards : r = Run[x]  BY DEF Range, Run
    <3>3. r[i] = [class |-> "symbol", shard |-> x, part |-> i]
      BY <3>2 DEF Run
    <3>4. "vs" \notin DOMAIN r[i] /\ "astral" \notin DOMAIN r[i]  BY <3>3
    <3> QED BY <3>1, <3>4 DEF Bare, IsVs
  <2> HIDE DEF h, out, ord, w
  <2>4. /\ Embeds(f, h, out)
        /\ \A j \in 1..TOTAL_SHARDS, i \in 1..SYMBOLS_PER_SHARD :
             out[RunStart(ins, j) + i] = ins[j].run[i]
        /\ \A p \in 1..Len(out) :
             \/ \E i \in 1..Len(h) : p = f[i]
             \/ \E j \in 1..TOTAL_SHARDS, i \in 1..SYMBOLS_PER_SHARD :
                  p = RunStart(ins, j) + i
    <3>1. h \in Seq(Range(h))  BY <1>2
    <3> QED BY <2>1, <2>2, <3>1, WovenParts
  <2>5. \A j \in 1..TOTAL_SHARDS : ins[j].run \in Range(Run)
    <3>1. \A j \in 1..TOTAL_SHARDS : ins[j] \in Insertions(h, ord, Run)
      BY <2>2 DEF SortedInsertions
    <3> QED BY <3>1 DEF Insertions
  <2>6. k \in 1..Len(out)  BY DEF out
  <2>7. CASE \E i \in 1..Len(h) : k = f[i]
    <3>1. PICK i \in 1..Len(h) : k = f[i]  BY <2>7
    <3>2. out[k] = h[i]  BY <2>4, <3>1 DEF Embeds
    <3> QED BY <1>2, <1>6, <3>2 DEF out
  <2>8. CASE \E j \in 1..TOTAL_SHARDS, i \in 1..SYMBOLS_PER_SHARD :
               k = RunStart(ins, j) + i
    <3>1. PICK j \in 1..TOTAL_SHARDS, i \in 1..SYMBOLS_PER_SHARD :
            k = RunStart(ins, j) + i
      BY <2>8
    <3>2. IsSymbol(out[k]) /\ Bare(out[k])  BY <2>3, <2>4, <2>5, <3>1
    <3>3. ~IsTag(out[k])  BY <3>2 DEF IsTag, IsSymbol
    <3> QED BY <1>6, <3>2, <3>3 DEF out
  <2> QED BY <2>4, <2>6, <2>7, <2>8
<1>7. CASE s.method = "simhash"
  <2>1. out = h  BY <1>7, SentFacts
  <2> QED BY <1>2, <1>7, <2>1
<1> QED BY <1>4, <1>5, <1>6, <1>7, SentFacts

LEMMA NoDigitsLeft ==
  ASSUME NEW t, Len(t) \in Nat, NEW P \in SUBSET (1..Len(t)),
         \A q \in P : "digit" \notin DOMAIN t[q]
  PROVE  Digits(At(t, P)) = 0
<1> DEFINE u == At(t, P)
<1>1. PICK g : Embeds(g, u, t) /\ \A i \in 1..Len(u) : g[i] \in P
  BY AtEmbeds
<1> HIDE DEF u
<1>2. \A i \in 1..Len(u) : u[i] = t[g[i]]  BY <1>1 DEF Embeds
<1>3. DigitAt(u) = {}  BY <1>1, <1>2 DEF DigitAt
<1>4. Cardinality({}) = 0  BY FS_EmptySet
<1> QED BY <1>3, <1>4, DigitsIs DEF u

(* Nothing was lost. *)
LEMMA WholeComplete ==
  ASSUME NEW s, Sending(s), NEW p \in BOOLEAN,
         NEW t, t = Aged(s.out, p, FALSE)
  PROVE  Complete(s, t)
<1> DEFINE out == s.out
           n == Len(out)
<1>1. n \in Nat /\ FALSE \in BOOLEAN  BY SentFacts
<1>2. Len(t) = n /\ \A k \in 1..n : t[k] = Worn(out[k], p, FALSE)
  <2> HIDE DEF out
  <2>1. /\ Len(Aged(out, p, FALSE)) = n
        /\ \A k \in 1..n : Aged(out, p, FALSE)[k] = Worn(out[k], p, FALSE)
    BY <1>1, AgedFacts
  <2> QED BY <2>1 DEF out
<1>3. CASE s.method = "zwc"
  <2> DEFINE h == s.host
             ord == s.order
             m == Cardinality(WordEnds(h))
  <2>1. PICK ins \in SortedInsertions(h, ord, Run) : out = Woven(h, ins)
    BY <1>3, SentFacts
  <2>2. h \in Seq(Range(h)) /\ ord \in Orders(m)
    BY <1>3, HostFacts DEF Sending
  <2> HIDE DEF h, ord, m, out, n
  <2>3. \A x \in Shards : \E j \in 1..TOTAL_SHARDS :
          GapRank(h, ins[j].off) = ord[x] /\ ins[j].run = Run[x]
    BY <2>2, ShardRuns
  <2>4. \A j \in 1..TOTAL_SHARDS, k \in 1..SYMBOLS_PER_SHARD :
          /\ RunStart(ins, j) + k \in 1..Len(out)
          /\ out[RunStart(ins, j) + k] = ins[j].run[k]
    BY <2>1, <2>2, WovenParts
  <2>5. ASSUME NEW x \in Shards PROVE There(t, x)
    <3> SUFFICES ASSUME NEW k \in 1..SYMBOLS_PER_SHARD
                 PROVE  \E q \in 1..Len(t) : t[q] = Run[x][k]
      BY DEF There
    <3>1. PICK j \in 1..TOTAL_SHARDS : ins[j].run = Run[x]  BY <2>3
    <3> DEFINE q == RunStart(ins, j) + k
    <3>2. q \in 1..n /\ out[q] = Run[x][k]  BY <2>4, <3>1 DEF n
    <3> HIDE DEF q
    <3>3. IsSymbol(Run[x][k])  BY RunsAreRuns DEF SymbolRuns
    <3>4. IsZeroWidth(out[q])  BY <3>2, <3>3, CharKinds
    <3>5. Worn(out[q], p, FALSE) = out[q]  BY <1>1, <3>4, WornFacts
    <3>6. t[q] = Run[x][k]  BY <1>2, <3>2, <3>5
    <3> QED BY <1>2, <3>2, <3>6
  <2>6. Hit(t) = {}  BY <2>5 DEF Hit
  <2>7. Cardinality(Hit(t)) = 0  BY <2>6, FS_EmptySet
  <2>9. 0 <= PARITY_SHARDS  BY ShardsAssumption, ParityAssumption
  <2>8. Cardinality(Hit(t)) <= PARITY_SHARDS  BY <2>7, <2>9
  <2> QED BY <1>3, <2>8 DEF Complete
<1>4. CASE s.method # "zwc"
  <2>1. \A k \in 1..n : /\ "digit" \in DOMAIN t[k] <=> "digit" \in DOMAIN out[k]
                        /\ "digit" \in DOMAIN t[k] => t[k] = out[k]
    <3> HIDE DEF out, n
    <3> TAKE k \in 1..n
    <3>1. t[k] = Worn(out[k], p, FALSE)  BY <1>2
    <3>2. /\ "digit" \in DOMAIN Worn(out[k], p, FALSE)
               <=> "digit" \in DOMAIN out[k]
          /\ "digit" \in DOMAIN out[k] => Worn(out[k], p, FALSE) = out[k]
      BY <1>1, WornFacts
    <3> QED BY <3>1, <3>2
  <2> HIDE DEF out
  <2>2. DigitAt(t) = DigitAt(out)  BY <1>2, <2>1 DEF DigitAt
  <2>3. Digits(t) = Digits(out)  BY <2>2, DigitsIs
  <2> QED BY <1>4, <2>3 DEF Complete, out
<1> QED BY <1>3, <1>4

LEMMA WholeOutcome ==
  ASSUME NEW s, Sending(s), CarrierFree(s.host), NEW p \in BOOLEAN,
         Aged(s.host, p, FALSE) = s.host,
         NEW t, t = Aged(s.out, p, FALSE), NEW o \in RecoverOutcomes(s, t)
  PROVE  Refine(s, t, o) = "intact"
<1>1. FALSE \in BOOLEAN /\ s.out \in Seq(Range(s.out))  BY SentFacts
<1>2. PartOf(t, Aged(s.out, p, FALSE))
  <2> DEFINE out == s.out
  <2>1. out \in Seq(Range(out)) /\ t = Aged(out, p, FALSE)  BY <1>1
  <2> HIDE DEF out
  <2>2. PartOf(Aged(out, p, FALSE), Aged(out, p, FALSE))
    BY <1>1, <2>1, HopAged
  <2> QED BY <2>1, <2>2 DEF out
<1>3. BindingOk(s, t)
  <2> DEFINE h == s.host
             out == s.out
  <2>1. Carries(out, h) /\ Len(out) \in Nat  BY SentFacts
  <2>2. h \in Seq(Range(h))  BY HostFacts DEF Sending
  <2>3. t = Aged(out, p, FALSE) /\ CarrierFree(h) /\ Aged(h, p, FALSE) = h
    OBVIOUS
  <2> HIDE DEF h, out
  <2>4. Visible(t) = Aged(Visible(out), p, FALSE)
    BY <1>1, <2>1, <2>3, VisibleAged
  <2>5. Visible(h) = Visible(out) /\ Visible(h) = h
    BY <2>1, <2>2, <2>3, VisibleCarried, VisibleWhole
  <2>6. Visible(t) = h  BY <2>3, <2>4, <2>5
  <2> QED BY <2>6 DEF BindingOk, h
<1>4. CASE s.method = "simhash"
  <2>1. t = s.host  BY <1>4, SentFacts
  <2>2. o = "intact"  BY <1>4, <2>1 DEF RecoverOutcomes, SimhashOutcomes
  <2> QED BY <1>4, <2>2 DEF Refine
<1>5. CASE s.method # "simhash"
  <2>1. Safe(s, t)  BY <1>3, WholeComplete DEF Safe
  <2>2. Travels(s, t)  BY <1>1, <1>2 DEF Travels
  <2> QED BY <1>5, <2>1, <2>2, SafeFate
<1> QED BY <1>4, <1>5

LEMMA StillBound ==
  ASSUME NEW s, Sending(s), CarrierFree(s.host),
         NEW P \in SUBSET (1..Len(s.out)),
         \A q \in (1..Len(s.out)) \ P : IsCarrierCp(s.out[q]),
         NEW t, t = At(s.out, P)
  PROVE  BindingOk(s, t) /\ PartOf(t, Aged(s.out, FALSE, FALSE))
<1> DEFINE h == s.host
           out == s.out
<1>1. Carries(out, h) /\ Len(out) \in Nat /\ out \in Seq(Range(out))  BY SentFacts
<1>2. h \in Seq(Range(h)) /\ CarrierFree(h)  BY HostFacts DEF Sending
<1>3. P \in SUBSET (1..Len(out)) /\ t = At(out, P)  OBVIOUS
<1>7. \A q \in (1..Len(out)) \ P : IsCarrierCp(out[q])  OBVIOUS
<1> HIDE DEF h, out
<1>4. PICK g : Embeds(g, At(out, P), out)
               /\ Missing(g, At(out, P), out) = (1..Len(out)) \ P
  BY <1>1, <1>3, AtEmbeds
<1>5. Carries(out, t)  BY <1>3, <1>4, <1>7 DEF Carries
<1>6. Visible(t) = Visible(out) /\ Visible(h) = Visible(out) /\ Visible(h) = h
  <2>1. Visible(t) = Visible(out)  BY <1>5, VisibleCarried
  <2>2. Visible(h) = Visible(out)  BY <1>1, VisibleCarried
  <2>3. Visible(h) = h  BY <1>2, VisibleWhole
  <2> QED BY <2>1, <2>2, <2>3
<1>8. PartOf(t, Aged(out, FALSE, FALSE))
  <2>1. PartOf(t, out)  BY <1>1, <1>3, PartAt
  <2> QED BY <1>1, <2>1, HopThin
<1>9. Visible(t) = h  BY <1>6
<1> QED BY <1>8, <1>9 DEF BindingOk, h, out

(* A removal that finds nothing removes nothing.                           *)
LEMMA NothingRemoved ==
  ASSUME NEW t, t \in Seq(Range(t))
  PROVE  /\ (\A k \in 1..Len(t) : ~IsTag(t[k])) => Untagged(t) = t
         /\ (\A k \in 1..Len(t) : ~IsZeroWidth(t[k])) => Strip(t) = t
         /\ (\A k \in 1..Len(t) : Bare(t[k])) =>
              Unselected(t) = t /\ InBmp(t) = Untagged(t)
<1>1. ASSUME \A k \in 1..Len(t) : ~IsTag(t[k]) PROVE Untagged(t) = t
  <2>1. {k \in 1..Len(t) : ~IsTag(t[k])} = 1..Len(t)  BY <1>1
  <2> QED BY <2>1, AtAll DEF Untagged
<1>2. (\A k \in 1..Len(t) : ~IsZeroWidth(t[k])) => Strip(t) = t
  BY StripSame DEF NoZeroWidth
<1>3. ASSUME \A k \in 1..Len(t) : Bare(t[k])
      PROVE  Unselected(t) = t /\ InBmp(t) = Untagged(t)
  <2>1. {k \in 1..Len(t) : ~IsVs(t[k])} = 1..Len(t)  BY <1>3 DEF Bare
  <2>2. Unselected(t) = t  BY <2>1, AtAll DEF Unselected
  <2>3. {k \in 1..Len(t) : ~AboveBmp(t[k])} = {k \in 1..Len(t) : ~IsTag(t[k])}
    BY <1>3 DEF Bare, AboveBmp
  <2>4. InBmp(t) = Untagged(t)  BY <2>3 DEF InBmp, Untagged
  <2> QED BY <2>2, <2>4
<1> QED BY <1>1, <1>2, <1>3

(* What strip-tags and bmp-only do to tag, and strip-zero-width to zwbin   *)
(* and to zwc.                                                             *)
LEMMA AllGone ==
  ASSUME NEW s, Sending(s), PlainText(s.host),
         NEW t, \/ s.method = "tag" /\ t = Untagged(s.out)
                \/ s.method \in {"zwbin", "zwc"} /\ t = Strip(s.out),
         NEW o \in RecoverOutcomes(s, t)
  PROVE  Refine(s, t, o) = "gone"
<1> DEFINE out == s.out
<1>1. out \in Seq(Range(out)) /\ Len(out) \in Nat  BY SentFacts
<1> DEFINE K == IF s.method = "tag" THEN {k \in 1..Len(out) : ~IsTag(out[k])}
                ELSE {k \in 1..Len(out) : ~IsZeroWidth(out[k])}
<1>2. t = At(out, K) /\ K \in SUBSET (1..Len(out))  BY DEF Untagged, Strip
<1>10. \A q \in (1..Len(out)) \ K : IsCarrierCp(out[q])  BY DEF IsCarrierCp
<1>11. CarrierFree(s.host)  BY PlainFacts
<1>3. /\ BindingOk(s, t) /\ FALSE \in BOOLEAN
      /\ PartOf(t, Aged(s.out, FALSE, FALSE))
  <2> HIDE DEF K
  <2> QED BY <1>2, <1>10, <1>11, StillBound
<1>4. BindingOk(s, t)  BY <1>3
<1>5. Refine(s, t, o) = o  BY <1>4 DEF Refine
<1>6. CASE s.method = "tag"
  <2> DEFINE P == {k \in 1..Len(out) : ~IsTag(out[k])}
  <2>1. t = At(out, P)  BY <1>6 DEF Untagged
  <2>2. \A q \in P : "digit" \notin DOMAIN out[q]  BY <1>6, OutChars
  <2>3. P \in SUBSET (1..Len(out))  OBVIOUS
  <2> HIDE DEF P, out
  <2>4. Digits(t) = 0  BY <1>1, <2>1, <2>2, <2>3, NoDigitsLeft
  <2>5. ReadAs(o, Digits(t), Digits(s.out))  BY <1>3, <1>6, DigitOutcome
  <2> QED BY <1>5, <2>4, <2>5 DEF ReadAs
<1> DEFINE Q == {k \in 1..Len(out) : ~IsZeroWidth(out[k])}
<1>7. s.method # "tag" => t = At(out, Q)  BY DEF Strip
<1>8. CASE s.method = "zwbin"
  <2>1. t = At(out, Q)  BY <1>7, <1>8
  <2>2. \A q \in Q : "digit" \notin DOMAIN out[q]  BY <1>8, OutChars
  <2>3. Q \in SUBSET (1..Len(out))  OBVIOUS
  <2> HIDE DEF Q, out
  <2>4. Digits(t) = 0  BY <1>1, <2>1, <2>2, <2>3, NoDigitsLeft
  <2>5. ReadAs(o, Digits(t), Digits(s.out))  BY <1>3, <1>8, DigitOutcome
  <2> QED BY <1>5, <2>4, <2>5 DEF ReadAs
<1>9. CASE s.method = "zwc"
  <2>1. t = At(out, Q)  BY <1>7, <1>9
  <2>2. Q \in SUBSET (1..Len(out)) /\ \A q \in Q : ~IsZeroWidth(out[q])
    OBVIOUS
  <2> HIDE DEF Q, out
  <2>3. PICK g : Embeds(g, t, out) /\ \A i \in 1..Len(t) : g[i] \in Q
    BY <1>1, <2>1, <2>2, AtEmbeds
  <2>4. \A i \in 1..Len(t) : ~IsZeroWidth(t[i])  BY <2>2, <2>3 DEF Embeds
  <2>5. ASSUME NEW x \in Shards, There(t, x) PROVE FALSE
    <3>1. 1 \in 1..SYMBOLS_PER_SHARD  BY ShardArithmetic
    <3>2. PICK i \in 1..Len(t) : t[i] = Run[x][1]  BY <2>5, <3>1 DEF There
    <3>3. IsSymbol(Run[x][1])  BY <3>1, RunsAreRuns DEF SymbolRuns
    <3>4. IsZeroWidth(t[i])  BY <3>2, <3>3, CharKinds
    <3> QED BY <2>4, <3>4
  <2>6. Hit(t) = Shards  BY <2>5 DEF Hit
  <2>7. Cardinality(Hit(t)) > PARITY_SHARDS
    <3>1. TOTAL_SHARDS > PARITY_SHARDS  BY ShardsAssumption, ParityAssumption
    <3> QED BY <2>6, <3>1, ShardCount
  <2>10. Travels(s, t)  BY <1>3 DEF Travels
  <2>8. Kept(s, t)  BY <1>4, <1>9, <2>10, BoundIsKept
  <2>9. (o = "intact" <=> Complete(s, t)) /\ o \in {"intact", "gone"}
    BY <1>9, <2>8, <2>10, Fate
  <2>11. ~Complete(s, t)
    <3>1. Cardinality(Hit(t)) \in Nat /\ PARITY_SHARDS \in Nat  BY HitFinite
    <3> QED BY <1>9, <2>7, <3>1 DEF Complete
  <2> QED BY <1>5, <2>9, <2>11
<1> QED BY <1>6, <1>8, <1>9

TableKinds == KeepingKinds \cup {"nfkc", "nfkd", "bmp-only", "strip-tags",
                                 "strip-variation-sel", "strip-zero-width"}

LEMMA TableRow ==
  ASSUME NEW s, Sending(s), PlainText(s.host),
         Aged(s.host, TRUE, FALSE) = s.host,
         NEW name \in TableKinds, NEW t, NamedHop(name, s, s.out, t),
         NEW o \in RecoverOutcomes(s, t)
  PROVE  Refine(s, t, o) = IF s.method \in Row(name) THEN "gone" ELSE "intact"
<1> DEFINE out == s.out
<1>1. out \in Seq(Range(out))  BY SentFacts
<1>2. TRUE \in BOOLEAN /\ FALSE \in BOOLEAN /\ CarrierFree(s.host)
  BY PlainFacts
<1>8. \A k \in 1..Len(out) : Bare(out[k])  BY OutChars
<1>9. Unselected(out) = out /\ InBmp(out) = Untagged(out)
  <2> HIDE DEF out
  <2> QED BY <1>1, <1>8, NothingRemoved
<1>3. ASSUME t = out PROVE Refine(s, t, o) = "intact"
  <2>1. t = Aged(s.out, FALSE, FALSE)  BY <1>1, <1>3, AgedNot
  <2>2. s.host \in Seq(Range(s.host))  BY HostFacts DEF Sending
  <2>3. Aged(s.host, FALSE, FALSE) = s.host  BY <2>2, AgedNot
  <2> QED BY <1>2, <2>1, <2>3, WholeOutcome
<1>4. CASE name \in KeepingKinds
  <2>1. t = out  BY <1>4 DEF NamedHop
  <2>2. Row(name) = {}  BY <1>4 DEF Row, KeepingKinds
  <2> QED BY <1>3, <2>1, <2>2
<1>5. CASE name \in {"nfkc", "nfkd"}
  <2>1. t = Aged(s.out, TRUE, FALSE)  BY <1>5 DEF NamedHop
  <2>2. Row(name) = {}  BY <1>5 DEF Row
  <2>3. Refine(s, t, o) = "intact"  BY <1>2, <2>1, WholeOutcome
  <2> QED BY <2>2, <2>3
<1>6. CASE name \in {"bmp-only", "strip-tags"}
  <2>1. t = Untagged(out) /\ Row(name) = {"tag"}  BY <1>6, <1>9 DEF NamedHop, Row
  <2>2. CASE s.method = "tag"
    <3>1. Refine(s, t, o) = "gone"  BY <2>1, <2>2, AllGone
    <3> QED BY <2>1, <2>2, <3>1
  <2>3. CASE s.method # "tag"
    <3>1. \A k \in 1..Len(out) : ~IsTag(out[k])  BY <2>3, OutChars, SentFacts
    <3>2. Untagged(out) = out
      <4> HIDE DEF out
      <4> QED BY <1>1, <3>1, NothingRemoved
    <3> QED BY <1>3, <2>1, <2>3, <3>2
  <2> QED BY <2>2, <2>3
<1>10. CASE name = "strip-variation-sel"
  <2>1. t = out /\ Row(name) = {}  BY <1>9, <1>10 DEF NamedHop, Row
  <2> QED BY <1>3, <2>1
<1>7. CASE name = "strip-zero-width"
  <2>1. t = Strip(out) /\ Row(name) = {"zwc", "zwbin"}
    BY <1>7 DEF NamedHop, Row
  <2>2. CASE s.method \in {"zwc", "zwbin"}
    <3>1. Refine(s, t, o) = "gone"  BY <2>1, <2>2, AllGone
    <3> QED BY <2>1, <2>2, <3>1
  <2>3. CASE s.method \notin {"zwc", "zwbin"}
    <3>1. \A k \in 1..Len(out) : ~IsZeroWidth(out[k])
      BY <2>3, OutChars, SentFacts
    <3>2. Strip(out) = out
      <4> HIDE DEF out
      <4> QED BY <1>1, <3>1, NothingRemoved
    <3> QED BY <1>3, <2>1, <2>3, <3>2
  <2> QED BY <2>2, <2>3
<1> QED BY <1>4, <1>5, <1>6, <1>7, <1>10 DEF TableKinds

(* TRANSPORT.md, "categorical transports": which carriers one transport    *)
(* leaves intact and which it removes, for a text without compatibility    *)
(* forms.                                                                  *)
THEOREM TableHolds == Spec => []CategoricalTable
<1>1. TravelInv /\ HistoryInv => CategoricalTable
  <2> SUFFICES ASSUME TravelInv, HistoryInv, Len(hops) = 1, outcome # "unread",
                      hops[1] \notin {"drop", "burst", "truncate", "reflow"},
                      \A k \in 1..Len(sent.host) :
                        sent.host[k] \in {Plain, Blank, Newline}
               PROVE  Cell = IF sent.method \in Row(hops[1]) THEN "gone"
                             ELSE "intact"
    BY DEF CategoricalTable
  <2>1. Sending(sent)  BY DEF TravelInv
  <2>2. outcome \in RecoverOutcomes(sent, text)  BY DEF TravelInv
  <2>3. NamedHop(hops[1], sent, sent.out, text)  BY DEF HistoryInv
  <2>4. hops[1] \in TableKinds  BY <2>3 DEF NamedHop, Kinds, TableKinds
  <2>5. PlainText(sent.host)  BY DEF PlainText
  <2>6. Aged(sent.host, TRUE, FALSE) = sent.host
    <3> DEFINE h == sent.host
               n == Len(h)
    <3>1. h \in Seq(Range(h))  BY <2>1, HostFacts DEF Sending
    <3>2. h = [k \in 1..n |-> h[k]]  BY <3>1
    <3>3. \A k \in 1..n : Worn(h[k], TRUE, FALSE) = h[k]
      BY Letters DEF Worn
    <3> HIDE DEF h, n
    <3>4. Aged(h, TRUE, FALSE) = h  BY <3>2, <3>3 DEF Aged, n
    <3> QED BY <3>4 DEF h
  <2>7. Refine(sent, text, outcome)
          = IF sent.method \in Row(hops[1]) THEN "gone" ELSE "intact"
    BY <2>1, <2>2, <2>3, <2>4, <2>5, <2>6, TableRow
  <2> QED BY <2>7 DEF Cell
<1> QED BY <1>1, HistoryAlways, PTL
==============================================================================
