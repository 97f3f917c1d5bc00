--------------------------- MODULE StegoLoopsProofs ---------------------------
(***************************************************************************)
(* embed and extract, whole: each of their loops is started in a state it  *)
(* is made for, does there what is proved of it by itself, and together    *)
(* they return what StegoCalls lets a call return.  For every text, every  *)
(* number and size of shards, and whatever the generator draws.            *)
(***************************************************************************)
EXTENDS StegoLoops, CarrierProofs

-----------------------------------------------------------------------------
(* What the loops before it hand to the weaving loop. *)

(* What word_gaps returns for t: its ranks are the ranks of the gaps.      *)
ListsGaps(gs, t) ==
  /\ gs \in Seq(Nat)
  /\ \A j, k \in 1..Len(gs) : j < k => gs[j] < gs[k]
  /\ Range(gs) = WordEnds(t)

LEMMA GapFacts ==
  ASSUME NEW gs, NEW t, ListsGaps(gs, t)
  PROVE  /\ Len(gs) = Cardinality(WordEnds(t)) /\ Len(gs) \in Nat
         /\ \A r \in 0..(Len(gs) - 1) :
              gs[r + 1] \in WordEnds(t) /\ GapRank(t, gs[r + 1]) = r
<1>1. Len(gs) \in Nat /\ gs \in [1..Len(gs) -> Nat] /\ DOMAIN gs = 1..Len(gs)
  BY DEF ListsGaps
<1>2. \A x : x \in WordEnds(t) <=> \E k \in 1..Len(gs) : x = gs[k]
  <2>1. \A x : x \in Range(gs) <=> \E k \in 1..Len(gs) : x = gs[k]
    BY <1>1 DEF Range
  <2> QED BY <2>1 DEF ListsGaps
<1>3. WordEnds(t) \in SUBSET Nat /\ Enumerates(gs, Len(gs), WordEnds(t))
  <2>1. \A x \in WordEnds(t) : x \in Nat  BY <1>1, <1>2
  <2>2. Rising(gs, Len(gs))  BY DEF ListsGaps, Rising
  <2> QED BY <1>2, <2>1, <2>2 DEF Enumerates
<1>4. /\ Cardinality(WordEnds(t)) = Len(gs)
      /\ \A k \in 1..Len(gs) :
           Cardinality({x \in WordEnds(t) : x < gs[k]}) = k - 1
  BY <1>1, <1>3, EnumerationBelow
<1>5. ASSUME NEW r \in 0..(Len(gs) - 1)
      PROVE  gs[r + 1] \in WordEnds(t) /\ GapRank(t, gs[r + 1]) = r
  <2>1. r + 1 \in 1..Len(gs) /\ (r + 1) - 1 = r  BY <1>1
  <2> QED BY <1>2, <1>4, <2>1 DEF GapRank
<1> QED BY <1>1, <1>4, <1>5

(* The list that embed sorts is the sorted insertion list of the text.     *)
LEMMA ListIsSorted ==
  ASSUME Len(text) \in Nat, ListsGaps(gaps, text), Order \in Orders(Len(gaps))
  PROVE  InsertionList \in SortedInsertions(text, Order, Run)
<1> DEFINE O == {Offset(s) : s \in Shards}
           nth(k) == Nth(O, k)
           shard(off) == CHOOSE s \in Shards : Offset(s) = off
<1>0. IsFiniteSet(1..Len(text))
  <2> DEFINE n == Len(text)
  <2>1. n \in Nat  OBVIOUS
  <2> HIDE DEF n
  <2>2. IsFiniteSet(1..n)  BY <2>1, FS_Interval
  <2> QED BY <2>2 DEF n
<1>1. ASSUME NEW s \in Shards
      PROVE  /\ Offset(s) \in WordEnds(text) /\ Offset(s) \in 1..Len(text)
             /\ GapRank(text, Offset(s)) = Order[s]
  <2>1. Order[s] = perm[s] /\ Order[s] \in 0..(Len(gaps) - 1)
    BY DEF Orders, Order
  <2>2. Offset(s) \in WordEnds(text) /\ GapRank(text, Offset(s)) = Order[s]
    BY <2>1, GapFacts DEF Offset
  <2> QED BY <2>2 DEF WordEnds
<1>2. \A s, u \in Shards : Offset(s) = Offset(u) => s = u
  <2>1. \A s, u \in Shards : Order[s] = Order[u] => s = u
    BY DEF Orders, IsInjective
  <2> QED BY <1>1, <2>1
<1>3. Cardinality(O) = TOTAL_SHARDS
  <2> DEFINE h == [s \in Shards |-> Offset(s)]
  <2>1. IsFiniteSet(Shards) /\ Cardinality(Shards) = TOTAL_SHARDS
    BY ShardCount
  <2>2. h \in Bijection(Shards, O)
    <3>1. h \in [Shards -> O] /\ \A s \in Shards : h[s] = Offset(s)
      OBVIOUS
    <3>2. \A o \in O : \E s \in Shards : h[s] = o  OBVIOUS
    <3>3. \A s, u \in Shards : h[s] = h[u] => s = u  BY <1>2
    <3> HIDE DEF h, O
    <3> QED BY <3>1, <3>2, <3>3
            DEF Bijection, Injection, Surjection, IsInjective
  <2>3. ExistsBijection(Shards, O)  BY <2>2 DEF ExistsBijection
  <2> HIDE DEF O
  <2> QED BY <2>1, <2>3, FS_Bijection
<1>4. O \in SUBSET (1..Len(text)) /\ \A x \in O : x \in Nat
  BY <1>1
<1>5. ASSUME NEW o \in O
      PROVE  shard(o) \in Shards /\ Offset(shard(o)) = o
  OBVIOUS
<1>6. InsertionList = [k \in 1..TOTAL_SHARDS |->
                        [off |-> nth(k), run |-> Run[shard(nth(k))]]]
  BY DEF InsertionList
<1>7. \A o \in O : /\ o \in WordEnds(text)
                   /\ \E s \in Shards :
                        shard(o) = s /\ GapRank(text, o) = Order[s]
  BY <1>1, <1>5
<1> HIDE DEF O, shard
<1>8. ASSUME NEW k \in 1..TOTAL_SHARDS
      PROVE  /\ nth(k) \in O /\ nth(k) \in Nat
             /\ Cardinality({x \in O : x <= nth(k)}) = k
  <2>1. k \in 1..Cardinality(O)  BY <1>3
  <2>2. nth(k) \in O /\ Cardinality({x \in O : x <= nth(k)}) = k
    BY <1>4, <2>1, NthExists
  <2>3. \A x \in O : x \in Nat  BY <1>4
  <2> QED BY <2>2, <2>3
<1> HIDE DEF nth
<1>9. ASSUME NEW j \in 1..TOTAL_SHARDS, NEW k \in 1..TOTAL_SHARDS, j < k
      PROVE  nth(j) < nth(k)
  <2> DEFINE J == {x \in O : x <= nth(j)}
             K == {x \in O : x <= nth(k)}
  <2>1. SUFFICES ASSUME ~(nth(j) < nth(k)) PROVE FALSE  OBVIOUS
  <2>2. K \subseteq J
    <3>1. nth(j) \in Nat /\ nth(k) \in Nat  BY <1>8
    <3>2. \A x \in O : x <= nth(k) => x <= nth(j)  BY <1>4, <2>1, <3>1
    <3> QED BY <3>2
  <2>3. J \in SUBSET (1..Len(text))  BY <1>4
  <2>4. IsFiniteSet(J)
    <3> DEFINE N == 1..Len(text)
    <3>1. IsFiniteSet(N) /\ J \in SUBSET N  BY <1>0, <2>3
    <3> HIDE DEF J, N
    <3> QED BY <3>1, FS_Subset
  <2>5. Cardinality(K) <= Cardinality(J)
    <3> HIDE DEF J, K
    <3> QED BY <2>2, <2>4, FS_Subset
  <2>6. Cardinality(J) = j /\ Cardinality(K) = k  BY <1>8
  <2> QED BY <1>9, <2>5, <2>6
<1>10. ASSUME NEW k \in 1..TOTAL_SHARDS
       PROVE  InsertionList[k] \in Insertions(text, Order, Run)
  <2>1. PICK s \in Shards :
          shard(nth(k)) = s /\ GapRank(text, nth(k)) = Order[s]
    BY <1>7, <1>8
  <2>2. InsertionList[k] = [off |-> nth(k), run |-> Run[s]]
    BY <1>6, <2>1
  <2>3. nth(k) \in WordEnds(text)  BY <1>7, <1>8
  <2>4. Run[s] \in Range(Run)  BY DEF Range, Run
  <2> QED BY <2>1, <2>2, <2>3, <2>4 DEF Insertions
<1>11. \A k \in 1..TOTAL_SHARDS : InsertionList[k].off = nth(k)
  BY <1>6
<1>12. InsertionList \in [1..TOTAL_SHARDS -> Insertions(text, Order, Run)]
  BY <1>6, <1>10
<1> QED BY <1>9, <1>11, <1>12 DEF SortedInsertions
-----------------------------------------------------------------------------
(* What is proved of each loop by itself, for the loop as it runs here.    *)
ScanInv == ScanWords!TypeOK /\ ScanWords!LoopInv
ReadInv == ReadOff!TypeOK /\ ReadOff!LoopInv
WeaveInv == WeaveIn!TypeOK /\ WeaveIn!LoopInv
ShuffleInv == Shuffle!TypeOK /\ Shuffle!Permutation

(* The loop of word_gaps: appending a larger number to an increasing       *)
(* sequence, then the steps.                                               *)
LEMMA ScanAppend ==
  ASSUME NEW s \in Seq(Int), NEW e \in Int, ScanWords!Increasing(s),
         \A x \in Range(s) : x < e
  PROVE  /\ ScanWords!Increasing(Append(s, e))
         /\ Range(Append(s, e)) = Range(s) \cup {e}
<1> DEFINE a == Append(s, e)
<1>1. /\ Len(a) = Len(s) + 1
      /\ \A k \in 1..Len(s) : a[k] = s[k]
      /\ a[Len(s) + 1] = e
  BY AppendProperties
<1>2. Len(s) \in Nat /\ DOMAIN s = 1..Len(s) /\ DOMAIN a = 1..Len(a)
  BY LenProperties, AppendProperties
<1>3. Range(a) = Range(s) \cup {e}
  <2>1. ASSUME NEW x \in Range(a) PROVE x \in Range(s) \cup {e}
    <3>1. PICK k \in 1..(Len(s) + 1) : a[k] = x
      BY <1>1, <1>2 DEF Range
    <3>2. CASE k = Len(s) + 1  BY <3>1, <3>2, <1>1
    <3>3. CASE k \in 1..Len(s)  BY <3>1, <3>3, <1>1, <1>2 DEF Range
    <3> QED BY <3>1, <3>2, <3>3, <1>2
  <2>2. Range(s) \subseteq Range(a)  BY <1>1, <1>2 DEF Range
  <2>3. e \in Range(a)
    <3>1. Len(s) + 1 \in DOMAIN a  BY <1>1, <1>2
    <3> QED BY <3>1, <1>1 DEF Range
  <2> QED BY <2>1, <2>2, <2>3
<1>4. ScanWords!Increasing(a)
  <2>1. SUFFICES ASSUME NEW k \in 1..Len(a), NEW j \in 1..Len(a), k < j
                 PROVE  a[k] < a[j]
    BY DEF ScanWords!Increasing
  <2>2. k \in 1..Len(s)  BY <2>1, <1>1, <1>2
  <2>3. CASE j = Len(s) + 1
    <3>1. s[k] \in Range(s)  BY <2>2, <1>2 DEF Range
    <3> QED BY <3>1, <2>2, <2>3, <1>1
  <2>4. CASE j \in 1..Len(s)
    BY <2>1, <2>2, <2>4, <1>1 DEF ScanWords!Increasing
  <2> QED BY <2>3, <2>4, <1>1, <1>2
<1> QED BY <1>3, <1>4

(* The invariant of the loop, said of words and separators as embed and    *)
(* extract have them.                                                      *)
LEMMA ScanPlain ==
  /\ \A c : ScanWords!IsSep(c) <=> IsSep(c)
  /\ \A t : ScanWords!WordEnds(t) = WordEnds(t)
  /\ \A s : ScanWords!Range(s) = Range(s)
BY DEF ScanWords!IsSep, IsSep, ScanWords!IsSpace, IsSpace,
       ScanWords!IsZeroWidth, IsZeroWidth, ScanWords!WordEnds, WordEnds,
       ScanWords!Range, Range

ScanHere ==
  /\ scanned \in AnyText /\ idx \in 0..Len(scanned) /\ gaps \in Seq(Nat)
  /\ in_word \in BOOLEAN /\ last_word_end \in 0..Len(scanned)
  /\ pc \in {"scan", "done"}
  /\ in_word => last_word_end = idx
  /\ in_word <=> idx > 0 /\ ~IsSep(scanned[idx])
  /\ ScanWords!Increasing(gaps)
  /\ pc = "scan" => Range(gaps) = {e \in WordEnds(scanned) : e < idx}
  /\ pc = "done" => idx = Len(scanned) /\ Range(gaps) = WordEnds(scanned)

LEMMA ScanSame == ScanInv <=> ScanHere
BY ScanPlain DEF ScanInv, ScanHere, ScanWords!TypeOK, ScanWords!LoopInv

LEMMA ScanSameNext == ScanInv' <=> ScanHere'
BY ScanSame, PTL

LEMMA ScanBegins == ScanWords!Init => ScanInv
<1> SUFFICES ASSUME ScanWords!Init PROVE ScanInv  OBVIOUS
<1>1. /\ scanned \in AnyText /\ idx = 0 /\ gaps = << >> /\ ~in_word
      /\ last_word_end = 0 /\ pc = "scan"
  BY DEF ScanWords!Init
<1>2. Len(scanned) \in Nat  BY <1>1 DEF AnyText
<1>3. in_word \in BOOLEAN  BY Zenon DEF ScanWords!Init
<1>4. Range(gaps) = {}  BY <1>1 DEF Range
<1>5. \A e \in WordEnds(scanned) : ~(e < 0)  BY <1>2 DEF WordEnds
<1>6. ScanWords!Increasing(gaps)  BY <1>1 DEF ScanWords!Increasing
<1>7. << >> \in Seq(Nat)  OBVIOUS
<1> QED BY <1>1, <1>2, <1>3, <1>4, <1>5, <1>6, <1>7, ScanSame DEF ScanHere

LEMMA ScanKept == ScanInv /\ ScanWords!Next => ScanInv'
<1> SUFFICES ASSUME ScanHere, ScanWords!Next PROVE ScanHere'
  BY ScanSame, ScanSameNext
<1> USE DEF ScanHere
<1>0. /\ scanned \in AnyText /\ Len(scanned) \in Nat /\ gaps \in Seq(Int)
      /\ WordEnds(scanned) \subseteq 1..Len(scanned)
  BY DEF AnyText, WordEnds
<1>1. ASSUME ScanWords!CloseWord PROVE ScanHere'
  <2>1. /\ pc = "scan" /\ idx + 1 \in 1..Len(scanned)
        /\ IsSep(scanned[idx + 1]) /\ in_word
        /\ gaps' = Append(gaps, last_word_end) /\ in_word' = FALSE
        /\ idx' = idx + 1 /\ scanned' = scanned /\ pc' = pc
        /\ last_word_end' = last_word_end
    BY <1>0, <1>1, ScanPlain DEF ScanWords!CloseWord, ScanWords!Scanning
  <2>2. /\ idx \in 1..Len(scanned) /\ ~IsSep(scanned[idx])
        /\ last_word_end = idx /\ idx \in WordEnds(scanned)
    BY <1>0, <2>1 DEF WordEnds
  <2>3. \A x \in Range(gaps) : x < idx  BY <2>1
  <2>4. ScanWords!Increasing(gaps') /\ Range(gaps') = Range(gaps) \cup {idx}
    BY <1>0, <2>1, <2>2, <2>3, ScanAppend
  <2>5. {e \in WordEnds(scanned) : e < idx + 1}
          = {e \in WordEnds(scanned) : e < idx} \cup {idx}
    BY <1>0, <2>2
  <2>6. gaps' \in Seq(Nat)  BY <2>1, <2>2, AppendProperties
  <2>7. Range(gaps') = {e \in WordEnds(scanned') : e < idx'}
    BY <2>1, <2>4, <2>5
  <2>8. ~in_word' /\ in_word' \in BOOLEAN /\ IsSep(scanned'[idx'])
    BY <2>1
  <2>9. idx' \in 0..Len(scanned') /\ last_word_end' \in 0..Len(scanned')
    BY <1>0, <2>1, <2>2
  <2> QED BY <1>0, <2>1, <2>4, <2>6, <2>7, <2>8, <2>9
<1>2. ASSUME ScanWords!SkipSeparator PROVE ScanHere'
  <2>1. /\ pc = "scan" /\ idx + 1 \in 1..Len(scanned)
        /\ IsSep(scanned[idx + 1]) /\ ~in_word
        /\ idx' = idx + 1 /\ scanned' = scanned /\ pc' = pc
        /\ gaps' = gaps /\ in_word' = in_word
        /\ last_word_end' = last_word_end
    BY <1>0, <1>2, ScanPlain DEF ScanWords!SkipSeparator, ScanWords!Scanning
  <2>2. idx \notin WordEnds(scanned)  BY <1>0, <2>1 DEF WordEnds
  <2>3. {e \in WordEnds(scanned) : e < idx + 1}
          = {e \in WordEnds(scanned) : e < idx}
    BY <1>0, <2>1, <2>2
  <2> QED BY <1>0, <2>1, <2>3
<1>3. ASSUME ScanWords!ExtendWord PROVE ScanHere'
  <2>1. /\ pc = "scan" /\ idx + 1 \in 1..Len(scanned)
        /\ ~IsSep(scanned[idx + 1]) /\ in_word' = TRUE
        /\ idx' = idx + 1 /\ scanned' = scanned /\ pc' = pc
        /\ gaps' = gaps /\ last_word_end' = idx + 1
    BY <1>0, <1>3, ScanPlain DEF ScanWords!ExtendWord, ScanWords!Scanning
  <2>2. idx \notin WordEnds(scanned)  BY <1>0, <2>1 DEF WordEnds
  <2>3. {e \in WordEnds(scanned) : e < idx + 1}
          = {e \in WordEnds(scanned) : e < idx}
    BY <1>0, <2>1, <2>2
  <2> QED BY <1>0, <2>1, <2>3
<1>4. ASSUME ScanWords!Return PROVE ScanHere'
  <2>1. /\ pc = "scan" /\ idx = Len(scanned) /\ pc' = "done"
        /\ gaps' = IF in_word THEN Append(gaps, last_word_end) ELSE gaps
        /\ idx' = idx /\ scanned' = scanned /\ in_word' = in_word
        /\ last_word_end' = last_word_end
    BY <1>4 DEF ScanWords!Return
  <2>2. Range(gaps) = {e \in WordEnds(scanned) : e < idx}
    BY <2>1
  <2>3. CASE in_word
    <3>1. /\ idx \in 1..Len(scanned) /\ last_word_end = idx
          /\ idx \in WordEnds(scanned)
      BY <1>0, <2>1, <2>3 DEF WordEnds
    <3>2. WordEnds(scanned) = {e \in WordEnds(scanned) : e < idx} \cup {idx}
      BY <1>0, <2>1, <3>1
    <3>3. \A x \in Range(gaps) : x < idx  BY <2>2
    <3>4. /\ ScanWords!Increasing(gaps')
          /\ Range(gaps') = Range(gaps) \cup {idx}
      BY <1>0, <2>1, <2>3, <3>1, <3>3, ScanAppend
    <3>5. gaps' \in Seq(Nat)  BY <2>1, <2>3, <3>1, AppendProperties
    <3> QED BY <1>0, <2>1, <2>2, <2>3, <3>1, <3>2, <3>4, <3>5
  <2>4. CASE ~in_word
    <3>1. idx \notin WordEnds(scanned)
      BY <1>0, <2>1, <2>4 DEF WordEnds
    <3>2. WordEnds(scanned) = {e \in WordEnds(scanned) : e < idx}
      BY <1>0, <2>1, <3>1
    <3> QED BY <1>0, <2>1, <2>2, <2>4, <3>2
  <2> QED BY <2>3, <2>4
<1> QED BY <1>1, <1>2, <1>3, <1>4 DEF ScanWords!Next

(* The loop of read_runs, its invariant said of words and runs as embed    *)
(* and extract have them.                                                  *)
ReadTyped ==
  /\ text \in AnyText
  /\ idx \in 0..Len(text)
  /\ DOMAIN runs \subseteq 0..Len(text)
  /\ \A r \in DOMAIN runs : runs[r] \in Seq(AnyChar)
  /\ word_rank \in 0..Len(text)
  /\ in_word \in BOOLEAN
  /\ counted_word \in BOOLEAN
  /\ pc \in {"scan", "done"}

ReadLoop ==
  /\ in_word <=> ~BetweenWords(text, idx)
  /\ word_rank = RankBefore(text, idx + 1)
  /\ counted_word <=> word_rank > 0
  /\ DOMAIN runs = RanksFiled(text, idx)
  /\ \A r \in DOMAIN runs : RunSoFar(text, r, idx, runs[r])
  /\ pc = "done" => idx = Len(text)

ReadHere == ReadTyped /\ ReadLoop

LEMMA ReadChars ==
  /\ \A c : ReadOff!IsSpace(c) <=> IsSpace(c)
  /\ \A c : ReadOff!IsSymbol(c) <=> IsSymbol(c)
BY DEF ReadOff!IsSpace, IsSpace, ReadOff!IsSymbol, IsSymbol

LEMMA ReadWords ==
  /\ \A t, j : ReadOff!BetweenWords(t, j) <=> BetweenWords(t, j)
  /\ \A t, n : ReadOff!RankBefore(t, n) = RankBefore(t, n)
  /\ \A t, n : ReadOff!RanksFiled(t, n) = RanksFiled(t, n)
  /\ \A t, r, n, f : ReadOff!RunSoFar(t, r, n, f) <=> RunSoFar(t, r, n, f)
<1>1. \A t, j : ReadOff!BetweenWords(t, j) <=> BetweenWords(t, j)
  BY DEF ReadOff!BetweenWords, BetweenWords, ReadOff!IsSymbol, IsSymbol,
         ReadOff!IsSpace, IsSpace
<1>2. \A t, j : ReadOff!OpensWord(t, j) <=> OpensWord(t, j)
  BY <1>1 DEF ReadOff!OpensWord, OpensWord, ReadOff!IsSymbol, IsSymbol,
              ReadOff!IsSpace, IsSpace
<1>3. \A S : ReadOff!Cardinality(S) = Cardinality(S)
  BY DEF ReadOff!Cardinality, Cardinality
<1>4. \A t, j : ReadOff!RankBefore(t, j) = RankBefore(t, j)
  BY <1>2, <1>3 DEF ReadOff!RankBefore, RankBefore
<1>5. \A t, r, n : ReadOff!Filed(t, r, n) = Filed(t, r, n)
  BY <1>4 DEF ReadOff!Filed, Filed, ReadOff!IsSymbol, IsSymbol
<1>6. \A t, n : ReadOff!RanksFiled(t, n) = RanksFiled(t, n)
  BY <1>5 DEF ReadOff!RanksFiled, RanksFiled
<1>7. \A t, r, n, f : ReadOff!RunSoFar(t, r, n, f) <=> RunSoFar(t, r, n, f)
  BY <1>5 DEF ReadOff!RunSoFar, RunSoFar, ReadOff!Listing, Listing
<1> QED BY <1>1, <1>4, <1>6, <1>7

LEMMA ReadSame == ReadInv <=> ReadHere
BY ReadWords DEF ReadInv, ReadHere, ReadTyped, ReadLoop, ReadOff!TypeOK,
                 ReadOff!LoopInv

LEMMA ReadSameNext == ReadInv' <=> ReadHere'
BY ReadSame, PTL

LEMMA ReadText ==
  ASSUME NEW t \in AnyText
  PROVE  /\ Len(t) \in Nat /\ \A k \in 1..Len(t) : t[k] \in AnyChar
BY ElementOfSeq DEF AnyText

LEMMA ReadBegins == ReadOff!Init => ReadInv
<1> SUFFICES ASSUME ReadOff!Init PROVE ReadHere  BY ReadSame
<1>0. text \in AnyText /\ Len(text) \in Nat /\ idx = 0
  BY ReadText DEF ReadOff!Init
<1>1. DOMAIN runs = {}  BY DEF ReadOff!Init
<1>2. in_word \in BOOLEAN /\ counted_word \in BOOLEAN  BY Zenon DEF ReadOff!Init
<1>3. ReadTyped  BY <1>0, <1>1, <1>2 DEF ReadOff!Init, ReadTyped
<1>4. RankBefore(text, 1) = 0
  <2>1. {j \in 1..(1 - 1) : OpensWord(text, j)} = {}  OBVIOUS
  <2> QED BY <2>1, FS_EmptySet DEF RankBefore
<1>5. RanksFiled(text, 0) = {}
  BY DEF RanksFiled, Filed
<1>6. BetweenWords(text, 0)
  BY DEF BetweenWords
<1>7. ReadLoop
  BY <1>0, <1>1, <1>4, <1>5, <1>6 DEF ReadOff!Init, ReadLoop
<1> QED BY <1>3, <1>7 DEF ReadHere

(* A step that files nothing. *)
LEMMA ReadRunsKept ==
  ASSUME ReadHere, idx \in Nat, ~IsSymbol(text[idx + 1]), runs' = runs,
         text' = text, idx' = idx + 1
  PROVE  /\ DOMAIN runs' = RanksFiled(text', idx')
         /\ \A r \in DOMAIN runs' : RunSoFar(text', r, idx', runs'[r])
<1>1. RanksFiled(text, idx + 1) = RanksFiled(text, idx)
  BY RanksStep
<1>2. ASSUME NEW r \in DOMAIN runs
      PROVE  RunSoFar(text, r, idx + 1, runs[r])
  <2>1. r \in Nat  BY DEF ReadHere, ReadLoop, RanksFiled
  <2>2. Filed(text, r, idx + 1) = Filed(text, r, idx)  BY <2>1, FiledStep
  <2>3. RunSoFar(text, r, idx, runs[r])  BY DEF ReadHere, ReadLoop
  <2> QED BY <2>2, <2>3 DEF RunSoFar
<1> QED BY <1>1, <1>2 DEF ReadHere, ReadLoop

LEMMA ReadSymbol == ReadHere /\ ReadOff!Symbol => ReadHere'
<1> SUFFICES ASSUME ReadHere, ReadOff!Symbol PROVE ReadHere'  OBVIOUS
<1> DEFINE c == text[idx + 1]
           w == word_rank - 1
<1>1. /\ text \in AnyText /\ Len(text) \in Nat /\ idx \in Nat
      /\ idx + 1 \in 1..Len(text) /\ c \in AnyChar /\ IsSymbol(c)
      /\ pc = "scan"
  BY ReadText, ReadChars DEF ReadOff!Symbol, ReadOff!Scanning, ReadHere,
     ReadTyped
<1>2. /\ text' = text /\ idx' = idx + 1 /\ word_rank' = word_rank
      /\ in_word' = in_word /\ counted_word' = counted_word /\ pc' = pc
  BY DEF ReadOff!Symbol
<1>3. word_rank = RankBefore(text, idx + 1) /\ word_rank \in Nat
  BY DEF ReadHere, ReadLoop, ReadTyped
<1>4. RankBefore(text', idx' + 1) = word_rank'
  <2>1. ~OpensWord(text, idx + 1)  BY <1>1 DEF OpensWord
  <2> QED BY <2>1, <1>1, <1>2, <1>3, RankStep
<1>5. BetweenWords(text', idx') <=> BetweenWords(text, idx)
  BY <1>1, <1>2, BetweenStep
<1> HIDE DEF c
<1>6. CASE ~counted_word
  <2>1. runs' = runs /\ word_rank = 0
    BY <1>6, <1>3 DEF ReadOff!Symbol, ReadHere, ReadLoop
  <2>2. RanksFiled(text, idx + 1) = RanksFiled(text, idx)
    BY <1>1, <1>3, <2>1, RanksStep
  <2>3. ASSUME NEW r \in DOMAIN runs
        PROVE  RunSoFar(text, r, idx + 1, runs[r])
    <3>1. r \in Nat  BY DEF ReadHere, ReadLoop, RanksFiled
    <3>2. RankBefore(text, idx + 1) # r + 1  BY <3>1, <1>3, <2>1
    <3>3. Filed(text, r, idx + 1) = Filed(text, r, idx)
      BY <3>1, <3>2, <1>1, FiledStep
    <3>4. RunSoFar(text, r, idx, runs[r])  BY DEF ReadHere, ReadLoop
    <3> QED BY <3>3, <3>4 DEF RunSoFar
  <2>4. ReadTyped'
    BY <1>1, <1>2, <2>1 DEF ReadHere, ReadTyped
  <2>5. ReadLoop'
    BY <1>1, <1>2, <1>4, <1>5, <2>1, <2>2, <2>3 DEF ReadHere, ReadLoop
  <2> QED BY <2>4, <2>5 DEF ReadHere
<1>7. CASE counted_word
  <2>1. w \in Nat /\ RankBefore(text, idx + 1) = w + 1
    BY <1>3, <1>7 DEF ReadHere, ReadLoop
  <2>2. runs' = ReadOff!PushSymbol(w, c)
    BY <1>7 DEF ReadOff!Symbol, c
  <2>3. DOMAIN runs' = RanksFiled(text, idx) \cup {w}
    BY <2>2 DEF ReadOff!PushSymbol, ReadHere, ReadLoop
  <2>4. RanksFiled(text, idx + 1) = RanksFiled(text, idx) \cup {w}
    <3>1. RankBefore(text, idx + 1) > 0 /\ w = RankBefore(text, idx + 1) - 1
      BY <2>1
    <3>2. IsSymbol(text[idx + 1])  BY <1>1 DEF c
    <3> HIDE DEF w
    <3> QED BY <1>1, <3>1, <3>2, RanksStep
  <2>5. RanksFiled(text, idx + 1) \subseteq 0..(idx + 1)
    BY DEF RanksFiled
  <2> DEFINE old(r) == IF r \in DOMAIN runs THEN runs[r] ELSE << >>
  <2>6. ASSUME NEW r \in DOMAIN runs'
        PROVE  /\ old(r) \in Seq(AnyChar) /\ r \in Nat
               /\ RunSoFar(text, r, idx, old(r))
    <3>1. r \in Nat  BY <2>3, <2>4, <2>5
    <3>2. CASE r \in DOMAIN runs
      BY <3>1, <3>2 DEF ReadHere, ReadTyped, ReadLoop
    <3>3. CASE r \notin DOMAIN runs
      <4>1. r \notin RanksFiled(text, idx)
        BY <3>3 DEF ReadHere, ReadLoop
      <4>2. Filed(text, r, idx) = {}
        <5>1. CASE r \in 0..idx
          BY <4>1, <5>1 DEF RanksFiled
        <5>2. CASE r > idx
          <6>1. \A p \in 1..idx : RankBefore(text, p) \in Nat
                                   /\ RankBefore(text, p) <= p
            BY <1>1, RankIsNat
          <6> QED BY <6>1, <5>2, <3>1, <1>1 DEF Filed
        <5> QED BY <5>1, <5>2, <3>1, <1>1
      <4>3. RunSoFar(text, r, idx, << >>)
        <5> DEFINE f == [k \in 1..0 |-> 0]
        <5>1. f \in [1..0 -> {}] /\ Listing(f, {})  BY DEF Listing
        <5>2. Len(<< >>) = 0  OBVIOUS
        <5> HIDE DEF f
        <5> QED BY <5>1, <5>2, <4>2 DEF RunSoFar
      <4>4. << >> \in Seq(AnyChar)  OBVIOUS
      <4> QED BY <3>1, <3>3, <4>3, <4>4
    <3> QED BY <3>2, <3>3
  <2>7. ASSUME NEW r \in DOMAIN runs'
        PROVE  runs'[r] \in Seq(AnyChar) /\ RunSoFar(text, r, idx + 1, runs'[r])
    <3>1. runs'[r] = IF r = w THEN Append(old(r), c) ELSE old(r)
      BY <2>2 DEF ReadOff!PushSymbol
    <3> HIDE DEF old
    <3>2. CASE r = w
      <4>1. runs'[r] = Append(old(r), c)  BY <3>1, <3>2
      <4>2. Append(old(r), c) \in Seq(AnyChar)  BY <1>1, <2>6, AppendProperties
      <4>3. RunSoFar(text, r, idx + 1, Append(old(r), c))
        BY <1>1, <2>1, <2>6, <3>2, RunAppend DEF c
      <4> QED BY <4>1, <4>2, <4>3
    <3>3. CASE r # w
      <4>1. r \in Nat /\ RankBefore(text, idx + 1) # r + 1
        BY <1>3, <2>1, <2>6, <3>3
      <4>2. Filed(text, r, idx + 1) = Filed(text, r, idx)
        <5> HIDE DEF w
        <5> QED BY <1>1, <4>1, FiledStep
      <4> QED BY <2>6, <3>1, <3>3, <4>2 DEF RunSoFar
    <3> QED BY <3>2, <3>3
  <2>8. DOMAIN runs' \subseteq 0..Len(text)
    BY <1>1, <2>3, <2>4, <2>5
  <2>9. ReadTyped'
    BY <1>1, <1>2, <2>7, <2>8 DEF ReadHere, ReadTyped
  <2>10. ReadLoop'
    BY <1>1, <1>2, <1>4, <1>5, <2>3, <2>4, <2>7 DEF ReadHere, ReadLoop
  <2> QED BY <2>9, <2>10 DEF ReadHere
<1> QED BY <1>6, <1>7

LEMMA ReadKept == ReadInv /\ ReadOff!Next => ReadInv'
<1> SUFFICES ASSUME ReadHere, ReadOff!Next PROVE ReadHere'
  BY ReadSame, ReadSameNext
<1>0. text \in AnyText /\ Len(text) \in Nat /\ idx \in Nat
  BY ReadText DEF ReadHere, ReadTyped
<1>1. CASE ReadOff!Symbol
  BY <1>1, ReadSymbol
<1>2. CASE ReadOff!Whitespace
  <2>1. /\ IsSpace(text[idx + 1]) /\ ~IsSymbol(text[idx + 1])
        /\ runs' = runs /\ text' = text /\ idx' = idx + 1
        /\ word_rank' = word_rank /\ counted_word' = counted_word
        /\ pc' = pc /\ pc = "scan" /\ idx + 1 \in 0..Len(text)
    BY <1>2, <1>0, ReadChars
       DEF ReadOff!Whitespace, ReadOff!Scanning, IsSpace, IsSymbol
  <2>2. BetweenWords(text', idx') /\ ~in_word'
    <3>1. BetweenWords(text', idx')  BY <1>0, <2>1, BetweenStep
    <3>2. ~in_word'  BY <1>2, Zenon DEF ReadOff!Whitespace
    <3> QED BY <3>1, <3>2
  <2>3. ~OpensWord(text, idx + 1)
    BY <2>1 DEF OpensWord
  <2>4. RankBefore(text', idx' + 1) = word_rank'
    BY <1>0, <2>1, <2>3, RankStep DEF ReadHere, ReadLoop
  <2>5. /\ DOMAIN runs' = RanksFiled(text', idx')
        /\ \A r \in DOMAIN runs' : RunSoFar(text', r, idx', runs'[r])
    BY <1>0, <2>1, ReadRunsKept
  <2>6. in_word' \in BOOLEAN
    BY <1>2, Zenon DEF ReadOff!Whitespace
  <2>7. ReadTyped'
    BY <2>1, <2>6 DEF ReadHere, ReadTyped
  <2>8. ReadLoop'
    BY <2>1, <2>2, <2>4, <2>5 DEF ReadHere, ReadLoop
  <2> QED BY <2>7, <2>8 DEF ReadHere
<1>3. CASE ReadOff!BeginWord
  <2>1. /\ ~IsSpace(text[idx + 1]) /\ ~IsSymbol(text[idx + 1])
        /\ runs' = runs /\ text' = text /\ idx' = idx + 1
        /\ word_rank' = word_rank + 1 /\ pc' = pc /\ pc = "scan"
        /\ idx + 1 \in 0..Len(text)
        /\ in_word' /\ counted_word' /\ ~in_word
    BY <1>3, <1>0, ReadChars DEF ReadOff!BeginWord, ReadOff!Scanning
  <2>2. OpensWord(text, idx + 1)
    BY <1>0, <2>1 DEF OpensWord, ReadHere, ReadLoop
  <2>3. word_rank \in Nat /\ RankBefore(text', idx' + 1) = word_rank'
    BY <1>0, <2>1, <2>2, RankStep DEF ReadHere, ReadLoop, ReadTyped
  <2>4. word_rank + 1 \in 0..Len(text)
    <3>1. RankBefore(text, idx + 1) <= idx
      <4>1. CASE idx = 0
        <5>1. {j \in 1..((0 + 1) - 1) : OpensWord(text, j)} = {}  OBVIOUS
        <5> QED BY <4>1, <5>1, FS_EmptySet DEF RankBefore
      <4>2. CASE idx # 0
        <5>1. IsFiniteSet(1..idx) /\ Cardinality(1..idx) = idx
          BY <1>0, <4>2, FS_Interval
        <5>2. {j \in 1..((idx + 1) - 1) : OpensWord(text, j)} \subseteq 1..idx
          BY <1>0
        <5>3. RankBefore(text, idx + 1) <= idx
          BY <5>1, <5>2, FS_Subset DEF RankBefore
        <5> QED BY <5>3
      <4> QED BY <4>1, <4>2
    <3> QED BY <1>0, <2>1, <2>3, <3>1 DEF ReadHere, ReadLoop
  <2>5. ~BetweenWords(text', idx')
    BY <1>0, <2>1, BetweenStep
  <2>6. /\ DOMAIN runs' = RanksFiled(text', idx')
        /\ \A r \in DOMAIN runs' : RunSoFar(text', r, idx', runs'[r])
    BY <1>0, <2>1, ReadRunsKept
  <2>7. in_word' \in BOOLEAN /\ counted_word' \in BOOLEAN
    BY <1>3, Zenon DEF ReadOff!BeginWord
  <2>8. ReadTyped'
    BY <2>1, <2>4, <2>7 DEF ReadHere, ReadTyped
  <2>9. ReadLoop'
    BY <2>1, <2>3, <2>5, <2>6 DEF ReadHere, ReadLoop
  <2> QED BY <2>8, <2>9 DEF ReadHere
<1>4. CASE ReadOff!ContinueWord
  <2>1. /\ ~IsSpace(text[idx + 1]) /\ ~IsSymbol(text[idx + 1])
        /\ runs' = runs /\ text' = text /\ idx' = idx + 1
        /\ word_rank' = word_rank /\ pc' = pc /\ pc = "scan"
        /\ idx + 1 \in 0..Len(text)
        /\ in_word' = in_word /\ counted_word' = counted_word /\ in_word
    BY <1>4, <1>0, ReadChars DEF ReadOff!ContinueWord, ReadOff!Scanning
  <2>2. ~OpensWord(text, idx + 1)
    BY <1>0, <2>1 DEF OpensWord, ReadHere, ReadLoop
  <2>3. RankBefore(text', idx' + 1) = word_rank'
    BY <1>0, <2>1, <2>2, RankStep DEF ReadHere, ReadLoop
  <2>4. ~BetweenWords(text', idx')
    BY <1>0, <2>1, BetweenStep
  <2>5. /\ DOMAIN runs' = RanksFiled(text', idx')
        /\ \A r \in DOMAIN runs' : RunSoFar(text', r, idx', runs'[r])
    BY <1>0, <2>1, ReadRunsKept
  <2>6. ReadTyped'
    BY <2>1 DEF ReadHere, ReadTyped
  <2>7. ReadLoop'
    BY <2>1, <2>3, <2>4, <2>5 DEF ReadHere, ReadLoop
  <2> QED BY <2>6, <2>7 DEF ReadHere
<1>5. CASE ReadOff!Return
  BY <1>5 DEF ReadOff!Return, ReadHere, ReadTyped, ReadLoop
<1> QED BY <1>1, <1>2, <1>3, <1>4, <1>5 DEF ReadOff!Next

-----------------------------------------------------------------------------
(* The weaving loop weaves every run in where it is assigned, misses no    *)
(* insertion and never trips its debug assertion, for every sorted list.   *)

(* The words in which the weaving loop speaks are those used here. *)
LEMMA WeaveWords ==
  /\ \A t : WeaveIn!WordEnds(t) = WordEnds(t)
  /\ \A S : WeaveIn!Cardinality(S) = Cardinality(S)
  /\ \A n : WeaveIn!Orders(n) = Orders(n)
  /\ WeaveIn!Run = Run
  /\ \A t, ord, run :
       WeaveIn!SortedInsertions(t, ord, run) = SortedInsertions(t, ord, run)
  /\ \A t, ins : WeaveIn!Woven(t, ins) = Woven(t, ins)
  /\ WeaveIn!Symbol = Symbol
  /\ \A t : WeaveIn!Strip(t) = Strip(t)
<1>1. \A t : WeaveIn!WordEnds(t) = WordEnds(t)
  BY DEF WeaveIn!WordEnds, WordEnds, WeaveIn!IsSep, IsSep,
         WeaveIn!IsSpace, IsSpace, WeaveIn!IsZeroWidth, IsZeroWidth
<1>2. \A S : WeaveIn!Cardinality(S) = Cardinality(S)
  BY DEF WeaveIn!Cardinality, Cardinality
<1>3. \A n : WeaveIn!Orders(n) = Orders(n)
  BY DEF WeaveIn!Orders, Orders, WeaveIn!IsInjective, IsInjective,
         WeaveIn!Shards, Shards
<1>4. WeaveIn!Run = Run
  BY DEF WeaveIn!Run, Run, WeaveIn!Shards, Shards
<1>5. \A t, e : WeaveIn!GapRank(t, e) = GapRank(t, e)
  BY <1>1, <1>2 DEF WeaveIn!GapRank, GapRank
<1>6. \A t, ord, run :
        WeaveIn!Insertions(t, ord, run) = Insertions(t, ord, run)
  BY <1>1, <1>5 DEF WeaveIn!Insertions, Insertions, WeaveIn!Range,
                    Range, WeaveIn!Shards, Shards
<1>7. \A t, ord, run :
        WeaveIn!SortedInsertions(t, ord, run) = SortedInsertions(t, ord, run)
  BY <1>6 DEF WeaveIn!SortedInsertions, SortedInsertions
<1>8. \A t, ins : WeaveIn!Woven(t, ins) = Woven(t, ins)
  BY <1>2 DEF WeaveIn!Woven, Woven, WeaveIn!Begun, Begun, WeaveIn!RunStart,
              RunStart
<1>9. WeaveIn!Symbol = Symbol
  BY DEF WeaveIn!Symbol, Symbol, WeaveIn!Shards, Shards
<1>10. \A t, P : WeaveIn!At(t, P) = At(t, P)
  <2>1. \A P, k : WeaveIn!Nth(P, k) = Nth(P, k)
    BY <1>2 DEF WeaveIn!Nth, Nth
  <2> QED BY <1>2, <2>1 DEF WeaveIn!At, At
<1>11. \A t : WeaveIn!Strip(t) = Strip(t)
  BY <1>10 DEF WeaveIn!Strip, Strip, WeaveIn!IsZeroWidth, IsZeroWidth
<1> QED BY <1>1, <1>2, <1>3, <1>4, <1>7, <1>8, <1>9, <1>11


WeaveTyped ==
  /\ text \in Texts
  /\ Order \in Orders(Cardinality(WordEnds(text)))
  /\ insertions \in SortedInsertions(text, Order, Run)
  /\ taken \in 0..TOTAL_SHARDS
  /\ idx \in 0..Len(text)
  /\ out \in Seq(Char \cup Symbol)
  /\ pc \in {"weave", "tail", "done"}

WeaveLoop ==
  /\ \A j \in 1..taken : insertions[j].off <= idx
  /\ \A j \in (taken + 1)..TOTAL_SHARDS : insertions[j].off >= idx
  /\ Len(out) = idx + taken * SYMBOLS_PER_SHARD
  /\ \A p \in 1..Len(out) : out[p] = Woven(text, insertions)[p]
  /\ pc # "weave" => idx = Len(text)
  /\ pc = "done" => taken = TOTAL_SHARDS

WeaveHere == WeaveTyped /\ WeaveLoop

LEMMA WeaveSame == WeaveInv <=> WeaveHere
BY WeaveWords DEF WeaveInv, WeaveHere, WeaveTyped, WeaveLoop, WeaveIn!TypeOK,
                  WeaveIn!LoopInv

LEMMA WeaveSameNext == WeaveInv' <=> WeaveHere'
BY WeaveSame, PTL

(* What is known of a sorted insertion list. *)
LEMMA ListFacts ==
  ASSUME NEW t \in Texts, NEW ord, NEW ins \in SortedInsertions(t, ord, Run)
  PROVE  /\ Len(t) \in Nat
         /\ \A j \in 1..TOTAL_SHARDS :
              /\ ins[j].off \in 1..Len(t)
              /\ ins[j].run \in Seq(Symbol)
              /\ Len(ins[j].run) = SYMBOLS_PER_SHARD
         /\ \A j, k \in 1..TOTAL_SHARDS : j < k => ins[j].off < ins[k].off
<1>1. Len(t) \in Nat  BY TextsAssumption
<1>2. \A j \in 1..TOTAL_SHARDS :
        ins[j].off \in WordEnds(t) /\ ins[j].run \in Range(Run)
  BY DEF SortedInsertions, Insertions
<1>3. \A j \in 1..TOTAL_SHARDS : ins[j].off \in 1..Len(t)
  BY <1>2 DEF WordEnds
<1>4. ASSUME NEW r \in Range(Run)
      PROVE  r \in Seq(Symbol) /\ Len(r) = SYMBOLS_PER_SHARD
  <2>1. PICK s \in Shards :
          r = [k \in 1..SYMBOLS_PER_SHARD |->
                 [class |-> "symbol", shard |-> s, part |-> k]]
    BY DEF Range, Run
  <2>2. r \in [1..SYMBOLS_PER_SHARD -> Symbol]
    BY <2>1 DEF Symbol
  <2> QED BY <2>2, ShardArithmetic
<1>5. \A j, k \in 1..TOTAL_SHARDS : j < k => ins[j].off < ins[k].off
  BY DEF SortedInsertions
<1> QED BY <1>1, <1>2, <1>3, <1>4, <1>5

(* When exactly the first n runs begin before position p, Begun is n.      *)
LEMMA BegunIs ==
  ASSUME NEW ins, NEW p \in Int, NEW n \in 0..TOTAL_SHARDS,
         \A j \in 1..TOTAL_SHARDS : RunStart(ins, j) < p <=> j <= n
  PROVE  Begun(ins, p) = n
<1>1. {j \in 1..TOTAL_SHARDS : RunStart(ins, j) < p} = 1..n
  BY ShardArithmetic
<1>2. Cardinality(1..n) = n
  BY ShardArithmetic, FS_Interval
<1> QED BY <1>1, <1>2 DEF Begun

-----------------------------------------------------------------------------
(* The state the loop is in, in numbers: S is the length of a run. *)
LEMMA WeaveFacts ==
  ASSUME WeaveHere
  PROVE  /\ text \in Texts /\ text \in Seq(Char) /\ Len(text) \in Nat
         /\ insertions \in SortedInsertions(text, Order, Run)
         /\ idx \in 0..Len(text) /\ taken \in 0..TOTAL_SHARDS
         /\ out \in Seq(Char \cup Symbol)
         /\ Len(out) = idx + taken * SYMBOLS_PER_SHARD
BY TextsAssumption DEF WeaveHere, WeaveTyped, WeaveLoop

(* The next position of the output when a run is due there: it belongs to  *)
(* that run, as do the positions after it up to the run's length.          *)
LEMMA RunPosition ==
  ASSUME WeaveHere, taken < TOTAL_SHARDS, insertions[taken + 1].off = idx,
         NEW k \in 1..SYMBOLS_PER_SHARD
  PROVE  /\ Len(out) + k \in 1..(Len(text) + TOTAL_SHARDS * SYMBOLS_PER_SHARD)
         /\ Woven(text, insertions)[Len(out) + k] = insertions[taken + 1].run[k]
<1> DEFINE S == SYMBOLS_PER_SHARD
           n == taken + 1
           p == Len(out) + k
           m(j) == (j - 1) * S
<1>1. /\ n \in 1..TOTAL_SHARDS /\ idx \in Nat /\ idx <= Len(text)
      /\ Len(text) \in Nat /\ taken \in Nat /\ k \in Nat /\ S \in Nat
      /\ k >= 1 /\ k <= S /\ p = idx + taken * S + k
  <2>1. /\ idx \in 0..Len(text) /\ Len(text) \in Nat /\ taken \in 0..TOTAL_SHARDS
        /\ Len(out) = idx + taken * S
    BY WeaveFacts
  <2>2. S \in Nat /\ TOTAL_SHARDS \in Nat  BY ShardArithmetic
  <2>3. n \in 1..TOTAL_SHARDS  BY <2>1, <2>2
  <2>4. k \in Nat /\ k >= 1 /\ k <= S  BY <2>2
  <2>5. p = idx + taken * S + k  BY <2>1
  <2> HIDE DEF S, n, p
  <2> QED BY <2>1, <2>2, <2>3, <2>4, <2>5
<1>2. \A j \in 1..TOTAL_SHARDS : insertions[j].off \in Nat
  BY WeaveFacts, ListFacts
<1>3. m(n) = taken * S /\ taken * S \in Nat /\ TOTAL_SHARDS * S \in Nat
      /\ n * S = taken * S + S /\ n * S <= TOTAL_SHARDS * S
  BY <1>1, ShardArithmetic
<1>4. ASSUME NEW j \in 1..TOTAL_SHARDS
      PROVE  /\ m(j) \in Nat
             /\ j <= n => m(j) <= taken * S
             /\ j > n => m(j) >= taken * S + S
  <2>1. j - 1 \in Nat  OBVIOUS
  <2>2. CASE j <= n
    <3>1. j - 1 <= taken  BY <1>1, <2>2
    <3> QED BY <1>1, <2>1, <2>2, <3>1, ShardArithmetic
  <2>3. CASE j > n
    <3>1. n <= j - 1 /\ n \in Nat  BY <1>1, <2>3
    <3>2. n * S <= (j - 1) * S  BY <2>1, <3>1, ShardArithmetic
    <3> QED BY <1>1, <1>3, <2>1, <2>3, <3>2, ShardArithmetic
  <2> QED BY <1>1, <2>2, <2>3
<1>5. ASSUME NEW j \in 1..TOTAL_SHARDS
      PROVE  /\ j <= n => insertions[j].off <= idx
             /\ j > n => insertions[j].off > idx
  BY <1>1, <1>2, WeaveFacts, ListFacts DEF WeaveHere, WeaveLoop
<1> HIDE DEF m
<1>6. ASSUME NEW j \in 1..TOTAL_SHARDS
      PROVE  RunStart(insertions, j) < p <=> j <= n
  <2> DEFINE q == taken * S
             d == insertions[j].off
  <2>1. RunStart(insertions, j) = d + m(j)  BY DEF RunStart, m
  <2>2. p = idx + q + k /\ q \in Nat /\ d \in Nat /\ m(j) \in Nat /\ k <= S
    BY <1>1, <1>2, <1>3, <1>4
  <2>3. /\ j <= n => d <= idx /\ m(j) <= q
        /\ j > n => d > idx /\ m(j) >= q + S
    BY <1>4, <1>5
  <2> HIDE DEF q, d, p, n
  <2>4. CASE j <= n  BY <1>1, <2>1, <2>2, <2>3, <2>4
  <2>5. CASE j > n  BY <1>1, <2>1, <2>2, <2>3, <2>5
  <2>6. n \in Nat  BY <1>1
  <2> QED BY <2>4, <2>5, <2>6
<1>7. Begun(insertions, p) = n
  BY <1>1, <1>3, <1>6, BegunIs
<1>8. RunStart(insertions, n) = idx + taken * S
  BY <1>1, <1>3 DEF RunStart, m
<1>9. p \in 1..(Len(text) + TOTAL_SHARDS * S)
  BY <1>1, <1>3
<1> HIDE DEF p
<1>10. p - RunStart(insertions, n) = k /\ p <= RunStart(insertions, n) + S
  BY <1>1, <1>3, <1>8
<1>11. Woven(text, insertions)[p] = insertions[n].run[k]
  BY <1>1, <1>7, <1>9, <1>10 DEF Woven
<1> QED BY <1>9, <1>11 DEF p

(* The next position of the output when no run is due there: it has the    *)
(* character at the cursor.                                                *)
LEMMA CharPosition ==
  ASSUME WeaveHere, idx < Len(text), ~WeaveIn!Due
  PROVE  /\ Len(out) + 1 \in 1..(Len(text) + TOTAL_SHARDS * SYMBOLS_PER_SHARD)
         /\ Woven(text, insertions)[Len(out) + 1] = text[idx + 1]
         /\ \A j \in (taken + 1)..TOTAL_SHARDS : insertions[j].off >= idx + 1
<1> DEFINE S == SYMBOLS_PER_SHARD
           p == Len(out) + 1
           m(j) == (j - 1) * S
<1>1. /\ taken \in 0..TOTAL_SHARDS /\ idx \in Nat /\ Len(text) \in Nat
      /\ S \in Nat /\ S > 0 /\ TOTAL_SHARDS \in Nat /\ p = idx + taken * S + 1
  BY WeaveFacts, ShardArithmetic
<1>2. \A j \in 1..TOTAL_SHARDS : insertions[j].off \in Nat
  BY WeaveFacts, ListFacts
<1>3. taken * S \in Nat /\ taken * S <= TOTAL_SHARDS * S /\ TOTAL_SHARDS * S \in Nat
  BY <1>1, ShardArithmetic
<1>4. ASSUME NEW j \in 1..TOTAL_SHARDS
      PROVE  /\ m(j) \in Nat
             /\ j <= taken => m(j) + S <= taken * S
             /\ j > taken => m(j) >= taken * S
  <2>1. j - 1 \in Nat /\ j \in Nat /\ j = (j - 1) + 1  OBVIOUS
  <2>2. m(j) \in Nat /\ m(j) + S = j * S
    BY <2>1, ShardArithmetic
  <2>3. CASE j <= taken
    BY <1>1, <2>1, <2>2, <2>3, ShardArithmetic
  <2>4. CASE j > taken
    <3>1. taken <= j - 1 /\ taken \in Nat  BY <1>1, <2>4
    <3>2. taken * S <= (j - 1) * S  BY <2>1, <3>1, ShardArithmetic
    <3> QED BY <2>2, <2>4, <3>2, <1>1
  <2> QED BY <1>1, <2>3, <2>4
<1>5. ASSUME NEW j \in 1..TOTAL_SHARDS
      PROVE  /\ j <= taken => insertions[j].off <= idx
             /\ j > taken => insertions[j].off >= idx + 1
  <2>1. CASE j <= taken  BY <1>1, <2>1 DEF WeaveHere, WeaveLoop
  <2>2. CASE j > taken
    <3>1. taken + 1 \in 1..TOTAL_SHARDS  BY <1>1, <2>2
    <3>2. insertions[taken + 1].off >= idx  BY <1>1, <3>1 DEF WeaveHere, WeaveLoop
    <3>3. insertions[taken + 1].off # idx  BY <1>1, <2>2 DEF WeaveIn!Due
    <3>4. insertions[j].off >= insertions[taken + 1].off
      <4>1. taken + 1 < j \/ taken + 1 = j  BY <1>1, <2>2
      <4>2. taken + 1 < j =>
              insertions[taken + 1].off < insertions[j].off
        <5>1. text \in Texts /\ insertions \in SortedInsertions(text, Order, Run)
          BY <1>1, WeaveFacts
        <5>2. \A a, b \in 1..TOTAL_SHARDS :
                a < b => insertions[a].off < insertions[b].off
          BY <5>1, ListFacts
        <5> QED BY <3>1, <5>2
      <4> QED BY <1>2, <3>1, <4>1, <4>2
    <3>5. idx \in Nat /\ ~(j <= taken)  BY <1>1, <2>2
    <3>6. insertions[taken + 1].off >= idx + 1
      BY <1>2, <3>1, <3>2, <3>3, <3>5
    <3>7. insertions[j].off >= idx + 1  BY <1>2, <3>1, <3>4, <3>5, <3>6
    <3> QED BY <3>5, <3>7
  <2> QED BY <1>1, <2>1, <2>2
<1> HIDE DEF m
<1>6. ASSUME NEW j \in 1..TOTAL_SHARDS
      PROVE  /\ RunStart(insertions, j) < p <=> j <= taken
             /\ j <= taken => RunStart(insertions, j) + S < p
  <2> DEFINE o == insertions[j].off
             x == taken * S
  <2>1. RunStart(insertions, j) = o + m(j)  BY DEF RunStart, m
  <2>2. /\ o \in Nat /\ m(j) \in Nat /\ x \in Nat
        /\ idx \in Nat /\ S \in Nat /\ p = idx + x + 1
    BY <1>1, <1>2, <1>3, <1>4
  <2>3. CASE j <= taken
    <3>1. o <= idx /\ m(j) + S <= x  BY <1>4, <1>5, <2>3
    <3> HIDE DEF o, x, p
    <3> QED BY <2>1, <2>2, <2>3, <3>1
  <2>4. CASE ~(j <= taken)
    <3>1. o >= idx + 1 /\ m(j) >= x  BY <1>1, <1>4, <1>5, <2>4
    <3> HIDE DEF o, x, p
    <3> QED BY <2>1, <2>2, <2>4, <3>1
  <2> QED BY <2>3, <2>4
<1>7. Begun(insertions, p) = taken
  BY <1>1, <1>3, <1>6, BegunIs
<1>8. p \in 1..(Len(text) + TOTAL_SHARDS * S) /\ p - taken * S = idx + 1
  BY <1>1, <1>3
<1> HIDE DEF p
<1>9. ~(taken > 0 /\ p <= RunStart(insertions, taken) + S)
  <2>1. CASE taken > 0
    <3>1. taken \in 1..TOTAL_SHARDS  BY <1>1, <2>1
    <3>2. RunStart(insertions, taken) + S < p  BY <1>6, <3>1
    <3>3. RunStart(insertions, taken) \in Int
      <4>1. RunStart(insertions, taken) = insertions[taken].off + m(taken)
        BY DEF RunStart, m
      <4> QED BY <1>2, <1>4, <3>1, <4>1
    <3> QED BY <1>1, <1>8, <3>2, <3>3
  <2> QED BY <1>1, <2>1
<1>10. Woven(text, insertions)[p] = text[idx + 1]
  BY <1>7, <1>8, <1>9 DEF Woven
<1>11. \A j \in (taken + 1)..TOTAL_SHARDS : insertions[j].off >= idx + 1
  BY <1>1, <1>5
<1> QED BY <1>8, <1>10, <1>11 DEF p

-----------------------------------------------------------------------------
LEMMA WeaveInitInv == WeaveIn!Init => WeaveHere
<1> SUFFICES ASSUME WeaveIn!Init PROVE WeaveHere  OBVIOUS
<1>1. /\ text \in Texts /\ insertions \in SortedInsertions(text, Order, Run)
      /\ Len(text) \in Nat
  BY TextsAssumption, WeaveWords DEF WeaveIn!Init
<1>2. << >> \in Seq(Char \cup Symbol) /\ Len(<< >>) = 0  OBVIOUS
<1>3. WeaveTyped
  BY <1>1, <1>2, ShardArithmetic, WeaveWords DEF WeaveIn!Init, WeaveTyped
<1>4. \A j \in 1..TOTAL_SHARDS : insertions[j].off >= 0
  BY <1>1, ListFacts
<1>5. WeaveLoop
  BY <1>2, <1>4, ShardArithmetic DEF WeaveIn!Init, WeaveLoop
<1> QED BY <1>3, <1>5 DEF WeaveHere

(* Taking the run that is due extends the output by that run. *)
LEMMA TakeRunInv ==
  ASSUME WeaveHere, taken < TOTAL_SHARDS, insertions[taken + 1].off = idx, WeaveIn!TakeRun
  PROVE  WeaveHere'
<1> DEFINE S == SYMBOLS_PER_SHARD
           r == insertions[taken + 1].run
<1>0. /\ taken \in Nat /\ TOTAL_SHARDS \in Nat
      /\ (taken + 1) * S = taken * S + S /\ taken * S \in Nat
  <2>1. taken \in Nat /\ TOTAL_SHARDS \in Nat  BY WeaveFacts, ShardArithmetic
  <2> QED BY <2>1, ShardArithmetic
<1>1. /\ taken \in Nat /\ taken + 1 \in 1..TOTAL_SHARDS /\ TOTAL_SHARDS \in Nat
      /\ idx \in 0..Len(text) /\ S \in Nat /\ Len(text) \in Nat
      /\ out \in Seq(Char \cup Symbol) /\ Len(out) = idx + taken * S
      /\ (taken + 1) * S = taken * S + S /\ taken * S \in Nat
  <2>1. taken + 1 \in 1..TOTAL_SHARDS  BY <1>0
  <2>2. S \in Nat  BY ShardArithmetic
  <2>3. /\ idx \in 0..Len(text) /\ Len(text) \in Nat
        /\ out \in Seq(Char \cup Symbol) /\ Len(out) = idx + taken * S
    BY WeaveFacts
  <2> HIDE DEF S
  <2> QED BY <1>0, <2>1, <2>2, <2>3
<1>2. r \in Seq(Symbol) /\ Len(r) = S
  BY <1>1, WeaveFacts, ListFacts
<1>3. /\ out' = out \o r /\ taken' = taken + 1
      /\ text' = text /\ Order' = Order /\ insertions' = insertions
      /\ idx' = idx /\ pc' = pc
  BY DEF WeaveIn!TakeRun
<1>4. r \in Seq(Char \cup Symbol)
  <2>1. \A k \in 1..Len(r) : r[k] \in Char \cup Symbol
    BY <1>2, ElementOfSeq
  <2> QED BY <1>2, <2>1
<1>5. /\ out' \in Seq(Char \cup Symbol) /\ Len(out') = Len(out) + S
      /\ \A p \in 1..Len(out) : out'[p] = out[p]
      /\ \A k \in 1..S : out'[Len(out) + k] = r[k]
  <2> HIDE DEF r, S
  <2>1. out \o r \in Seq(Char \cup Symbol)  BY <1>1, <1>4, ConcatProperties
  <2>2. Len(out \o r) = Len(out) + Len(r)  BY <1>1, <1>4, ConcatProperties
  <2>3. \A m \in 1..(Len(out) + Len(r)) :
          (out \o r)[m] = IF m <= Len(out) THEN out[m] ELSE r[m - Len(out)]
    BY <1>1, <1>4, ConcatProperties
  <2>4. Len(out) \in Nat /\ S \in Nat  BY <1>1, LenProperties
  <2>5. \A p \in 1..Len(out) : (out \o r)[p] = out[p]
    BY <1>2, <2>3, <2>4
  <2>6. ASSUME NEW k \in 1..S PROVE (out \o r)[Len(out) + k] = r[k]
    <3>1. /\ Len(out) + k \in 1..(Len(out) + Len(r))
          /\ ~(Len(out) + k <= Len(out)) /\ (Len(out) + k) - Len(out) = k
      BY <1>2, <2>4
    <3> QED BY <2>3, <3>1
  <2> QED BY <1>2, <1>3, <2>1, <2>2, <2>5, <2>6
<1>6. ASSUME NEW p \in 1..Len(out')
      PROVE  out'[p] = Woven(text, insertions)[p]
  <2> HIDE DEF r, S
  <2>0. Len(out) \in Nat  BY <1>1, LenProperties
  <2>1. CASE p \in 1..Len(out)
    <3>1. \A q \in 1..Len(out) : out[q] = Woven(text, insertions)[q]
      BY DEF WeaveHere, WeaveLoop
    <3>2. out'[p] = out[p]  BY <1>5, <2>1
    <3> QED BY <2>1, <3>1, <3>2
  <2>2. CASE p \notin 1..Len(out)
    <3>1. p - Len(out) \in 1..S /\ p = Len(out) + (p - Len(out))
      BY <1>1, <1>5, <2>0, <2>2
    <3>2. PICK k \in 1..S : p = Len(out) + k
      BY <3>1
    <3>3. out'[Len(out) + k] = r[k]  BY <1>5
    <3>4. Woven(text, insertions)[Len(out) + k] = r[k]
      BY <1>1, RunPosition DEF r, S
    <3> QED BY <3>2, <3>3, <3>4
  <2> QED BY <2>1, <2>2
<1>7. WeaveTyped'
  <2>1. out' \in Seq(Char \cup Symbol)  BY <1>5
  <2>2. taken' \in 0..TOTAL_SHARDS  BY <1>1, <1>3
  <2>3. /\ text \in Texts /\ Order \in Orders(Cardinality(WordEnds(text)))
        /\ insertions \in SortedInsertions(text, Order, Run)
        /\ idx \in 0..Len(text) /\ pc \in {"weave", "tail", "done"}
    BY DEF WeaveHere, WeaveTyped
  <2> QED BY <1>3, <2>1, <2>2, <2>3 DEF WeaveTyped
<1>8. \A j \in 1..taken' : insertions'[j].off <= idx'
  BY <1>1, <1>3 DEF WeaveHere, WeaveLoop
<1>9. \A j \in (taken' + 1)..TOTAL_SHARDS : insertions'[j].off >= idx'
  BY <1>1, <1>3 DEF WeaveHere, WeaveLoop
<1>10. Len(out') = idx' + taken' * S
  <2> DEFINE x == taken * S
             y == (taken + 1) * S
  <2>1. Len(out) = idx + x /\ y = x + S /\ x \in Nat  BY <1>1
  <2> HIDE DEF x, y
  <2>2. Len(out') = idx + y  BY <1>1, <1>5, <2>1
  <2> QED BY <1>3, <2>2 DEF y
<1>11. pc' # "weave" => idx' = Len(text')
  BY <1>3 DEF WeaveHere, WeaveLoop
<1>12. pc' = "done" => taken' = TOTAL_SHARDS
  BY <1>1, <1>3 DEF WeaveHere, WeaveLoop
<1>13. WeaveLoop'
  BY <1>3, <1>6, <1>8, <1>9, <1>10, <1>11, <1>12 DEF WeaveLoop
<1> QED BY <1>7, <1>13 DEF WeaveHere

LEMMA CopyCharInv == WeaveHere /\ WeaveIn!CopyChar => WeaveHere'
<1> SUFFICES ASSUME WeaveHere, WeaveIn!CopyChar PROVE WeaveHere'  OBVIOUS
<1> DEFINE S == SYMBOLS_PER_SHARD
<1>1. /\ idx < Len(text) /\ ~WeaveIn!Due /\ pc = "weave"
      /\ out' = Append(out, text[idx + 1]) /\ idx' = idx + 1
      /\ text' = text /\ Order' = Order /\ insertions' = insertions
      /\ taken' = taken /\ pc' = pc
  BY DEF WeaveIn!CopyChar
<1>2. /\ taken \in 0..TOTAL_SHARDS /\ TOTAL_SHARDS \in Nat
      /\ idx \in 0..Len(text) /\ Len(text) \in Nat
      /\ text \in Seq(Char) /\ out \in Seq(Char \cup Symbol)
      /\ Len(out) = idx + taken * S /\ taken * S \in Nat
  BY WeaveFacts, ShardArithmetic
<1>3. text[idx + 1] \in Char \cup Symbol
  BY <1>1, <1>2, ElementOfSeq
<1>4. /\ out' \in Seq(Char \cup Symbol) /\ Len(out') = Len(out) + 1
      /\ \A p \in 1..Len(out) : out'[p] = out[p]
      /\ out'[Len(out) + 1] = text[idx + 1]
  BY <1>1, <1>2, <1>3, AppendProperties
<1>5. ASSUME NEW p \in 1..Len(out')
      PROVE  out'[p] = Woven(text, insertions)[p]
  <2>0. Len(out) \in Nat  BY <1>2, LenProperties
  <2>1. CASE p \in 1..Len(out)
    BY <1>4, <2>1 DEF WeaveHere, WeaveLoop
  <2>2. CASE p = Len(out) + 1
    BY <1>1, <1>4, <2>2, CharPosition
  <2> QED BY <1>4, <2>0, <2>1, <2>2
<1>6. WeaveTyped'
  BY <1>1, <1>2, <1>4 DEF WeaveHere, WeaveTyped
<1>7. \A j \in (taken' + 1)..TOTAL_SHARDS : insertions'[j].off >= idx'
  BY <1>1, CharPosition
<1>8. \A j \in 1..taken' : insertions'[j].off <= idx'
  <2>1. \A j \in 1..taken : insertions[j].off <= idx /\ insertions[j].off \in Nat
    BY <1>2, WeaveFacts, ListFacts DEF WeaveHere, WeaveLoop
  <2> QED BY <1>1, <1>2, <2>1
<1>9. Len(out') = idx' + taken' * S
  <2> DEFINE x == taken * S
  <2>1. Len(out) = idx + x /\ x \in Nat  BY <1>2
  <2> HIDE DEF x
  <2>2. Len(out') = (idx + 1) + x  BY <1>2, <1>4, <2>1
  <2> QED BY <1>1, <2>2 DEF x
<1>10. WeaveLoop'
  BY <1>1, <1>5, <1>7, <1>8, <1>9 DEF WeaveLoop
<1> QED BY <1>6, <1>10 DEF WeaveHere

LEMMA WeaveNextInv == WeaveHere /\ WeaveIn!Next => WeaveHere'
<1> SUFFICES ASSUME WeaveHere, WeaveIn!Next PROVE WeaveHere'  OBVIOUS
<1>1. CASE WeaveIn!Insert
  BY <1>1, TakeRunInv DEF WeaveIn!Insert, WeaveIn!Due
<1>2. CASE WeaveIn!CopyChar
  BY <1>2, CopyCharInv
<1>3. CASE WeaveIn!LeaveLoop
  BY <1>3 DEF WeaveIn!LeaveLoop, WeaveHere, WeaveTyped, WeaveLoop
<1>4. CASE WeaveIn!AppendLeftover
  <2>1. /\ taken \in Nat /\ taken < TOTAL_SHARDS /\ TOTAL_SHARDS \in Nat
        /\ Len(text) \in Nat /\ idx = Len(text)
    BY <1>4, WeaveFacts, ShardArithmetic DEF WeaveIn!AppendLeftover, WeaveHere, WeaveLoop
  <2>2. taken + 1 \in 1..TOTAL_SHARDS  BY <2>1
  <2>3. insertions[taken + 1].off \in 1..Len(text)
    BY <2>2, WeaveFacts, ListFacts
  <2>4. insertions[taken + 1].off >= idx
    BY <2>1, <2>2 DEF WeaveHere, WeaveLoop
  <2>5. insertions[taken + 1].off = idx
    BY <2>1, <2>3, <2>4
  <2> QED BY <1>4, <2>1, <2>5, TakeRunInv DEF WeaveIn!AppendLeftover
<1>5. CASE WeaveIn!Return
  BY <1>5 DEF WeaveIn!Return, WeaveHere, WeaveTyped, WeaveLoop
<1> QED BY <1>1, <1>2, <1>3, <1>4, <1>5 DEF WeaveIn!Next

LEMMA Leftovers == WeaveHere => WeaveIn!LeftoversBelongAtEnd
<1> SUFFICES ASSUME WeaveHere, pc = "tail", NEW j \in (taken + 1)..TOTAL_SHARDS
             PROVE  insertions[j].off = Len(text)
  BY DEF WeaveIn!LeftoversBelongAtEnd
<1>1. j \in 1..TOTAL_SHARDS /\ Len(text) \in Nat
  BY WeaveFacts, ShardArithmetic
<1>2. insertions[j].off \in 1..Len(text)
  BY <1>1, WeaveFacts, ListFacts
<1>3. insertions[j].off >= Len(text)
  BY DEF WeaveHere, WeaveLoop
<1> QED BY <1>1, <1>2, <1>3

LEMMA OutIsWoven == WeaveHere => WeaveIn!ReturnsWoven
<1> SUFFICES ASSUME WeaveHere, pc = "done" PROVE out = Woven(text, insertions)
  BY WeaveWords DEF WeaveIn!ReturnsWoven
<1>1. /\ Len(out) = Len(text) + TOTAL_SHARDS * SYMBOLS_PER_SHARD
      /\ \A p \in 1..Len(out) : out[p] = Woven(text, insertions)[p]
  BY DEF WeaveHere, WeaveLoop
<1>2. out \in Seq(Char \cup Symbol)  BY WeaveFacts
<1>3. out = [p \in 1..Len(out) |-> out[p]]  BY <1>2
<1>4. Woven(text, insertions)
        = [p \in 1..Len(out) |-> Woven(text, insertions)[p]]
  BY <1>1 DEF Woven
<1> QED BY <1>1, <1>3, <1>4

-----------------------------------------------------------------------------
(* What is visible of the output is what has been read of the text. *)
ShownTo(t, n) == {j \in 1..n : ~IsZeroWidth(t[j])}
SeenSoFar == Strip(out) = At(text, ShownTo(text, idx))

LEMMA SeenInit == WeaveIn!Init => SeenSoFar
<1> SUFFICES ASSUME WeaveIn!Init PROVE SeenSoFar  OBVIOUS
<1>1. /\ {j \in 1..Len(out) : ~IsZeroWidth(out[j])} = {}
      /\ ShownTo(text, idx) = {}
  BY DEF WeaveIn!Init, ShownTo
<1>2. {} \in SUBSET (1..0)  OBVIOUS
<1>3. At(out, {}) = At(text, {})  BY <1>2, AtSame
<1> QED BY <1>1, <1>3 DEF SeenSoFar, Strip

LEMMA SeenTakeRun ==
  ASSUME WeaveHere, SeenSoFar, taken < TOTAL_SHARDS, WeaveIn!TakeRun
  PROVE  SeenSoFar'
<1> DEFINE r == insertions[taken + 1].run
           n == Len(out)
           P == ShownTo(out, n)
<1>1. /\ out \in Seq(Char \cup Symbol) /\ n \in Nat
      /\ out' = out \o r /\ text' = text /\ idx' = idx
  BY WeaveFacts DEF WeaveIn!TakeRun
<1>2. r \in Seq(Symbol)
  <2>1. taken + 1 \in 1..TOTAL_SHARDS  BY WeaveFacts, ShardArithmetic
  <2> QED BY <2>1, WeaveFacts, ListFacts
<1>3. /\ Len(out') = n + Len(r) /\ Len(r) \in Nat
      /\ \A j \in 1..n : out'[j] = out[j]
      /\ \A j \in 1..Len(r) : out'[n + j] = r[j]
  BY <1>1, <1>2
<1>4. \A c \in Symbol : IsZeroWidth(c)  BY DEF Symbol, IsZeroWidth
<1>5. \A j \in 1..Len(out') : ~IsZeroWidth(out'[j]) => j \in 1..n
  <2> SUFFICES ASSUME NEW j \in 1..Len(out'), j > n
               PROVE  IsZeroWidth(out'[j])
    BY <1>1, <1>3
  <2>1. j - n \in 1..Len(r) /\ n + (j - n) = j  BY <1>1, <1>3
  <2>2. out'[j] = r[j - n]  BY <1>3, <2>1
  <2>3. r[j - n] \in Symbol  BY <1>2, <2>1
  <2> QED BY <1>4, <2>2, <2>3
<1>6. {j \in 1..Len(out') : ~IsZeroWidth(out'[j])} = P
  <2>1. \A j \in 1..n : j \in 1..Len(out')  BY <1>1, <1>3
  <2> QED BY <1>3, <1>5, <2>1 DEF ShownTo
<1>7. At(out', P) = At(out, P)
  <2>1. P \in SUBSET (1..n) /\ \A j \in P : out'[j] = out[j]
    BY <1>3 DEF ShownTo
  <2> HIDE DEF P, n
  <2> QED BY <1>1, <2>1, AtSame
<1>8. Strip(out') = Strip(out)  BY <1>6, <1>7 DEF Strip, ShownTo
<1> QED BY <1>1, <1>8 DEF SeenSoFar

LEMMA SeenCopyChar == WeaveHere /\ SeenSoFar /\ WeaveIn!CopyChar => SeenSoFar'
<1> SUFFICES ASSUME WeaveHere, SeenSoFar, WeaveIn!CopyChar PROVE SeenSoFar'  OBVIOUS
<1> DEFINE c == text[idx + 1]
           n == Len(out)
           P == ShownTo(out, n)
           K == ShownTo(text, idx)
<1>1. /\ out \in Seq(Char \cup Symbol) /\ n \in Nat /\ idx \in Nat
      /\ out' = Append(out, c) /\ text' = text /\ idx' = idx + 1
      /\ idx < Len(text) /\ text \in Seq(Char)
  BY WeaveFacts DEF WeaveIn!CopyChar
<1>2. /\ Len(out') = n + 1 /\ out'[n + 1] = c
      /\ \A j \in 1..n : out'[j] = out[j]
  <2>1. c \in Char  BY <1>1
  <2> QED BY <1>1, <2>1
<1>3. 1..(n + 1) = 1..n \cup {n + 1} /\ 1..(idx + 1) = 1..idx \cup {idx + 1}
  BY <1>1
<1>4. /\ P \in SUBSET (1..n) /\ K \in SUBSET (1..idx)
      /\ \A j \in P : out'[j] = out[j]
  BY <1>2 DEF ShownTo
<1>5. At(out', P) = At(out, P)
  <2> HIDE DEF P, n
  <2> QED BY <1>1, <1>4, AtSame
<1>6. At(out, P) = At(text, K)  BY DEF SeenSoFar, Strip, ShownTo
<1>7. CASE IsZeroWidth(c)
  <2>1. ShownTo(out', n + 1) = P /\ ShownTo(text, idx + 1) = K
    BY <1>2, <1>3, <1>7 DEF ShownTo
  <2>2. Strip(out') = At(out', P)  BY <1>2, <2>1 DEF Strip, ShownTo
  <2> QED BY <1>1, <1>5, <1>6, <2>1, <2>2 DEF SeenSoFar
<1>8. CASE ~IsZeroWidth(c)
  <2>1. /\ ShownTo(out', n + 1) = P \cup {n + 1}
        /\ ShownTo(text, idx + 1) = K \cup {idx + 1}
    BY <1>2, <1>3, <1>8 DEF ShownTo
  <2>2. Strip(out') = At(out', P \cup {n + 1})
    BY <1>2, <2>1 DEF Strip, ShownTo
  <2>3. At(out', P \cup {n + 1}) = Append(At(out', P), out'[n + 1])
    <3> HIDE DEF P, n
    <3> QED BY <1>1, <1>4, AtAppend
  <2>4. At(text, K \cup {idx + 1}) = Append(At(text, K), text[idx + 1])
    <3> HIDE DEF K
    <3> QED BY <1>1, <1>4, AtAppend
  <2> QED BY <1>1, <1>2, <1>5, <1>6, <2>1, <2>2, <2>3, <2>4 DEF SeenSoFar
<1> QED BY <1>7, <1>8

LEMMA SeenNext == WeaveHere /\ SeenSoFar /\ WeaveIn!Next => SeenSoFar'
<1> SUFFICES ASSUME WeaveHere, SeenSoFar, WeaveIn!Next PROVE SeenSoFar'  OBVIOUS
<1>1. CASE WeaveIn!Insert  BY <1>1, SeenTakeRun DEF WeaveIn!Insert, WeaveIn!Due
<1>2. CASE WeaveIn!AppendLeftover  BY <1>2, SeenTakeRun DEF WeaveIn!AppendLeftover
<1>3. CASE WeaveIn!LeaveLoop \/ WeaveIn!Return
  BY <1>3 DEF WeaveIn!LeaveLoop, WeaveIn!Return, SeenSoFar
<1> QED BY <1>1, <1>2, <1>3, SeenCopyChar DEF WeaveIn!Next

LEMMA NothingShows == WeaveHere /\ SeenSoFar => WeaveIn!VisibleTextKept
BY WeaveWords DEF WeaveHere, WeaveLoop, SeenSoFar, WeaveIn!VisibleTextKept,
                  Strip, ShownTo

LEMMA WeaveKept == WeaveInv /\ WeaveIn!Next => WeaveInv'
BY WeaveSame, WeaveSameNext, WeaveNextInv

-----------------------------------------------------------------------------
(* The inductive invariant: what holds while each loop runs. *)

(* The text whose words a call counts. *)
Subject == IF call = "embed" THEN text ELSE Strip(text)

Arguments ==
  /\ call \in {"embed", "extract"}
  /\ text \in AnyText /\ scanned \in AnyText
  /\ stage \in {"word_gaps", "fisher_yates", "weave", "read_runs",
                "refused", "returned"}

AtRest ==
  /\ call = "embed" =>
       /\ text \in Texts
       /\ runs = << >> /\ word_rank = 0 /\ counted_word = FALSE
       /\ stage \in {"word_gaps", "fisher_yates"} =>
            insertions = << >> /\ taken = 0 /\ out = << >>
  /\ stage = "returned" /\ call = "embed" => out \in AnyText

Scans == stage = "word_gaps" => ScanInv /\ scanned = Subject

Shuffles ==
  stage = "fisher_yates" =>
    /\ ShuffleInv
    /\ scanned = Subject /\ ListsGaps(gaps, scanned)
    /\ Len(gaps) >= TOTAL_SHARDS
    /\ i \in 0..(Len(gaps) - 1) /\ idx = 0
    /\ pc = "done" => i = 0

Weaves ==
  stage = "weave" =>
    /\ call = "embed" /\ WeaveInv
    /\ Len(gaps) = Cardinality(WordEnds(text))
    /\ Len(gaps) \in Nat /\ Len(gaps) >= TOTAL_SHARDS /\ i = 0

Reads ==
  stage = "read_runs" =>
    /\ call = "extract" /\ ReadInv
    /\ gaps = << >> /\ last_word_end = 0

(* After read_runs, the map is complete and every word counted. *)
HasRead ==
  call = "extract" /\ stage \in {"word_gaps", "fisher_yates"} =>
    /\ word_rank = RankBefore(text, Len(text) + 1)
    /\ DOMAIN runs = RunRanks(text)
    /\ \A r \in DOMAIN runs :
         runs[r] \in Seq(AnyChar) /\ RunIs(text, r, runs[r])

IInv == /\ Arguments /\ AtRest /\ Scans /\ Shuffles /\ Weaves /\ Reads
        /\ HasRead

LEMMA TextsAreTexts == \A t \in Texts : t \in AnyText
<1> SUFFICES ASSUME NEW t \in Texts PROVE t \in AnyText  OBVIOUS
<1>1. t \in Seq(Char)  BY TextsAssumption
<1>2. \A k \in 1..Len(t) : t[k] \in AnyChar  BY <1>1 DEF AnyChar
<1> QED BY <1>1, <1>2 DEF AnyText

LEMMA InitInv == Init => IInv
<1> SUFFICES ASSUME Init PROVE IInv  OBVIOUS
<1>0. text \in AnyText /\ << >> \in AnyText
  BY TextsAreTexts DEF Init, AnyText
<1>1. Arguments  BY <1>0 DEF Init, Arguments
<1>2. AtRest  BY DEF Init, AtRest
<1>3. Scans
  <2> SUFFICES ASSUME stage = "word_gaps" PROVE ScanInv /\ scanned = Subject
    BY DEF Scans
  <2>1. scanned = text /\ call = "embed"  BY DEF Init
  <2>2. ScanWords!Init  BY <1>0, <2>1 DEF Init, ScanWords!Init
  <2> QED BY <2>1, <2>2, ScanBegins DEF Subject
<1>4. Reads
  <2> SUFFICES ASSUME stage = "read_runs"
               PROVE  /\ call = "extract" /\ ReadInv
                      /\ gaps = << >> /\ last_word_end = 0
    BY DEF Reads
  <2>1. ReadOff!Init  BY <1>0 DEF Init, ReadOff!Init
  <2> QED BY <2>1, ReadBegins DEF Init
<1>5. Shuffles /\ Weaves  BY DEF Init, Shuffles, Weaves
<1>6. HasRead  BY DEF Init, HasRead
<1> QED BY <1>1, <1>2, <1>3, <1>4, <1>5, <1>6 DEF IInv

LEMMA WordGapsStepInv == IInv /\ WordGapsStep => IInv'
<1> SUFFICES ASSUME IInv, WordGapsStep PROVE IInv'  OBVIOUS
<1>1. scanned' = scanned
  BY DEF WordGapsStep, ScanWords!Next, ScanWords!CloseWord,
         ScanWords!SkipSeparator, ScanWords!ExtendWord, ScanWords!Return
<1>2. /\ stage = "word_gaps" /\ stage' = stage
      /\ call' = call /\ text' = text /\ runs' = runs /\ ScanWords!Next
      /\ word_rank' = word_rank /\ counted_word' = counted_word
      /\ insertions' = insertions /\ taken' = taken /\ out' = out
  BY DEF WordGapsStep, weaveVars, runVars
<1>3. ScanInv' /\ scanned' = Subject'
  BY <1>1, <1>2, ScanKept DEF IInv, Scans, Subject
<1>4. Arguments' /\ AtRest'  BY <1>1, <1>2 DEF IInv, Arguments, AtRest
<1>5. HasRead'  BY <1>2 DEF IInv, HasRead
<1> QED BY <1>2, <1>3, <1>4, <1>5 DEF IInv, Scans, Shuffles, Weaves, Reads

LEMMA RefuseInv == IInv /\ Refuse => IInv'
BY DEF IInv, Refuse, Arguments, AtRest, Scans, Shuffles, Weaves, Reads,
       HasRead, weaveVars, runVars

(* What word_gaps has returned. *)
LEMMA ScanDone ==
  ASSUME IInv, stage = "word_gaps", pc = "done"
  PROVE  ListsGaps(gaps, scanned) /\ scanned = Subject
<1>1. ScanWords!TypeOK /\ ScanWords!LoopInv /\ scanned = Subject
  BY DEF IInv, Scans, ScanInv
<1> QED BY <1>1
      DEF ScanWords!TypeOK, ScanWords!LoopInv, ScanWords!Increasing,
          ScanWords!Range, Range, ScanWords!WordEnds, WordEnds,
          ScanWords!IsSep, IsSep, ScanWords!IsSpace, IsSpace,
          ScanWords!IsZeroWidth, IsZeroWidth, ListsGaps

LEMMA StartShuffleInv == IInv /\ StartShuffle => IInv'
<1> SUFFICES ASSUME IInv, StartShuffle PROVE IInv'  OBVIOUS
<1>1. /\ stage = "word_gaps" /\ pc = "done" /\ Len(gaps) >= TOTAL_SHARDS
      /\ stage' = "fisher_yates" /\ pc' = "shuffle"
      /\ perm' = [g \in 0..(Len(gaps) - 1) |-> g]
      /\ i' = Len(gaps) - 1 /\ idx' = 0
      /\ call' = call /\ text' = text /\ scanned' = scanned /\ gaps' = gaps
      /\ runs' = runs /\ word_rank' = word_rank
      /\ counted_word' = counted_word
      /\ insertions' = insertions /\ taken' = taken /\ out' = out
  BY DEF StartShuffle, weaveVars, runVars
<1>2. ListsGaps(gaps, scanned) /\ scanned = Subject  BY <1>1, ScanDone
<1>3. Len(gaps) \in Nat /\ TOTAL_SHARDS \in Nat /\ TOTAL_SHARDS > 0
  BY <1>2, ShardArithmetic DEF ListsGaps
<1>4. ShuffleInv'
  BY <1>1, <1>3 DEF ShuffleInv, Shuffle!TypeOK, Shuffle!Permutation,
                    Shuffle!Injective, Shuffle!Onto
<1>5. /\ scanned' = Subject' /\ ListsGaps(gaps, scanned)'
      /\ i' \in 0..(Len(gaps') - 1) /\ pc' # "done"
  BY <1>1, <1>2, <1>3 DEF Subject, ListsGaps
<1>6. Shuffles'  BY <1>1, <1>4, <1>5 DEF Shuffles
<1>7. Arguments' /\ AtRest'  BY <1>1 DEF IInv, Arguments, AtRest
<1>8. HasRead'  BY <1>1 DEF IInv, HasRead
<1> QED BY <1>1, <1>6, <1>7, <1>8 DEF IInv, Scans, Weaves, Reads

(* A bijection of a set onto itself. *)
Bijects(p, D) ==
  /\ p \in [D -> D]
  /\ \A x, y \in D : p[x] = p[y] => x = y
  /\ \A g \in D : \E x \in D : p[x] = g

(* Exchanging two entries of a bijection leaves a bijection. *)
LEMMA SwapBijects ==
  ASSUME NEW D, NEW p, NEW a \in D, NEW b \in D, Bijects(p, D)
  PROVE  Bijects(Shuffle!SwapAt(p, a, b), D)
<1> DEFINE q == Shuffle!SwapAt(p, a, b)
<1>1. q \in [D -> D]
  BY DEF Shuffle!SwapAt, Bijects
<1>2. \A x \in D : q[x] = IF x = b THEN p[a] ELSE IF x = a THEN p[b] ELSE p[x]
  BY DEF Shuffle!SwapAt, Bijects
<1> HIDE DEF q
<1>3. \A x, y \in D : q[x] = q[y] => x = y
  BY <1>2 DEF Bijects
<1>4. ASSUME NEW g \in D PROVE \E x \in D : q[x] = g
  <2>1. PICK x \in D : p[x] = g  BY DEF Bijects
  <2>2. CASE x = a  BY <2>1, <2>2, <1>2
  <2>3. CASE x = b  BY <2>1, <2>3, <1>2
  <2>4. CASE x # a /\ x # b  BY <2>1, <2>4, <1>2
  <2> QED BY <2>2, <2>3, <2>4
<1>5. Bijects(q, D)  BY <1>1, <1>3, <1>4 DEF Bijects
<1> QED BY <1>5 DEF q

(* What an iteration of the shuffle, or its end, changes. *)
LEMMA ShuffleFacts ==
  ASSUME IInv, ShuffleStep
  PROVE  /\ stage = "fisher_yates" /\ stage' = stage /\ call' = call
         /\ Len(gaps) \in Nat
         /\ \/ /\ i >= 1 /\ pc = "shuffle" /\ pc' = pc /\ i' = i - 1
               /\ \E j \in Partners :
                    /\ j \in 0..(Len(gaps) - 1) /\ j <= i
                    /\ perm' = Shuffle!SwapAt(perm, i, j)
                    /\ drawn' = IF call = "embed"
                                  THEN [k \in i..(Len(gaps) - 1) |->
                                          IF k = i THEN j ELSE drawn[k]]
                                  ELSE drawn
            \/ /\ i = 0 /\ i' = i /\ pc' = "done"
               /\ perm' = perm /\ drawn' = drawn
<1>1. /\ stage = "fisher_yates" /\ stage' = stage /\ call' = call
  BY DEF ShuffleStep
<1>2. /\ i \in 0..(Len(gaps) - 1) /\ gaps \in Seq(Nat)
  BY <1>1 DEF IInv, Shuffles, ListsGaps
<1>3. Len(gaps) \in Nat  BY <1>2
<1>4. CASE Shuffle!Return /\ UNCHANGED drawn
  BY <1>1, <1>2, <1>3, <1>4 DEF Shuffle!Return
<1>5. ASSUME NEW j \in Partners,
             Shuffle!SwapWith(j),
             drawn' = IF call = "embed"
                        THEN [k \in i..(Len(gaps) - 1) |->
                                IF k = i THEN j ELSE drawn[k]]
                        ELSE drawn
      PROVE  /\ i >= 1 /\ pc = "shuffle" /\ pc' = pc /\ i' = i - 1
             /\ j \in 0..(Len(gaps) - 1) /\ j <= i
             /\ perm' = Shuffle!SwapAt(perm, i, j)
  <2>1. j \in 0..i  BY DEF Partners
  <2>2. j \in 0..(Len(gaps) - 1) /\ j <= i  BY <1>2, <1>3, <2>1
  <2> QED BY <1>5, <2>2 DEF Shuffle!SwapWith
<1> QED BY <1>1, <1>3, <1>4, <1>5 DEF ShuffleStep

LEMMA ShuffleStepInv == IInv /\ ShuffleStep => IInv'
<1> SUFFICES ASSUME IInv, ShuffleStep PROVE IInv'  OBVIOUS
<1> DEFINE n == Len(gaps)
           D == 0..(n - 1)
<1>1. /\ stage = "fisher_yates" /\ stage' = stage /\ n \in Nat
      /\ call' = call /\ text' = text /\ scanned' = scanned /\ gaps' = gaps
      /\ idx' = idx /\ runs' = runs /\ word_rank' = word_rank
      /\ counted_word' = counted_word
      /\ insertions' = insertions /\ taken' = taken /\ out' = out
  BY ShuffleFacts DEF ShuffleStep, gapVars, weaveVars, runVars
<1>2. /\ ShuffleInv /\ scanned = Subject /\ ListsGaps(gaps, scanned)
      /\ n >= TOTAL_SHARDS /\ i \in D /\ idx = 0
  BY <1>1 DEF IInv, Shuffles
<1>3. Bijects(perm, D) /\ pc \in {"shuffle", "done"}
  BY <1>1, <1>2
     DEF ShuffleInv, Shuffle!TypeOK, Shuffle!Permutation, Shuffle!Injective,
         Shuffle!Onto, Bijects
<1>4. /\ Bijects(perm', D) /\ i' \in D /\ pc' \in {"shuffle", "done"}
      /\ pc' = "done" => i' = 0
  <2>1. CASE i = 0 /\ i' = i /\ pc' = "done" /\ perm' = perm
    BY <1>2, <1>3, <2>1
  <2>2. ASSUME i >= 1, pc = "shuffle", pc' = pc, i' = i - 1, NEW j \in D,
               perm' = Shuffle!SwapAt(perm, i, j)
        PROVE  /\ Bijects(perm', D) /\ i' \in D /\ pc' \in {"shuffle", "done"}
               /\ pc' = "done" => i' = 0
    <3>1. Bijects(perm', D)  BY <1>2, <1>3, <2>2, SwapBijects
    <3>2. i' \in D  BY <1>1, <1>2, <2>2
    <3> QED BY <2>2, <3>1, <3>2
  <2> QED BY <2>1, <2>2, ShuffleFacts
<1>5. ShuffleInv'
  <2>1. Len(gaps') = n /\ n \in Nat  BY <1>1
  <2> HIDE DEF n
  <2>2. i' \in -1..(n - 1)  BY <1>4, <2>1
  <2> QED BY <1>4, <2>1, <2>2
          DEF ShuffleInv, Shuffle!TypeOK, Shuffle!Permutation,
              Shuffle!Injective, Shuffle!Onto, Bijects
<1>6. scanned' = Subject' /\ ListsGaps(gaps, scanned)'
  BY <1>1, <1>2 DEF Subject, ListsGaps
<1>7. Shuffles'  BY <1>1, <1>2, <1>4, <1>5, <1>6 DEF Shuffles
<1>8. Arguments' /\ AtRest' /\ HasRead'
  BY <1>1 DEF IInv, Arguments, AtRest, HasRead
<1> QED BY <1>1, <1>7, <1>8 DEF IInv, Scans, Weaves, Reads

(* The order that the weaving loop and the look-up go by. *)
LEMMA OrderOK ==
  ASSUME IInv, stage = "fisher_yates"
  PROVE  /\ Order \in Orders(Len(gaps))
         /\ Len(gaps) \in Nat /\ Len(gaps) = Cardinality(WordEnds(Subject))
         /\ ListsGaps(gaps, Subject)
<1>1. /\ ShuffleInv /\ scanned = Subject /\ ListsGaps(gaps, scanned)
      /\ Len(gaps) >= TOTAL_SHARDS
  BY DEF IInv, Shuffles
<1>2. Len(gaps) = Cardinality(WordEnds(Subject)) /\ Len(gaps) \in Nat
  BY <1>1, GapFacts
<1>3. \A s \in Shards : s \in 0..(Len(gaps) - 1)
  BY <1>1, <1>2, ShardArithmetic DEF Shards
<1>4. Order \in Orders(Len(gaps))
  BY <1>1, <1>2, <1>3
     DEF ShuffleInv, Shuffle!TypeOK, Shuffle!Permutation, Shuffle!Injective,
         Order, Orders, IsInjective
<1> QED BY <1>1, <1>2, <1>4

LEMMA WeaveStart == WeaveIn!Init' => WeaveHere'
BY WeaveInitInv, PTL

LEMMA WeaveBegins == IInv /\ StartWeave => WeaveIn!Init'
<1> SUFFICES ASSUME IInv, StartWeave PROVE WeaveIn!Init'  OBVIOUS
<1>1. /\ stage = "fisher_yates" /\ pc = "done" /\ call = "embed"
      /\ stage' = "weave" /\ pc' = "weave" /\ insertions' = InsertionList
      /\ call' = call /\ text' = text /\ scanned' = scanned /\ gaps' = gaps
      /\ idx' = idx /\ i' = i /\ perm' = perm /\ runs' = runs
      /\ word_rank' = word_rank /\ counted_word' = counted_word
      /\ taken' = taken /\ out' = out
  BY DEF StartWeave, gapVars, permVars, runVars
<1>2. /\ text \in Texts /\ taken = 0 /\ out = << >> /\ idx = 0 /\ i = 0
      /\ Len(gaps) >= TOTAL_SHARDS
  BY <1>1 DEF IInv, AtRest, Shuffles
<1>3. /\ Order \in Orders(Len(gaps)) /\ Len(gaps) \in Nat
      /\ Len(gaps) = Cardinality(WordEnds(text)) /\ ListsGaps(gaps, text)
  BY <1>1, OrderOK DEF Subject
<1>4. Len(text) \in Nat /\ text \in Seq(Char)  BY <1>2, TextsAssumption
<1>5. InsertionList \in SortedInsertions(text, Order, Run)
  BY <1>3, <1>4, ListIsSorted
<1>6. Order' = Order  BY <1>1 DEF Order
<1>7. WeaveIn!Init'
  BY <1>1, <1>2, <1>3, <1>5, <1>6, WeaveWords DEF WeaveIn!Init
<1> QED BY <1>7

LEMMA SeenStart == WeaveIn!Init' => SeenSoFar'
BY SeenInit, PTL

LEMMA StartWeaveInv == IInv /\ StartWeave => IInv'
<1> SUFFICES ASSUME IInv, StartWeave PROVE IInv'  OBVIOUS
<1>1. /\ stage = "fisher_yates" /\ pc = "done" /\ call = "embed"
      /\ stage' = "weave"
      /\ call' = call /\ text' = text /\ scanned' = scanned /\ gaps' = gaps
      /\ i' = i /\ runs' = runs
      /\ word_rank' = word_rank /\ counted_word' = counted_word
  BY DEF StartWeave, gapVars, permVars, runVars
<1>2. i = 0 /\ Len(gaps) >= TOTAL_SHARDS
  BY <1>1 DEF IInv, Shuffles
<1>3. Len(gaps) \in Nat /\ Len(gaps) = Cardinality(WordEnds(text))
  BY <1>1, OrderOK DEF Subject
<1>4. WeaveInv'  BY WeaveBegins, WeaveStart, WeaveSameNext
<1>5. Weaves'  BY <1>1, <1>2, <1>3, <1>4 DEF Weaves
<1>6. Arguments' /\ AtRest' /\ HasRead'
  BY <1>1 DEF IInv, Arguments, AtRest, HasRead
<1> QED BY <1>1, <1>5, <1>6 DEF IInv, Scans, Shuffles, Reads

LEMMA WeaveStepInv == IInv /\ WeaveStep => IInv'
<1> SUFFICES ASSUME IInv, WeaveStep PROVE IInv'  OBVIOUS
<1>1. /\ stage = "weave" /\ stage' = stage /\ call' = call
      /\ scanned' = scanned /\ gaps' = gaps /\ i' = i
      /\ runs' = runs /\ word_rank' = word_rank
      /\ counted_word' = counted_word /\ WeaveIn!Next
  BY DEF WeaveStep, gapVars, permVars, runVars
<1>2. text' = text
  BY <1>1 DEF WeaveIn!Next, WeaveIn!Insert, WeaveIn!CopyChar,
              WeaveIn!LeaveLoop, WeaveIn!AppendLeftover, WeaveIn!Return,
              WeaveIn!TakeRun
<1>3. /\ call = "embed" /\ WeaveInv
      /\ Len(gaps) = Cardinality(WordEnds(text))
      /\ Len(gaps) \in Nat /\ Len(gaps) >= TOTAL_SHARDS /\ i = 0
  BY <1>1 DEF IInv, Weaves
<1>4. WeaveInv'  BY <1>1, <1>3, WeaveKept
<1>5. Weaves'  BY <1>1, <1>2, <1>3, <1>4 DEF Weaves
<1>6. Arguments' /\ AtRest' /\ HasRead'
  BY <1>1, <1>2, <1>3 DEF IInv, Arguments, AtRest, HasRead
<1> QED BY <1>1, <1>5, <1>6 DEF IInv, Scans, Shuffles, Reads

LEMMA ReturnMarkedInv == IInv /\ ReturnMarked => IInv'
<1> SUFFICES ASSUME IInv, ReturnMarked PROVE IInv'  OBVIOUS
<1>1. /\ stage = "weave" /\ stage' = "returned" /\ call' = call
      /\ text' = text /\ scanned' = scanned /\ out' = out /\ runs' = runs
      /\ word_rank' = word_rank /\ counted_word' = counted_word
      /\ call = "embed" /\ WeaveInv
  BY DEF ReturnMarked, weaveVars, runVars, IInv, Weaves
<1>2. out \in Seq(Char \cup Symbol)
  BY <1>1 DEF WeaveInv, WeaveIn!TypeOK, WeaveIn!Symbol, Symbol,
              WeaveIn!Shards, Shards
<1>3. out \in AnyText  BY <1>2 DEF AnyText, AnyChar
<1>4. Arguments' /\ AtRest' /\ HasRead'
  BY <1>1, <1>3 DEF IInv, Arguments, AtRest, HasRead
<1> QED BY <1>1, <1>4 DEF IInv, Scans, Shuffles, Weaves, Reads

-----------------------------------------------------------------------------
LEMMA ReadStart == ReadOff!Init' => ReadInv'
BY ReadBegins, PTL

LEMMA ScanStart == ScanWords!Init' => ScanInv'
BY ScanBegins, PTL

LEMMA DeliverInv == IInv /\ Deliver => IInv'
<1> SUFFICES ASSUME IInv, Deliver PROVE IInv'  OBVIOUS
<1>1. /\ stage = "returned" /\ call = "embed" /\ out \in AnyText
      /\ call' = "extract" /\ stage' = "read_runs" /\ pc' = "scan"
      /\ idx' = 0 /\ in_word' = FALSE /\ scanned' = << >>
      /\ gaps' = << >> /\ last_word_end' = 0
      /\ runs' = runs /\ word_rank' = word_rank
      /\ counted_word' = counted_word
      /\ runs = << >> /\ word_rank = 0 /\ counted_word = FALSE
  BY DEF Deliver, runVars, IInv, AtRest
<1>2. text' \in AnyText
  <2>1. CASE text' = out  BY <1>1, <2>1
  <2>2. ASSUME NEW k \in 1..Len(out), text' = RemoveAt(out, k)
        PROVE  text' \in AnyText
    <3>1. out \in Seq(AnyChar) /\ Len(out) \in Nat  BY <1>1 DEF AnyText
    <3>2. /\ SubSeq(out, 1, k - 1) \in Seq(AnyChar)
          /\ SubSeq(out, k + 1, Len(out)) \in Seq(AnyChar)
      BY <3>1
    <3> QED BY <2>2, <3>1, <3>2 DEF RemoveAt, AnyText
  <2> QED BY <2>1, <2>2 DEF Deliver
<1>3. ReadOff!Init'  BY <1>1, <1>2 DEF ReadOff!Init
<1>4. ReadInv'  BY <1>3, ReadStart
<1>5. Reads'  BY <1>1, <1>4 DEF Reads
<1>6. scanned' \in AnyText  BY <1>1 DEF AnyText
<1>7. Arguments' /\ AtRest' /\ HasRead'
  BY <1>1, <1>2, <1>6 DEF Arguments, AtRest, HasRead
<1> QED BY <1>1, <1>5, <1>7 DEF IInv, Scans, Shuffles, Weaves

LEMMA ReadRunsStepInv == IInv /\ ReadRunsStep => IInv'
<1> SUFFICES ASSUME IInv, ReadRunsStep PROVE IInv'  OBVIOUS
<1>1. /\ stage = "read_runs" /\ stage' = stage /\ call' = call
      /\ scanned' = scanned /\ gaps' = gaps
      /\ last_word_end' = last_word_end /\ ReadOff!Next
  BY DEF ReadRunsStep, gapVars
<1>2. text' = text
  BY <1>1 DEF ReadOff!Next, ReadOff!Symbol, ReadOff!Whitespace,
              ReadOff!BeginWord, ReadOff!ContinueWord, ReadOff!Return
<1>3. /\ call = "extract" /\ ReadInv /\ gaps = << >> /\ last_word_end = 0
  BY <1>1 DEF IInv, Reads
<1>4. ReadInv'  BY <1>1, <1>3, ReadKept
<1>5. Reads'  BY <1>1, <1>3, <1>4 DEF Reads
<1>6. Arguments' /\ AtRest' /\ HasRead'
  BY <1>1, <1>2, <1>3 DEF IInv, Arguments, AtRest, HasRead
<1> QED BY <1>1, <1>5, <1>6 DEF IInv, Scans, Shuffles, Weaves

LEMMA StartCleanGapsInv == IInv /\ StartCleanGaps => IInv'
<1> SUFFICES ASSUME IInv, StartCleanGaps PROVE IInv'  OBVIOUS
<1>1. /\ stage = "read_runs" /\ pc = "done" /\ stage' = "word_gaps"
      /\ pc' = "scan" /\ scanned' = Strip(text) /\ idx' = 0
      /\ in_word' = FALSE /\ call' = call /\ text' = text
      /\ gaps' = gaps /\ last_word_end' = last_word_end /\ runs' = runs
      /\ word_rank' = word_rank
      /\ call = "extract" /\ ReadInv /\ gaps = << >> /\ last_word_end = 0
      /\ text \in AnyText
  BY DEF StartCleanGaps, gapVars, runVars, IInv, Reads, Arguments
<1>2. Strip(text) \in AnyText  BY <1>1, StripType DEF AnyText
<1>3. ScanWords!Init'  BY <1>1, <1>2 DEF ScanWords!Init
<1>4. ScanInv' /\ scanned' = Subject'
  BY <1>1, <1>3, ScanStart DEF Subject
<1>5. HasRead'
  <2>1. ReadOff!TypeOK /\ ReadOff!LoopInv  BY <1>1 DEF ReadInv
  <2>2. DOMAIN runs = RunRanks(text) /\ \A r \in DOMAIN runs :
          runs[r] \in Seq(AnyChar) /\ RunIs(text, r, runs[r])
    BY <1>1, <2>1, ReadWords
       DEF ReadOff!TypeOK, ReadOff!LoopInv, RunRanks, RunIs
  <2>3. word_rank = RankBefore(text, Len(text) + 1)
    BY <1>1, <2>1, ReadWords DEF ReadOff!LoopInv
  <2> QED BY <1>1, <2>2, <2>3 DEF HasRead
<1>6. Arguments' /\ AtRest'
  BY <1>1, <1>2 DEF IInv, Arguments, AtRest
<1> QED BY <1>1, <1>4, <1>5, <1>6 DEF IInv, Scans, Shuffles, Weaves, Reads

LEMMA ReturnReadInv == IInv /\ ReturnRead => IInv'
BY DEF IInv, ReturnRead, Arguments, AtRest, Scans, Shuffles, Weaves, Reads,
       HasRead, weaveVars, runVars

LEMMA IdleInv == IInv /\ UNCHANGED vars => IInv'
<1> SUFFICES ASSUME IInv, UNCHANGED vars PROVE IInv'  OBVIOUS
<1>1. /\ ScanInv <=> ScanInv'
      /\ ListsGaps(gaps, scanned) <=> ListsGaps(gaps, scanned)'
      /\ Subject' = Subject
  BY DEF vars, gapVars, ScanInv, ScanWords!TypeOK, ScanWords!LoopInv,
         ListsGaps, Subject
<1>2. ReadInv <=> ReadInv'
  BY DEF vars, runVars, ReadInv, ReadOff!TypeOK, ReadOff!LoopInv
<1>3. WeaveInv <=> WeaveInv'
  BY DEF vars, permVars, weaveVars, WeaveInv, WeaveIn!TypeOK,
         WeaveIn!LoopInv, Order
<1>4. ShuffleInv <=> ShuffleInv'
  BY DEF vars, gapVars, permVars, ShuffleInv, Shuffle!TypeOK,
         Shuffle!Permutation, Shuffle!Injective, Shuffle!Onto
<1>5. Scans' /\ Shuffles' /\ Weaves' /\ Reads'
  BY <1>1, <1>2, <1>3, <1>4
     DEF IInv, vars, gapVars, permVars, Scans, Shuffles, Weaves, Reads
<1>6. Arguments' /\ AtRest' /\ HasRead'
  BY DEF IInv, vars, weaveVars, runVars, Arguments, AtRest, HasRead
<1> QED BY <1>5, <1>6 DEF IInv

LEMMA StepInv == IInv /\ [Next]_vars => IInv'
BY WordGapsStepInv, RefuseInv, StartShuffleInv, ShuffleStepInv,
   StartWeaveInv, WeaveStepInv, ReturnMarkedInv, DeliverInv,
   ReadRunsStepInv, StartCleanGapsInv, ReturnReadInv, IdleInv
   DEF Next, Step

-----------------------------------------------------------------------------
(* In every run of embed and extract, on every text and whatever the       *)
(* generator draws, each loop is started in a state it is made for and     *)
(* stays within its types.                                                 *)
THEOREM TypeCorrect == Spec => []TypeOK
<1>1. IInv => TypeOK
  <2> SUFFICES ASSUME IInv PROVE TypeOK  OBVIOUS
  <2>1. stage = "weave" => /\ taken \in 0..TOTAL_SHARDS
                           /\ idx \in 0..Len(text)
                           /\ out \in AnyText
    <3>1. SUFFICES ASSUME stage = "weave"
                   PROVE  /\ taken \in 0..TOTAL_SHARDS
                          /\ idx \in 0..Len(text)
                          /\ out \in AnyText
      OBVIOUS
    <3>2. /\ taken \in 0..TOTAL_SHARDS /\ idx \in 0..Len(text)
          /\ out \in Seq(Char \cup Symbol)
      BY <3>1 DEF IInv, Weaves, WeaveInv, WeaveIn!TypeOK, WeaveIn!Symbol,
                  Symbol, WeaveIn!Shards, Shards
    <3> QED BY <3>2 DEF AnyText, AnyChar
  <2> QED BY <2>1 DEF IInv, Arguments, Scans, ScanInv, Shuffles, ShuffleInv,
                      Reads, ReadInv, TypeOK
<1> QED BY InitInv, StepInv, <1>1, PTL DEF Spec

(* For every text, the list that either call makes has the end of every    *)
(* word once and in order.                                                 *)
THEOREM GapsCorrect == Spec => []GapsEnumerateWords
<1>1. IInv => GapsEnumerateWords
  BY DEF IInv, Scans, ScanInv, ScanWords!LoopInv,
         ScanWords!GapsEnumerateWords, GapsEnumerateWords
<1> QED BY InitInv, StepInv, <1>1, PTL DEF Spec

(* For every number of gaps and whatever is drawn, the gap ranks are       *)
(* permuted: no rank is out of bounds and no two shards get the same.      *)
THEOREM AlwaysPermutation == Spec => []Permutation
<1>1. IInv => Permutation
  BY DEF IInv, Shuffles, ShuffleInv, Permutation
<1> QED BY InitInv, StepInv, <1>1, PTL DEF Spec

(* No later iteration of the shuffle moves an entry it has passed.         *)
THEOREM PassedEntriesStay == Spec => PassedIsFinal
<1>1. IInv /\ [Next]_vars =>
        [stage = "fisher_yates" /\ stage' = stage =>
           \A g \in DOMAIN perm : g > i => perm'[g] = perm[g]]_vars
  <2> SUFFICES ASSUME IInv, Next, stage = "fisher_yates", stage' = stage,
                      NEW g \in DOMAIN perm, g > i
               PROVE  perm'[g] = perm[g]
    OBVIOUS
  <2>1. ShuffleStep
    BY DEF Next, Step, WordGapsStep, Refuse, StartShuffle, StartWeave,
           WeaveStep, ReturnMarked, ReadRunsStep, StartCleanGaps,
           ReturnRead, Deliver
  <2>2. i \in Nat /\ perm \in [0..(Len(gaps) - 1) -> 0..(Len(gaps) - 1)]
    BY DEF IInv, Shuffles, ShuffleInv, Shuffle!TypeOK
  <2>3. CASE perm' = perm  BY <2>3
  <2>4. ASSUME NEW j \in 0..(Len(gaps) - 1), j <= i,
               perm' = Shuffle!SwapAt(perm, i, j)
        PROVE  perm'[g] = perm[g]
    BY <2>2, <2>4 DEF Shuffle!SwapAt
  <2> QED BY <2>1, <2>3, <2>4, ShuffleFacts
<1> QED BY InitInv, StepInv, <1>1, PTL DEF Spec, PassedIsFinal

(* The debug assertion after embed's loop holds of every list that the     *)
(* loops before it can make, so release builds lose nothing without it.    *)
THEOREM AssertionHolds == Spec => []LeftoversBelongAtEnd
<1>1. IInv => LeftoversBelongAtEnd
  <2>1. SUFFICES ASSUME IInv, stage = "weave"
                 PROVE  WeaveIn!LeftoversBelongAtEnd
    BY DEF LeftoversBelongAtEnd
  <2>2. WeaveHere  BY <2>1, WeaveSame DEF IInv, Weaves
  <2> QED BY <2>2, Leftovers
<1> QED BY InitInv, StepInv, <1>1, PTL DEF Spec

(* What embed returns is the text with every run in its place, for every   *)
(* text, every number and size of shards and every draw.                   *)
THEOREM WeaveCorrect == Spec => []ReturnsWoven
<1>1. IInv => ReturnsWoven
  <2>1. SUFFICES ASSUME IInv, stage = "weave" PROVE WeaveIn!ReturnsWoven
    BY DEF ReturnsWoven
  <2>2. WeaveHere  BY <2>1, WeaveSame DEF IInv, Weaves
  <2> QED BY <2>2, OutIsWoven
<1> QED BY InitInv, StepInv, <1>1, PTL DEF Spec

(* Embedding changes nothing that can be seen, for every text, every       *)
(* number and size of shards and every draw.                               *)
THEOREM VisibleKept == Spec => []VisibleTextKept
<1> DEFINE Inv == IInv /\ (stage = "weave" => SeenSoFar)
<1>1. Init => Inv  BY InitInv DEF Init
<1>2. Inv /\ [Next]_vars => Inv'
  <2> SUFFICES ASSUME Inv, [Next]_vars PROVE Inv'  OBVIOUS
  <2>1. IInv'  BY StepInv
  <2>2. CASE StartWeave
    <3>1. WeaveIn!Init'  BY <2>2, WeaveBegins
    <3> QED BY <2>1, <3>1, SeenStart
  <2>3. CASE WeaveStep
    <3>1. stage = "weave" /\ WeaveIn!Next  BY <2>3 DEF WeaveStep
    <3>2. WeaveHere  BY <3>1, WeaveSame DEF IInv, Weaves
    <3>3. SeenSoFar'  BY <3>1, <3>2, SeenNext
    <3> QED BY <2>1, <3>3
  <2>4. CASE UNCHANGED vars
    BY <2>1, <2>4
       DEF vars, weaveVars, SeenSoFar
  <2>5. CASE stage' # "weave"  BY <2>1, <2>5
  <2> QED BY <2>2, <2>3, <2>4, <2>5
          DEF Next, Step, WordGapsStep, Refuse, StartShuffle, ShuffleStep,
              ReturnMarked, ReadRunsStep, StartCleanGaps, ReturnRead,
              Deliver
<1>3. Inv => VisibleTextKept
  <2>1. SUFFICES ASSUME Inv, stage = "weave" PROVE WeaveIn!VisibleTextKept
    BY DEF VisibleTextKept
  <2>2. WeaveHere  BY <2>1, WeaveSame DEF IInv, Weaves
  <2> QED BY <2>1, <2>2, NothingShows
<1> HIDE DEF Inv
<1> QED BY <1>1, <1>2, <1>3, PTL DEF Spec

(* read_runs loses no symbol, files none twice and keeps their order, on   *)
(* every text.                                                             *)
THEOREM RunsCorrect == Spec => []RunsAreComplete
<1>1. IInv => RunsAreComplete
  BY DEF IInv, Reads, ReadInv, ReadOff!LoopInv, ReadOff!RunsAreComplete,
         ReadOff!RunRanks, ReadOff!RunIs, RunsAreComplete
<1> QED BY InitInv, StepInv, <1>1, PTL DEF Spec

(* The subtraction word_rank - 1 on an unsigned integer never wraps, on    *)
(* any text and for any alphabet.                                          *)
THEOREM NeverUnderflows ==
  Spec => [](stage = "read_runs" => ReadOff!RankNeverUnderflows)
<1>1. IInv => (stage = "read_runs" => ReadOff!RankNeverUnderflows)
  <2> SUFFICES ASSUME IInv, stage = "read_runs"
               PROVE  ReadOff!RankNeverUnderflows
    OBVIOUS
  <2>0. ReadHere  BY ReadSame DEF IInv, Reads
  <2>1. word_rank \in Nat /\ (counted_word <=> word_rank > 0)
    BY <2>0 DEF ReadHere, ReadTyped, ReadLoop
  <2>2. ASSUME word_rank = 0 PROVE DOMAIN runs = {}
    <3>1. /\ idx \in Nat /\ RankBefore(text, idx + 1) = 0
          /\ DOMAIN runs = RanksFiled(text, idx)
      BY <2>0, <2>2, ReadText DEF ReadHere, ReadTyped, ReadLoop
    <3>2. \A p \in 1..idx : RankBefore(text, p) = 0
      <4>1. SUFFICES ASSUME NEW p \in 1..idx PROVE RankBefore(text, p) = 0
        OBVIOUS
      <4> DEFINE A == {j \in 1..(p - 1) : OpensWord(text, j)}
                 B == {j \in 1..((idx + 1) - 1) : OpensWord(text, j)}
      <4>2. IsFiniteSet(B)
        <5>1. IsFiniteSet(1..((idx + 1) - 1))  BY <3>1, FS_Interval
        <5>2. B \subseteq 1..((idx + 1) - 1)  OBVIOUS
        <5> QED BY <5>1, <5>2, FS_Subset
      <4>3. B = {}
        <5>1. Cardinality(B) = 0  BY <3>1 DEF RankBefore
        <5> HIDE DEF B
        <5> QED BY <4>2, <5>1, FS_EmptySet
      <4>4. A = {}  BY <4>3, <3>1
      <4> QED BY <4>4, FS_EmptySet DEF RankBefore
    <3> QED BY <3>1, <3>2 DEF RanksFiled, Filed
  <2> QED BY <2>1, <2>2 DEF ReadOff!RankNeverUnderflows
<1> QED BY InitInv, StepInv, <1>1, PTL DEF Spec

(* For every text, its words and the words of what is left when it is      *)
(* stripped are as many exactly when no zero-width character splits one.   *)
THEOREM GapsStable == Spec => []StableUnlessSplit
<1>1. IInv => StableUnlessSplit
  <2>1. SUFFICES ASSUME IInv, stage = "word_gaps", call = "embed", pc = "done"
                 PROVE  Len(gaps) = Cardinality(WordEnds(Strip(scanned)))
                          <=> ~SplitsWord(scanned)
    <3>1. \A t : ScanWords!WordEnds(t) = WordEnds(t)
      BY DEF ScanWords!WordEnds, WordEnds, ScanWords!IsSep, IsSep,
             ScanWords!IsSpace, IsSpace, ScanWords!IsZeroWidth, IsZeroWidth
    <3>2. \A S : ScanWords!Cardinality(S) = Cardinality(S)
      BY DEF ScanWords!Cardinality, Cardinality
    <3>3. \A P, k : ScanWords!Nth(P, k) = Nth(P, k)
      BY <3>2 DEF ScanWords!Nth, Nth
    <3>4. \A t, P : ScanWords!At(t, P) = At(t, P)
      BY <3>2, <3>3 DEF ScanWords!At, At
    <3>5. \A t : ScanWords!Strip(t) = Strip(t)
      BY <3>4 DEF ScanWords!Strip, Strip, ScanWords!IsZeroWidth, IsZeroWidth
    <3>6. \A t : ScanWords!SplitsWord(t) <=> SplitsWord(t)
      BY DEF ScanWords!SplitsWord, SplitsWord, ScanWords!IsSep, IsSep,
             ScanWords!IsSpace, IsSpace, ScanWords!IsZeroWidth, IsZeroWidth
    <3> QED BY <3>1, <3>2, <3>5, <3>6
            DEF StableUnlessSplit, ScanWords!StableUnlessSplit
  <2>2. scanned \in Seq(AnyChar)  BY <2>1 DEF IInv, Arguments, AnyText
  <2>3. Len(gaps) = Cardinality(WordEnds(scanned))
    BY <2>1, ScanDone, GapFacts
  <2> QED BY <2>2, <2>3, CountUnlessSplit
<1> QED BY InitInv, StepInv, <1>1, PTL DEF Spec

(* On every text received, read_runs counts as many words as word_gaps     *)
(* lists once it is stripped, except where there is a ghost of a word.     *)
THEOREM RanksAgree == Spec => []RanksAgreeWithGaps
<1>1. IInv => RanksAgreeWithGaps
  <2>1. SUFFICES ASSUME IInv, stage = "word_gaps", call = "extract",
                        pc = "done"
                 PROVE  word_rank = Len(gaps) <=> ~HasGhostWord(text)
    BY DEF RanksAgreeWithGaps
  <2>2. text \in Seq(AnyChar)  BY <2>1 DEF IInv, Arguments, AnyText
  <2>3. Len(gaps) = Cardinality(WordEnds(Strip(text)))
    BY <2>1, ScanDone, GapFacts DEF Subject
  <2>4. word_rank = RankBefore(text, Len(text) + 1)
    BY <2>1 DEF IInv, HasRead
  <2> QED BY <2>2, <2>3, <2>4, CountUnlessGhost
<1> QED BY InitInv, StepInv, <1>1, PTL DEF Spec

-----------------------------------------------------------------------------
(* The order that extract draws is the one that embed drew. *)

(* tr[j] is the permutation of n ranks that the iteration for j begins     *)
(* with, down to the one for k, when the numbers drawn are d.              *)
Trace(tr, n, k, d) ==
  /\ tr[n - 1] = [g \in 0..(n - 1) |-> g]
  /\ \A j \in (k + 1)..(n - 1) : tr[j - 1] = Shuffle!SwapAt(tr[j], j, d[j])

(* While embed runs, drawn has the numbers of the shuffle so far. *)
Drawing ==
  /\ call = "embed" /\ stage # "returned" => placed = Calls!Nowhere
  /\ call = "embed" /\ stage = "word_gaps" => drawn = << >>
  /\ call = "embed" /\ stage \in {"fisher_yates", "weave"} =>
       /\ DOMAIN drawn = (i + 1)..(Len(gaps) - 1)
       /\ \E tr : Trace(tr, Len(gaps), i, drawn) /\ tr[i] = perm

(* Once it has returned, the numbers lead to the order it placed, and      *)
(* extract's shuffle of as many ranks is on the way there.                 *)
Replays(n, tr) ==
  /\ DOMAIN drawn = 1..(n - 1)
  /\ Trace(tr, n, 0, drawn)
  /\ placed.order = [s \in Shards |-> tr[0][s]]
  /\ call = "extract" /\ stage = "fisher_yates" /\ Len(gaps) = n =>
       perm = tr[i]

Replaying ==
  placed # Calls!Nowhere =>
    \E tr : Replays(Cardinality(WordEnds(placed.host)), tr)

DrawInv == Drawing /\ Replaying

LEMMA DrawInit == Init => DrawInv
BY DEF Init, DrawInv, Drawing, Replaying

LEMMA DrawStartShuffle == IInv /\ DrawInv /\ StartShuffle => DrawInv'
<1> SUFFICES ASSUME IInv, DrawInv, StartShuffle PROVE DrawInv'  OBVIOUS
<1> DEFINE n == Len(gaps)
           id == [g \in 0..(n - 1) |-> g]
<1>1. /\ stage = "word_gaps" /\ pc = "done" /\ stage' = "fisher_yates"
      /\ perm' = id /\ i' = n - 1 /\ n' = n
      /\ call' = call /\ gaps' = gaps /\ drawn' = drawn /\ placed' = placed
  BY DEF StartShuffle, history
<1>2. n \in Nat  BY <1>1, ScanDone DEF ListsGaps
<1>3. Drawing'
  <2>1. ASSUME call = "embed"
        PROVE  /\ DOMAIN drawn' = (i' + 1)..(n - 1)
               /\ \E tr : Trace(tr, n, i', drawn') /\ tr[i'] = perm'
    <3>1. drawn = << >> /\ (i' + 1)..(n - 1) = {}
      BY <1>1, <1>2, <2>1 DEF DrawInv, Drawing
    <3>2. Trace([j \in {n - 1} |-> id], n, i', drawn')
      BY <3>1 DEF Trace
    <3>3. [j \in {n - 1} |-> id][i'] = perm'  BY <1>1
    <3>4. DOMAIN drawn' = {}  BY <1>1, <3>1
    <3> HIDE DEF id
    <3> QED BY <3>1, <3>2, <3>3, <3>4
  <2>2. call' = "embed" /\ stage' # "returned" => placed' = Calls!Nowhere
    BY <1>1 DEF DrawInv, Drawing, Calls!Nowhere
  <2> HIDE DEF id
  <2> QED BY <1>1, <2>1, <2>2 DEF Drawing
<1>4. Replaying'
  <2> SUFFICES ASSUME placed' # Calls!Nowhere'
               PROVE  \E tr : Replays(Cardinality(WordEnds(placed.host)), tr)'
    BY DEF Replaying
  <2> DEFINE m == Cardinality(WordEnds(placed.host))
  <2>1. PICK tr : Replays(m, tr)
    BY <1>1 DEF DrawInv, Replaying, Calls!Nowhere
  <2>2. n = m => perm' = tr[i']  BY <1>1, <2>1 DEF Replays, Trace
  <2>3. m' = m  BY <1>1
  <2>4. Replays(m, tr)'
    BY <1>1, <2>1, <2>2, <2>3 DEF Replays, Trace
  <2> QED BY <2>4
<1> QED BY <1>3, <1>4 DEF DrawInv

LEMMA DrawShuffle == IInv /\ DrawInv /\ ShuffleStep => DrawInv'
<1> SUFFICES ASSUME IInv, DrawInv, ShuffleStep PROVE DrawInv'  OBVIOUS
<1> DEFINE n == Len(gaps)
<1>1. /\ stage = "fisher_yates" /\ stage' = stage /\ n \in Nat
      /\ call' = call /\ gaps' = gaps /\ placed' = placed
  BY ShuffleFacts DEF ShuffleStep, gapVars
<1>2. i \in 0..(n - 1)  BY <1>1 DEF IInv, Shuffles
<1>3. Drawing'
  <2> SUFFICES ASSUME call = "embed"
               PROVE  /\ placed = Calls!Nowhere
                      /\ DOMAIN drawn' = (i' + 1)..(n - 1)
                      /\ \E tr : Trace(tr, n, i', drawn') /\ tr[i'] = perm'
    BY <1>1 DEF Drawing, Calls!Nowhere
  <2>1. PICK tr : Trace(tr, n, i, drawn) /\ tr[i] = perm
    BY <1>1 DEF DrawInv, Drawing
  <2>2. DOMAIN drawn = (i + 1)..(n - 1) /\ placed = Calls!Nowhere
    BY <1>1 DEF DrawInv, Drawing
  <2>3. CASE i' = i /\ perm' = perm /\ drawn' = drawn
    BY <2>1, <2>2, <2>3
  <2>4. ASSUME i >= 1, i' = i - 1, NEW j,
               perm' = Shuffle!SwapAt(perm, i, j),
               drawn' = [k \in i..(n - 1) |-> IF k = i THEN j ELSE drawn[k]]
        PROVE  /\ DOMAIN drawn' = (i' + 1)..(n - 1)
               /\ \E t : Trace(t, n, i', drawn') /\ t[i'] = perm'
    <3> DEFINE next == [k \in Int |-> IF k = i - 1 THEN perm' ELSE tr[k]]
    <3>1. next[i'] = perm' /\ \A k \in Int : k # i - 1 => next[k] = tr[k]
      BY <1>2, <2>4
    <3> HIDE DEF next
    <3>2. next[n - 1] = [g \in 0..(n - 1) |-> g]
      BY <1>1, <1>2, <2>1, <2>4, <3>1 DEF Trace
    <3>3. ASSUME NEW k \in (i' + 1)..(n - 1)
          PROVE  next[k - 1] = Shuffle!SwapAt(next[k], k, drawn'[k])
      <4>1. k \in i..(n - 1) /\ next[k] = tr[k]  BY <1>1, <1>2, <2>4, <3>1
      <4>2. CASE k = i  BY <2>1, <2>4, <3>1, <4>1, <4>2
      <4>3. CASE k \in (i + 1)..(n - 1)
        <5>1. next[k - 1] = tr[k - 1] /\ drawn'[k] = drawn[k]
          BY <1>1, <1>2, <2>4, <3>1, <4>1, <4>3
        <5> QED BY <2>1, <4>1, <4>3, <5>1 DEF Trace
      <4> QED BY <1>1, <1>2, <4>1, <4>2, <4>3
    <3>4. Trace(next, n, i', drawn')  BY <3>2, <3>3 DEF Trace
    <3>5. DOMAIN drawn' = (i' + 1)..(n - 1)  BY <1>2, <2>4
    <3> QED BY <3>1, <3>4, <3>5
  <2> HIDE DEF n
  <2> QED BY <2>2, <2>3, <2>4, ShuffleFacts DEF n
<1>4. Replaying'
  <2> DEFINE m == Cardinality(WordEnds(placed.host))
  <2> SUFFICES ASSUME placed # Calls!Nowhere
               PROVE  \E tr : Replays(m, tr)'
    BY <1>1 DEF Replaying, Calls!Nowhere
  <2>1. PICK tr : Replays(m, tr)
    BY <1>1 DEF DrawInv, Replaying
  <2>2. call # "embed"  BY <1>1 DEF DrawInv, Drawing
  <2>3. drawn' = drawn  BY <2>2, ShuffleFacts
  <2>4. ASSUME call = "extract", n = m PROVE perm' = tr[i']
    <3>1. perm = tr[i] /\ DOMAIN drawn = 1..(n - 1) /\ Trace(tr, n, 0, drawn)
      BY <1>1, <2>1, <2>4 DEF Replays
    <3>2. CASE i' = i /\ perm' = perm  BY <3>1, <3>2
    <3>3. ASSUME i >= 1, i' = i - 1, NEW j \in Partners,
                 perm' = Shuffle!SwapAt(perm, i, j)
          PROVE  perm' = tr[i']
      <4>1. i \in 1..(n - 1)  BY <1>1, <1>2, <3>3
      <4>2. j = drawn[i]  BY <2>4, <3>1, <4>1 DEF Partners
      <4>3. tr[i - 1] = Shuffle!SwapAt(tr[i], i, drawn[i])
        BY <1>1, <3>1, <4>1 DEF Trace
      <4> QED BY <3>1, <3>3, <4>2, <4>3
    <3> QED BY <3>2, <3>3, ShuffleFacts
  <2>5. m' = m  BY <1>1
  <2>6. Replays(m, tr)'
    BY <1>1, <2>1, <2>3, <2>4, <2>5 DEF Replays, Trace
  <2> QED BY <2>6
<1> QED BY <1>3, <1>4 DEF DrawInv

LEMMA DrawStartWeave == IInv /\ DrawInv /\ StartWeave => DrawInv'
<1> SUFFICES ASSUME IInv, DrawInv, StartWeave PROVE DrawInv'  OBVIOUS
<1>1. /\ stage = "fisher_yates" /\ stage' = "weave" /\ call = "embed"
      /\ call' = call /\ gaps' = gaps /\ i' = i /\ perm' = perm
      /\ drawn' = drawn /\ placed' = placed
  BY DEF StartWeave, gapVars, permVars, history
<1> QED BY <1>1 DEF DrawInv, Drawing, Replaying, Trace, Calls!Nowhere

LEMMA DrawReturnMarked == IInv /\ DrawInv /\ ReturnMarked => DrawInv'
<1> SUFFICES ASSUME IInv, DrawInv, ReturnMarked PROVE DrawInv'  OBVIOUS
<1>1. /\ stage = "weave" /\ stage' = "returned" /\ call' = call
      /\ placed' = [host |-> text, order |-> Order] /\ drawn' = drawn
  BY DEF ReturnMarked, Calls!PlacedIn
<1>2. /\ call = "embed" /\ i = 0
      /\ Len(gaps) = Cardinality(WordEnds(text)) /\ Len(gaps) \in Nat
  BY <1>1 DEF IInv, Weaves
<1> DEFINE m == Cardinality(WordEnds(placed'.host))
<1>3. PICK tr : /\ DOMAIN drawn = 1..(Len(gaps) - 1)
                /\ Trace(tr, Len(gaps), 0, drawn) /\ tr[0] = perm
  BY <1>1, <1>2 DEF DrawInv, Drawing
<1>4. m = Len(gaps)  BY <1>1, <1>2
<1>5. placed'.order = [s \in Shards |-> tr[0][s]]  BY <1>1, <1>3 DEF Order
<1>6. Replays(Cardinality(WordEnds(placed.host)), tr)'
  BY <1>1, <1>2, <1>3, <1>4, <1>5 DEF Replays, Trace
<1>7. Drawing' /\ Replaying'
  BY <1>1, <1>2, <1>6 DEF Drawing, Replaying
<1> QED BY <1>7 DEF DrawInv

(* No other action draws, places, or touches the shuffle of a call. *)
LEMMA DrawKept ==
  ASSUME DrawInv, drawn' = drawn, placed' = placed,
         \/ /\ call' = call /\ stage' = stage
            /\ gaps' = gaps \/ stage \in {"word_gaps", "read_runs"}
            /\ i' = i /\ perm' = perm
         \/ /\ call' = call /\ stage' \in {"refused", "returned", "word_gaps"}
            /\ \/ stage = "word_gaps" /\ stage' = "refused"
               \/ call = "extract"
         \/ call' = "extract" /\ stage' = "read_runs"
  PROVE  DrawInv'
<1>1. Drawing'
  <2>1. CASE call' = "extract"  BY <2>1 DEF Drawing
  <2>2. CASE stage' = "refused" /\ call' = "embed"
    BY <2>2 DEF DrawInv, Drawing, Calls!Nowhere
  <2>3. CASE /\ call' = call /\ stage' = stage
             /\ gaps' = gaps \/ stage \in {"word_gaps", "read_runs"}
             /\ i' = i /\ perm' = perm
    BY <2>3 DEF DrawInv, Drawing, Trace, Calls!Nowhere
  <2> QED BY <2>1, <2>2, <2>3 DEF DrawInv, Drawing, Calls!Nowhere
<1>2. Replaying'
  <2> DEFINE m == Cardinality(WordEnds(placed.host))
  <2> SUFFICES ASSUME placed # Calls!Nowhere
               PROVE  \E tr : Replays(m, tr)'
    BY DEF Replaying, Calls!Nowhere
  <2>1. PICK tr : Replays(m, tr)  BY DEF DrawInv, Replaying
  <2>2. m' = m  OBVIOUS
  <2>3. Replays(m, tr)'  BY <2>1, <2>2 DEF Replays, Trace
  <2> QED BY <2>3
<1> QED BY <1>1, <1>2 DEF DrawInv

LEMMA DrawStep == IInv /\ DrawInv /\ [Next]_vars => DrawInv'
<1> SUFFICES ASSUME IInv, DrawInv, [Next]_vars PROVE DrawInv'  OBVIOUS
<1>1. CASE WordGapsStep
  BY <1>1, DrawKept DEF WordGapsStep, history, permVars
<1>2. CASE Refuse  BY <1>2, DrawKept DEF Refuse, history
<1>3. CASE WeaveStep
  BY <1>3, DrawKept DEF WeaveStep, history, gapVars, permVars
<1>4. CASE Deliver  BY <1>4, DrawKept DEF Deliver, history
<1>5. CASE ReadRunsStep
  BY <1>5, DrawKept DEF ReadRunsStep, history, gapVars, permVars
<1>6. CASE StartCleanGaps
  <2>1. call = "extract"  BY <1>6 DEF StartCleanGaps, IInv, Reads
  <2> QED BY <1>6, <2>1, DrawKept DEF StartCleanGaps, history
<1>7. CASE ReturnRead  BY <1>7, DrawKept DEF ReturnRead, history
<1>8. CASE UNCHANGED vars
  BY <1>8, DrawKept DEF vars, history, gapVars, permVars
<1> QED BY <1>1, <1>2, <1>3, <1>4, <1>5, <1>6, <1>7, <1>8,
           DrawStartShuffle, DrawShuffle, DrawStartWeave, DrawReturnMarked
           DEF Next, Step

-----------------------------------------------------------------------------
(* The loops implement the calls. *)

LEMMA CallsWords ==
  /\ \A t : Calls!GapCount(t) = Cardinality(WordEnds(t))
  /\ \A t : Calls!Strip(t) = Strip(t)
  /\ \A n : Calls!Orders(n) = Orders(n)
  /\ Calls!Run = Run /\ Calls!Shards = Shards
  /\ \A t, ord, run :
       Calls!SortedInsertions(t, ord, run) = SortedInsertions(t, ord, run)
  /\ \A t, ins : Calls!Woven(t, ins) = Woven(t, ins)
  /\ \A t, r, n : Calls!Filed(t, r, n) = Filed(t, r, n)
  /\ \A t, P : Calls!At(t, P) = At(t, P)
<1>1. \A t : Calls!WordEnds(t) = WordEnds(t)
  BY DEF Calls!WordEnds, WordEnds, Calls!IsSep, IsSep, Calls!IsSpace,
         IsSpace, Calls!IsZeroWidth, IsZeroWidth
<1>2. \A S : Calls!Cardinality(S) = Cardinality(S)
  BY DEF Calls!Cardinality, Cardinality
<1>3. \A n : Calls!Orders(n) = Orders(n)
  BY DEF Calls!Orders, Orders, Calls!IsInjective, IsInjective,
         Calls!Shards, Shards
<1>4. Calls!Run = Run /\ Calls!Shards = Shards
  BY DEF Calls!Run, Run, Calls!Shards, Shards
<1>5. \A t, e : Calls!GapRank(t, e) = GapRank(t, e)
  BY <1>1, <1>2 DEF Calls!GapRank, GapRank
<1>6. \A t, ord, run : Calls!Insertions(t, ord, run) = Insertions(t, ord, run)
  BY <1>1, <1>4, <1>5 DEF Calls!Insertions, Insertions, Calls!Range, Range
<1>7. \A t, ord, run :
        Calls!SortedInsertions(t, ord, run) = SortedInsertions(t, ord, run)
  BY <1>6 DEF Calls!SortedInsertions, SortedInsertions
<1>8. \A ins, j : Calls!RunStart(ins, j) = RunStart(ins, j)
  BY DEF Calls!RunStart, RunStart
<1>9. \A ins, p : Calls!Begun(ins, p) = Begun(ins, p)
  BY <1>2, <1>8 DEF Calls!Begun, Begun
<1>10. \A t, ins : Calls!Woven(t, ins) = Woven(t, ins)
  BY <1>8, <1>9 DEF Calls!Woven, Woven
<1>11. \A t, j : Calls!BetweenWords(t, j) <=> BetweenWords(t, j)
  BY DEF Calls!BetweenWords, BetweenWords, Calls!IsSymbol, IsSymbol,
         Calls!IsSpace, IsSpace
<1>12. \A t, j : Calls!OpensWord(t, j) <=> OpensWord(t, j)
  BY <1>11 DEF Calls!OpensWord, OpensWord, Calls!IsSymbol, IsSymbol,
               Calls!IsSpace, IsSpace
<1>13. \A t, j : Calls!RankBefore(t, j) = RankBefore(t, j)
  BY <1>2, <1>12 DEF Calls!RankBefore, RankBefore
<1>14. \A t, r, n : Calls!Filed(t, r, n) = Filed(t, r, n)
  BY <1>13 DEF Calls!Filed, Filed, Calls!IsSymbol, IsSymbol
<1>15. \A P, k : Calls!Nth(P, k) = Nth(P, k)
  BY <1>2 DEF Calls!Nth, Nth
<1>16. \A t, P : Calls!At(t, P) = At(t, P)
  BY <1>2, <1>15 DEF Calls!At, At
<1>17. \A t : Calls!Strip(t) = Strip(t)
  BY <1>16 DEF Calls!Strip, Strip, Calls!IsZeroWidth, IsZeroWidth
<1>18. \A t : Calls!GapCount(t) = Cardinality(WordEnds(t))
  BY <1>1, <1>2 DEF Calls!GapCount
<1> QED BY <1>3, <1>4, <1>7, <1>10, <1>14, <1>16, <1>17, <1>18

(* The run that the map has under a rank is what the text has there. *)
LEMMA RunReadOff ==
  ASSUME text \in AnyText, NEW r \in Nat,
         DOMAIN runs = RunRanks(text),
         \A q \in DOMAIN runs : /\ runs[q] \in Seq(AnyChar)
                                /\ RunIs(text, q, runs[q])
  PROVE  At(text, Filed(text, r, Len(text)))
           = IF r \in DOMAIN runs THEN runs[r] ELSE << >>
<1> DEFINE P == Filed(text, r, Len(text))
<1>0. Len(text) \in Nat  BY DEF AnyText
<1>1. CASE r \in DOMAIN runs
  <2> DEFINE m == Len(runs[r])
  <2>1. m \in Nat /\ runs[r] = [k \in 1..m |-> runs[r][k]]
    BY <1>1
  <2>2. PICK f \in [1..m -> P] :
          Listing(f, P) /\ \A k \in 1..m : runs[r][k] = text[f[k]]
    BY <1>1 DEF RunIs, RunSoFar
  <2>3. P \in SUBSET Nat  BY <1>0 DEF Filed
  <2>4. DOMAIN f = 1..m /\ \A k \in 1..m : f[k] \in P  BY <2>2
  <2> HIDE DEF P, m
  <2>5. Enumerates(f, m, P)
    BY <2>2, <2>4 DEF Listing, Enumerates, Rising
  <2>6. Cardinality(P) = m /\ \A k \in 1..m : Nth(P, k) = f[k]
    BY <2>1, <2>3, <2>5, Enumeration
  <2>7. At(text, P) = [k \in 1..m |-> runs[r][k]]
    BY <2>2, <2>6 DEF At
  <2> QED BY <1>1, <2>1, <2>7 DEF P
<1>2. CASE r \notin DOMAIN runs
  <2>1. P = {}
    <3>1. CASE r <= Len(text)
      BY <1>0, <1>2, <3>1 DEF RunRanks, RanksFiled
    <3>2. CASE r > Len(text)
      <4>1. ASSUME NEW j \in 1..Len(text) PROVE RankBefore(text, j) <= j
        <5> DEFINE N == 1..(j - 1)
                   W == {k \in N : OpensWord(text, k)}
        <5>1. 1 \in Int /\ j - 1 \in Int /\ j >= 1  BY <1>0
        <5>2. /\ IsFiniteSet(N)
              /\ Cardinality(N) = IF 1 <= j - 1 THEN (j - 1) - 1 + 1 ELSE 0
          BY <5>1, FS_Interval
        <5>3. W \in SUBSET N  OBVIOUS
        <5>4. Cardinality(W) <= Cardinality(N)
          <6> HIDE DEF N, W
          <6> QED BY <5>2, <5>3, FS_Subset
        <5>5. Cardinality(W) \in Nat
          <6>1. IsFiniteSet(W)
            <7> HIDE DEF N, W
            <7> QED BY <5>2, <5>3, FS_Subset
          <6> QED BY <6>1, FS_CardinalityType
        <5> HIDE DEF N, W
        <5>6. Cardinality(W) <= j  BY <5>1, <5>2, <5>4, <5>5
        <5> QED BY <5>6 DEF RankBefore, W, N
      <4>2. ASSUME NEW j \in P PROVE FALSE
        <5>1. j \in 1..Len(text) /\ RankBefore(text, j) = r + 1  BY DEF Filed
        <5> QED BY <1>0, <3>2, <4>1, <5>1
      <4> QED BY <4>2
    <3> QED BY <1>0, <3>1, <3>2
  <2>2. Cardinality(P) = 0  BY <2>1, FS_EmptySet
  <2>3. At(text, P) = << >>  BY <2>2 DEF At
  <2> QED BY <1>2, <2>3
<1> QED BY <1>1, <1>2

LEMMA OutcomeIs ==
  /\ stage = "refused" => Outcome = [status |-> "ContentTooShort"]
  /\ stage = "returned" /\ call = "embed" =>
       Outcome = [status |-> "marked", out |-> out]
  /\ stage = "returned" /\ call = "extract" =>
       Outcome = [status |-> "read", shards |-> shards]
  /\ stage \notin {"refused", "returned"} =>
       Outcome = [status |-> "running"]
BY DEF Outcome

LEMMA OutcomeNext ==
  /\ stage' = "refused" => Outcome' = [status |-> "ContentTooShort"]
  /\ stage' = "returned" /\ call' = "embed" =>
       Outcome' = [status |-> "marked", out |-> out']
  /\ stage' = "returned" /\ call' = "extract" =>
       Outcome' = [status |-> "read", shards |-> shards']
  /\ stage' \notin {"refused", "returned"} =>
       Outcome' = [status |-> "running"]
BY DEF Outcome

LEMMA CallsInit == Init => Calls!Init
BY OutcomeIs DEF Init, Calls!Init, Calls!Nowhere, Calls!Running

(* Within a call the caller sees nothing. *)
LEMMA Unseen ==
  ASSUME stage \notin {"refused", "returned"},
         stage' \notin {"refused", "returned"},
         call' = call, text' = text, placed' = placed
  PROVE  UNCHANGED Calls!vars
BY OutcomeIs, OutcomeNext DEF Calls!vars

LEMMA RefuseIsTooShort == IInv /\ Refuse => Calls!TooShort
<1> SUFFICES ASSUME IInv, Refuse PROVE Calls!TooShort  OBVIOUS
<1>1. /\ stage = "word_gaps" /\ pc = "done" /\ Len(gaps) < TOTAL_SHARDS
      /\ stage' = "refused" /\ call' = call /\ text' = text
      /\ placed' = placed
  BY DEF Refuse, history
<1>2. Len(gaps) = Cardinality(WordEnds(Subject))
  BY <1>1, ScanDone, GapFacts
<1>3. Calls!GapCount(IF call = "embed" THEN text ELSE Calls!Strip(text))
        < TOTAL_SHARDS
  BY <1>1, <1>2, CallsWords DEF Subject
<1> QED BY <1>1, <1>3, OutcomeIs, OutcomeNext
        DEF Calls!TooShort, Calls!Running, Calls!ContentTooShort

LEMMA ReturnMarkedIsEmbed == IInv /\ DrawInv /\ ReturnMarked => Calls!Embed
<1> SUFFICES ASSUME IInv, DrawInv, ReturnMarked PROVE Calls!Embed  OBVIOUS
<1>1. /\ stage = "weave" /\ pc = "done" /\ stage' = "returned"
      /\ call' = call /\ text' = text /\ out' = out
      /\ placed' = Calls!PlacedIn(text, Order)
  BY DEF ReturnMarked, weaveVars
<1>2. /\ call = "embed" /\ WeaveInv
      /\ Len(gaps) = Cardinality(WordEnds(text)) /\ Len(gaps) \in Nat
      /\ Len(gaps) >= TOTAL_SHARDS /\ placed = Calls!Nowhere
  BY <1>1 DEF IInv, Weaves, DrawInv, Drawing
<1>3. WeaveHere  BY <1>2, WeaveSame
<1>4. /\ Order \in Orders(Cardinality(WordEnds(text)))
      /\ insertions \in SortedInsertions(text, Order, Run)
  BY <1>3 DEF WeaveHere, WeaveTyped
<1>5. /\ Order \in Calls!Draws(Calls!GapCount(text))
      /\ insertions \in Calls!SortedInsertions(text, Order, Calls!Run)
  BY <1>2, <1>4, CallsWords DEF Calls!Draws
<1>6. out = Calls!Woven(text, insertions)
  <2>1. WeaveIn!ReturnsWoven  BY <1>3, OutIsWoven
  <2> QED BY <1>1, <2>1, WeaveWords, CallsWords DEF WeaveIn!ReturnsWoven
<1>7. Calls!GapCount(text) >= TOTAL_SHARDS  BY <1>2, CallsWords
<1>8. Outcome = [status |-> "running"]  BY <1>1, OutcomeIs
<1>9. Outcome' = [status |-> "marked", out |-> out]
  BY <1>1, <1>2, OutcomeNext
<1> QED BY <1>1, <1>2, <1>5, <1>6, <1>7, <1>8, <1>9
        DEF Calls!Embed, Calls!Running, Calls!Marked

LEMMA DeliverIsDeliver == IInv /\ Deliver => Calls!Deliver
<1> SUFFICES ASSUME IInv, Deliver PROVE Calls!Deliver  OBVIOUS
<1>1. /\ Outcome = [status |-> "marked", out |-> out]
      /\ Outcome' = [status |-> "running"]
  BY OutcomeIs, OutcomeNext DEF Deliver
<1>2. Outcome.status = "marked" /\ Outcome.out = out  BY <1>1
<1>3. \A s, k : Calls!RemoveAt(s, k) = RemoveAt(s, k)
  BY DEF Calls!RemoveAt, RemoveAt
<1>4. \A c : Calls!IsZeroWidth(c) <=> IsZeroWidth(c)
  BY DEF Calls!IsZeroWidth, IsZeroWidth
<1> QED BY <1>1, <1>2, <1>3, <1>4
        DEF Deliver, history, Calls!Deliver, Calls!Running

LEMMA ReturnReadIsExtract == IInv /\ DrawInv /\ ReturnRead => Calls!Extract
<1> SUFFICES ASSUME IInv, DrawInv, ReturnRead PROVE Calls!Extract  OBVIOUS
<1>1. /\ stage = "fisher_yates" /\ pc = "done" /\ call = "extract"
      /\ stage' = "returned" /\ shards' = [s \in Shards |-> RunOfShard(s)]
      /\ call' = call /\ text' = text /\ placed' = placed
  BY DEF ReturnRead, history
<1>2. /\ Order \in Orders(Len(gaps)) /\ Len(gaps) \in Nat
      /\ Len(gaps) = Cardinality(WordEnds(Strip(text)))
      /\ Len(gaps) >= TOTAL_SHARDS /\ i = 0
  BY <1>1, OrderOK DEF Subject, IInv, Shuffles
<1>3. Order \in Calls!Draws(Calls!GapCount(Calls!Strip(text)))
  <2>1. SUFFICES ASSUME placed # Calls!Nowhere,
                        Cardinality(WordEnds(placed.host)) = Len(gaps)
                 PROVE  Order = placed.order
    BY <1>2, CallsWords DEF Calls!Draws
  <2>2. PICK tr : Replays(Len(gaps), tr)
    BY <2>1 DEF DrawInv, Replaying
  <2> QED BY <1>1, <1>2, <2>2 DEF Replays, Order
<1>4. ASSUME NEW s \in Shards
      PROVE  RunOfShard(s) = Calls!ShardAt(text, Order[s])
  <2> DEFINE r == perm[s]
  <2>1. Order[s] = r /\ r \in Nat
    <3>1. Order[s] = r  BY DEF Order
    <3>2. Order[s] \in 0..(Len(gaps) - 1)  BY <1>2 DEF Orders
    <3> QED BY <1>2, <3>1, <3>2
  <2> HIDE DEF r
  <2>2. At(text, Filed(text, r, Len(text)))
          = IF r \in DOMAIN runs THEN runs[r] ELSE << >>
    BY <1>1, <2>1, RunReadOff DEF IInv, Arguments, HasRead
  <2>3. Len(<< >>) # SYMBOLS_PER_SHARD  BY ShardArithmetic
  <2>4. Calls!ShardAt(text, r)
          = IF r \in DOMAIN runs /\ Len(runs[r]) = SYMBOLS_PER_SHARD
              THEN runs[r] ELSE << >>
    BY <2>2, <2>3, CallsWords DEF Calls!ShardAt, Calls!Erased
  <2> QED BY <2>1, <2>4 DEF RunOfShard, Calls!Erased, r
<1>5. shards' = [s \in Calls!Shards |-> Calls!ShardAt(text, Order[s])]
  BY <1>1, <1>4, CallsWords
<1>6. /\ Outcome = [status |-> "running"]
      /\ Outcome' = [status |-> "read", shards |-> shards']
  BY <1>1, OutcomeIs, OutcomeNext
<1>7. Calls!GapCount(Calls!Strip(text)) >= TOTAL_SHARDS
  BY <1>2, CallsWords
<1> QED BY <1>1, <1>3, <1>5, <1>6, <1>7
        DEF Calls!Extract, Calls!Running, Calls!ReadAs

LEMMA CallsStep == IInv /\ DrawInv /\ [Next]_vars => [Calls!Next]_(Calls!vars)
<1> SUFFICES ASSUME IInv, DrawInv, [Next]_vars
             PROVE  Calls!Next \/ UNCHANGED Calls!vars
  OBVIOUS
<1>1. CASE WordGapsStep  BY <1>1, Unseen DEF WordGapsStep, history
<1>2. CASE StartShuffle  BY <1>2, Unseen DEF StartShuffle, history
<1>3. CASE ShuffleStep  BY <1>3, Unseen DEF ShuffleStep
<1>4. CASE StartWeave  BY <1>4, Unseen DEF StartWeave, history
<1>5. CASE WeaveStep
  <2>1. text' = text
    BY <1>5 DEF WeaveStep, WeaveIn!Next, WeaveIn!Insert, WeaveIn!CopyChar,
                WeaveIn!LeaveLoop, WeaveIn!AppendLeftover,
                WeaveIn!Return, WeaveIn!TakeRun
  <2> QED BY <1>5, <2>1, Unseen DEF WeaveStep, history
<1>6. CASE ReadRunsStep
  <2>1. text' = text
    BY <1>6 DEF ReadRunsStep, ReadOff!Next, ReadOff!Symbol,
                ReadOff!Whitespace, ReadOff!BeginWord,
                ReadOff!ContinueWord, ReadOff!Return
  <2> QED BY <1>6, <2>1, Unseen DEF ReadRunsStep, history
<1>7. CASE StartCleanGaps  BY <1>7, Unseen DEF StartCleanGaps, history
<1>8. CASE UNCHANGED vars
  BY <1>8 DEF vars, history, weaveVars, Calls!vars, Outcome
<1> QED BY <1>1, <1>2, <1>3, <1>4, <1>5, <1>6, <1>7, <1>8,
           RefuseIsTooShort, ReturnMarkedIsEmbed, DeliverIsDeliver,
           ReturnReadIsExtract DEF Next, Step, Calls!Next

(* Every run of the loops is a run of StegoCalls: on every text, for every *)
(* number and size of shards and whatever is drawn, what the caller of     *)
(* embed and extract is given is what it is promised.                      *)
THEOREM LoopsImplementCalls == Spec => ImplementsCalls
BY InitInv, StepInv, DrawInit, DrawStep, CallsInit, CallsStep, PTL
   DEF Spec, ImplementsCalls, Calls!Spec

-----------------------------------------------------------------------------
(* What embed wove in is what extract finds. *)

(* The caller's view of a marked text: it is the host with the runs woven  *)
(* in, extract is called on that or on less of it, and what extract finds  *)
(* it finds by an order it may draw.                                       *)
Sent ==
  placed # Calls!Nowhere =>
    /\ placed.host \in Texts
    /\ placed.order \in Orders(Calls!GapCount(placed.host))
    /\ \E ins \in SortedInsertions(placed.host, placed.order, Run) :
         LET w == Woven(placed.host, ins)
         IN  IF call = "embed" THEN Outcome = Calls!Marked(w)
                               ELSE ShortOf(text, w)
ReadBy ==
  Outcome.status = "read" =>
    \E ord \in Calls!Draws(Calls!GapCount(Strip(text))) :
      Outcome = Calls!ReadAs([s \in Shards |-> Calls!ShardAt(text, ord[s])])

CallsInv ==
  /\ call \in {"embed", "extract"}
  /\ call = "embed" => text \in Texts
  /\ Outcome.status = "marked" => call = "embed"
  /\ Outcome.status = "read" => call = "extract"
  /\ Sent /\ ReadBy

LEMMA CallsInvInit == Calls!Init => CallsInv
BY DEF Calls!Init, CallsInv, Calls!Running, Sent, ReadBy

(* What is delivered is the marked text or less of it. *)
LEMMA DeliverShort ==
  ASSUME NEW S, NEW w \in Seq(S),
         \/ text' = w
         \/ \E k \in {j \in 1..Len(w) : IsZeroWidth(w[j])} :
              text' = RemoveAt(w, k)
  PROVE  ShortOf(text', w)
BY ShortOfSelf, ShortByOne

LEMMA CallsInvStep == CallsInv /\ [Calls!Next]_(Calls!vars) => CallsInv'
<1> SUFFICES ASSUME CallsInv, [Calls!Next]_(Calls!vars) PROVE CallsInv'
  OBVIOUS
<1> USE DEF CallsInv
<1>1. CASE UNCHANGED Calls!vars
  BY <1>1 DEF Calls!vars, Sent, ReadBy, Calls!Nowhere, Calls!Marked,
              Calls!ReadAs, Calls!Draws, Calls!GapCount, Calls!ShardAt
<1>2. CASE Calls!TooShort
  BY <1>2 DEF Calls!TooShort, Calls!Running, Calls!ContentTooShort, Sent,
              ReadBy, Calls!Marked, Calls!Nowhere
<1>3. CASE Calls!Embed
  <2>1. PICK ord \in Calls!Draws(Calls!GapCount(text)) :
          \E ins \in Calls!SortedInsertions(text, ord, Calls!Run) :
            /\ Outcome' = Calls!Marked(Calls!Woven(text, ins))
            /\ placed' = Calls!PlacedIn(text, ord)
    BY <1>3 DEF Calls!Embed
  <2>2. PICK ins \in SortedInsertions(text, ord, Run) :
            /\ Outcome' = Calls!Marked(Woven(text, ins))
            /\ placed' = Calls!PlacedIn(text, ord)
    BY <2>1, CallsWords
  <2>3. ord \in Orders(Calls!GapCount(text))
    BY CallsWords DEF Calls!Draws
  <2>4. call = "embed" /\ call' = call /\ text' = text /\ text \in Texts
    BY <1>3 DEF Calls!Embed
  <2>5. Outcome'.status = "marked"  BY <2>2 DEF Calls!Marked
  <2>6. placed'.host = text /\ placed'.order = ord
    BY <2>2 DEF Calls!PlacedIn
  <2>7. Calls!GapCount(placed'.host) = Calls!GapCount(text)  BY <2>6
  <2>8. Sent'
    BY <2>2, <2>3, <2>4, <2>6 DEF Sent, Calls!Marked, Calls!GapCount
  <2> QED BY <2>4, <2>5, <2>8 DEF ReadBy
<1>4. CASE Calls!Deliver
  <2>1. /\ call = "embed" /\ call' = "extract" /\ placed' = placed
        /\ Outcome' = Calls!Running /\ Outcome.status = "marked"
    BY <1>4 DEF Calls!Deliver
  <2>2. ASSUME placed # Calls!Nowhere
        PROVE  /\ placed.host \in Texts
               /\ placed.order \in Orders(Calls!GapCount(placed.host))
               /\ \E ins \in SortedInsertions(placed.host, placed.order, Run) :
                    ShortOf(text', Woven(placed.host, ins))
    <3>1. PICK ins \in SortedInsertions(placed.host, placed.order, Run) :
            Outcome = Calls!Marked(Woven(placed.host, ins))
      BY <2>1, <2>2 DEF Sent
    <3> DEFINE w == Woven(placed.host, ins)
    <3>2. Outcome.out = w  BY <3>1 DEF Calls!Marked
    <3>3. placed.host \in Seq(AnyChar)
      BY <2>2, TextsAreTexts DEF Sent, AnyText
    <3>4. w \in Seq(AnyChar)
      <4>1. \A r \in Range(Run) : \A k \in 1..SYMBOLS_PER_SHARD :
              r[k] \in AnyChar
        BY RunsAreRuns, AreSymbols DEF AnyChar
      <4> QED BY <3>3, <4>1, WovenType
    <3>5. \/ text' = w
          \/ \E k \in {j \in 1..Len(w) : IsZeroWidth(w[j])} :
               text' = RemoveAt(w, k)
      <4>1. \A s, k : Calls!RemoveAt(s, k) = RemoveAt(s, k)
        BY DEF Calls!RemoveAt, RemoveAt
      <4>2. \A c : Calls!IsZeroWidth(c) <=> IsZeroWidth(c)
        BY DEF Calls!IsZeroWidth, IsZeroWidth
      <4> QED BY <1>4, <3>2, <4>1, <4>2 DEF Calls!Deliver
    <3>6. ShortOf(text', w)
      <4> HIDE DEF w
      <4> QED BY <3>4, <3>5, DeliverShort
    <3> QED BY <2>2, <3>6 DEF Sent
  <2>3. Sent'
    BY <2>1, <2>2 DEF Sent, Calls!Nowhere, Calls!GapCount, ShortOf
  <2> QED BY <2>1, <2>3 DEF ReadBy, Calls!Running
<1>5. CASE Calls!Extract
  <2>1. /\ call = "extract" /\ call' = call /\ text' = text
        /\ placed' = placed
    BY <1>5 DEF Calls!Extract
  <2>2. PICK ord \in Calls!Draws(Calls!GapCount(Calls!Strip(text))) :
          Outcome'
            = Calls!ReadAs([s \in Calls!Shards |->
                              Calls!ShardAt(text, ord[s])])
    BY <1>5 DEF Calls!Extract
  <2>3. /\ ord \in Calls!Draws(Calls!GapCount(Strip(text)))
        /\ Outcome' = Calls!ReadAs([s \in Shards |->
                                      Calls!ShardAt(text, ord[s])])
    BY <2>2, CallsWords
  <2>4. ReadBy'
    BY <2>1, <2>3 DEF ReadBy, Calls!ReadAs, Calls!Draws, Calls!GapCount,
                      Calls!ShardAt, Calls!Nowhere
  <2>5. Outcome'.status = "read"  BY <2>3 DEF Calls!ReadAs
  <2>6. Sent'
    BY <2>1 DEF Sent, Calls!Nowhere, Calls!GapCount, ShortOf
  <2> QED BY <2>1, <2>4, <2>5, <2>6
<1> QED BY <1>1, <1>2, <1>3, <1>4, <1>5 DEF Calls!Next

(* For every text without zero-width characters, every number and size of  *)
(* shards and whatever is drawn: extract finds under each shard the run    *)
(* that embed wove in for it, a lost symbol costs one shard at most, and   *)
(* that one is an erasure.                                                 *)
THEOREM RunsFound == Spec => []EveryRunReadBack
<1>1. CallsInv => EveryRunReadBack
  <2>1. SUFFICES ASSUME CallsInv, stage = "returned", call = "extract",
                        placed # Calls!Nowhere, NoZeroWidth(placed.host),
                        NEW hit, hit = {s \in Shards : shards[s] # Run[s]}
                 PROVE  /\ Cardinality(hit)
                             <= Len(placed.host)
                                  + TOTAL_SHARDS * SYMBOLS_PER_SHARD
                                  - Len(text)
                        /\ \A s \in hit : shards[s] = Calls!Erased
    BY DEF EveryRunReadBack
  <2> DEFINE t == placed.host
             n == Calls!GapCount(t)
  <2>2. /\ t \in Texts /\ placed.order \in Orders(n)
        /\ \E ins \in SortedInsertions(t, placed.order, Run) :
             ShortOf(text, Woven(t, ins))
    BY <2>1 DEF CallsInv, Sent
  <2>3. PICK ins \in SortedInsertions(t, placed.order, Run) :
          ShortOf(text, Woven(t, ins))
    BY <2>2
  <2> DEFINE w == Woven(t, ins)
  <2>5. t \in Seq(AnyChar)  BY <2>2, TextsAreTexts DEF AnyText
  <2>6. Strip(text) = t
    <3>1. Strip(w) = Strip(text)  BY <2>3, StripShort
    <3>2. Embeds(HostAt(t, ins), t, w)  BY <2>5, WovenParts
    <3>3. ~SplitsWord(t) /\ ~HasGhostWord(t)  BY <2>1, <2>5, CleanText
    <3>4. \A p \in Missing(HostAt(t, ins), t, w) : IsZeroWidth(w[p])
      BY <2>5, <3>3, RunsAreRuns, AreSymbols, WovenFiled, CharKinds
    <3>5. Strip(w) = Strip(t)  BY <3>2, <3>4, StripEmbeds
    <3> QED BY <2>1, <2>5, <3>1, <3>5, StripSame
  <2>7. \A s \in Shards : shards[s] = Calls!ShardAt(text, placed.order[s])
    <3>1. Outcome = [status |-> "read", shards |-> shards]
      BY <2>1, OutcomeIs
    <3>2. PICK ord \in Calls!Draws(Calls!GapCount(Strip(text))) :
            Outcome = Calls!ReadAs([s \in Shards |->
                                      Calls!ShardAt(text, ord[s])])
      BY <2>1, <3>1 DEF CallsInv, ReadBy
    <3>3. ord = placed.order  BY <2>1, <2>6 DEF Calls!Draws
    <3> QED BY <3>1, <3>2, <3>3 DEF Calls!ReadAs
  <2> DEFINE read == [s \in Shards |->
                        At(text, Filed(text, placed.order[s], Len(text)))]
             miss == {s \in Shards : read[s] # Run[s]}
  <2>8. /\ IsFiniteSet(miss) /\ Cardinality(miss) <= Len(w) - Len(text)
        /\ \A s \in miss : Len(read[s]) # SYMBOLS_PER_SHARD
    <3> DEFINE o == placed.order
    <3> HIDE DEF t, n, w, o, read, miss
    <3>1. /\ t \in Seq(AnyChar) /\ NoZeroWidth(t) /\ w = Woven(t, ins)
          /\ o \in Orders(n) /\ ins \in SortedInsertions(t, o, Run)
          /\ ShortOf(text, w)
      BY <2>1, <2>2, <2>3, <2>5 DEF t, w, o
    <3>2. FoundIn(read, text, o) /\ Differ(miss, read, Run)
      BY DEF read, miss, o, FoundIn, Differ
    <3> QED BY <3>1, <3>2, RunsAreRuns, RunsRead
  <2>9. \A s \in Shards :
          shards[s] = IF Len(read[s]) = SYMBOLS_PER_SHARD THEN read[s]
                                                          ELSE << >>
    BY <2>7, CallsWords DEF Calls!ShardAt, Calls!Erased
  <2>10. hit = miss
    <3>1. Len(<< >>) # SYMBOLS_PER_SHARD  BY ShardArithmetic
    <3> HIDE DEF read
    <3> QED BY <2>1, <2>8, <2>9, <3>1, RunsAreRuns DEF SymbolRuns
  <2>11. Len(w) = Len(t) + TOTAL_SHARDS * SYMBOLS_PER_SHARD
    BY <2>5, WovenParts
  <2>12. \A s \in hit : shards[s] = Calls!Erased
    <3> HIDE DEF read
    <3> QED BY <2>8, <2>9, <2>10 DEF Calls!Erased
  <2> HIDE DEF t, w, miss
  <2>13. Cardinality(hit)
           <= (Len(t) + TOTAL_SHARDS * SYMBOLS_PER_SHARD) - Len(text)
    BY <2>8, <2>10, <2>11
  <2>14. Cardinality(hit)
           <= Len(placed.host) + TOTAL_SHARDS * SYMBOLS_PER_SHARD - Len(text)
    <3>1. Len(t) \in Int /\ Len(text) \in Int
      BY <2>3, <2>5 DEF ShortOf, Embeds
    <3>2. TOTAL_SHARDS * SYMBOLS_PER_SHARD \in Int  BY ShardArithmetic
    <3> QED BY <2>13, <3>1, <3>2 DEF t
  <2> QED BY <2>12, <2>14
<1>2. Init => IInv /\ DrawInv /\ CallsInv
  BY InitInv, DrawInit, CallsInit, CallsInvInit
<1>3. IInv /\ DrawInv /\ CallsInv /\ [Next]_vars
        => (IInv /\ DrawInv /\ CallsInv)'
  BY StepInv, DrawStep, CallsStep, CallsInvStep
<1> QED BY <1>1, <1>2, <1>3, PTL DEF Spec
=============================================================================
