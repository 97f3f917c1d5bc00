--------------------------- MODULE FingerprintProofs ---------------------------
(***************************************************************************)
(* For every length of the stream and every window and step (the step at   *)
(* most a window): no excerpt of WINDOW_CHARS - WINDOW_STEP + 1 characters *)
(* falls between two windows, and no window is a stub.                     *)
(*                                                                         *)
(* While the loop runs, what begins before `start` is covered (LoopInv).   *)
(* A full window [start, start + WINDOW_CHARS) takes in the excerpts that  *)
(* begin within the next step; the last window takes in all that is left,  *)
(* which is more than the overlap as the window before it did not reach    *)
(* the end.                                                                *)
(*                                                                         *)
(* And for every text, gram and digest: in whatever order the map of the   *)
(* grams is iterated, a hash is the majority vote of the grams of its own  *)
(* characters.  The counters are the votes of the grams added so far,      *)
(* position by position (Tally).                                           *)
(***************************************************************************)
EXTENDS Fingerprint, FiniteSetTheorems, TLAPS

IInv == TypeOK /\ LoopInv /\ NoStubs /\ EveryExcerptCovered

(* What a step that appends one window leaves of the earlier ones: their   *)
(* places, so an excerpt that was covered stays covered.                   *)
LEMMA CoveredStays ==
  ASSUME TypeOK, NEW w \in Window, windows' = Append(windows, w)
  PROVE  /\ windows' \in Seq(Window)
         /\ Len(windows') = Len(windows) + 1
         /\ windows'[Len(windows) + 1] = w
         /\ \A k \in 1..Len(windows) : windows'[k] = windows[k]
         /\ \A a, b : Covered(a, b) => Covered(a, b)'
<1> USE DEF TypeOK
<1>1. /\ windows' \in Seq(Window)
      /\ Len(windows') = Len(windows) + 1
      /\ windows'[Len(windows) + 1] = w
  OBVIOUS
<1>2. \A k \in 1..Len(windows) : windows'[k] = windows[k]
  OBVIOUS
<1>3. Len(windows) \in Nat
  OBVIOUS
<1>4. \A k \in 1..Len(windows) : k \in 1..Len(windows')
  BY <1>1, <1>3
<1>5. ASSUME NEW a, NEW b, Covered(a, b)
      PROVE  Covered(a, b)'
  <2>1. PICK k \in 1..Len(windows) : Holds(windows[k], a, b)
    BY <1>5 DEF Covered
  <2>2. Holds(windows'[k], a, b)
    BY <2>1, <1>2
  <2> QED
    BY <2>1, <2>2, <1>4 DEF Covered, Holds
<1> QED
  BY <1>1, <1>2, <1>5

(* The new window covers what lies between its two ends.                   *)
LEMMA CoveredByNew ==
  ASSUME TypeOK, NEW w \in Window, windows' = Append(windows, w),
         NEW a, NEW b, w.start <= a, b <= w.start + w.len
  PROVE  Covered(a, b)'
<1>1. /\ Len(windows') = Len(windows) + 1
      /\ windows'[Len(windows) + 1] = w
  BY CoveredStays
<1>2. Len(windows) \in Nat
  BY DEF TypeOK
<1>3. Len(windows) + 1 \in 1..Len(windows')
  BY <1>1, <1>2
<1> QED
  BY <1>1, <1>3 DEF Covered, Holds

LEMMA InitHolds == Init => IInv
<1> SUFFICES ASSUME Init PROVE IInv
  OBVIOUS
<1>1. TypeOK
  BY DEF Init, TypeOK
<1>2. Len(windows) = 0
  BY DEF Init
<1>3. LoopInv
  BY DEF Init, LoopInv
<1>4. NoStubs
  BY <1>2 DEF NoStubs
<1>5. EveryExcerptCovered
  BY DEF Init, EveryExcerptCovered
<1> QED
  BY <1>1, <1>3, <1>4, <1>5 DEF IInv

LEMMA WholeKeeps == IInv /\ Whole => IInv'
<1> SUFFICES ASSUME IInv, Whole PROVE IInv'
  OBVIOUS
<1>0. /\ n \in Nat /\ WINDOW_CHARS \in Nat /\ WINDOW_STEP \in Nat
      /\ 0 < WINDOW_STEP /\ WINDOW_STEP <= WINDOW_CHARS
  BY StepAssumption, LengthsAssumption DEF IInv, TypeOK
<1>1. start = 0 /\ windows = << >> /\ start' = 0 /\ windows' = << >> /\ n' = n
  BY DEF IInv, LoopInv, Whole
<1>2. Len(windows') = 0
  BY <1>1
<1>3. TypeOK'
  BY DEF IInv, TypeOK, Whole
<1>4. LoopInv'
  <2>1. pc' = "tile" => WINDOW_CHARS < n'
    BY <1>1 DEF Whole
  <2>2. pc' # "whole"
    BY DEF Whole
  <2>3. WINDOW_CHARS < n' => start' + WINDOW_CHARS - WINDOW_STEP < n'
    BY <1>0, <1>1
  <2>4. \A a \in 0..(start' - 1) : FALSE
    BY <1>1
  <2> QED
    BY <1>2, <2>1, <2>2, <2>3, <2>4 DEF LoopInv
<1>5. NoStubs'
  BY <1>2 DEF NoStubs
<1>6. EveryExcerptCovered'
  BY <1>0, <1>1 DEF Whole, EveryExcerptCovered
<1> QED
  BY <1>3, <1>4, <1>5, <1>6 DEF IInv

LEMMA NextWindowKeeps == IInv /\ NextWindow => IInv'
<1> SUFFICES ASSUME IInv, NextWindow PROVE IInv'
  OBVIOUS
<1>0. /\ n \in Nat /\ WINDOW_CHARS \in Nat /\ WINDOW_STEP \in Nat
      /\ 0 < WINDOW_STEP /\ WINDOW_STEP <= WINDOW_CHARS /\ start \in Nat
  BY StepAssumption, LengthsAssumption DEF IInv, TypeOK
<1>1. /\ pc = "tile" /\ pc' = "tile" /\ n' = n /\ start' = start + WINDOW_STEP
      /\ End < n
      /\ windows' = Append(windows, [start |-> start, len |-> End - start])
  BY DEF NextWindow, PushWindow
<1>2. End = start + WINDOW_CHARS
  BY <1>0, <1>1 DEF End
<1>3. End - start = WINDOW_CHARS
  BY <1>0, <1>2
<1> DEFINE w == [start |-> start, len |-> WINDOW_CHARS]
<1>4. w \in Window
  BY <1>0 DEF Window
<1>5. windows' = Append(windows, w)
  BY <1>1, <1>3
<1>w. w.start = start /\ w.len = WINDOW_CHARS
  OBVIOUS
<1> HIDE DEF w
<1>6. TypeOK
  BY DEF IInv
<1>7. /\ windows' \in Seq(Window)
      /\ Len(windows') = Len(windows) + 1
      /\ windows'[Len(windows) + 1] = w
      /\ \A k \in 1..Len(windows) : windows'[k] = windows[k]
      /\ \A a, b : Covered(a, b) => Covered(a, b)'
  BY <1>4, <1>5, <1>6, CoveredStays
<1>8. Len(windows) \in Nat
  BY <1>6 DEF TypeOK
<1>9. \A k \in 1..Len(windows') : k = Len(windows) + 1 \/ k \in 1..Len(windows)
  BY <1>7, <1>8
<1>10. start' \in Nat
  BY <1>0, <1>1
<1>11. TypeOK'
  BY <1>1, <1>6, <1>7, <1>10 DEF TypeOK
<1>12. start + WINDOW_CHARS < n
  BY <1>1, <1>2
<1>t. /\ \A k \in 1..Len(windows) : windows[k].len = WINDOW_CHARS
      /\ \A k \in 1..Len(windows) : windows[k].start + WINDOW_STEP <= start
      /\ \A a \in 0..(start - 1) : \A b \in a..n :
           b - a <= OVERLAP => Covered(a, b)
  BY <1>1 DEF IInv, LoopInv
<1>r. \A k \in 1..Len(windows) : windows[k].start \in Nat
  <2> TAKE k \in 1..Len(windows)
  <2>1. windows[k] \in Window
    BY <1>6 DEF TypeOK
  <2> QED
    BY <2>1 DEF Window
<1>13. LoopInv'
  <2>1. WINDOW_CHARS < n' /\ start' + WINDOW_CHARS - WINDOW_STEP < n'
    BY <1>0, <1>1, <1>12
  <2>2. \A k \in 1..Len(windows') : windows'[k].len = WINDOW_CHARS
    BY <1>7, <1>9, <1>t, <1>w
  <2>3. ASSUME NEW k \in 1..Len(windows')
        PROVE  windows'[k].start + WINDOW_STEP <= start'
    <3>1. CASE k = Len(windows) + 1
      BY <3>1, <1>7, <1>w, <1>1, <1>0
    <3>2. CASE k \in 1..Len(windows)
      <4>1. windows[k].start + WINDOW_STEP <= start /\ windows[k].start \in Nat
        BY <3>2, <1>t, <1>r
      <4>2. windows[k].start + WINDOW_STEP <= start'
        BY <4>1, <1>0, <1>1
      <4> QED
        BY <4>2, <3>2, <1>7
    <3> QED
      BY <1>9, <3>1, <3>2
  <2>4. ASSUME NEW a \in 0..(start' - 1), NEW b \in a..n', b - a <= OVERLAP
        PROVE  Covered(a, b)'
    <3>0. a \in Int /\ b \in Int /\ 0 <= a /\ a < start' /\ a <= b /\ b <= n
      BY <1>0, <1>10, <1>1
    <3>1. CASE a < start
      <4>1. a \in 0..(start - 1) /\ b \in a..n
        BY <3>0, <3>1, <1>0
      <4> QED
        BY <4>1, <2>4, <1>t, <1>7
    <3>2. CASE start <= a
      <4>1. b <= start + WINDOW_CHARS
        BY <3>0, <1>0, <1>1, <2>4 DEF OVERLAP
      <4>2. w.start <= a /\ b <= w.start + w.len
        BY <4>1, <3>2, <1>w
      <4> QED
        BY <4>2, <1>4, <1>5, <1>6, CoveredByNew
    <3> QED
      BY <3>0, <3>1, <3>2, <1>0
  <2> QED
    BY <1>1, <2>1, <2>2, <2>3, <2>4 DEF LoopInv, OVERLAP
<1>14. NoStubs'
  <2> SUFFICES ASSUME NEW k \in 1..Len(windows')
               PROVE  /\ windows'[k].start + windows'[k].len <= n'
                      /\ windows'[k].len > WINDOW_CHARS - WINDOW_STEP
                      /\ windows'[k].len <= WINDOW_CHARS
    BY DEF NoStubs
  <2>1. CASE k = Len(windows) + 1
    BY <2>1, <1>7, <1>w, <1>12, <1>1, <1>0
  <2>2. CASE k \in 1..Len(windows)
    BY <2>2, <1>7, <1>1 DEF IInv, NoStubs
  <2> QED
    BY <1>9, <2>1, <2>2
<1>15. EveryExcerptCovered'
  BY <1>1 DEF EveryExcerptCovered
<1> QED
  BY <1>11, <1>13, <1>14, <1>15 DEF IInv

LEMMA LastWindowKeeps == IInv /\ LastWindow => IInv'
<1> SUFFICES ASSUME IInv, LastWindow PROVE IInv'
  OBVIOUS
<1>0. /\ n \in Nat /\ WINDOW_CHARS \in Nat /\ WINDOW_STEP \in Nat
      /\ 0 < WINDOW_STEP /\ WINDOW_STEP <= WINDOW_CHARS /\ start \in Nat
  BY StepAssumption, LengthsAssumption DEF IInv, TypeOK
<1>1. /\ pc = "tile" /\ pc' = "done" /\ n' = n /\ start' = start
      /\ End >= n
      /\ windows' = Append(windows, [start |-> start, len |-> End - start])
  BY DEF LastWindow, PushWindow
<1>t. /\ start + WINDOW_CHARS - WINDOW_STEP < n
      /\ \A a \in 0..(start - 1) : \A b \in a..n :
           b - a <= OVERLAP => Covered(a, b)
  BY <1>1 DEF IInv, LoopInv
<1>2. End = n /\ n <= start + WINDOW_CHARS
  BY <1>0, <1>1 DEF End
<1> DEFINE w == [start |-> start, len |-> n - start]
<1>3. n - start \in Nat
  BY <1>0, <1>t
<1>4. w \in Window
  BY <1>0, <1>3 DEF Window
<1>5. windows' = Append(windows, w)
  BY <1>1, <1>2
<1>w. w.start = start /\ w.len = n - start
  OBVIOUS
<1> HIDE DEF w
<1>6. TypeOK
  BY DEF IInv
<1>7. /\ windows' \in Seq(Window)
      /\ Len(windows') = Len(windows) + 1
      /\ windows'[Len(windows) + 1] = w
      /\ \A k \in 1..Len(windows) : windows'[k] = windows[k]
      /\ \A a, b : Covered(a, b) => Covered(a, b)'
  BY <1>4, <1>5, <1>6, CoveredStays
<1>8. Len(windows) \in Nat
  BY <1>6 DEF TypeOK
<1>9. \A k \in 1..Len(windows') : k = Len(windows) + 1 \/ k \in 1..Len(windows)
  BY <1>7, <1>8
<1>10. TypeOK'
  BY <1>1, <1>6, <1>7 DEF TypeOK
<1>11. LoopInv'
  BY <1>1 DEF LoopInv
<1>12. NoStubs'
  <2> SUFFICES ASSUME NEW k \in 1..Len(windows')
               PROVE  /\ windows'[k].start + windows'[k].len <= n'
                      /\ windows'[k].len > WINDOW_CHARS - WINDOW_STEP
                      /\ windows'[k].len <= WINDOW_CHARS
    BY DEF NoStubs
  <2>1. CASE k = Len(windows) + 1
    <3>1. /\ start + (n - start) <= n
          /\ n - start > WINDOW_CHARS - WINDOW_STEP
          /\ n - start <= WINDOW_CHARS
      BY <1>0, <1>2, <1>t
    <3> QED
      BY <2>1, <3>1, <1>7, <1>w, <1>1
  <2>2. CASE k \in 1..Len(windows)
    BY <2>2, <1>7, <1>1 DEF IInv, NoStubs
  <2> QED
    BY <1>9, <2>1, <2>2
<1>13. EveryExcerptCovered'
  <2> SUFFICES ASSUME NEW a \in 0..n, NEW b \in a..n, b - a <= OVERLAP
               PROVE  Covered(a, b)'
    BY <1>1 DEF EveryExcerptCovered, OVERLAP
  <2>0. a \in Int /\ b \in Int /\ 0 <= a /\ a <= b /\ b <= n
    BY <1>0
  <2>1. CASE a < start
    <3>1. a \in 0..(start - 1) /\ b \in a..n
      BY <2>0, <2>1, <1>0
    <3> QED
      BY <3>1, <1>t, <1>7
  <2>2. CASE start <= a
    <3>1. b <= start + (n - start)
      BY <2>0, <1>0
    <3>2. w.start <= a /\ b <= w.start + w.len
      BY <3>1, <2>2, <1>w
    <3> QED
      BY <3>2, <1>4, <1>5, <1>6, CoveredByNew
  <2> QED
    BY <2>0, <2>1, <2>2, <1>0
<1> QED
  BY <1>10, <1>11, <1>12, <1>13 DEF IInv

LEMMA StutterKeeps == IInv /\ UNCHANGED vars => IInv'
  BY DEF vars, IInv, TypeOK, LoopInv, NoStubs, EveryExcerptCovered, Covered,
         Holds

(* The inductive invariant of compute (simhash.rs:150).                    *)
THEOREM InvHolds == Spec => []IInv
<1>1. IInv /\ [Next]_vars => IInv'
  BY WholeKeeps, NextWindowKeeps, LastWindowKeeps, StutterKeeps DEF Next
<1> QED
  BY InitHolds, <1>1, PTL DEF Spec

(* The state of compute is typed in every reachable state.                 *)
THEOREM TypeCorrect == Spec => []TypeOK
  BY InvHolds, PTL DEF IInv

(* Whatever the length of the stream, an excerpt no longer than the        *)
(* overlap lies in one of the windows compute returns (simhash.rs:150).    *)
THEOREM ExcerptsCovered == Spec => []EveryExcerptCovered
  BY InvHolds, PTL DEF IInv

(* No window compute returns is a stub, nor does one leave the stream.     *)
THEOREM NoStubWindows == Spec => []NoStubs
  BY InvHolds, PTL DEF IInv

-----------------------------------------------------------------------------
(* Counting votes.                                                         *)

(* Of the first p grams of s, the places of gram g, and of the grams in A  *)
(* whose digest has the bit v.                                             *)
Places(s, p, g) == {k \in 1..p : Gram(s, k) = g}
Polled(s, p, A, bit, v) ==
  {k \in 1..p : Gram(s, k) \in A /\ Digest(Gram(s, k))[bit] = v}

(* What simhash_4grams and simhash_weighted have of the grams of s so far. *)
Tally(s) ==
  /\ pos \in Nat /\ pos - 1 \in 0..Windows(s)
  /\ DOMAIN counts = {Gram(s, k) : k \in 1..(pos - 1)}
  /\ \A g \in DOMAIN counts : counts[g] = Cardinality(Places(s, pos - 1, g))
  /\ added \subseteq DOMAIN counts
  /\ \A bit \in 1..FP_BITS :
       acc[bit] = Cardinality(Polled(s, pos - 1, added, bit, 1))
                    - Cardinality(Polled(s, pos - 1, added, bit, 0))
  /\ IF summing THEN pos - 1 = Windows(s) ELSE added = {}

Digested(s) ==
  /\ Windows(s) \in Nat
  /\ \A k \in 1..Windows(s) : Digest(Gram(s, k)) \in Hash

LEMMA Small ==
  ASSUME NEW p \in Nat, NEW P \in SUBSET (1..p)
  PROVE  IsFiniteSet(P) /\ Cardinality(P) \in Nat
<1>1. \A q \in Nat : IsFiniteSet(1..q)  BY FS_Interval
<1> QED BY <1>1, FS_Subset, FS_CardinalityType

LEMMA PlacesSmall ==
  ASSUME NEW s, NEW p \in Nat
  PROVE  /\ \A g : /\ IsFiniteSet(Places(s, p, g))
                   /\ Cardinality(Places(s, p, g)) \in Nat
         /\ \A A, bit, v : /\ IsFiniteSet(Polled(s, p, A, bit, v))
                           /\ Cardinality(Polled(s, p, A, bit, v)) \in Nat
<1>1. \A g : Places(s, p, g) \in SUBSET (1..p)  BY DEF Places
<1>2. \A A, bit, v : Polled(s, p, A, bit, v) \in SUBSET (1..p)  BY DEF Polled
<1> QED BY <1>1, <1>2, Small

(* The loop that counts.                                                   *)
LEMMA CountTally ==
  ASSUME NEW s, Digested(s), Tally(s), ~summing, pos - 1 < Windows(s),
         NEW g, g = Gram(s, pos),
         counts' = [h \in DOMAIN counts \cup {g} |->
                     (IF h \in DOMAIN counts THEN counts[h] ELSE 0)
                       + IF h = g THEN 1 ELSE 0],
         pos' = pos + 1, UNCHANGED <<added, acc, summing>>
  PROVE  /\ pos' - 1 \in 0..Windows(s)
         /\ DOMAIN counts' = {Gram(s, k) : k \in 1..(pos' - 1)}
         /\ \A h \in DOMAIN counts' :
              counts'[h] = Cardinality(Places(s, pos' - 1, h))
         /\ \A bit \in 1..FP_BITS :
              acc'[bit] = Cardinality(Polled(s, pos' - 1, added', bit, 1))
                            - Cardinality(Polled(s, pos' - 1, added', bit, 0))
<1> DEFINE p == pos - 1
           w == Windows(s)
           C == DOMAIN counts
<1>1. p \in Nat /\ pos = p + 1 /\ pos' - 1 = p + 1 /\ p + 1 \in 1..w
      /\ w \in Nat
  BY DEF Tally, Digested
<1>2. 1..(p + 1) = (1..p) \cup {p + 1}  BY <1>1
<1>3. /\ C = {Gram(s, k) : k \in 1..p}
      /\ \A h \in C : counts[h] = Cardinality(Places(s, p, h))
      /\ added = {}
      /\ \A bit \in 1..FP_BITS :
           acc[bit] = Cardinality(Polled(s, p, added, bit, 1))
                        - Cardinality(Polled(s, p, added, bit, 0))
  BY DEF Tally
<1>4. g = Gram(s, p + 1)  BY <1>1
<1>5. DOMAIN counts' = C \cup {g}  OBVIOUS
<1> HIDE DEF p, w, C
<1>6. DOMAIN counts' = {Gram(s, k) : k \in 1..(p + 1)}
  BY <1>2, <1>3, <1>4, <1>5
<1>7. ASSUME NEW h \in C \cup {g}
      PROVE  counts'[h] = Cardinality(Places(s, p + 1, h))
  <2>1. IsFiniteSet(Places(s, p, h)) /\ Cardinality(Places(s, p, h)) \in Nat
    BY <1>1, PlacesSmall
  <2>2. (IF h \in C THEN counts[h] ELSE 0) = Cardinality(Places(s, p, h))
    <3>1. h \notin C => Places(s, p, h) = {}  BY <1>3 DEF Places
    <3>2. Cardinality({}) = 0  BY FS_EmptySet
    <3> QED BY <1>3, <3>1, <3>2
  <2>3. counts'[h] = (IF h \in C THEN counts[h] ELSE 0)
                       + IF h = g THEN 1 ELSE 0
    BY DEF C
  <2>4. CASE h = g
    <3>1. Places(s, p + 1, h) = Places(s, p, h) \cup {p + 1}
      BY <1>2, <1>4, <2>4 DEF Places
    <3>2. p + 1 \notin Places(s, p, h)  BY <1>1 DEF Places
    <3>3. Cardinality(Places(s, p, h) \cup {p + 1})
            = Cardinality(Places(s, p, h)) + 1
      BY <2>1, <3>2, FS_AddElement
    <3> QED BY <2>2, <2>3, <2>4, <3>1, <3>3
  <2>5. CASE h # g
    <3>1. Places(s, p + 1, h) = Places(s, p, h)
      BY <1>2, <1>4, <2>5 DEF Places
    <3> QED BY <2>1, <2>2, <2>3, <2>5, <3>1
  <2> QED BY <2>4, <2>5
<1>8. /\ \A bit, v : Polled(s, p, added, bit, v) = {}
      /\ \A bit, v : Polled(s, p + 1, added', bit, v) = {}
  BY <1>3 DEF Polled
<1>9. ASSUME NEW bit \in 1..FP_BITS
      PROVE  acc'[bit] = Cardinality(Polled(s, p + 1, added', bit, 1))
                           - Cardinality(Polled(s, p + 1, added', bit, 0))
  <2>1. acc[bit] = Cardinality(Polled(s, p, added, bit, 1))
                     - Cardinality(Polled(s, p, added, bit, 0))
    BY <1>3
  <2>2. acc[bit] = Cardinality({}) - Cardinality({})  BY <2>1, <1>8
  <2> QED BY <2>2, <1>8
<1>10. pos' - 1 \in 0..Windows(s)  BY <1>1 DEF w
<1>11. \A bit \in 1..FP_BITS :
         acc'[bit] = Cardinality(Polled(s, pos' - 1, added', bit, 1))
                       - Cardinality(Polled(s, pos' - 1, added', bit, 0))
  BY <1>1, <1>9
<1>12. /\ DOMAIN counts' = {Gram(s, k) : k \in 1..(pos' - 1)}
       /\ \A h \in DOMAIN counts' :
            counts'[h] = Cardinality(Places(s, pos' - 1, h))
  BY <1>1, <1>5, <1>6, <1>7
<1> QED BY <1>10, <1>11, <1>12

(* The loop that adds up.                                                  *)
LEMMA AddTally ==
  ASSUME NEW s, Digested(s), Tally(s), summing,
         NEW g \in DOMAIN counts \ added, added' = added \cup {g},
         acc' = [bit \in 1..FP_BITS |->
                  acc[bit]
                    + (IF Digest(g)[bit] = 1 THEN 1 ELSE -1) * counts[g]],
         NEW bit \in 1..FP_BITS
  PROVE  acc'[bit] = Cardinality(Polled(s, pos - 1, added', bit, 1))
                       - Cardinality(Polled(s, pos - 1, added', bit, 0))
<1> DEFINE p == pos - 1
           of(v) == Cardinality(Polled(s, p, added, bit, v))
           new(v) == Cardinality(Polled(s, p, added', bit, v))
           c == Cardinality(Places(s, p, g))
<1>1. p \in Nat /\ p = Windows(s)  BY DEF Tally, Digested
<1>2. PICK i \in 1..p : g = Gram(s, i)  BY DEF Tally
<1>3. Digest(g) \in Hash  BY <1>1, <1>2 DEF Digested
<1>4. Digest(g)[bit] \in {0, 1}  BY <1>3 DEF Hash
<1>5. counts[g] = c /\ acc[bit] = of(1) - of(0)  BY DEF Tally
<1>6. ASSUME NEW v
      PROVE  new(v) = of(v) + (IF Digest(g)[bit] = v THEN c ELSE 0)
  <2> DEFINE A == Polled(s, p, added, bit, v)
             B == Places(s, p, g)
             D == Polled(s, p, added', bit, v)
  <2>1. IsFiniteSet(A) /\ IsFiniteSet(B) /\ Cardinality(A) \in Nat
        /\ Cardinality(B) \in Nat
    BY <1>1, PlacesSmall
  <2>2. CASE Digest(g)[bit] = v
    <3>1. D = A \cup B  BY <2>2 DEF Polled, Places
    <3>2. A \cap B = {}  BY DEF Polled, Places
    <3> HIDE DEF A, B, D
    <3>3. Cardinality(A \cup B)
            = Cardinality(A) + Cardinality(B) - Cardinality(A \cap B)
      BY <2>1, FS_Union
    <3>4. Cardinality(A \cap B) = 0  BY <3>2, FS_EmptySet
    <3>5. Cardinality(D) = Cardinality(A) + Cardinality(B)
      BY <2>1, <3>1, <3>3, <3>4
    <3> QED BY <2>2, <3>5 DEF A, B, D
  <2>3. CASE Digest(g)[bit] # v
    <3>1. D = A  BY <2>3 DEF Polled
    <3> HIDE DEF A, B, D
    <3>2. Cardinality(D) = Cardinality(A) + 0  BY <2>1, <3>1
    <3> QED BY <2>3, <3>2 DEF A, B, D
  <2> QED BY <2>2, <2>3
<1>7. of(0) \in Nat /\ of(1) \in Nat /\ c \in Nat
  BY <1>1, PlacesSmall
<1>8. acc'[bit] = acc[bit] + (IF Digest(g)[bit] = 1 THEN 1 ELSE -1) * counts[g]
  OBVIOUS
<1>9. /\ new(1) = of(1) + (IF Digest(g)[bit] = 1 THEN c ELSE 0)
      /\ new(0) = of(0) + (IF Digest(g)[bit] = 0 THEN c ELSE 0)
  BY <1>6
<1> HIDE DEF of, new, c
<1>10. CASE Digest(g)[bit] = 1
  <2>1. 1 * c = c  BY <1>7
  <2>2. new(1) = of(1) + c /\ new(0) = of(0) + 0  BY <1>9, <1>10
  <2>3. acc'[bit] = (of(1) - of(0)) + c  BY <1>5, <1>8, <1>10, <2>1
  <2>4. acc'[bit] = new(1) - new(0)  BY <1>7, <2>2, <2>3
  <2> QED BY <2>4 DEF new
<1>11. CASE Digest(g)[bit] = 0
  <2>1. (-1) * c = -c  BY <1>7
  <2>2. new(1) = of(1) + 0 /\ new(0) = of(0) + c  BY <1>9, <1>11
  <2>3. acc'[bit] = (of(1) - of(0)) + (-c)  BY <1>5, <1>8, <1>11, <2>1
  <2>4. acc'[bit] = new(1) - new(0)  BY <1>7, <2>2, <2>3
  <2> QED BY <2>4 DEF new
<1> QED BY <1>4, <1>10, <1>11

(* The hash that is returned.                                              *)
LEMMA TallyIsMajority ==
  ASSUME NEW s, s # << >>, Digested(s), Tally(s), summing,
         added = DOMAIN counts,
         NEW h, h = [bit \in 1..FP_BITS |-> IF acc[bit] > 0 THEN 1 ELSE 0]
  PROVE  h \in Hash /\ IsMajority(h, s)
<1> DEFINE p == pos - 1
<1>1. p \in Nat /\ p = Windows(s)  BY DEF Tally, Digested
<1>2. \A k \in 1..p : Gram(s, k) \in added  BY DEF Tally
<1>3. ASSUME NEW bit \in 1..FP_BITS
      PROVE  h[bit] = 1 <=>
               Cardinality(Votes(s, bit, 1)) > Cardinality(Votes(s, bit, 0))
  <2>1. \A v : Votes(s, bit, v) = Polled(s, p, added, bit, v)
    BY <1>1, <1>2 DEF Votes, Polled
  <2> DEFINE a == Cardinality(Votes(s, bit, 1))
             b == Cardinality(Votes(s, bit, 0))
  <2>2. acc[bit] = a - b  BY <2>1 DEF Tally
  <2>3. a \in Nat /\ b \in Nat
    <3>1. \A v : Cardinality(Polled(s, p, added, bit, v)) \in Nat
      BY <1>1, PlacesSmall
    <3> QED BY <2>1, <3>1
  <2> HIDE DEF a, b
  <2>4. h[bit] = 1 <=> a > b  BY <2>2, <2>3
  <2> QED BY <2>4 DEF a, b
<1> QED BY <1>3 DEF Hash, IsMajority

LEMMA ZeroIsMajority == ZeroHash \in Hash /\ IsMajority(ZeroHash, << >>)
<1>1. \A bit, v : Votes(<< >>, bit, v) = {}  BY DEF Votes
<1>2. Cardinality({}) = 0  BY FS_EmptySet
<1>3. \A bit, v : Cardinality(Votes(<< >>, bit, v)) = 0
  BY <1>1, <1>2
<1>4. ZeroHash \in Hash  BY DEF ZeroHash, Hash
<1>5. \A bit \in 1..FP_BITS : ZeroHash[bit] = 0  BY DEF ZeroHash
<1>6. IsMajority(ZeroHash, << >>)  BY <1>3, <1>5 DEF IsMajority
<1> QED BY <1>4, <1>6

-----------------------------------------------------------------------------
(* The invariant: besides what is asserted of the hashes that have been    *)
(* returned, the counters are those of the call that is under way.         *)
Calling == pc # "done" /\ Slice # << >>
Shape ==
  /\ chars \in Texts /\ n = Len(chars)
  /\ whole \in Hash /\ hashes \in Seq(Hash)
Calls == IF Calling THEN Tally(Slice) ELSE ~summing
HInv == IInv /\ Shape /\ Calls /\ HashesReproducible

LEMMA TextFits ==
  ASSUME NEW s \in Texts
  PROVE  /\ Len(s) \in Nat
         /\ SubSeq(s, 1, Len(s)) = s
         /\ \A a \in 1..Len(s) : \A b \in a..Len(s) :
              /\ SubSeq(s, a, b) # << >>
              /\ Digested(SubSeq(s, a, b))
<1> DEFINE S == {s[k] : k \in DOMAIN s}
<1>1. s \in Seq(S)  BY TextsAssumption
<1> HIDE DEF S
<1>2. Len(s) \in Nat /\ SubSeq(s, 1, Len(s)) = s  BY <1>1
<1>3. ASSUME NEW a \in 1..Len(s), NEW b \in a..Len(s)
      PROVE  SubSeq(s, a, b) # << >> /\ Digested(SubSeq(s, a, b))
  <2> DEFINE t == SubSeq(s, a, b)
  <2>1. t \in Seq(S) /\ Len(t) = b - a + 1  BY <1>1, <1>2
  <2>2. \A k \in 1..Windows(t) : Digest(Gram(t, k)) \in Hash
    BY DigestAssumption
  <2> HIDE DEF t
  <2>3. Len(t) \in Nat /\ Len(t) > 0  BY <1>2, <2>1
  <2>4. Windows(t) \in Nat
    BY <2>3, GramAssumption DEF Windows, Width
  <2>5. t # << >>
    <3>1. Len(<< >>) = 0  OBVIOUS
    <3> QED BY <2>3, <3>1
  <2> QED BY <2>2, <2>4, <2>5 DEF t, Digested
<1> QED BY <1>2, <1>3

(* A window of the loop is a part of the text.                             *)
LEMMA SliceFits ==
  IInv /\ Shape => /\ pc = "tile" => Slice # << >>
                   /\ Calling => Digested(Slice)
<1> SUFFICES ASSUME IInv, Shape
             PROVE  /\ pc = "tile" => Slice # << >>
                    /\ Calling => Digested(Slice)
  OBVIOUS
<1>1. chars \in Texts /\ n = Len(chars)  BY DEF Shape
<1>2. n \in Nat /\ SubSeq(chars, 1, n) = chars  BY <1>1, TextFits
<1>3. CASE pc = "whole"
  <2>1. ASSUME Slice # << >>  PROVE Digested(Slice)
    <3>1. n # 0  BY <1>1, <1>2, <1>3, <2>1 DEF Slice
    <3>2. 1 \in 1..n /\ n \in 1..n  BY <1>2, <3>1
    <3>3. Digested(SubSeq(chars, 1, n))  BY <1>1, <3>2, TextFits
    <3> QED BY <1>2, <1>3, <3>3 DEF Slice
  <2> QED BY <1>3, <2>1 DEF Calling
<1>4. CASE pc = "tile"
  <2>1. start \in Nat /\ start < n
    BY <1>2, <1>4, StepAssumption DEF IInv, TypeOK, LoopInv
  <2>2. start + 1 \in 1..n /\ End \in (start + 1)..n
    BY <1>2, <2>1, StepAssumption DEF End
  <2>3. /\ SubSeq(chars, start + 1, End) # << >>
        /\ Digested(SubSeq(chars, start + 1, End))
    BY <1>1, <2>2, TextFits
  <2>4. Slice = SubSeq(chars, start + 1, End)  BY <1>4 DEF Slice
  <2> QED BY <2>3, <2>4
<1> QED BY <1>3, <1>4 DEF IInv, TypeOK, Calling

(* So every call begins with a tally of no grams.                          *)
Fresh ==
  /\ pos = 1 /\ counts = << >> /\ added = {} /\ ~summing
  /\ acc = [bit \in 1..FP_BITS |-> 0]

LEMMA FreshTally == IInv /\ Shape /\ Fresh => Calls
<1> SUFFICES ASSUME IInv, Shape, Fresh, Calling  PROVE Tally(Slice)
  BY DEF Calls, Fresh
<1> DEFINE s == Slice
<1>1. Windows(s) \in Nat  BY SliceFits DEF Digested
<1> HIDE DEF s
<1>2. pos - 1 = 0 /\ 1..0 = {} /\ DOMAIN counts = {}  BY DEF Fresh
<1>3. \A bit, v : Polled(s, 0, added, bit, v) = {}  BY <1>2 DEF Polled
<1>4. \A bit, v : Cardinality(Polled(s, 0, added, bit, v)) = 0
  BY <1>3, FS_EmptySet
<1>5. \A bit \in 1..FP_BITS : acc[bit] = 0  BY DEF Fresh
<1>6. \A bit \in 1..FP_BITS :
        acc[bit] = Cardinality(Polled(s, 0, added, bit, 1))
                     - Cardinality(Polled(s, 0, added, bit, 0))
  BY <1>4, <1>5
<1>7. Tally(s)  BY <1>1, <1>2, <1>6 DEF Tally, Fresh
<1> QED BY <1>7 DEF s

LEMMA FreshTallyNext == IInv' /\ Shape' /\ Fresh' => Calls'
  BY FreshTally, PTL

-----------------------------------------------------------------------------
(* The steps: every one is a step of the loop over the windows, or leaves  *)
(* that loop alone.                                                        *)
LEMMA LoopSteps == [NextCompute]_computing => [Next]_vars
  BY DEF NextCompute, computing, Empty, Count, Counted, Add, Emit, Deliver,
         Next

(* The hashing leaves the loop what it is, so that what is proved of the   *)
(* loop holds of compute: it leaves no excerpt between two windows and     *)
(* records no stub (simhash.rs:150).                                       *)
THEOREM ComputeIsLoop == SpecCompute => Spec
<1>1. InitCompute => Init  BY DEF InitCompute
<1> QED BY <1>1, LoopSteps, PTL DEF SpecCompute, Spec

LEMMA InitCalls == InitCompute => HInv
<1> SUFFICES ASSUME InitCompute  PROVE HInv
  OBVIOUS
<1>1. IInv  BY InitHolds DEF InitCompute
<1>2. /\ chars \in Texts /\ n = Len(chars) /\ pc = "whole" /\ windows = << >>
      /\ pos = 1 /\ counts = << >> /\ added = {} /\ ~summing
      /\ acc = [bit \in 1..FP_BITS |-> 0]
      /\ whole = ZeroHash /\ hashes = << >>
  BY DEF InitCompute, Init
<1>3. whole \in Hash /\ hashes \in Seq(Hash)  BY <1>2, ZeroIsMajority
<1>4. HashesReproducible  BY <1>2 DEF HashesReproducible
<1>5. Shape /\ Fresh  BY <1>2, <1>3 DEF Shape, Fresh
<1> QED BY <1>1, <1>4, <1>5, FreshTally DEF HInv

LEMMA DeliverKeeps ==
  ASSUME HInv, IInv', pc # "done", NEW h \in Hash, IsMajority(h, Slice),
         Deliver(h)
  PROVE  Shape' /\ Calls' /\ HashesReproducible'
<1>0. Fresh'  BY DEF Deliver, Fresh
<1>1. /\ chars' = chars /\ chars \in Texts /\ n = Len(chars)
      /\ whole \in Hash /\ hashes \in Seq(Hash)
  BY DEF HInv, Shape, Deliver
<1>2. /\ start \in Nat /\ windows \in Seq(Window)
      /\ pc = "whole" => windows = << >>
      /\ Len(hashes) = Len(windows)
  BY DEF HInv, IInv, TypeOK, LoopInv, HashesReproducible
<1>3. CASE Whole /\ whole' = h /\ UNCHANGED hashes
  <2>1. n' = n /\ pc = "whole" /\ windows' = << >> /\ hashes' = hashes
    BY <1>2, <1>3 DEF Whole
  <2>2. IsMajority(whole', chars')  BY <1>1, <1>3, <2>1 DEF Slice
  <2>3. HashesReproducible'
    <3>1. Len(windows') = 0 /\ Len(hashes') = Len(windows')  BY <1>2, <2>1
    <3>2. 1..Len(windows') = {}  BY <3>1
    <3> QED BY <2>2, <3>1, <3>2 DEF HashesReproducible, IsMajority
  <2>4. Shape'  BY <1>1, <1>3, <2>1 DEF Shape
  <2> QED BY <1>0, <2>3, <2>4, FreshTallyNext
<1>4. CASE /\ NextWindow \/ LastWindow
           /\ hashes' = Append(hashes, h) /\ UNCHANGED whole
  <2> DEFINE w == [start |-> start, len |-> End - start]
             m == Len(windows)
             part(v) == SubSeq(chars, v.start + 1, v.start + v.len)
  <2>1. /\ n' = n /\ pc = "tile" /\ pc' # "whole"
        /\ windows' = Append(windows, w)
    BY <1>4 DEF NextWindow, LastWindow, PushWindow
  <2>2. IsMajority(whole', chars')
    BY <1>1, <1>4, <2>1 DEF HInv, HashesReproducible, IsMajority
  <2>3. n \in Nat /\ End \in Int
    <3>1. n \in Nat  BY <1>1, TextFits
    <3> QED BY <1>2, <3>1, StepAssumption DEF End
  <2>4. part(w) = Slice
    <3>1. start + (End - start) = End  BY <1>2, <2>3
    <3> QED BY <2>1, <3>1 DEF Slice
  <2> HIDE DEF w
  <2>5. /\ m \in Nat /\ Len(windows') = m + 1 /\ windows'[m + 1] = w
        /\ \A k \in 1..m : windows'[k] = windows[k]
    BY <1>2, <2>1
  <2>6. /\ Len(hashes') = m + 1 /\ hashes'[m + 1] = h
        /\ \A k \in 1..m : hashes'[k] = hashes[k]
        /\ hashes' \in Seq(Hash)
    BY <1>1, <1>2, <1>4
  <2> HIDE DEF part
  <2>7. \A k \in 1..m : IsMajority(hashes[k], part(windows[k]))
    BY DEF HInv, HashesReproducible, part
  <2>8. \A k \in 1..(m + 1) : IsMajority(hashes'[k], part(windows'[k]))
    <3> HIDE DEF m
    <3>1. \A k \in 1..m : IsMajority(hashes'[k], part(windows'[k]))
      BY <2>5, <2>6, <2>7
    <3>2. IsMajority(hashes'[m + 1], part(windows'[m + 1]))
      BY <2>4, <2>5, <2>6
    <3>3. \A k \in 1..(m + 1) : k \in 1..m \/ k = m + 1
      BY <2>5
    <3> QED BY <3>1, <3>2, <3>3
  <2>9. HashesReproducible'
    BY <1>1, <2>2, <2>5, <2>6, <2>8
       DEF HashesReproducible, IsMajority, part
  <2>10. Shape'  BY <1>1, <1>4, <2>1, <2>6 DEF Shape
  <2> QED BY <1>0, <2>9, <2>10, FreshTallyNext
<1> QED BY <1>3, <1>4 DEF Deliver

LEMMA EmptyKeeps ==
  ASSUME HInv, IInv', Empty
  PROVE  Shape' /\ Calls' /\ HashesReproducible'
<1>1. ZeroHash \in Hash /\ IsMajority(ZeroHash, Slice)
  BY ZeroIsMajority DEF Empty
<1> QED BY <1>1, DeliverKeeps DEF Empty

LEMMA EmitKeeps ==
  ASSUME HInv, IInv', Emit
  PROVE  Shape' /\ Calls' /\ HashesReproducible'
<1> DEFINE h == [bit \in 1..FP_BITS |-> IF acc[bit] > 0 THEN 1 ELSE 0]
<1>1. summing /\ added = DOMAIN counts /\ Deliver(h)  BY DEF Emit
<1>2. Calling /\ Tally(Slice)  BY <1>1 DEF HInv, Calls
<1>3. pc # "done" /\ Slice # << >>  BY <1>2 DEF Calling
<1>4. Digested(Slice)  BY <1>2, SliceFits DEF HInv
<1> HIDE DEF h
<1>5. h \in Hash /\ IsMajority(h, Slice)
  BY <1>1, <1>2, <1>3, <1>4, TallyIsMajority DEF h
<1> QED BY <1>1, <1>3, <1>5, DeliverKeeps

(* The steps within a call.                                                *)
LEMMA CallKeeps ==
  ASSUME HInv, UNCHANGED <<vars, chars, whole, hashes>>
  PROVE  Shape' /\ HashesReproducible' /\ Slice' = Slice /\ Calling' = Calling
<1>1. /\ n' = n /\ start' = start /\ windows' = windows /\ pc' = pc
      /\ chars' = chars /\ whole' = whole /\ hashes' = hashes
  BY DEF vars
<1>2. Shape'  BY <1>1 DEF HInv, Shape
<1>3. HashesReproducible'
  BY <1>1 DEF HInv, HashesReproducible, IsMajority
<1>4. Slice' = Slice  BY <1>1 DEF Slice, End
<1> QED BY <1>1, <1>2, <1>3, <1>4 DEF Calling

LEMMA CountKeeps ==
  ASSUME HInv, Count
  PROVE  Shape' /\ Calls' /\ HashesReproducible'
<1> DEFINE s == Slice
           g == Gram(s, pos)
<1>1. /\ Calling /\ ~summing /\ pos <= Windows(s)
      /\ counts' = [h \in DOMAIN counts \cup {g} |->
                     (IF h \in DOMAIN counts THEN counts[h] ELSE 0)
                       + IF h = g THEN 1 ELSE 0]
      /\ pos' = pos + 1 /\ UNCHANGED <<added, acc, summing>>
      /\ UNCHANGED <<vars, chars, whole, hashes>>
  BY DEF Count, Hashing, Calling
<1>2. Tally(s)  BY <1>1 DEF HInv, Calls
<1>3. Digested(s)  BY <1>1, SliceFits DEF HInv
<1>4. s' = s /\ Calling' /\ Shape' /\ HashesReproducible'
  BY <1>1, CallKeeps
<1> HIDE DEF s
<1>5. pos \in Nat /\ pos - 1 < Windows(s) /\ added = {}
  BY <1>1, <1>2, <1>3 DEF Tally, Digested
<1> HIDE DEF g
<1>6. /\ pos' - 1 \in 0..Windows(s)
      /\ DOMAIN counts' = {Gram(s, k) : k \in 1..(pos' - 1)}
      /\ \A h \in DOMAIN counts' :
           counts'[h] = Cardinality(Places(s, pos' - 1, h))
      /\ \A bit \in 1..FP_BITS :
           acc'[bit] = Cardinality(Polled(s, pos' - 1, added', bit, 1))
                         - Cardinality(Polled(s, pos' - 1, added', bit, 0))
  BY <1>1, <1>2, <1>3, <1>5, CountTally DEF g
<1>7. pos' \in Nat /\ ~summing' /\ added' = {}  BY <1>1, <1>5
<1>8. Tally(s)'
  BY <1>4, <1>6, <1>7 DEF Tally
<1> QED BY <1>4, <1>8 DEF Calls, s

LEMMA CountedKeeps ==
  ASSUME HInv, Counted
  PROVE  Shape' /\ Calls' /\ HashesReproducible'
<1> DEFINE s == Slice
<1>1. /\ Calling /\ ~summing /\ pos > Windows(s) /\ summing'
      /\ UNCHANGED <<vars, chars, whole, hashes>>
      /\ UNCHANGED <<pos, counts, added, acc>>
  BY DEF Counted, Hashing, Calling
<1>2. Tally(s)  BY <1>1 DEF HInv, Calls
<1>3. Digested(s)  BY <1>1, SliceFits DEF HInv
<1>4. s' = s /\ Calling' /\ Shape' /\ HashesReproducible'
  BY <1>1, CallKeeps
<1> HIDE DEF s
<1>5. pos - 1 = Windows(s)  BY <1>1, <1>2, <1>3 DEF Tally, Digested
<1>6. Tally(s)'
  BY <1>1, <1>2, <1>4, <1>5 DEF Tally, Gram, Places, Polled
<1> QED BY <1>4, <1>6 DEF Calls, s

LEMMA AddKeeps ==
  ASSUME HInv, Add
  PROVE  Shape' /\ Calls' /\ HashesReproducible'
<1> DEFINE s == Slice
<1>1. PICK g \in DOMAIN counts \ added :
        /\ added' = added \cup {g}
        /\ acc' = [bit \in 1..FP_BITS |->
             acc[bit] + (IF Digest(g)[bit] = 1 THEN 1 ELSE -1) * counts[g]]
  BY DEF Add
<1>2. /\ summing /\ UNCHANGED <<pos, counts, summing>>
      /\ UNCHANGED <<vars, chars, whole, hashes>>
  BY DEF Add
<1>3. Calling /\ Tally(s)  BY <1>2 DEF HInv, Calls
<1>4. Digested(s)  BY <1>3, SliceFits DEF HInv
<1>5. s' = s /\ Calling' /\ Shape' /\ HashesReproducible'
  BY <1>2, <1>3, CallKeeps
<1> HIDE DEF s
<1>6. \A bit \in 1..FP_BITS :
        acc'[bit] = Cardinality(Polled(s, pos - 1, added', bit, 1))
                      - Cardinality(Polled(s, pos - 1, added', bit, 0))
  BY <1>1, <1>2, <1>3, <1>4, AddTally
<1>7. added' \subseteq DOMAIN counts  BY <1>1, <1>3 DEF Tally
<1>8. Tally(s)'
  BY <1>2, <1>3, <1>5, <1>6, <1>7 DEF Tally, Gram, Places, Polled
<1> QED BY <1>5, <1>8 DEF Calls, s

LEMMA QuietKeeps ==
  ASSUME HInv, UNCHANGED computing
  PROVE  Shape' /\ Calls' /\ HashesReproducible'
<1>1. /\ UNCHANGED <<vars, chars, whole, hashes>>
      /\ UNCHANGED <<pos, counts, added, acc, summing>>
  BY DEF computing, hashing
<1>2. Slice' = Slice /\ Calling' = Calling /\ Shape' /\ HashesReproducible'
  BY <1>1, CallKeeps
<1> QED BY <1>1, <1>2 DEF HInv, Calls, Tally, Gram, Places, Polled

(* The inductive invariant of compute and of the calls it makes            *)
(* (simhash.rs:82, :101, :150).                                            *)
THEOREM ComputeInvHolds == SpecCompute => []HInv
<1>1. HInv /\ [NextCompute]_computing => HInv'
  <2> SUFFICES ASSUME HInv, [NextCompute]_computing  PROVE HInv'
    OBVIOUS
  <2>1. IInv'
    BY LoopSteps, WholeKeeps, NextWindowKeeps, LastWindowKeeps, StutterKeeps
       DEF HInv, Next
  <2>2. Shape' /\ Calls' /\ HashesReproducible'
    BY <2>1, EmptyKeeps, CountKeeps, CountedKeeps, AddKeeps, EmitKeeps,
       QuietKeeps DEF NextCompute
  <2> QED BY <2>1, <2>2 DEF HInv
<1> QED BY InitCalls, <1>1, PTL DEF SpecCompute

(* In whatever order the map of the grams is iterated, a hash that         *)
(* compute returns is the majority vote of the grams of its own            *)
(* characters, and each window has its own (simhash.rs:82, :101).          *)
THEOREM HashesCorrect == SpecCompute => []HashesReproducible
  BY ComputeInvHolds, PTL DEF HInv
=============================================================================
