---------------------------- MODULE SoftBindingProofs ----------------------------
(***************************************************************************)
(* What SoftBinding records of windows, for every width of the integers,   *)
(* every fingerprint and every number of calls.                            *)
(***************************************************************************)
EXTENDS SoftBinding, TLAPS

(* While from_fingerprint runs, what it has recorded is the windows before *)
(* the next one.                                                           *)
Progress ==
  Running =>
    /\ binding # NoBinding
    /\ Len(recorded) = next - 1
    /\ \A k \in 1..(next - 1) : recorded[k] = fp.windows[k]

(* Every assertion that to_cbor wrote has a block. *)
Written == payload \in Foreign \cup {Garbage} \/ payload.blocks # << >>

Recorded == TypeOK /\ OffsetsFaithful /\ Progress /\ AllOrNothing
IInv == Recorded /\ Written /\ OwnIsAccepted

-----------------------------------------------------------------------------
(* A selector is made of the numbers that were given, and of no others.    *)
LEMMA SelectorIsExact ==
  ASSUME NEW start \in 0..MAX_USIZE, NEW len \in 0..MAX_USIZE,
         NEW s \in Selectors(start, len)
  PROVE  /\ s = [start |-> start, end |-> start + len]
         /\ s \in Selector
<1>1. PICK x \in ToI32(start),
           e \in UNION { ToI32(y) : y \in CheckedAdd(start, len) } :
        s = [start |-> x, end |-> e]
  BY DEF Selectors
<1>2. PICK y \in CheckedAdd(start, len) : e \in ToI32(y)
  OBVIOUS
<1>3. y = start + len
  BY <1>2 DEF CheckedAdd
<1>4. e = y /\ e <= MAX_I32
  BY <1>2 DEF ToI32
<1>5. x = start /\ x <= MAX_I32
  BY <1>1 DEF ToI32
<1>6. start + len \in Nat /\ start \in Nat
  BY WidthsAssumption
<1> QED
  BY <1>1, <1>3, <1>4, <1>5, <1>6, WidthsAssumption DEF Selector

(* There is a selector for every window that ends within an i32. *)
LEMMA SelectorExists ==
  ASSUME NEW start \in 0..MAX_USIZE, NEW len \in 0..MAX_USIZE,
         start + len <= MAX_I32
  PROVE  Selectors(start, len) # {}
<1>1. start + len <= MAX_USIZE /\ start <= MAX_I32
  BY WidthsAssumption
<1>2. start + len \in CheckedAdd(start, len)
  BY <1>1 DEF CheckedAdd
<1>3. start + len \in ToI32(start + len)
  BY DEF ToI32
<1>4. start \in ToI32(start)
  BY <1>1 DEF ToI32
<1>5. [start |-> start, end |-> start + len] \in Selectors(start, len)
  BY <1>2, <1>3, <1>4 DEF Selectors
<1> QED
  BY <1>5

(* Pushing a window adds its block and keeps the others. *)
LEMMA PushedIsFaithful ==
  ASSUME TypeOK, OffsetsFaithful, binding # NoBinding,
         NEW w \in Window, Pushed(w)
  PROVE  /\ binding' \in [alg : Algs, blocks : Seq(Block)]
         /\ recorded' \in Seq(Window)
         /\ recorded' = Append(recorded, w)
         /\ binding' # NoBinding
         /\ OffsetsFaithful'
<1>1. PICK s \in Selectors(w.start, w.len) :
        binding' = PushBlock(binding, s, w.hash)
  BY DEF Pushed
<1>2. w.start \in 0..MAX_USIZE /\ w.len \in 0..MAX_USIZE /\ w.hash \in Values
  BY DEF Window
<1>3. s = [start |-> w.start, end |-> w.start + w.len] /\ s \in Selector
  BY <1>1, <1>2, SelectorIsExact
<1> DEFINE block == [scope |-> << s >>, value |-> w.hash]
<1>4. block \in Block
  BY <1>2, <1>3 DEF Block, Scopes
<1>5. recorded' = Append(recorded, w)
  BY DEF Pushed
<1>6. /\ binding.blocks \in Seq(Block) /\ recorded \in Seq(Window)
      /\ binding.alg \in Algs
  BY DEF TypeOK
<1>7. binding' = [alg |-> binding.alg, blocks |-> Append(binding.blocks, block)]
  BY <1>1 DEF PushBlock, TypeOK
<1>8. /\ binding'.blocks = Append(binding.blocks, block)
      /\ binding' \in [alg : Algs, blocks : Seq(Block)]
      /\ recorded' \in Seq(Window)
  BY <1>4, <1>5, <1>6, <1>7
<1>9. binding' # NoBinding
  BY <1>6, <1>8 DEF NoBinding
<1>10. /\ Len(binding.blocks) = Len(recorded) + 1
       /\ binding.blocks[1].scope = WholeAsset
       /\ \A k \in 1..Len(recorded) :
            binding.blocks[k + 1] =
              [scope |-> << [start |-> recorded[k].start,
                             end |-> recorded[k].start + recorded[k].len] >>,
               value |-> recorded[k].hash]
  BY DEF OffsetsFaithful
<1>11. /\ Len(binding'.blocks) = Len(recorded') + 1
       /\ binding'.blocks[1].scope = WholeAsset
  BY <1>5, <1>6, <1>8, <1>10
<1>12. ASSUME NEW k \in 1..Len(recorded')
       PROVE  binding'.blocks[k + 1] =
                [scope |-> << [start |-> recorded'[k].start,
                               end |-> recorded'[k].start + recorded'[k].len] >>,
                 value |-> recorded'[k].hash]
  <2>1. CASE k = Len(recorded) + 1
    <3>1. recorded'[k] = w
      BY <2>1, <1>5, <1>6
    <3>2. binding'.blocks[k + 1] = block
      BY <2>1, <1>6, <1>8, <1>10
    <3> QED
      BY <3>1, <3>2, <1>3
  <2>2. CASE k \in 1..Len(recorded)
    <3>1. recorded'[k] = recorded[k]
      BY <2>2, <1>5, <1>6
    <3>2. binding'.blocks[k + 1] = binding.blocks[k + 1]
      BY <2>2, <1>6, <1>8, <1>10
    <3> QED
      BY <3>1, <3>2, <2>2, <1>10
  <2> QED
    BY <2>1, <2>2, <1>5, <1>6
<1>13. OffsetsFaithful'
  BY <1>11, <1>12 DEF OffsetsFaithful
<1> QED
  BY <1>5, <1>8, <1>9, <1>13
(* A window that cannot be pushed ends beyond MAX_I32. *)
LEMMA UnpushableEndsBeyond ==
  ASSUME NEW w \in Window, Unpushable(w)
  PROVE  w.start + w.len > MAX_I32
<1>1. w.start \in 0..MAX_USIZE /\ w.len \in 0..MAX_USIZE
  BY DEF Window
<1>2. Selectors(w.start, w.len) = {}
  BY DEF Unpushable
<1>3. ~(w.start + w.len <= MAX_I32)
  BY <1>1, <1>2, SelectorExists
<1> QED
  BY <1>1, <1>3, WidthsAssumption

(* An assertion that whole makes is empty of windows. *)
LEMMA WholeIsFaithful ==
  ASSUME NEW alg \in CallerAlgs \cup {ALG_FINGERPRINT}, NEW value \in Values
  PROVE  /\ Whole(alg, value) \in [alg : Algs, blocks : Seq(Block)]
         /\ Whole(alg, value) # NoBinding
         /\ Len(Whole(alg, value).blocks) = 1
         /\ Whole(alg, value).blocks[1].scope = WholeAsset
<1> DEFINE block == [scope |-> WholeAsset, value |-> value]
<1>1. block \in Block
  BY DEF Block, Scopes
<1>2. Whole(alg, value) = [alg |-> alg, blocks |-> << block >>]
  BY DEF Whole
<1>3. << block >> \in Seq(Block) /\ Len(<< block >>) = 1
  BY <1>1
<1>4. << block >> # << >>
  BY <1>3
<1> QED
  BY <1>2, <1>3, <1>4 DEF Algs, NoBinding

LEMMA WindowsOfFingerprint ==
  ASSUME TypeOK
  PROVE  fp.windows \in Seq(Window)
<1>1. CASE fp \in Fingerprints
  BY <1>1, WindowsAssumption
<1>2. CASE fp = NoFingerprint
  <2>1. fp.windows = << >>
    BY <1>2 DEF NoFingerprint
  <2> QED
    BY <2>1
<1> QED
  BY <1>1, <1>2 DEF TypeOK

-----------------------------------------------------------------------------
LEMMA InitRecorded == Init => Recorded
<1> SUFFICES ASSUME Init PROVE Recorded
  OBVIOUS
<1>1. TypeOK
  BY DEF Init, TypeOK, NoFingerprint, NoBinding, Algs
<1>2. OffsetsFaithful /\ Progress /\ AllOrNothing
  BY DEF Init, OffsetsFaithful, Progress, Running, AllOrNothing
<1> QED
  BY <1>1, <1>2 DEF Recorded

(* The steps that only look: the invariant is about what they leave alone, *)
(* but for the outcome.                                                    *)
LEMMA NothingRecorded ==
  ASSUME Recorded, UNCHANGED <<fp, next, binding, recorded>>,
         outcome' = outcome \/ outcome'[1] # "from_fingerprint"
  PROVE  Recorded'
<1>1. TypeOK'
  BY DEF Recorded, TypeOK
<1>2. OffsetsFaithful'
  BY DEF Recorded, OffsetsFaithful
<1>3. Progress' /\ AllOrNothing'
  BY DEF Recorded, Progress, Running, AllOrNothing
<1> QED
  BY <1>1, <1>2, <1>3 DEF Recorded

LEMMA StepRecorded == Recorded /\ [Next]_vars => Recorded'
<1> SUFFICES ASSUME Recorded, [Next]_vars PROVE Recorded'
  OBVIOUS
<1> USE DEF Recorded
<1>0. fp.windows \in Seq(Window)
  BY WindowsOfFingerprint
<1>1. CASE NewWhole
  <2>1. PICK alg \in CallerAlgs, value \in Values :
          binding' = Whole(alg, value)
    BY <1>1 DEF NewWhole
  <2>2. /\ recorded' = << >> /\ fp' = NoFingerprint /\ next' = 1
        /\ outcome' = <<"whole", "ok">>
    BY <1>1 DEF NewWhole
  <2>3. TypeOK'
    BY <2>1, <2>2, WholeIsFaithful DEF TypeOK, NoFingerprint
  <2>4. OffsetsFaithful'
    BY <2>1, <2>2, WholeIsFaithful DEF OffsetsFaithful
  <2>5. Progress' /\ AllOrNothing'
    BY <2>2 DEF Progress, Running, AllOrNothing
  <2> QED
    BY <2>3, <2>4, <2>5
<1>2. CASE PushWindow
  <2>1. PICK w \in CallerWindows : Pushed(w)
    BY <1>2 DEF PushWindow
  <2>2. w \in Window /\ binding # NoBinding
    BY <1>2, WindowsAssumption DEF PushWindow
  <2>3. /\ fp' = NoFingerprint /\ next' = 1
        /\ outcome' = <<"push_window", "ok">>
    BY <1>2 DEF PushWindow
  <2>4. TypeOK' /\ OffsetsFaithful'
    BY <2>1, <2>2, <2>3, PushedIsFaithful DEF TypeOK, NoFingerprint
  <2>5. Progress' /\ AllOrNothing'
    BY <2>3 DEF Progress, Running, AllOrNothing
  <2> QED
    BY <2>4, <2>5
<1>3. CASE PushWindowFails
  BY <1>3, NothingRecorded DEF PushWindowFails
<1>4. CASE FromFingerprint
  <2>1. /\ fp' \in Fingerprints
        /\ binding' = Whole(ALG_FINGERPRINT, fp'.whole)
        /\ recorded' = << >> /\ next' = 1
        /\ outcome' = <<"from_fingerprint", "running">>
    BY <1>4 DEF FromFingerprint
  <2>2. fp'.whole \in Values /\ fp'.windows \in Seq(Window)
    BY <2>1, WindowsAssumption
  <2>3. /\ binding' \in [alg : Algs, blocks : Seq(Block)]
        /\ binding' # NoBinding
        /\ Len(binding'.blocks) = 1
        /\ binding'.blocks[1].scope = WholeAsset
    BY <2>1, <2>2, WholeIsFaithful
  <2>4. TypeOK'
    <3>1. next' \in 1..(Len(fp'.windows) + 1)
      BY <2>1, <2>2
    <3>2. recorded' \in Seq(Window)
      BY <2>1
    <3> QED
      BY <2>1, <2>3, <3>1, <3>2 DEF TypeOK
  <2>5. OffsetsFaithful'
    BY <2>1, <2>3 DEF OffsetsFaithful
  <2>6. Progress'
    BY <2>1, <2>3 DEF Progress
  <2>7. AllOrNothing'
    BY <2>1 DEF AllOrNothing
  <2> QED
    BY <2>4, <2>5, <2>6, <2>7
<1>5. CASE PushNext
  <2>1. /\ Running /\ next <= Len(fp.windows)
        /\ Pushed(fp.windows[next])
        /\ next' = next + 1
        /\ UNCHANGED <<fp, outcome>>
    BY <1>5 DEF PushNext, Pushing
  <2>2. /\ binding # NoBinding /\ Len(recorded) = next - 1
        /\ \A k \in 1..(next - 1) : recorded[k] = fp.windows[k]
    BY <2>1 DEF Progress
  <2>3. next \in 1..Len(fp.windows) /\ recorded \in Seq(Window)
    BY <2>1, <1>0 DEF TypeOK
  <2>4. fp.windows[next] \in Window
    BY <2>3, <1>0
  <2>5. /\ binding' \in [alg : Algs, blocks : Seq(Block)]
        /\ recorded' \in Seq(Window)
        /\ recorded' = Append(recorded, fp.windows[next])
        /\ binding' # NoBinding
        /\ OffsetsFaithful'
    BY <2>1, <2>2, <2>4, PushedIsFaithful
  <2>6. TypeOK'
    BY <2>1, <2>3, <2>5, <1>0 DEF TypeOK
  <2>7. Progress'
    <3>1. Len(recorded') = next' - 1
      BY <2>1, <2>2, <2>3, <2>5
    <3>2. ASSUME NEW k \in 1..(next' - 1)
          PROVE  recorded'[k] = fp'.windows[k]
      BY <2>1, <2>2, <2>3, <2>5
    <3> QED
      BY <2>5, <3>1, <3>2 DEF Progress
  <2>8. AllOrNothing'
    BY <2>1 DEF AllOrNothing, Running
  <2> QED
    BY <2>5, <2>6, <2>7, <2>8
<1>6. CASE PushNextFails
  <2>1. /\ Running /\ next <= Len(fp.windows)
        /\ Unpushable(fp.windows[next])
        /\ binding' = NoBinding /\ recorded' = << >>
        /\ outcome' = <<"from_fingerprint", "InvalidInput">>
        /\ UNCHANGED <<fp, next>>
    BY <1>6 DEF PushNextFails, Pushing
  <2>2. next \in 1..Len(fp.windows)
    BY <2>1, <1>0 DEF TypeOK
  <2>3. fp.windows[next] \in Window
    BY <2>2, <1>0
  <2>4. fp.windows[next].start + fp.windows[next].len > MAX_I32
    BY <2>1, <2>3, UnpushableEndsBeyond
  <2>5. TypeOK'
    BY <2>1 DEF TypeOK, NoBinding, Algs
  <2>6. OffsetsFaithful' /\ Progress'
    BY <2>1 DEF OffsetsFaithful, Progress, Running
  <2>7. AllOrNothing'
    BY <2>1, <2>2, <2>4 DEF AllOrNothing
  <2> QED
    BY <2>5, <2>6, <2>7
<1>7. CASE FromFingerprintReturns
  <2>1. /\ Running /\ next > Len(fp.windows)
        /\ outcome' = <<"from_fingerprint", "ok">>
        /\ UNCHANGED <<fp, next, binding, recorded>>
    BY <1>7 DEF FromFingerprintReturns
  <2>2. /\ Len(recorded) = next - 1
        /\ \A k \in 1..(next - 1) : recorded[k] = fp.windows[k]
    BY <2>1 DEF Progress
  <2>3. next = Len(fp.windows) + 1 /\ recorded \in Seq(Window)
    BY <2>1, <1>0 DEF TypeOK
  <2>4. recorded = fp.windows
    BY <2>2, <2>3, <1>0
  <2>5. TypeOK' /\ OffsetsFaithful'
    BY <2>1 DEF TypeOK, OffsetsFaithful
  <2>6. Progress' /\ AllOrNothing'
    BY <2>1, <2>4 DEF Progress, Running, AllOrNothing
  <2> QED
    BY <2>5, <2>6
<1>8. CASE ToCbor
  BY <1>8, NothingRecorded DEF ToCbor
<1>9. CASE Receive
  BY <1>9, NothingRecorded DEF Receive
<1>10. CASE FromCbor
  BY <1>10, NothingRecorded DEF FromCbor
<1>11. CASE FromCborFails
  BY <1>11, NothingRecorded DEF FromCborFails
<1>12. CASE UNCHANGED vars
  BY <1>12, NothingRecorded DEF vars
<1> QED
  BY <1>1, <1>2, <1>3, <1>4, <1>5, <1>6, <1>7, <1>8, <1>9, <1>10, <1>11,
     <1>12 DEF Next

(* Of what is written, and of how its reading ends.                        *)
LEMMA StepRead ==
  IInv /\ [Next]_vars => Written' /\ OwnIsAccepted'
<1> SUFFICES ASSUME IInv, [Next]_vars PROVE Written' /\ OwnIsAccepted'
  OBVIOUS
<1>1. CASE ToCbor
  <2>1. binding # NoBinding /\ payload' = binding
        /\ outcome' = <<"to_cbor", "ok">>
    BY <1>1 DEF ToCbor
  <2>2. Len(binding.blocks) = Len(recorded) + 1 /\ recorded \in Seq(Window)
    BY <2>1 DEF IInv, Recorded, OffsetsFaithful, TypeOK
  <2>3. payload'.blocks # << >>
    BY <2>1, <2>2
  <2> QED
    BY <2>1, <2>3 DEF Written, OwnIsAccepted
<1>2. CASE Receive
  BY <1>2 DEF Receive, Written, OwnIsAccepted
<1>3. CASE FromCborFails
  <2>1. payload' = payload /\ ~Accepted(payload)
    BY <1>3 DEF FromCborFails
  <2>2. Written'
    BY <2>1 DEF IInv, Written
  <2>3. payload \notin Foreign \cup {Garbage} => payload.alg \in Blank
    BY <2>1 DEF IInv, Written, Accepted, Usable
  <2> QED
    BY <2>1, <2>2, <2>3 DEF OwnIsAccepted
<1>4. CASE UNCHANGED vars
  BY <1>4 DEF vars, IInv, Written, OwnIsAccepted
<1>5. CASE \/ NewWhole \/ PushWindow \/ PushWindowFails \/ FromFingerprint
           \/ PushNext \/ PushNextFails \/ FromFingerprintReturns \/ FromCbor
  <2>1. payload' = payload /\ outcome' # <<"from_cbor", "InvalidInput">>
    BY <1>5 DEF NewWhole, PushWindow, PushWindowFails, FromFingerprint,
                PushNext, PushNextFails, FromFingerprintReturns, FromCbor,
                Pushing, Running
  <2> QED
    BY <2>1 DEF IInv, Written, OwnIsAccepted
<1> QED
  BY <1>1, <1>2, <1>3, <1>4, <1>5 DEF Next

LEMMA AlwaysIInv == Spec => []IInv
<1>1. Init => IInv
  BY InitRecorded DEF Init, IInv, Written, OwnIsAccepted
<1>2. IInv /\ [Next]_vars => IInv'
  BY StepRecorded, StepRead DEF IInv
<1> QED
  BY <1>1, <1>2, PTL DEF Spec

-----------------------------------------------------------------------------
(* Of the fingerprint that from_fingerprint was given (fp), of the window  *)
(* it pushes next (next), of the assertion in a caller's hands (binding)   *)
(* and of the windows recorded in it (recorded), whatever mixture of calls *)
(* succeeded and failed: next is a window of fp or one past the last, and  *)
(* the selectors of binding are pairs of i32 offsets (soft_binding.rs:169, *)
(* :229).  TypeOK says nothing of payload, decoded and outcome.            *)
THEOREM TypeCorrect == Spec => []TypeOK
BY AlwaysIInv, PTL DEF IInv, Recorded

(* push_window never records an offset that is not the window's own, for   *)
(* every width of usize and i32.                                           *)
THEOREM OffsetsCorrect == Spec => []OffsetsFaithful
BY AlwaysIInv, PTL DEF IInv, Recorded

(* from_fingerprint binds every window in order or fails, and fails only   *)
(* for a window that ends beyond i32::MAX, for every number of windows.    *)
THEOREM WholeOrNothing == Spec => []AllOrNothing
BY AlwaysIInv, PTL DEF IInv, Recorded

(* A reader refuses no assertion of the builders but for a blank name.     *)
THEOREM ReaderAccepts == Spec => []OwnIsAccepted
BY AlwaysIInv, PTL DEF IInv
=============================================================================
