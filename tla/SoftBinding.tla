------------------------------ MODULE SoftBinding ------------------------------
(***************************************************************************)
(* The life of one soft-binding assertion: it is built by from_fingerprint *)
(* or by a caller with whole and push_window, serialized, and read back by *)
(* a reader, who may be handed the assertions of other writers as well.    *)
(*                                                                         *)
(* CBOR is what it is used for here: bytes that give back the assertion    *)
(* that was written, or are no assertion at all.                           *)
(***************************************************************************)
EXTENDS Assertion

CONSTANTS
  Values,         \* hex values of hashes
  Fingerprints,   \* records [whole, windows]; a window is [start, len, hash]
  CallerAlgs,     \* algorithm names a caller may pass to whole
  CallerWindows,  \* windows a caller may pass to push_window
  Foreign,        \* payloads of other writers
  Garbage,        \* bytes that are not the CBOR of an assertion
  MaxPushes       \* bound: successful calls of push_window by a caller

(* A window as a caller makes it: WindowFp has public fields of usize.     *)
Window == [start : 0..MAX_USIZE, len : 0..MAX_USIZE, hash : Values]

ASSUME GarbageAssumption == Garbage \notin Foreign
ASSUME WindowsAssumption ==
  /\ CallerWindows \subseteq Window
  /\ Fingerprints \subseteq [whole : Values, windows : Seq(Window)]

VARIABLES
  fp,        \* the fingerprint given to from_fingerprint, or NoFingerprint
  next,      \* from_fingerprint: index of the next window to push
  binding,   \* the SoftBinding in the caller's or from_fingerprint's hands
  recorded,  \* history: the windows whose push returned Ok, in order
  payload,   \* what to_cbor returned, or a payload of another writer
  decoded,   \* what from_cbor returned to a reader
  outcome    \* <<call, result>> of the last call, or of the one that runs

vars == <<fp, next, binding, recorded, payload, decoded, outcome>>

NoFingerprint == [whole |-> "none", windows |-> << >>]
NoBinding == [alg |-> "none", blocks |-> << >>]

Selector == [start : 0..MAX_I32, end : 0..MAX_I32]
Scopes == {WholeAsset} \cup { << s >> : s \in Selector }
Block == [scope : Scopes, value : Values]
Algs == CallerAlgs \cup {ALG_FINGERPRINT, "none"}

(* What the next call finds in the hands of the one before.  The proofs    *)
(* rest on it.                                                             *)
TypeOK ==
  /\ fp \in Fingerprints \cup {NoFingerprint}
  /\ next \in 1..(Len(fp.windows) + 1)
  /\ binding \in [alg : Algs, blocks : Seq(Block)]
  /\ recorded \in Seq(Window)

Init ==
  /\ fp = NoFingerprint /\ next = 1
  /\ binding = NoBinding
  /\ recorded = << >>
  /\ payload = Garbage /\ decoded = NoBinding
  /\ outcome = <<"none", "ok">>

Idle == outcome[2] # "running"

NewWhole ==
  /\ Idle
  /\ \E alg \in CallerAlgs, value \in Values : binding' = Whole(alg, value)
  /\ recorded' = << >> /\ fp' = NoFingerprint /\ next' = 1
  /\ outcome' = <<"whole", "ok">>
  /\ UNCHANGED <<payload, decoded>>

(* push_window, once for each result.                                      *)
Pushed(w) ==
  /\ \E s \in Selectors(w.start, w.len) : binding' = PushBlock(binding, s, w.hash)
  /\ recorded' = Append(recorded, w)

Unpushable(w) == Selectors(w.start, w.len) = {}

PushWindow ==
  /\ Idle /\ binding # NoBinding
  /\ Len(recorded) < MaxPushes
  /\ \E w \in CallerWindows : Pushed(w)
  /\ fp' = NoFingerprint /\ next' = 1
  /\ outcome' = <<"push_window", "ok">>
  /\ UNCHANGED <<payload, decoded>>

PushWindowFails ==
  /\ Idle /\ binding # NoBinding
  /\ \E w \in CallerWindows : Unpushable(w)
  /\ outcome' = <<"push_window", "InvalidInput">>
  /\ UNCHANGED <<fp, next, binding, recorded, payload, decoded>>

FromFingerprint ==
  /\ Idle
  /\ fp' \in Fingerprints
  /\ binding' = Whole(ALG_FINGERPRINT, fp'.whole)
  /\ recorded' = << >> /\ next' = 1
  /\ outcome' = <<"from_fingerprint", "running">>
  /\ UNCHANGED <<payload, decoded>>

Running == outcome = <<"from_fingerprint", "running">>
Pushing == Running /\ next <= Len(fp.windows)

PushNext ==
  /\ Pushing
  /\ Pushed(fp.windows[next])
  /\ next' = next + 1
  /\ UNCHANGED <<fp, payload, decoded, outcome>>

(* Mutant of PushNextFails: the window is left out and the loop goes on.   *)
PushNextSkips ==
  /\ Pushing
  /\ Unpushable(fp.windows[next])
  /\ next' = next + 1
  /\ UNCHANGED <<fp, binding, recorded, payload, decoded, outcome>>

(* The ? of the loop: the assertion built so far is dropped.               *)
PushNextFails ==
  /\ Pushing
  /\ Unpushable(fp.windows[next])
  /\ binding' = NoBinding /\ recorded' = << >>
  /\ outcome' = <<"from_fingerprint", "InvalidInput">>
  /\ UNCHANGED <<fp, next, payload, decoded>>

FromFingerprintReturns ==
  /\ Running /\ next > Len(fp.windows)
  /\ outcome' = <<"from_fingerprint", "ok">>
  /\ UNCHANGED <<fp, next, binding, recorded, payload, decoded>>

ToCbor ==
  /\ Idle /\ binding # NoBinding
  /\ payload' = binding
  /\ outcome' = <<"to_cbor", "ok">>
  /\ UNCHANGED <<fp, next, binding, recorded, decoded>>

(* A payload from elsewhere takes the place of the one that was written.   *)
Receive ==
  /\ Idle
  /\ payload' \in Foreign \cup {Garbage}
  /\ UNCHANGED <<fp, next, binding, recorded, decoded, outcome>>

Accepted(bytes) == bytes # Garbage /\ Usable(bytes)

FromCbor ==
  /\ Idle /\ Accepted(payload)
  /\ decoded' = payload
  /\ outcome' = <<"from_cbor", "ok">>
  /\ UNCHANGED <<fp, next, binding, recorded, payload>>

FromCborFails ==
  /\ Idle /\ ~Accepted(payload)
  /\ outcome' = <<"from_cbor", "InvalidInput">>
  /\ UNCHANGED <<fp, next, binding, recorded, payload, decoded>>

Next ==
  \/ NewWhole \/ PushWindow \/ PushWindowFails
  \/ FromFingerprint \/ PushNext \/ PushNextFails \/ FromFingerprintReturns
  \/ ToCbor \/ Receive \/ FromCbor \/ FromCborFails

Spec == Init /\ [][Next]_vars

-----------------------------------------------------------------------------
(* The block behind the one of the whole asset stands for the characters   *)
(* of the window that was pushed: nothing wrapped, clamped, shifted or     *)
(* left out, whatever mixture of calls succeeded and failed before.  An    *)
(* offset that is wrong sends a verifier to other characters.              *)
OffsetsFaithful ==
  binding # NoBinding =>
    /\ Len(binding.blocks) = Len(recorded) + 1
    /\ binding.blocks[1].scope = WholeAsset
    /\ \A k \in 1..Len(recorded) :
         binding.blocks[k + 1] =
           [scope |-> << [start |-> recorded[k].start,
                          end |-> recorded[k].start + recorded[k].len] >>,
            value |-> recorded[k].hash]

(* from_fingerprint records every window of the fingerprint, in order, or  *)
(* fails; and it fails only for a window that ends beyond MAX_I32.         *)
AllOrNothing ==
  /\ outcome = <<"from_fingerprint", "ok">> => recorded = fp.windows
  /\ outcome = <<"from_fingerprint", "InvalidInput">> =>
       \E k \in 1..Len(fp.windows) :
         fp.windows[k].start + fp.windows[k].len > MAX_I32

(* from_cbor is stricter than the builders are, but what the family wrote  *)
(* itself it refuses for one reason only, a blank algorithm that a caller  *)
(* gave to whole: none of the builders' own assertions, with windows or    *)
(* without, is unreadable to its reader.                                   *)
OwnIsAccepted ==
  /\ outcome = <<"from_cbor", "InvalidInput">>
  /\ payload \notin Foreign \cup {Garbage}
  => payload.alg \in Blank
=============================================================================
