-------------------------- MODULE FingerprintWindows --------------------------
(***************************************************************************)
(* simhash::Fingerprint::compute: the overlapping windows of a document    *)
(* over its normalized stream.                                             *)
(*                                                                         *)
(* A verifier has the fingerprint of an excerpt as a whole and compares it *)
(* with the stored windows, so what counts is where the windows lie.  The  *)
(* SimHash of a window is a function of its characters and plays no part.  *)
(***************************************************************************)
EXTENDS Integers, Sequences

CONSTANTS
  WINDOW_CHARS,   \* length of a window
  WINDOW_STEP,    \* distance between the starts of neighbouring windows
  Lengths         \* lengths of normalized streams

ASSUME StepAssumption ==
  /\ WINDOW_CHARS \in Nat /\ WINDOW_STEP \in Nat
  /\ 0 < WINDOW_STEP /\ WINDOW_STEP <= WINDOW_CHARS
ASSUME LengthsAssumption == Lengths \subseteq Nat

VARIABLES
  n,         \* chars.len()
  start,     \* where the next window begins
  windows,   \* the vector being built
  pc         \* "whole" before the loop, "tile" in it, "done" on return

vars == <<n, start, windows, pc>>

Window == [start : Nat, len : Nat]

TypeOK ==
  /\ n \in Lengths
  /\ start \in Nat
  /\ windows \in Seq(Window)
  /\ pc \in {"whole", "tile", "done"}

Init ==
  /\ n \in Lengths
  /\ start = 0
  /\ windows = << >>
  /\ pc = "whole"

(* The fingerprint of the whole stream is taken; a stream that fits into   *)
(* one window gets no windows.                                             *)
Whole ==
  /\ pc = "whole"
  /\ pc' = IF n > WINDOW_CHARS THEN "tile" ELSE "done"
  /\ UNCHANGED <<n, start, windows>>

End == IF start + WINDOW_CHARS <= n THEN start + WINDOW_CHARS ELSE n

PushWindow ==
  windows' = Append(windows, [start |-> start, len |-> End - start])

NextWindow ==
  /\ pc = "tile"
  /\ End < n
  /\ PushWindow
  /\ start' = start + WINDOW_STEP
  /\ UNCHANGED <<n, pc>>

(* Mutants of LastWindow: the loop goes on until no character is left; the *)
(* window that reaches the end is not recorded.                            *)
LastWindowLate ==
  /\ pc = "tile"
  /\ End >= n
  /\ PushWindow
  /\ start' = start + WINDOW_STEP
  /\ pc' = IF start + WINDOW_STEP < n THEN "tile" ELSE "done"
  /\ UNCHANGED n
LastWindowDropped ==
  /\ pc = "tile"
  /\ End >= n
  /\ pc' = "done"
  /\ UNCHANGED <<n, start, windows>>

LastWindow ==
  /\ pc = "tile"
  /\ End >= n
  /\ PushWindow
  /\ pc' = "done"
  /\ UNCHANGED <<n, start>>

Next == Whole \/ NextWindow \/ LastWindow

Spec == Init /\ [][Next]_vars

FairSpec == Spec /\ WF_vars(Next)

-----------------------------------------------------------------------------
Holds(w, a, b) == w.start <= a /\ b <= w.start + w.len

(* Excerpts of up to this length are in some window wherever they begin.   *)
OVERLAP == WINDOW_CHARS - WINDOW_STEP + 1

(* The characters from a up to b lie in one of the windows.                *)
Covered(a, b) == \E k \in 1..Len(windows) : Holds(windows[k], a, b)

(* How far the loop is: the windows so far are full and begin at least one *)
(* step before the next, what begins before the next is covered, and the   *)
(* next one reaches beyond the ones so far.                                *)
LoopInv ==
  /\ pc = "whole" => start = 0 /\ windows = << >>
  /\ pc = "tile" =>
       /\ WINDOW_CHARS < n /\ start + WINDOW_CHARS - WINDOW_STEP < n
       /\ \A k \in 1..Len(windows) : windows[k].len = WINDOW_CHARS
       /\ \A k \in 1..Len(windows) :
            windows[k].start + WINDOW_STEP <= start
       /\ \A a \in 0..(start - 1) : \A b \in a..n :
            b - a <= OVERLAP => Covered(a, b)

(* No excerpt of up to WINDOW_CHARS - WINDOW_STEP + 1 characters falls     *)
(* between two windows, the end of the stream included: "so an excerpt or  *)
(* truncated copy still matches" (simhash.rs:4-5) needs a window there.    *)
EveryExcerptCovered ==
  pc = "done" /\ n > WINDOW_CHARS =>
    \A a \in 0..n : \A b \in a..n : b - a <= OVERLAP => Covered(a, b)

(* A window lies within the stream, and none is a stub: even the last one  *)
(* is longer than the overlap, so that its fingerprint says something.     *)
NoStubs ==
  \A k \in 1..Len(windows) :
    /\ windows[k].start + windows[k].len <= n
    /\ windows[k].len > WINDOW_CHARS - WINDOW_STEP
    /\ windows[k].len <= WINDOW_CHARS

(* The loop ends: it has no bound other than that the end is reached.      *)
Terminates == <>(pc = "done")
=============================================================================
