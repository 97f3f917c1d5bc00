----------------------------- MODULE MCSoftBinding -----------------------------
(* usize and i32 of three and two bits.  Windows that fit, one up to the   *)
(* last offset; that end or begin beyond i32; whose end is beyond usize,   *)
(* and small when it wraps.  WindowFp has public fields: any may come.     *)
EXTENDS SoftBinding, SequencesExt

CONSTANT MaxWindows   \* bound: windows of a fingerprint

MCValues == {"h1"}
W(s, n) == [start |-> s, len |-> n, hash |-> "h1"]
MCCallerWindows == {W(0, 2), W(1, 2), W(2, 3), W(3, 6), W(5, 1), W(7, 7)}
MCFingerprints ==
  [whole : MCValues, windows : SeqOf(MCCallerWindows, MaxWindows)]
MCCallerAlgs == {"", ALG_WATERMARK}
MCForeign == {
  [alg |-> " ", blocks |-> << [scope |-> WholeAsset, value |-> "h1"] >>],
  [alg |-> ALG_FINGERPRINT, blocks |-> << >>],
  [alg |-> "other", blocks |-> << [scope |-> WholeAsset, value |-> "h9"] >>] }
=============================================================================
