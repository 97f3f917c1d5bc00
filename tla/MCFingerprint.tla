----------------------------- MODULE MCFingerprint ----------------------------
(* Texts over two letters, grams of two characters, fingerprints of three  *)
(* bits, windows twice as long as the step, as in the code.  The digest    *)
(* sets a bit for the first letter, one for the last and one for equal     *)
(* letters, so that bits agree, differ and tie.                            *)
EXTENDS Fingerprint, SequencesExt

CONSTANT MaxLength   \* bound: the longest text

MCTexts == SeqOf({"a", "b"}, MaxLength)
MCLengths == 0..MaxLength
Bit(b) == IF b THEN 1 ELSE 0
MCDigest(g) ==
  << Bit(g[1] = "a"), Bit(g[Len(g)] = "b"), Bit(g[1] = g[Len(g)]) >>
=============================================================================
