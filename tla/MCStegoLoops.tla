----------------------------- MODULE MCStegoLoops -----------------------------
(* Every text of at most MaxLen characters, one character per class that   *)
(* the loops tell apart; the symbol is one that no embedding put there.    *)
EXTENDS StegoLoops

CONSTANT MaxLen

MCChar == {[class |-> c] : c \in {"letter", "space", "symbol", "format"}}
MCTexts == UNION {[1..n -> MCChar] : n \in 0..MaxLen}
=============================================================================
