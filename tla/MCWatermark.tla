------------------------------ MODULE MCWatermark -----------------------------
(* Small hosts: words of one letter, one pointer and one tag byte.  One    *)
(* pointer is cut to its length, one padded.                               *)
EXTENDS Watermark

Letter(v) == [class |-> "letter", val |-> v]
Space == [class |-> "space"]
Joiner == [class |-> "symbol", byte |-> <<"foreign">>, part |-> 0]

MCHostChar == {Letter("a"), Letter("b"), Space, Joiner}

ThreeWords == <<Letter("a"), Space, Letter("b"), Space, Letter("a")>>
FourWords == ThreeWords \o <<Space, Letter("b")>>
TwoWords == <<Letter("a"), Space, Letter("b")>>
(* A joiner behind a word lengthens the run that is put there.             *)
JoinerBehind == <<Letter("a"), Joiner, Space, Letter("b"), Space, Letter("a")>>
JoinedWord == <<Letter("a"), Joiner, Letter("b"), Space, Letter("a"), Space,
                Letter("b")>>

ShortHosts == {ThreeWords, TwoWords, JoinerBehind}
FourWordHosts == {FourWords}
JoinedHosts == {JoinedWord}

OnePointer == {<<2, 3>>}
TwoPointers == OnePointer \cup {<< >>}

KeySymmetry == Permutations(Key)
=============================================================================
