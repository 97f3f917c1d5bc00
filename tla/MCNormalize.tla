------------------------------ MODULE MCNormalize ------------------------------
(* A letter and an accent that composes with it in either case; one that   *)
(* composes with its mark in lower case only, as U+01F0; the three sigmas, *)
(* two of which have the same capital; a capital that lowercases to a      *)
(* letter and a mark.  All texts of three characters, those of four over   *)
(* the characters that interact across a distance.                         *)
EXTENDS Normalize

CONSTANTS MaxLength, MaxCore   \* bounds: lengths of texts

MCAlnum == {"e", "e-acute", "E", "E-acute", "sigma", "final-sigma", "Sigma",
            "I-dot", "i", "j", "j-caron", "J"}
MCMarks == {"acute", "dot", "caron"}
MCZeroWidth == {"zwnj"}
MCSpace == {BLANK, "newline"}
MCPunct == {","}
MCComposite == <<"e", "acute">> :> "e-acute" @@ <<"E", "acute">> :> "E-acute"
                 @@ <<"j", "caron">> :> "j-caron"
MCLower(c) == CASE c = "Sigma" -> << "sigma" >>
                [] c = "E" -> << "e" >>
                [] c = "E-acute" -> << "e-acute" >>
                [] c = "J" -> << "j" >>
                [] c = "I-dot" -> << "i", "dot" >>
                [] OTHER -> << c >>
MCUpper(c) == CASE c \in {"sigma", "final-sigma"} -> "Sigma"
                [] c = "Sigma" -> "sigma"
                [] c = "e" -> "E"
                [] c = "E" -> "e"
                [] c = "e-acute" -> "E-acute"
                [] c = "E-acute" -> "e-acute"
                [] c = "j" -> "J"
                [] c = "J" -> "j"
                [] OTHER -> c
Inputs == {"e", "e-acute", "sigma", "final-sigma", "Sigma", "I-dot", "j",
           "acute", "caron", "zwnj", BLANK, ","}
Core == {"e", "acute", "zwnj", BLANK, ","}
MCTexts == SeqOf(Inputs, MaxLength) \cup SeqOf(Core, MaxCore)
=============================================================================
