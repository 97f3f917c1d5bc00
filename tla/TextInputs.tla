------------------------------ MODULE TextInputs ------------------------------
(* The texts that the functions of stego are called on. *)
EXTENDS StegoText

CONSTANTS
  Char,   \* the characters a text is made of
  Texts   \* the texts

ASSUME CharAssumption == \A c \in Char : c.class \in Class
ASSUME TextsAssumption == \A t \in Texts : t \in Seq(Char)
=============================================================================
