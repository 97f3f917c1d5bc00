----------------------------- MODULE MCTransport ------------------------------
(* Hosts of three and four words: a clean one; one with a compatibility    *)
(* form, an emoji in a word and a selector; and one with an emoji as a     *)
(* word of its own.                                                        *)
EXTENDS Transport

MCHosts ==
  {<<Plain, Blank, Plain, Newline, Plain>>,
   <<Compat, Newline, Plain, Emoji, Plain, Blank, Plain, Selector>>,
   <<Plain, Blank, Plain, Blank, Emoji, Blank, Plain>>}
MCPayloads == {<<3, 1>>, <<2, 2>>}
=============================================================================
