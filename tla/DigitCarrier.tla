----------------------------- MODULE DigitCarrier -----------------------------
(***************************************************************************)
(* The two carriers without a code, tag.rs and zwbin.rs.  Both put a magic *)
(* and the payload behind the text, every byte as a fixed number of digits *)
(* with one invisible code point per digit, and both read back all code    *)
(* points of their alphabet, wherever in the text they stand.              *)
(*   tag    two hexadecimal digits per byte, as Unicode tag characters     *)
(*   zwbin  eight bits per byte, as U+200B and U+200C                      *)
(***************************************************************************)
EXTENDS StegoText

CONSTANTS
  CLASS,    \* what the code points of the alphabet are to other code
  BASE,     \* of the digits, at least 2
  DIGITS,   \* digits per byte, at least 1
  MAGIC     \* the bytes before the payload

(* The alphabet: tag characters, of which some are no digits, or bits.     *)
NoDigit == BASE
CodePoint(d) == [class |-> CLASS, digit |-> d]
InAlphabet(c) == c.class = CLASS /\ "digit" \in DOMAIN c

(* Digit k of a byte, the most significant one first. *)
Digit(byte, k) == (byte \div BASE^(DIGITS - k)) % BASE

(* Mutant of Encode: a byte's digits are written in reverse.               *)
EncodeReversed(payload) ==
  LET bytes == MAGIC \o payload
  IN  [n \in 1..(DIGITS * Len(bytes)) |->
         CodePoint(Digit(bytes[((n - 1) \div DIGITS) + 1],
                         DIGITS - ((n - 1) % DIGITS)))]

Encode(payload) ==
  LET bytes == MAGIC \o payload
  IN  [n \in 1..(DIGITS * Len(bytes)) |->
         CodePoint(Digit(bytes[((n - 1) \div DIGITS) + 1],
                         ((n - 1) % DIGITS) + 1))]

Embed(text, payload) == text \o Encode(payload)

None == [status |-> "none"]
Corrupt == [status |-> "corrupt"]
Payload(p) == [status |-> "payload", bytes |-> p]

(* The byte that digits DIGITS * (b - 1) + 1 .. DIGITS * b of run make.    *)
ByteAt(run, b) ==
  LET upto[k \in 0..DIGITS] ==
        IF k = 0 THEN 0
        ELSE upto[k - 1] * BASE + run[DIGITS * (b - 1) + k].digit
  IN  upto[DIGITS]

(* Mutant of Undecodable: digits that fill no byte are left over.          *)
UndecodableLenient(run) == \E n \in 1..Len(run) : run[n].digit = NoDigit

(* hex::decode fails; the number of bits is no multiple of eight. *)
Undecodable(run) ==
  \/ Len(run) % DIGITS # 0
  \/ \E n \in 1..Len(run) : run[n].digit = NoDigit

(* Mutant of Body: the magic is left on.                                   *)
BodyWithMagic(bytes) == bytes

Body(bytes) == SubSeq(bytes, Len(MAGIC) + 1, Len(bytes))

(* The code points of the alphabet, wherever they stand. *)
RunIn(text) == At(text, {k \in 1..Len(text) : InAlphabet(text[k])})

Extract(text) ==
  LET run == RunIn(text)
      bytes == [b \in 1..(Len(run) \div DIGITS) |-> ByteAt(run, b)]
      magic == Len(MAGIC)
  IN  IF run = << >> THEN None
      ELSE IF Undecodable(run) THEN Corrupt
      ELSE IF Len(bytes) >= magic /\ SubSeq(bytes, 1, magic) = MAGIC
        THEN Payload(Body(bytes))
      ELSE Corrupt
=============================================================================
