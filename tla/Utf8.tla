-------------------------------- MODULE Utf8 --------------------------------
(***************************************************************************)
(* The UTF-8 validator at the head of sax_core (sax.c): a decoder fed one  *)
(* byte at a time.  Its state is the part [max, len, char] of the parser   *)
(* (uni_max, uni_len, uni_char); max is 0 between characters.              *)
(***************************************************************************)
EXTENDS Integers

Byte == 0..255

\* Zero bytes, 0xFE and 0xFF never occur in a document.
Forbidden(c) == c \in {0, 254, 255}

Continuation(c) == c \div 64 = 2

\* Bytes of the sequence a lead byte announces, 0 for a byte that leads none.
SeqLength(c) ==
    CASE c \div 32 = 6   -> 2
      [] c \div 16 = 14  -> 3
      [] c \div 8  = 30  -> 4
      [] c \div 4  = 62  -> 5
      [] c \div 2  = 126 -> 6
      [] OTHER           -> 0

\* Payload of a lead byte: the bits under the mask the parser picks.
LeadBits(c) == c % 2^(7 - SeqLength(c))

\* The check against overlong sequences, with the limits the code compares to.
OverlongLimitOfTwo(max) == IF max = 2 THEN 128 ELSE 0
OverlongLimit(max) ==
    CASE max = 2 -> 128
      [] max = 3 -> 2047
      [] max = 4 -> 65535
      [] max = 5 -> 2097151
      [] max = 6 -> 67108863

UniInit == [max |-> 0, len |-> 0, char |-> 0]

InSequence(u) == u.max > 0

\* The byte is (part of) a multibyte character: sax_core jumps over its switch.
Multibyte(u, c) == InSequence(u) \/ c >= 128

Accumulate(u, c) == (u.char * 64) + (c % 64)

LastByte(u) == u.len + 1 = u.max

UniBad(u, c) ==
    \/ Forbidden(c)
    \/ InSequence(u) /\ \/ ~Continuation(c)
                        \/ LastByte(u) /\ Accumulate(u, c) < OverlongLimit(u.max)
    \/ ~InSequence(u) /\ c >= 128 /\ SeqLength(c) = 0

UniStep(u, c) ==
    IF InSequence(u)
    THEN IF LastByte(u) THEN [max |-> 0, len |-> u.len + 1, char |-> 0]
         ELSE [max |-> u.max, len |-> u.len + 1, char |-> Accumulate(u, c)]
    ELSE IF c >= 128 THEN [max |-> SeqLength(c), len |-> 1, char |-> LeadBits(c)]
    ELSE u

\* What is left of the state when the byte is refused: a continuation byte was
\* already counted and accumulated when its sequence turned out overlong.
UniAfterBad(u, c) ==
    IF ~Forbidden(c) /\ InSequence(u) /\ Continuation(c)
    THEN [max |-> u.max, len |-> u.len + 1, char |-> Accumulate(u, c)] ELSE u
=============================================================================
