------------------------------- MODULE Base64 -------------------------------
(***************************************************************************)
(* The Base64 encoder and decoder of src/src/base64.c, on bytes.  A letter *)
(* of the alphabet is written as its index, which is all that matters.     *)
(***************************************************************************)
EXTENDS Integers, Sequences, SequencesExt

CONSTANT CharSigned      \* the type char has a sign

ASSUME Base64Assumption == CharSigned \in BOOLEAN

Padding == 64
Outside == 65     \* what is read before the beginning of the alphabet

\* *buf, as the int it is promoted to.
Char(b) == IF CharSigned /\ b >= 128 THEN b - 256 ELSE b

\* base64_charset[i].  Bits of a negative int are those of its two's complement,
\* which % and \div give.
Letter(i) == IF i \in 0 .. 63 THEN i ELSE Outside

\* Letters of one, two or three bytes.
OneByte(s)    == <<Letter(Char(s[1]) \div 4), Letter((s[1] % 4) * 16), Padding, Padding>>
TwoBytes(s)   == <<Letter(Char(s[1]) \div 4), Letter((s[1] % 4) * 16 + Char(s[2]) \div 16),
                   Letter((s[2] % 16) * 4), Padding>>
ThreeBytes(s) == <<Letter(Char(s[1]) \div 4), Letter((s[1] % 4) * 16 + Char(s[2]) \div 16),
                   Letter((s[2] % 16) * 4 + Char(s[3]) \div 64), Letter(s[3] % 64)>>

Group(s, k) == SubSeq(s, 3 * k - 2, 3 * k)

iks_base64_encode(s) ==
    LET full == FlattenSeq([k \in 1 .. Len(s) \div 3 |-> ThreeBytes(Group(s, k))])
        rest == SubSeq(s, 3 * (Len(s) \div 3) + 1, Len(s))
    IN  CASE Len(rest) = 0 -> full
          [] Len(rest) = 1 -> full \o OneByte(rest)
          [] Len(rest) = 2 -> full \o TwoBytes(rest)

\* Bytes allocated for the letters and the NUL of n bytes.
EncodeSize(n) == (n * 8) \div 6 + 4

\* One letter; what is not in the alphabet counts as its first letter.  res is the
\* block, at the byte *res, and index the place of the letter in its group.
Value(l) == IF l \in 0 .. 63 THEN l ELSE 0
Put(d, b)  == [d EXCEPT !.res[d.at] = (@ + b) % 256]
Next8(d)   == [d EXCEPT !.at = @ + 1]
DecodeLetterSlipped(d, l) ==
    LET v == Value(l)
    IN  [CASE d.index = 0 -> Put(d, v * 4)
           [] d.index = 1 -> Put(Next8(Put(d, v \div 16)), v * 16)
           [] d.index = 2 -> Put(Next8(Put(d, v \div 8)), v * 64)
           [] d.index = 3 -> Next8(Put(d, v))
         EXCEPT !.index = (d.index + 1) % 4]
DecodeLetter(d, l) ==
    LET v == Value(l)
    IN  [CASE d.index = 0 -> Put(d, v * 4)
           [] d.index = 1 -> Put(Next8(Put(d, v \div 16)), v * 16)
           [] d.index = 2 -> Put(Next8(Put(d, v \div 4)), v * 64)
           [] d.index = 3 -> Next8(Put(d, v))
         EXCEPT !.index = (d.index + 1) % 4]

DecodeSize(n) == (n * 6) \div 8 + 1

\* The string a caller reads in the block: up to its first NUL.
CString(block) == SubSeq(block, 1, SelectInSeq(block, LAMBDA b : b = 0) - 1)

iks_base64_decode(letters) ==
    LET blank == [res |-> [k \in 1 .. DecodeSize(Len(letters)) |-> 0], at |-> 1, index |-> 0]
        d     == FoldLeft(DecodeLetter, blank, letters)
    IN  CString([d.res EXCEPT ![d.at] = 0])

-----------------------------------------------------------------------------
\* A string is what its encoding decodes to (SASL sends and reads such strings).
RoundTrip(s) == iks_base64_decode(iks_base64_encode(s)) = s

\* The letters and the NUL fit the block they are written to.
FitsBlock(s) == Len(iks_base64_encode(s)) + 1 <= EncodeSize(Len(s))
=============================================================================
