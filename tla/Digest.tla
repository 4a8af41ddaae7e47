------------------------------- MODULE Digest -------------------------------
(***************************************************************************)
(* How src/src/sha.c and src/src/md5.c cut a message into blocks, pad it   *)
(* and count its length, over any sequence of calls.  The compression      *)
(* functions are left out: a digest is the sequence of blocks they get.    *)
(***************************************************************************)
EXTENDS Integers, Sequences, SequencesExt

CONSTANTS
    Block,      \* bytes of a block (64); the length is in the last two words
    Word        \* numbers in a word of the length (2^32)

ASSUME DigestAssumption == Block \in Nat \ {0, 1, 2} /\ Word \in Nat /\ 8 * Block < Word

Mark == -1        \* 0x80, and no byte of a message
Zeros(n) == [k \in 1 .. n |-> 0]
Body == Block - 2      \* where the length begins (56)

-----------------------------------------------------------------------------
(* SHA-1: byte by byte, with a block compressed as soon as it is full.     *)

ShaInit == [buf |-> <<>>, done |-> <<>>, hi |-> 0, lo |-> 0]

Counted(h) == LET lo == (h.lo + 8) % Word
              IN  [h EXCEPT !.lo = lo, !.hi = (@ + IF lo < 8 THEN 1 ELSE 0) % Word]
Compressed(h) == [h EXCEPT !.done = Append(@, h.buf), !.buf = <<>>]

ShaByte(h, b) ==
    LET g == [h EXCEPT !.buf = Append(@, b)]
    IN  Counted(IF Len(g.buf) = Block THEN Compressed(g) ELSE g)
ShaBuffer(h, data) == FoldLeft(ShaByte, h, data)

\* The length is that of the data, taken before the padding is counted with it.
ShaFinish(h) ==
    LET marked == ShaBuffer(h, <<Mark>>)
        padded == ShaBuffer(marked, Zeros((Body - Len(marked.buf)) % Block))
    IN  ShaBuffer(padded, <<h.hi, h.lo>>)

ShaHash(h, data, finish) ==
    LET g == ShaBuffer(h, data) IN IF finish THEN ShaFinish(g) ELSE g

-----------------------------------------------------------------------------
(* MD5: a full block stays in the buffer until more data comes.  The words *)
(* of the length are of type unsigned long: long numbers, not Word.        *)

Md5Init == [buf |-> <<>>, done |-> <<>>, hi |-> 0, lo |-> 0]

Plus(h, bits, long) ==
    LET lo == (h.lo + bits) % long
    IN  [h EXCEPT !.lo = lo, !.hi = (@ + IF lo < bits THEN 1 ELSE 0) % long]

\* What does not fit the buffer, block by block.
Md5Rest(h, data, long) ==
    FoldLeft(LAMBDA g, k : [Plus(Compressed(g), 8 * Block, long)
                            EXCEPT !.buf = SubSeq(data, (k - 1) * Block + 1,
                                                  IF k * Block < Len(data) THEN k * Block ELSE Len(data))],
             h, [k \in 1 .. (Len(data) + Block - 1) \div Block |-> k])

Md5Buffer(h, data, long) ==
    LET room == Block - Len(h.buf)
        j    == IF Len(data) < room THEN Len(data) ELSE room
    IN  Md5Rest([h EXCEPT !.buf = @ \o SubSeq(data, 1, j)], SubSeq(data, j + 1, Len(data)), long)

Md5FinishFull(h, long) ==
    LET counted == Plus(h, 8 * Len(h.buf), long)
        marked  == [counted EXCEPT !.buf = Append(@, Mark)]
        spilled == IF Len(marked.buf) > Body
                   THEN Compressed([marked EXCEPT !.buf = @ \o Zeros(Block - Len(@))]) ELSE marked
    IN  Compressed([spilled EXCEPT !.buf =
            @ \o Zeros(Body - Len(@)) \o <<spilled.lo % Word, spilled.hi % Word>>])
Md5Finish(h, long) ==
    LET counted == Plus(h, 8 * Len(h.buf), long)
        emptied == IF Len(counted.buf) = Block THEN Compressed(counted) ELSE counted
        marked  == [emptied EXCEPT !.buf = Append(@, Mark)]
        spilled == IF Len(marked.buf) > Body
                   THEN Compressed([marked EXCEPT !.buf = @ \o Zeros(Block - Len(@))]) ELSE marked
    IN  Compressed([spilled EXCEPT !.buf =
            @ \o Zeros(Body - Len(@)) \o <<spilled.lo % Word, spilled.hi % Word>>])

Md5Hash(h, data, finish, long) ==
    LET g == Md5Buffer(h, data, long) IN IF finish THEN Md5Finish(g, long) ELSE g

-----------------------------------------------------------------------------
(* What both promise.  calls is a message in pieces, the last one finishing.*)

Message(calls) == FlattenSeq(calls)

Sha(calls) ==
    FoldLeft(LAMBDA h, k : ShaHash(h, calls[k], k = Len(calls)), ShaInit, [k \in 1 .. Len(calls) |-> k])
Md5(calls, long) ==
    FoldLeft(LAMBDA h, k : Md5Hash(h, calls[k], k = Len(calls), long), Md5Init, [k \in 1 .. Len(calls) |-> k])

\* The message, a mark, the fewest zeros that leave room for the length, and the
\* length in bits, as the standards define them.
Padded(message, length) ==
    LET fill == CHOOSE n \in 0 .. Block - 1 : (Len(message) + 1 + n) % Block = Body
    IN  message \o <<Mark>> \o Zeros(fill) \o length
Bits(message) == 8 * Len(message)
HiWord(message) == (Bits(message) \div Word) % Word
LoWord(message) == Bits(message) % Word

BlocksOf(h) == FlattenSeq(h.done)
IsCut(h) == h.buf = <<>> /\ \A k \in DOMAIN h.done : Len(h.done[k]) = Block

\* However the message is cut into calls, SHA-1 compresses its padded blocks.
ShaPads(calls) ==
    LET h == Sha(calls) m == Message(calls)
    IN  IsCut(h) /\ BlocksOf(h) = Padded(m, <<HiWord(m), LoWord(m)>>)

\* MD5 too, as long as the bits of the message fit a word or longs are words: where
\* they are wider the carry into the upper word is lost.
Md5Pads(calls, long) ==
    LET h == Md5(calls, long) m == Message(calls)
    IN  long = Word \/ Bits(m) < Word => IsCut(h) /\ BlocksOf(h) = Padded(m, <<LoWord(m), HiWord(m)>>)
=============================================================================
