------------------------------- MODULE Escape -------------------------------
(***************************************************************************)
(* iks_escape and iks_unescape of src/src/utility.c, on strings as         *)
(* sequences of characters.                                                *)
(***************************************************************************)
EXTENDS Integers, Sequences, SequencesExt

Amp  == <<"&", "a", "m", "p", ";">>
Quot == <<"&", "q", "u", "o", "t", ";">>
Apos == <<"&", "a", "p", "o", "s", ";">>
Lt   == <<"&", "l", "t", ";">>
Gt   == <<"&", "g", "t", ";">>

\* The first pass: bytes added for a character.
Extra(c) ==
    CASE c = "&" -> 4 [] c \in {"<", ">"} -> 3 [] c \in {"'", "\""} -> 5 [] OTHER -> 0

\* The second pass: what is written for it.
Written(c) ==
    CASE c = "&" -> Amp [] c = "'" -> Apos [] c = "\"" -> Quot
      [] c = "<" -> Lt  [] c = ">" -> Gt   [] OTHER    -> <<c>>

EscapedSize(src) == FoldLeft(LAMBDA n, c : n + Extra(c), Len(src), src)

Escaped(src) == FlattenSeq([k \in 1 .. Len(src) |-> Written(src[k])])

\* The character an entity at src[i] stands for and its length, or the & itself.
IsAt(src, i, e) == i + Len(e) - 1 <= Len(src) /\ SubSeq(src, i, i + Len(e) - 1) = e
EntityAt(src, i) ==
    CASE IsAt(src, i, Amp)  -> [char |-> "&",  size |-> 5]
      [] IsAt(src, i, Quot) -> [char |-> "\"", size |-> 6]
      [] IsAt(src, i, Apos) -> [char |-> "'",  size |-> 6]
      [] IsAt(src, i, Lt)   -> [char |-> "<",  size |-> 4]
      [] IsAt(src, i, Gt)   -> [char |-> ">",  size |-> 4]
      [] OTHER              -> [char |-> src[i], size |-> 1]

\* The loop over i, whose index only stops where no entity goes over it.
UnescapeRoundShort(src, u, i) ==
    IF i < u.i THEN u
    ELSE LET e == EntityAt(src, i) IN [ret |-> Append(u.ret, e.char), i |-> i + (IF e.size = 1 THEN 1 ELSE e.size - 1)]
UnescapeRound(src, u, i) ==
    IF i < u.i THEN u
    ELSE LET e == EntityAt(src, i) IN [ret |-> Append(u.ret, e.char), i |-> i + e.size]
Unescaped(src) ==
    FoldLeft(LAMBDA u, i : UnescapeRound(src, u, i), [ret |-> <<>>, i |-> 1],
             [i \in 1 .. Len(src) |-> i]).ret

-----------------------------------------------------------------------------
\* Unescaping gives back what was escaped, and no more than was escaped: a text
\* that looks like an entity stays one.
EscapeRoundTrip(s) == Unescaped(Escaped(s)) = s

\* The size of the first pass is what the second one writes.
EscapeFits(s) == Len(Escaped(s)) = EscapedSize(s)
=============================================================================
