------------------------------ MODULE Stanzas ------------------------------
(***************************************************************************)
(* What a reader of a whole XML stream finds in it: its header, the first  *)
(* level elements as trees, and its end.  Nothing here is incremental: an  *)
(* element is the part of the stream between two points of level zero.     *)
(*                                                                         *)
(* A stream is a sequence of tokens, the calls of the SAX hooks: a tag of  *)
(* some kind ("open", "single", "close") and name, or "text" whose name is *)
(* one piece of the text.  A tree is the list of its items in document     *)
(* order, each with its depth.                                             *)
(***************************************************************************)
EXTENDS Integers, Sequences, FiniteSetsExt

Header == "stream:stream"

IsTag(t)  == t.kind \in {"open", "single"}
IsText(t) == t.kind = "text"

Element(d, name) == [depth |-> d, name |-> name, text |-> <<>>]
Text(d, text)    == [depth |-> d, name |-> "", text |-> text]

\* Tags open after the first i tokens; the stream itself does not count.
Opened(s, i) == {k \in 1 .. i : s[k].kind = "open" /\ s[k].name # Header}
Closed(s, i) == {k \in 1 .. i : s[k].kind = "close" /\ s[k].name # Header}

Level(s, i) == Cardinality(Opened(s, i)) - Cardinality(Closed(s, i))

\* Numbers from the least to the greatest: the n-th has n of them up to it.
UpTo(S, i) == {j \in S : j <= i}
InOrder(S) == [n \in 1 .. Cardinality(S) |-> CHOOSE i \in S : Cardinality(UpTo(S, i)) = n]

\* Pieces of text with no tag between them are one text.
Run(s, i) == {k \in i .. Len(s) : \A j \in i .. k : IsText(s[j])}
TextFrom(s, i) == [k \in 1 .. Cardinality(Run(s, i)) |-> s[i + k - 1].name]

\* The items of the element between two tokens.
Starts(s, first, last) ==
    {i \in first .. last : IsTag(s[i]) \/ (IsText(s[i]) /\ ~IsText(s[i - 1]))}

Item(s, i) == IF IsTag(s[i]) THEN Element(Level(s, i - 1), s[i].name)
              ELSE Text(Level(s, i - 1), TextFrom(s, i))

Tree(s, first, last) ==
    LET starts == Starts(s, first, last)
    IN  [n \in 1 .. Cardinality(starts) |-> Item(s, InOrder(starts)[n])]

\* The first token of the element that ends with token i.
Firsts(s, i) == {k \in 1 .. i : IsTag(s[k]) /\ Level(s, k - 1) = 0}
Begin(s, i) == Max(Firsts(s, i))

\* Tokens with which something of the first level is complete.
IsHeader(s, i) == IsTag(s[i]) /\ s[i].name = Header
IsEnd(s, i)    == s[i].kind = "close" /\ s[i].name = Header
IsStanza(s, i) ==
    \/ s[i].kind = "single" /\ s[i].name # Header /\ Level(s, i - 1) = 0
    \/ s[i].kind = "close" /\ s[i].name # Header /\ Level(s, i) = 0

Event(type, node) == [type |-> type, node |-> node]
NoNode == <<>>

EventAt(s, i) ==
    CASE IsHeader(s, i) -> Event("START", <<Element(0, Header)>>)
      [] IsEnd(s, i)    -> Event("STOP", NoNode)
      [] OTHER -> Event(IF s[i].name = "stream:error" THEN "ERROR" ELSE "NORMAL",
                        Tree(s, Begin(s, i), i))

\* The events of a stream.  SASL challenges are between server and library.  What
\* an element is says the tag that ends it; nobody compares it with the first one.
Reported(s, i) == \/ IsHeader(s, i) \/ IsEnd(s, i)
                  \/ IsStanza(s, i) /\ s[i].name # "challenge"

Events(s) ==
    LET told == {i \in 1 .. Len(s) : Reported(s, i)}
    IN  [n \in 1 .. Cardinality(told) |-> EventAt(s, InOrder(told)[n])]
=============================================================================
