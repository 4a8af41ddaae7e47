--------------------------------- MODULE Xml ---------------------------------
(***************************************************************************)
(* The vocabulary the parser modules share: the ASCII bytes the grammar of *)
(* sax.c tells apart, and the events a parser reports to its user.         *)
(***************************************************************************)
EXTENDS Integers, Sequences

TAB == 9    NL == 10    CR == 13    SP == 32
BANG == 33  QUOT == 34  AMP == 38   APOS == 39  DASH == 45
SLASH == 47 SEMI == 59  LT == 60    EQ == 61    GT == 62    QMARK == 63
cA == 65    cC == 67    cD == 68    cT == 84
LSQ == 91   RSQ == 93

Letter == [a |-> 97, b |-> 98, c |-> 99, d |-> 100, e |-> 101, g |-> 103,
           l |-> 108, m |-> 109, o |-> 111, p |-> 112, q |-> 113,
           s |-> 115, t |-> 116, u |-> 117, v |-> 118, x |-> 120]

IsSpace(c) == c \in {SP, TAB, CR, NL}

\* The predefined entities; every other one is reported as a question mark.
EntityName == [amp  |-> <<Letter.a, Letter.m, Letter.p>>,
               quot |-> <<Letter.q, Letter.u, Letter.o, Letter.t>>,
               apos |-> <<Letter.a, Letter.p, Letter.o, Letter.s>>,
               lt   |-> <<Letter.l, Letter.t>>,
               gt   |-> <<Letter.g, Letter.t>>]

EntityChar(name) ==
    CASE name = EntityName.amp  -> AMP
      [] name = EntityName.quot -> QUOT
      [] name = EntityName.apos -> APOS
      [] name = EntityName.lt   -> LT
      [] name = EntityName.gt   -> GT
      [] OTHER                  -> QMARK

(***************************************************************************)
(* Events.  The cdataHook "can be called several times with smaller sized  *)
(* data for a single string", so what a user may rely on is the text       *)
(* between two tags, not how it was cut: Say joins adjacent pieces.        *)
(***************************************************************************)
Text(data) == [event |-> "cdata", data |-> data]

Tag(type, name, attrs) ==
    [event |-> "tag", type |-> type, name |-> name, attrs |-> attrs]

EndsInText(log) == log # <<>> /\ log[Len(log)].event = "cdata"

Say(log, data) ==
    IF data = <<>> THEN log
    ELSE IF EndsInText(log)
         THEN [log EXCEPT ![Len(log)] = Text(@.data \o data)]
         ELSE Append(log, Text(data))

\* A log whose last text lost its end.
Truncations(log) ==
    IF EndsInText(log)
    THEN {log, SubSeq(log, 1, Len(log) - 1)} \cup
         {[log EXCEPT ![Len(log)] = Text(SubSeq(@.data, 1, k))] :
            k \in 1 .. Len(log[Len(log)].data)}
    ELSE {log}
=============================================================================
