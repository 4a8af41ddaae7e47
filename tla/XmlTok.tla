------------------------------- MODULE XmlTok -------------------------------
(***************************************************************************)
(* What the SAX parser of iksemel promises to its user, with no buffers:   *)
(* the document arrives one character at a time, every name, value and     *)
(* text is accumulated whole, memory is never short.  How the document is  *)
(* cut into iks_parse calls does not occur here, so a parser that          *)
(* implements this specification reports the same events for every way of  *)
(* cutting it (test/tst-sax.c tries every block size on its documents).    *)
(***************************************************************************)
EXTENDS Xml, Utf8

CONSTANT Docs

VARIABLES
    doc,     \* the document
    n,       \* characters of it that were accepted
    lines,   \* newlines among them
    uni,     \* UTF-8 state after them
    mode,    \* the construct the next character belongs to
    tag,     \* the tag read so far
    aux,     \* inside an entity, comment or section: what was matched so far
    out,     \* events reported
    status   \* "ok", "bad" (not well-formed) or "stopped" (out of memory)

vars == <<doc, n, lines, uni, mode, tag, aux, out, status>>

NoTag == [type |-> "none", name |-> <<>>, attrs |-> <<>>, key |-> <<>>, val |-> <<>>, quote |-> 0]
NewTag(type, name) == [NoTag EXCEPT !.type = type, !.name = name]

CdataOpen == <<cC, cD, cA, cT, cA, LSQ>>

Init == \E d \in Docs :
            <<doc, n, lines, uni, mode, tag, aux, out, status>> =
            <<d, 0, 0, UniInit, "text", NoTag, <<>>, <<>>, "ok">>

Ready == status = "ok" /\ n < Len(doc)
Char  == doc[n + 1]

\* The character has no place where it stands.
Wrong ==
    \/ UniBad(uni, Char)
    \/ mode = "entity"   /\ Char # SEMI /\ Len(aux) = 7
    \/ mode = "name"     /\ Char = SLASH /\ tag.type = "CLOSE"
    \/ mode = "inside"   /\ tag.type = "CLOSE" /\ Char # GT /\ ~IsSpace(Char)
    \/ mode = "empty"    /\ Char # GT
    \/ mode = "quote"    /\ ~IsSpace(Char) /\ Char \notin {APOS, QUOT}
    \/ mode = "comment1" /\ Char # DASH
    \/ mode = "comment"  /\ Len(aux) = 2 /\ Char # GT
    \/ mode = "section"  /\ Char # CdataOpen[Len(aux) + 1]

Accept == /\ Ready /\ ~Wrong
          /\ n' = n + 1
          /\ lines' = IF Char = NL THEN lines + 1 ELSE lines
          /\ uni' = UniStep(uni, Char)
          /\ UNCHANGED <<doc, status>>

Goto(m, t, a) == mode' = m /\ tag' = t /\ aux' = a
Stay == UNCHANGED <<mode, tag, aux>>
Back == Goto("text", NoTag, <<>>)
Quiet == UNCHANGED out

TextChar ==
    /\ mode = "text" /\ Accept
    /\ CASE Char = LT  -> Goto("lt", NoTag, <<>>) /\ Quiet
         [] Char = AMP -> Goto("entity", NoTag, <<>>) /\ Quiet
         [] OTHER      -> Stay /\ out' = Say(out, <<Char>>)

Entity ==
    /\ mode = "entity" /\ Accept
    /\ IF Char = SEMI THEN Back /\ out' = Say(out, <<EntityChar(aux)>>)
                      ELSE Goto(mode, tag, Append(aux, Char)) /\ Quiet

Lt ==
    /\ mode = "lt" /\ Accept /\ Quiet
    /\ CASE Char = SLASH -> Goto("name", NewTag("CLOSE", <<>>), <<>>)
         [] Char = QMARK -> Goto("pi", NoTag, <<>>)
         [] Char = BANG  -> Goto("bang", NoTag, <<>>)
         [] OTHER        -> Goto("name", NewTag("OPEN", <<Char>>), <<>>)

\* A name ends before the character that follows it: '>' closes the tag from
\* mode "inside", which this step enters without accepting a character.
NameEnds ==
    /\ mode = "name" /\ Ready /\ Char = GT
    /\ Goto("inside", tag, aux)
    /\ UNCHANGED <<doc, n, lines, uni, out, status>>

Name ==
    /\ mode = "name" /\ Accept /\ Quiet /\ Char # GT
    /\ CASE IsSpace(Char) -> Goto("inside", tag, aux)
         [] Char = SLASH  -> Goto("empty", [tag EXCEPT !.type = "SINGLE"], aux)
         [] OTHER         -> Goto(mode, [tag EXCEPT !.name = Append(@, Char)], aux)

Report == out' = Append(out, Tag(tag.type, tag.name, tag.attrs))

Inside ==
    /\ mode = "inside" /\ Accept
    /\ CASE Char = GT     -> Back /\ Report
         [] Char = SLASH  -> Goto("empty", [tag EXCEPT !.type = "SINGLE"], aux) /\ Quiet
         [] IsSpace(Char) -> Stay /\ Quiet
         [] OTHER         -> Goto("key", [tag EXCEPT !.key = <<Char>>], aux) /\ Quiet

Empty == mode = "empty" /\ Accept /\ Back /\ Report

\* After white space, anything before the '=' is skipped.
Key ==
    /\ mode \in {"key", "eq"} /\ Accept /\ Quiet
    /\ CASE Char = EQ     -> Goto("quote", tag, aux)
         [] IsSpace(Char) -> Goto("eq", tag, aux)
         [] OTHER         -> IF mode = "eq" THEN Stay
                             ELSE Goto(mode, [tag EXCEPT !.key = Append(@, Char)], aux)

Quote ==
    /\ mode = "quote" /\ Accept /\ Quiet
    /\ IF IsSpace(Char) THEN Stay ELSE Goto("value", [tag EXCEPT !.quote = Char], aux)

Value ==
    /\ mode = "value" /\ Accept /\ Quiet
    /\ IF Char = tag.quote
       THEN Goto("inside", [tag EXCEPT !.attrs = Append(@, <<tag.key, tag.val>>),
                                       !.key = <<>>, !.val = <<>>, !.quote = 0], aux)
       ELSE Goto(mode, [tag EXCEPT !.val = Append(@, Char)], aux)

Bang ==
    /\ mode = "bang" /\ Accept /\ Quiet
    /\ CASE Char = LSQ  -> Goto("section", NoTag, <<>>)
         [] Char = DASH -> Goto("comment1", NoTag, <<>>)
         [] Char = GT   -> Back
         [] OTHER       -> Goto("decl", NoTag, <<>>)

\* Processing instructions and declarations run to the next '>'.
Skip ==
    /\ mode \in {"pi", "decl"} /\ Accept /\ Quiet
    /\ IF Char = GT THEN Back ELSE Stay

Comment ==
    /\ mode \in {"comment1", "comment"} /\ Accept /\ Quiet
    /\ CASE mode = "comment1" -> Goto("comment", NoTag, <<>>)
         [] Len(aux) = 2      -> Back
         [] OTHER             -> Goto("comment", NoTag,
                                      IF Char = DASH THEN Append(aux, DASH) ELSE <<>>)

Section ==
    /\ mode = "section" /\ Accept /\ Quiet
    /\ IF Len(aux) = 5 THEN Goto("cdata", NoTag, <<>>) ELSE Goto(mode, tag, Append(aux, Char))

\* Brackets are held back until it is known that they do not close the section.
Cdata ==
    /\ mode = "cdata" /\ Accept
    /\ CASE Char = RSQ /\ Len(aux) < 2 -> Goto(mode, tag, Append(aux, RSQ)) /\ Quiet
         [] Char = RSQ /\ Len(aux) = 2 -> Stay /\ out' = Say(out, <<RSQ>>)
         [] Char = GT /\ Len(aux) = 2  -> Back /\ Quiet
         [] OTHER -> Goto(mode, tag, <<>>) /\ out' = Say(out, Append(aux, Char))

Over(s) == status' = s /\ Goto("over", NoTag, <<>>) /\ uni' = UniInit

\* Text that was not yet handed to the user when the error is met is lost.
Reject == Ready /\ Wrong /\ Over("bad") /\ out' \in Truncations(out)
          /\ UNCHANGED <<doc, n, lines>>

Stop == status = "ok" /\ Over("stopped") /\ out' \in Truncations(out)
        /\ UNCHANGED <<doc, n, lines>>

Restart == \E d \in Docs :
    /\ doc' = d /\ n' = 0 /\ lines' = 0 /\ uni' = UniInit
    /\ Back /\ out' = <<>> /\ status' = "ok"

Next == \/ TextChar \/ Entity \/ Lt \/ NameEnds \/ Name \/ Inside \/ Empty \/ Key
        \/ Quote \/ Value \/ Bang \/ Skip \/ Comment \/ Section \/ Cdata
        \/ Reject \/ Stop \/ Restart

Spec == Init /\ [][Next]_vars
=============================================================================
