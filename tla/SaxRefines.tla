----------------------------- MODULE SaxRefines -----------------------------
(***************************************************************************)
(* sax_core implements the unbuffered tokenizer XmlTok: the state of the   *)
(* tokenizer is read off the contexts, the stack, the bytes of the current *)
(* buffer that are still pending and the events the hooks have seen.       *)
(***************************************************************************)
EXTENDS Sax

\* The stack as it will be when the pending bytes have been pushed.
Whole == stack \o Pending

From(p) == SubSeq(Whole, p + 1, Len(Whole))
\* The part of s before its first NUL.
Upto0(s) ==
    LET ends == {k \in 1 .. Len(s) : s[k] = 0}
    IN  IF ends = {} THEN s ELSE SubSeq(s, 1, (CHOOSE k \in ends : \A j \in ends : k <= j) - 1)
HasEnd(s) == \E k \in 1 .. Len(s) : s[k] = 0

\* After an error, or without the parser, nothing more can be reported.
Finished == ret # "OK" \/ phase = "deleted"

Mode ==
    CASE Finished -> "over"
      [] context = "CDATA"     -> "text"
      [] context = "ENTITY"    -> "entity"
      [] context = "TAG_START" -> "lt"
      [] context = "TAG"       -> "name"
      [] context = "TAG_END"   -> IF tagtype = "SINGLE" THEN "empty" ELSE "inside"
      [] context \in {"ATTRIBUTE", "ATTRIBUTE_2"} -> "inside"
      [] context = "WHITESPACE" -> IF oldcontext = "ATTRIBUTE_1" THEN "eq" ELSE "inside"
      [] context = "ATTRIBUTE_1" -> IF HasEnd(From(atts[attcur + 1])) THEN "eq" ELSE "key"
      [] context = "VALUE" -> "quote"
      [] context \in {"VALUE_APOS", "VALUE_QUOT"} -> "value"
      [] context = "PI" -> "pi"
      [] context = "MARKUP" -> "bang"
      [] context = "MARKUP_1" -> "decl"
      [] context = "COMMENT" -> "comment1"
      [] context \in {"COMMENT_1", "COMMENT_2", "COMMENT_3"} -> "comment"
      [] context \in DOMAIN SectOpening -> "section"
      [] context \in {"SECT_CDATA_C", "SECT_CDATA_E", "SECT_CDATA_E2"} -> "cdata"

CdataPrefix == <<cC, cD, cA, cT, cA>>

AuxOf ==
    CASE Mode = "entity" -> entity
      [] Mode = "section" ->
            SubSeq(CdataPrefix, 1, CASE context = "SECT"         -> 0
                                     [] context = "SECT_CDATA"   -> 1
                                     [] context = "SECT_CDATA_1" -> 2
                                     [] context = "SECT_CDATA_2" -> 3
                                     [] context = "SECT_CDATA_3" -> 4
                                     [] context = "SECT_CDATA_4" -> 5)
      [] Mode = "comment" -> (CASE context = "COMMENT_1" -> <<>>
                               [] context = "COMMENT_2" -> <<DASH>>
                               [] context = "COMMENT_3" -> <<DASH, DASH>>)
      [] Mode = "cdata" -> (CASE context = "SECT_CDATA_C"  -> <<>>
                             [] context = "SECT_CDATA_E"  -> <<RSQ>>
                             [] context = "SECT_CDATA_E2" -> <<RSQ, RSQ>>)
      [] OTHER -> <<>>

AttrAt(i) == Upto0(From(atts[i]))

TagOf ==
    [type  |-> IF Mode \in {"name", "inside", "empty", "key", "eq", "quote", "value"}
               THEN tagtype ELSE "none",
     name  |-> IF Mode \in {"name", "inside", "empty", "key", "eq", "quote", "value"}
               THEN Upto0(From(tagName)) ELSE <<>>,
     attrs |-> IF Mode \in {"inside", "empty", "key", "eq", "quote", "value"}
               THEN [i \in 1 .. attcur \div 2 |-> <<AttrAt(2 * i - 1), AttrAt(2 * i)>>]
               ELSE <<>>,
     key   |-> IF Mode \in {"key", "eq", "quote", "value"} THEN AttrAt(attcur + 1) ELSE <<>>,
     val   |-> IF Mode = "value" THEN AttrAt(attcur + 2) ELSE <<>>,
     quote |-> IF Mode = "value" THEN Delimiter ELSE 0]

\* Character data of the current buffer that the hook gets later.
Undelivered ==
    IF phase = "core" /\ context \in {"CDATA", "SECT_CDATA_C"} THEN Buffered ELSE <<>>

StatusOf == CASE ~Finished      -> "ok"
              [] ret = "BADXML" -> "bad"
              [] OTHER          -> "stopped"

Tok == INSTANCE XmlTok WITH
    n      <- nrBytes,
    lines  <- nrLines,
    uni    <- IF Finished THEN UniInit ELSE uni,
    mode   <- Mode,
    tag    <- TagOf,
    aux    <- AuxOf,
    out    <- Say(seen, Undelivered),
    status <- StatusOf

\* The events, the verdict and the reported position (iks_nr_bytes and
\* iks_nr_lines) are those of the unbuffered tokenizer, however the document
\* is cut into calls and wherever the stack is when it has to move.
ImplementsTokenizer == Tok!Spec
=============================================================================
