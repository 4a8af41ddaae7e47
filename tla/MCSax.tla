------------------------------- MODULE MCSax -------------------------------
(***************************************************************************)
(* Documents for model checking the SAX parser.  Each is short, and between *)
(* them they take every context through its normal and its error exits;    *)
(* most are reduced forms of the documents of test/tst-sax.c.              *)
(***************************************************************************)
EXTENDS SaxRefines

a == Letter.a   b == Letter.b   c == Letter.c   x == Letter.x

CdataStart == <<LT, BANG, LSQ, cC, cD, cA, cT, cA, LSQ>>

\* Tags and attributes, with the ways they can end and go wrong.
TagDocs == {
    <<LT, a, SLASH, GT, b>>,
    <<LT, a, b, GT, c, NL, LT, SLASH, a, b, SP, GT>>,
    <<LT, a, SP, b, EQ, APOS, c, APOS, SP, c, EQ, QUOT, APOS, QUOT, SLASH, GT>>,
    <<LT, a, SP, b, EQ, APOS, APOS, c, EQ, QUOT, a, QUOT, a, EQ, APOS, b, APOS, GT>>,
    <<LT, a, SP, b, SP, EQ, TAB, APOS, c, APOS, SP, GT>>,
    <<LT, a, SP, b, SP, c, EQ, APOS, x, APOS, SLASH, GT>>,
    <<LT, a, SP, SLASH, GT, LT, SLASH, GT>>,
    <<LT, SLASH, a, SLASH, GT>>,
    <<LT, a, SLASH, x>>,
    <<LT, a, SP, GT, LT, a, SP, b, EQ, c>>,
    <<LT, SLASH, a, SP, x>> }

\* Entities, comments, sections, declarations and processing instructions.
TextDocs == {
    <<a, AMP>> \o EntityName.amp \o <<SEMI, b>>,
    <<AMP, a, SEMI, AMP>> \o EntityName.lt \o <<SEMI>>,
    <<AMP, a, a, a, a, a, a, a, SEMI>>,
    <<AMP, a, a, a, a, a, a, a, a, SEMI>>,
    <<a, LT, BANG, DASH, DASH, x, DASH, x, DASH, DASH, GT, b>>,
    <<LT, BANG, DASH, DASH, DASH, DASH, DASH>>,
    <<LT, BANG, DASH, x>>,
    <<LT, QMARK, x, QMARK, GT, a, LT, BANG, x, GT, b, LT, BANG, GT, c>>,
    <<a>> \o CdataStart \o <<LT, RSQ, b, RSQ, RSQ, RSQ, RSQ, RSQ, c, RSQ, RSQ, GT, a>>,
    CdataStart \o <<RSQ, RSQ, GT, LT, a, GT>>,
    <<LT, BANG, LSQ, cC, cA>>, <<LT, BANG, LSQ, cD>> }

\* Multibyte characters in character data and comments, and malformed ones.
Utf8Docs == {
    <<195, 169, LT, a, GT, 240, 159, 152, 128, LT>>,
    <<LT, BANG, DASH, DASH, 195, 169, DASH, DASH, GT, a>>,
    CdataStart \o <<195, 169, RSQ, RSQ, GT>>,
    <<a, 195, b>>, <<a, 192, 128>>, <<LT, a, 0, GT>>, <<a, 128>>, <<240, 144, a, 255>> }

AllDocs == TagDocs \cup TextDocs \cup Utf8Docs

\* Multibyte characters inside names and values.
Utf8NameDocs == {
    <<LT, a, 195, 169, SP, b, 195, 169, EQ, APOS, 226, 130, 172, APOS, SLASH, GT>>,
    <<LT, SLASH, 195, 169, GT, 195, 169>>,
    <<LT, a, 195, 169, GT, LT, a, SP, b, EQ, QUOT, 195, 169, b, QUOT, 255>> }

\* Documents whose names begin with a multibyte character, or that have one
\* right behind a bracket of a section.
LeadingUtf8Docs == {
    <<LT, 195, 169, a, GT>>, <<LT, a, SP, 195, 169, b, EQ, APOS, c, APOS, GT>>,
    CdataStart \o <<RSQ, 195, 169, RSQ, GT>> }

\* A few documents that use every buffer, for the runs about memory.
MemoryDocs == {
    <<LT, a, SP, b, EQ, APOS, c, APOS, SP, c, EQ, APOS, a, APOS, SP, a, EQ, APOS, b, APOS, SLASH, GT>>,
    <<LT, a, b, GT, c, LT, SLASH, a, b, GT>>,
    <<a, AMP, b, SEMI, LT, a, SLASH, x>> }

\* The same and a section, for hooks that reset the parser.
HookDocs == MemoryDocs \cup {
    <<a>> \o CdataStart \o <<b, RSQ, c, RSQ, RSQ, RSQ, c, LT>>}

\* Every document that the tokenizer and the parser agree on.
AgreedDocs == AllDocs \cup Utf8NameDocs \cup MemoryDocs

\* A document that goes on behind a syntax error.
ErrorDocs == {<<LT, a, SLASH, b, GT, c>>, <<a, AMP, SEMI, 255, c>>}
=============================================================================
