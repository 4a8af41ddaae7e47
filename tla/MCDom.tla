------------------------------- MODULE MCDom -------------------------------
(***************************************************************************)
(* Documents with mixed content and attributes, and ones that go wrong.    *)
(***************************************************************************)
EXTENDS Dom

Tag(kind, name) == [kind |-> kind, name |-> <<name>>, atts |-> <<>>]
O(name) == Tag("open", name)
S(name) == Tag("single", name)
C(name) == Tag("close", name)
T(c)    == [kind |-> "text", text |-> <<c>>]
Bad     == [kind |-> "bad"]

Att(name, value) == [name |-> <<name>>, value |-> <<value>>]
WithAtts(t) == [t EXCEPT !.atts = <<Att("p", "&"), Att("q", "x")>>]

SomeDocs == {
    <<O("a"), T("x"), WithAtts(S("b")), T("'"), T("y"), O("b"), C("b"), C("a"), T("z")>>,
    <<WithAtts(O("a")), O("b"), O("a"), T("x"), C("a"), S("a"), C("b"), C("a")>>,
    <<T("x"), S("a")>>,
    <<O("a"), O("b"), C("a"), C("b")>>,
    <<O("a"), S("b"), Bad, C("a")>>,
    <<S("a"), C("a")>>,
    <<C("a")>>,
    <<>> }

TwoRoots == {<<S("a"), S("b")>>}
Truncated == {<<O("a"), O("b"), S("a")>>}
=============================================================================
