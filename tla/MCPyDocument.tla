---------------------------- MODULE MCPyDocument ----------------------------
(***************************************************************************)
(* A plain tag, and a document with two elements and a text between them.  *)
(***************************************************************************)
EXTENDS PyDocument, TLC

a == <<"a">>   b == <<"b">>
SomeNames == {a}

Mixed == InsertedTag(InsertedText(InsertedTag(<<TagNode(b)>>, 1, a), 1, a), 1, a)
SomeSources == {<<TagNode(b)>>, Mixed}

Alike == Permutations(Docs)
=============================================================================
