----------------------------- MODULE MCIkStack -----------------------------
(***************************************************************************)
(* An object stack on a machine with two-byte alignment: chunks of 16      *)
(* bytes, texts that leave a chunk exactly full, one byte short of it, or  *)
(* do not fit into it or into its double.                                  *)
(***************************************************************************)
EXTENDS IkStack

Copies(c, n) == [k \in 1 .. n |-> c]

SomeTexts == {<<>>, Copies(1, 1), Copies(2, 6), Copies(3, 8), Copies(4, 15), Copies(5, 40)}
EmptyText == {<<>>}
SomeChunkSizes == {0, 17}
SomeBlockSizes == {0, 3, 8, 40}
=============================================================================
