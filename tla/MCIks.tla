------------------------------- MODULE MCIks -------------------------------
(***************************************************************************)
(* Small trees, with a text that has to be escaped.                        *)
(***************************************************************************)
EXTENDS Iks

SomeNames == {<<"a", "b">>}
SomeAttribNames == {<<"c">>, <<"d">>}
SomeTexts == {<<"x", "&", "'">>}
=============================================================================
