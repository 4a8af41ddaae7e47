------------------------------ MODULE MCFilter ------------------------------
(***************************************************************************)
(* Rules of every kind, with ties between them and sums that exceed a      *)
(* single criterion, and packets without a sender or an id.                *)
(***************************************************************************)
EXTENDS Filter

Ask(kind, value) == [kind |-> kind, value |-> value]
Iq     == Ask("TYPE", "iq")
Result == Ask("SUBTYPE", "result")
Roster == Ask("NS", "roster")

SomeArgLists ==
    { <<Iq>>, <<Iq, Result, Roster>>, <<Ask("FROM", "a@b/c")>>, <<Ask("PARTIAL", "a@b")>>,
      <<Result, Ask("ID", "auth")>> }

Packet(type, subtype, id, ns, full, partial) ==
    [TYPE |-> type, SUBTYPE |-> subtype, ID |-> id, NS |-> ns, FROM |-> full, PARTIAL |-> partial]

SomePackets ==
    { Packet("iq", "result", "auth", NoValue, NoValue, NoValue),
      Packet("iq", "result", NoValue, "roster", "a@b/c", "a@b") }

Alike == Permutations(Hooks)
=============================================================================
