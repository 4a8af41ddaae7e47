------------------------------- MODULE MCRoster -------------------------------
(***************************************************************************)
(* Command lines, and servers that offer one way to log in.                *)
(***************************************************************************)
EXTENDS Roster

Line(from, to, f, tls, sasl) == [from |-> from, to |-> to, file |-> f, tls |-> tls, sasl |-> sasl]

SomeOptions ==
    {o \in {Line(from, to, f, tls, sasl) : from, to, f, tls, sasl \in BOOLEAN} :
        (o.from \/ o.to) /\ (o.to => o.from \/ o.file)}
SomeOffers == [before |-> {{"starttls", "md5"}, {}}, after |-> {{"bind", "session"}, {"bind"}}]
=============================================================================
