----------------------------- MODULE StringPool -----------------------------
(***************************************************************************)
(* What the object stack promises about strings: a string keeps its text   *)
(* until it is appended to or the pool is deleted, whatever happens to the *)
(* other strings and wherever the memory comes from.                       *)
(***************************************************************************)
EXTENDS Sequences

CONSTANT Texts    \* what the user copies and appends

VARIABLES strings,   \* pointer |-> text, for the pointers the user may use
          alive

vars == <<strings, alive>>

Init == alive = TRUE /\ strings = <<>>

\* The pointers that appear in a step; everything else keeps its text.
New  == DOMAIN strings' \ DOMAIN strings
Kept(p) == p \in DOMAIN strings' /\ strings'[p] = strings[p]

Copy == \E t \in Texts, p \in New :
    /\ DOMAIN strings' = DOMAIN strings \cup {p}
    /\ strings'[p] = t
    /\ \A q \in DOMAIN strings : Kept(q)

\* The result replaces the pointer that was appended to.
Extend(p) == \E t \in Texts, r \in New \cup {p} :
    /\ DOMAIN strings' = (DOMAIN strings \ {p}) \cup {r}
    /\ strings'[r] = strings[p] \o t
    /\ \A q \in DOMAIN strings \ {p} : Kept(q)

Delete == alive' = FALSE /\ DOMAIN strings' = {}

Next == alive /\ \/ (Copy \/ \E p \in DOMAIN strings : Extend(p)) /\ UNCHANGED alive
                 \/ Delete

Spec == Init /\ [][Next]_vars
=============================================================================
