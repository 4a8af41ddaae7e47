------------------------------ MODULE Routing ------------------------------
(***************************************************************************)
(* What the packet filter promises: the hooks of the rules that match a    *)
(* packet are called from the most to the least matched one, older rules   *)
(* first, until one eats the packet.  Rules that are removed in between    *)
(* are not called, and rules that are added wait for the next packet.      *)
(***************************************************************************)
EXTENDS Integers

CONSTANTS
    Ids,       \* of rules, which count up
    Packets,   \* functions from kinds of criteria to values
    Wishes,    \* sets of criteria, each a kind and a value
    Hooks

VARIABLES
    rules,     \* the rules
    routed,    \* {p} while the packet p is being routed, {} otherwise
    pending,   \* ids of the rules still to be called for it
    running    \* id of the rule whose hook runs, or NoRule

routing == <<rules, routed, pending, running>>

NoRule == 0

\* The more a rule asks for the better.
Matched(r) ==
    LET for(kind, weight) == IF \E c \in r.wants : c.kind = kind THEN weight ELSE 0
    IN  for("ID", 16) + for("FROM", 8) + for("PARTIAL", 8) + for("NS", 4) + for("SUBTYPE", 2)
        + for("TYPE", 1)
Matches(r, p) == \A c \in r.wants : p[c.kind] = c.value

Better(q, r) == Matched(q) > Matched(r) \/ (Matched(q) = Matched(r) /\ q.id < r.id)

\* Calls the best rule of a set, or ends the routing.
Call(p, ids) ==
    LET called == {r \in rules : r.id \in ids}
    IN  IF called = {}
        THEN routed' = {} /\ pending' = {} /\ running' = NoRule
        ELSE \E r \in called :
                /\ \A q \in called \ {r} : Better(r, q)
                /\ routed' = {p} /\ running' = r.id
                /\ pending' = {q.id : q \in called \ {r}}

Route(p) ==
    /\ routed = {} /\ UNCHANGED rules
    /\ Call(p, {r.id : r \in {r \in rules : Matches(r, p)}})

Pass == (\E p \in routed : Call(p, pending)) /\ UNCHANGED rules

Eat ==
    /\ routed # {} /\ UNCHANGED rules
    /\ routed' = {} /\ pending' = {} /\ running' = NoRule

Add(r) ==
    /\ \A q \in rules : q.id < r.id
    /\ rules' = rules \cup {r} /\ UNCHANGED <<routed, pending, running>>

Withdraw(gone) ==
    /\ rules' = rules \ gone
    /\ pending' = pending \ {r.id : r \in gone}
    /\ UNCHANGED <<routed, running>>

Init == rules = {} /\ routed = {} /\ pending = {} /\ running = NoRule

Next ==
    \/ \E p \in Packets : Route(p)
    \/ Pass \/ Eat
    \/ \E i \in Ids, w \in Wishes, h \in Hooks : Add([id |-> i, wants |-> w, hook |-> h])
    \/ \E i \in Ids : Withdraw({r \in rules : r.id = i})
    \/ \E h \in Hooks : Withdraw({r \in rules : r.hook = h})
    \/ Withdraw(rules)

Spec == Init /\ [][Next]_routing
=============================================================================
