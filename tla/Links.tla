------------------------------- MODULE Links -------------------------------
(***************************************************************************)
(* Doubly linked lists in a heap h, as iks.c and filter.c keep them: a     *)
(* record has the places of its neighbours in next and prev.               *)
(***************************************************************************)
EXTENDS Integers, Sequences

NULL == 0

\* The records from x on, along a link; longer than the heap if there is a cycle.
Chain(h, x, link) ==
    LET reached[n \in 0 .. Len(h)] ==
            IF n = 0 THEN <<x>>
            ELSE LET s == reached[n - 1]
                     y == h[s[Len(s)]][link]
                 IN  IF Len(s) < n \/ y = NULL THEN s ELSE Append(s, y)
    IN  IF x = NULL THEN <<>> ELSE reached[Len(h)]

\* The neighbours of x see each other; x keeps its own links.
Bypassed(h, x) ==
    LET g == IF h[x].prev = NULL THEN h ELSE [h EXCEPT ![h[x].prev].next = h[x].next]
    IN  IF h[x].next = NULL THEN g ELSE [g EXCEPT ![h[x].next].prev = h[x].prev]
=============================================================================
