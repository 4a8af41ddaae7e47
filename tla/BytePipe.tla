------------------------------- MODULE BytePipe -------------------------------
(***************************************************************************)
(* What a transport promises: bytes arrive in order and once, a send that  *)
(* succeeds has handed over everything, one that fails an end less, and    *)
(* after connecting there is one socket or, if that failed, none.          *)
(***************************************************************************)
EXTENDS Integers, Sequences

VARIABLES
    sockets,  \* number of sockets that are open between calls
    up,       \* bytes the peer has not taken, those of a send in progress included
    busy,     \* how many of them are still to be handed over
    down,     \* bytes of the peer that were not received
    peer,     \* "open" or "closed"
    got,      \* what the last receive gave
    ret       \* result of the last call

vars == <<sockets, up, busy, down, peer, got, ret>>

First(s, k) == SubSeq(s, 1, k)
From(s, k)  == SubSeq(s, k + 1, Len(s))

Init ==
    /\ sockets = 0 /\ busy = 0 /\ peer = "closed" /\ ret = "OK"
    /\ up = <<>> /\ down = <<>> /\ got = <<>>

Connect ==
    /\ sockets = 0 /\ sockets' = 1 /\ ret' = "OK" /\ peer' = "open"
    /\ up' = <<>> /\ down' = <<>> /\ UNCHANGED <<busy, got>>

ConnectFails ==
    /\ ret' \in {"NODNS", "NOSOCK", "NOCONN"}
    /\ UNCHANGED <<sockets, up, busy, down, peer, got>>

Send ==
    /\ busy = 0 /\ busy' > 0 /\ Len(up') = Len(up) + busy'
    /\ First(up', Len(up)) = up
    /\ UNCHANGED <<sockets, down, peer, got, ret>>

\* The last byte that is handed over is the end of a successful call.
HandOver ==
    /\ busy > 0 /\ busy' \in 0 .. busy - 1
    /\ up' = IF peer = "open" THEN up ELSE From(up, busy - busy')
    /\ ret' = IF busy' = 0 THEN "OK" ELSE ret
    /\ UNCHANGED <<sockets, down, peer, got>>

SendFails ==
    /\ busy > 0 /\ busy' = 0 /\ ret' = "RWERR" /\ up' = First(up, Len(up) - busy)
    /\ UNCHANGED <<sockets, down, peer, got>>

Take ==
    /\ peer = "open"
    /\ \E k \in 1 .. Len(up) - busy : up' = From(up, k)
    /\ UNCHANGED <<sockets, busy, down, peer, got, ret>>

Give ==
    /\ peer = "open" /\ Len(down') > Len(down) /\ First(down', Len(down)) = down
    /\ UNCHANGED <<sockets, up, busy, peer, got, ret>>

Receive ==
    /\ busy = 0
    /\ \E k \in 1 .. Len(down) : got' = First(down, k) /\ down' = From(down, k)
    /\ ret' = "DATA" /\ UNCHANGED <<sockets, up, busy, peer>>

ReceiveNothing ==
    busy = 0 /\ ret' = "NOTHING" /\ UNCHANGED <<sockets, up, busy, down, peer, got>>

ReceiveFails ==
    /\ busy = 0 /\ peer = "closed" /\ ret' = "RWERR" /\ down' = <<>>
    /\ UNCHANGED <<sockets, up, busy, peer, got>>

PeerCloses ==
    /\ peer = "open" /\ peer' = "closed"
    /\ up' = From(up, Len(up) - busy)
    /\ \E k \in 0 .. Len(down) : down' = First(down, k)
    /\ UNCHANGED <<sockets, busy, got, ret>>

Close ==
    /\ busy = 0 /\ sockets = 1 /\ sockets' = 0 /\ down' = <<>>
    /\ UNCHANGED <<up, busy, peer, got, ret>>

Next ==
    \/ Connect \/ ConnectFails \/ Send \/ HandOver \/ SendFails
    \/ Receive \/ ReceiveNothing \/ ReceiveFails \/ Close
    \/ Take \/ Give \/ PeerCloses

Spec == Init /\ [][Next]_vars
=============================================================================
