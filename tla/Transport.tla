------------------------------ MODULE Transport ------------------------------
(***************************************************************************)
(* The default transport, src/src/io-posix.c, between a program and a      *)
(* peer.  One action is one system call of io_connect, io_send, io_recv or *)
(* io_close, so that the peer acts between them.  A call that ends with    *)
(* EAGAIN or EINTR is made again: that is no step.                         *)
(***************************************************************************)
EXTENDS Integers, Sequences, FiniteSets

CONSTANTS
    MaxAddrs,      \* bound: addresses of a server
    Room,          \* bytes that fit between send and the peer
    BufLen,        \* bytes that a call of io_recv asks for
    SelectMayFail  \* whether select may be interrupted

ASSUME TransportAssumption ==
    /\ MaxAddrs \in Nat \ {0} /\ Room \in Nat \ {0} /\ BufLen \in Nat \ {0}
    /\ SelectMayFail \in BOOLEAN

VARIABLES
    opened,   \* sockets of the process
    sock,     \* the one that io_connect gave, 0 before
    up, down, \* bytes on their way to the peer and from it
    peer,     \* "open" or "closed"
    call,     \* the call in progress: its name and its local variables
    buf, ret  \* what the last call put in the buffer, what it returned

transport == <<opened, sock, up, down, peer, call, buf, ret>>

\* left is what data and len of io_send say; addrs counts from addr_ptr on, and
\* sock -1 is 0.
Idle == [fn |-> "none", left |-> <<>>, addrs |-> 0, sock |-> 0, err |-> "OK"]
Return(r) == call' = Idle /\ ret' = r

TransportInit ==
    /\ opened = {} /\ sock = 0 /\ up = <<>> /\ down = <<>> /\ peer = "closed"
    /\ call = Idle /\ buf = <<>> /\ ret = "OK"

-----------------------------------------------------------------------------
(* io_connect.                                                             *)

CallConnect ==
    /\ call = Idle
    /\ \/ \E n \in 1 .. MaxAddrs : call' = [Idle EXCEPT !.fn = "connect", !.addrs = n]
          /\ UNCHANGED ret
       \/ Return("NODNS")
    /\ UNCHANGED <<opened, sock, up, down, peer, buf>>

Fd == CHOOSE s \in 1 .. MaxAddrs + 1 : s \notin opened /\ 1 .. s - 1 \subseteq opened

Trying == call.fn = "connect" /\ call.addrs > 0 /\ call.sock = 0

NewSocket ==
    /\ Trying /\ call' = [call EXCEPT !.sock = Fd, !.err = "NOCONN"]
    /\ opened' = opened \cup {Fd}
    /\ UNCHANGED <<sock, up, down, peer, buf, ret>>

NoSocket ==
    /\ Trying /\ call' = [call EXCEPT !.addrs = @ - 1, !.err = "NOSOCK"]
    /\ UNCHANGED <<opened, sock, up, down, peer, buf, ret>>

RefusedStaysOpen ==
    /\ call.sock # 0 /\ call' = [call EXCEPT !.sock = 0, !.addrs = @ - 1]
    /\ UNCHANGED <<opened, sock, up, down, peer, buf, ret>>
Refused ==
    /\ call.sock # 0 /\ call' = [call EXCEPT !.sock = 0, !.addrs = @ - 1]
    /\ opened' = opened \ {call.sock}
    /\ UNCHANGED <<sock, up, down, peer, buf, ret>>

Accepted ==
    /\ call.sock # 0 /\ sock' = call.sock /\ Return("OK")
    /\ up' = <<>> /\ down' = <<>> /\ peer' = "open"
    /\ UNCHANGED <<opened, buf>>

NoAddressLeft ==
    /\ call.fn = "connect" /\ call.addrs = 0 /\ Return(call.err)
    /\ UNCHANGED <<opened, sock, up, down, peer, buf>>

-----------------------------------------------------------------------------
(* io_send: as much as there is room for, until all is sent.  What is sent *)
(* to a peer that has closed is lost; sooner or later that is an error.    *)

CallSend(data) ==
    /\ call = Idle /\ data # <<>>
    /\ call' = [Idle EXCEPT !.fn = "send", !.left = data]
    /\ UNCHANGED <<opened, sock, up, down, peer, buf, ret>>

SendsTheRest(k) ==
    LET rest == SubSeq(call.left, k + 1, Len(call.left))
    IN  IF rest = <<>> THEN Return("OK") ELSE call' = [call EXCEPT !.left = rest] /\ UNCHANGED ret

SendSomeAgain(k) ==
    /\ call.fn = "send" /\ k \in 1 .. Len(call.left)
    /\ peer = "open" => k <= Room - Len(up)
    /\ up' = IF peer = "open" THEN up \o SubSeq(call.left, 1, k) ELSE up
    /\ IF k = Len(call.left) THEN Return("OK")
       ELSE call' = [call EXCEPT !.left = SubSeq(@, 1, Len(@) - k)] /\ UNCHANGED ret
    /\ UNCHANGED <<opened, sock, down, peer, buf>>
SendSome(k) ==
    /\ call.fn = "send" /\ k \in 1 .. Len(call.left)
    /\ peer = "open" => k <= Room - Len(up)
    /\ up' = IF peer = "open" THEN up \o SubSeq(call.left, 1, k) ELSE up
    /\ SendsTheRest(k)
    /\ UNCHANGED <<opened, sock, down, peer, buf>>

SendBreaks ==
    /\ call.fn = "send" /\ peer = "closed" /\ Return("RWERR")
    /\ UNCHANGED <<opened, sock, up, down, peer, buf>>

-----------------------------------------------------------------------------
(* io_recv: a select with a timeout, then a read of what is there.         *)

Readable == down # <<>> \/ peer = "closed"

CallRecv ==
    /\ call = Idle
    /\ \/ Readable /\ call' = [Idle EXCEPT !.fn = "recv"] /\ UNCHANGED ret
       \/ (~Readable \/ SelectMayFail) /\ Return("NOTHING")
    /\ UNCHANGED <<opened, sock, up, down, peer, buf>>

RecvSome(k) ==
    /\ call.fn = "recv" /\ k \in 1 .. Len(down) /\ k <= BufLen
    /\ buf' = SubSeq(down, 1, k) /\ down' = SubSeq(down, k + 1, Len(down))
    /\ Return("DATA") /\ UNCHANGED <<opened, sock, up, peer>>

\* The end of the connection and an error are the same.
RecvEnds ==
    /\ call.fn = "recv" /\ peer = "closed" /\ Return("RWERR") /\ down' = <<>>
    /\ UNCHANGED <<opened, sock, up, peer, buf>>

Close ==
    /\ call = Idle /\ sock \in opened
    /\ opened' = opened \ {sock} /\ down' = <<>>
    /\ UNCHANGED <<sock, up, peer, call, buf, ret>>

SystemCall ==
    \/ NewSocket \/ NoSocket \/ Refused \/ Accepted \/ NoAddressLeft \/ SendBreaks \/ RecvEnds
    \/ \E k \in 1 .. Room + BufLen : SendSome(k) \/ RecvSome(k)

-----------------------------------------------------------------------------
(* The peer and the network: TCP.                                          *)

PeerTakes(k) ==
    /\ peer = "open" /\ k \in 1 .. Len(up) /\ up' = SubSeq(up, k + 1, Len(up))
    /\ UNCHANGED <<opened, sock, down, peer, call, buf, ret>>

PeerGives(data) ==
    /\ peer = "open" /\ data # <<>> /\ down' = down \o data
    /\ UNCHANGED <<opened, sock, up, peer, call, buf, ret>>

\* What is on its way may be lost.
PeerCloses ==
    /\ peer = "open" /\ peer' = "closed" /\ up' = <<>>
    /\ \E k \in 0 .. Len(down) : down' = SubSeq(down, 1, k)
    /\ UNCHANGED <<opened, sock, call, buf, ret>>

-----------------------------------------------------------------------------
(* Refinement.                                                             *)

Pipe == INSTANCE BytePipe WITH
    sockets <- IF call.fn = "connect" THEN 0 ELSE Cardinality(opened),
    up      <- up \o call.left,
    busy    <- Len(call.left),
    down    <- down,
    peer    <- peer,
    got     <- buf,
    ret     <- ret

\* The peer gets every byte of every send once and in order, the program every byte
\* of the peer, a successful io_send sent everything, and io_connect leaves one socket
\* or none (the loops of io_connect, io_send and io_recv).
ImplementsPipe == Pipe!Spec
=============================================================================
