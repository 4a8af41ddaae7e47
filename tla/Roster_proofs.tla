--------------------------- MODULE Roster_proofs ---------------------------
(***************************************************************************)
(* The default transport implements BytePipe for every program that makes  *)
(* one call at a time and connects when it has no connection, and for      *)
(* every peer; iksroster is such a program, and with it no roster is lost  *)
(* and nothing private is sent in the clear.                               *)
(***************************************************************************)
EXTENDS Roster, FiniteSetTheorems, SequenceTheorems, TLAPS

CONSTANT OtherBytes

Names == {"header", "starttls", "login", "bind", "session", "sasl", "response", "get", "set",
          "features", "proceed", "failure", "challenge", "success", "presence", "result",
          "error", "stream:error", "/stream"}
Rosters == {None, "mine", "saved", "old"}

Messages ==
    [name : Names, id : {"", "auth", "roster"}, items : Rosters,
     offers : {{}} \cup Offers.before \cup Offers.after]

BytesOf(M) == M \X {1, 2}

\* What goes over the wire: the messages of iksroster, and anything else.
Octets == BytesOf(Messages) \cup OtherBytes

Caller ==
    \/ opened = {} /\ CallConnect
    \/ \E data \in Seq(Octets) : CallSend(data)
    \/ CallRecv \/ Close

Peer ==
    \/ \E k \in Nat : PeerTakes(k)
    \/ \E data \in Seq(Octets) : PeerGives(data)
    \/ PeerCloses

TransportNext == Caller \/ SystemCall \/ Peer

TransportSpec == TransportInit /\ [][TransportNext]_transport

-----------------------------------------------------------------------------
(* Sequences that are cut and put together.                                *)

LEMMA CutLen ==
    ASSUME NEW B, NEW s \in Seq(B), NEW k \in 0 .. Len(s)
    PROVE  /\ SubSeq(s, k + 1, Len(s)) \in Seq(B)
           /\ Len(SubSeq(s, k + 1, Len(s))) = Len(s) - k
           /\ \A i \in 1 .. Len(s) - k : SubSeq(s, k + 1, Len(s))[i] = s[k + i]
           /\ SubSeq(s, 1, k) \in Seq(B) /\ Len(SubSeq(s, 1, k)) = k
<1>1. Len(s) \in Nat /\ k \in Nat /\ \A i \in 1 .. Len(s) : s[i] \in B
  BY LenProperties, ElementOfSeq
<1> QED BY <1>1, SubSeqProperties

LEMMA CutBehind ==
    ASSUME NEW B, NEW s \in Seq(B), NEW t \in Seq(B)
    PROVE  SubSeq(s \o t, 1, Len(s)) = s
OBVIOUS

LEMMA CutInside ==
    ASSUME NEW B, NEW s \in Seq(B), NEW t \in Seq(B), NEW k \in 0 .. Len(s)
    PROVE  SubSeq(s \o t, k + 1, Len(s \o t)) = SubSeq(s, k + 1, Len(s)) \o t
<1> DEFINE a == SubSeq(s \o t, k + 1, Len(s \o t))
           b == SubSeq(s, k + 1, Len(s))
<1>1. Len(s) \in Nat /\ Len(t) \in Nat /\ k \in Nat  BY LenProperties
<1>2. /\ s \o t \in Seq(B) /\ Len(s \o t) = Len(s) + Len(t)
      /\ \A i \in 1 .. Len(s) + Len(t) : (s \o t)[i] = IF i <= Len(s) THEN s[i] ELSE t[i - Len(s)]
  BY ConcatProperties
<1>3. k \in 0 .. Len(s \o t)  BY <1>1, <1>2
<1>4. /\ a \in Seq(B) /\ Len(a) = Len(s) + Len(t) - k
      /\ \A i \in 1 .. Len(s) + Len(t) - k : a[i] = (s \o t)[k + i]
  BY <1>2, <1>3, CutLen
<1>5. /\ b \in Seq(B) /\ Len(b) = Len(s) - k
      /\ \A i \in 1 .. Len(s) - k : b[i] = s[k + i]
  BY CutLen
<1>6. /\ b \o t \in Seq(B) /\ Len(b \o t) = Len(b) + Len(t)
      /\ \A i \in 1 .. Len(b) + Len(t) : (b \o t)[i] = IF i <= Len(b) THEN b[i] ELSE t[i - Len(b)]
  BY <1>5, ConcatProperties
<1> HIDE DEF a, b
<1>7. ASSUME NEW i \in 1 .. Len(a) PROVE a[i] = (b \o t)[i]
  <2>1. a[i] = (s \o t)[k + i] /\ k + i \in 1 .. Len(s) + Len(t)  BY <1>1, <1>4
  <2>2. (s \o t)[k + i] = IF k + i <= Len(s) THEN s[k + i] ELSE t[k + i - Len(s)]  BY <1>2, <2>1
  <2>3. (b \o t)[i] = IF i <= Len(b) THEN b[i] ELSE t[i - Len(b)]  BY <1>1, <1>4, <1>5, <1>6
  <2>4. CASE k + i <= Len(s)  BY <1>1, <1>5, <2>1, <2>2, <2>3, <2>4
  <2>5. CASE k + i > Len(s)
    <3>1. k + i - Len(s) = i - Len(b)  BY <1>1, <1>5
    <3> QED BY <1>1, <1>5, <2>1, <2>2, <2>3, <2>5, <3>1
  <2>6. k + i \in Int /\ Len(s) \in Int  BY <1>1, <1>4
  <2>7. k + i <= Len(s) \/ k + i > Len(s)  BY <2>6
  <2> QED BY <2>4, <2>5, <2>7
<1>8. Len(a) = Len(b \o t)  BY <1>1, <1>4, <1>5, <1>6
<1>9. a = b \o t  BY <1>4, <1>6, <1>7, <1>8, SeqEqual
<1> QED BY <1>9 DEF a, b

LEMMA PutTogether ==
    ASSUME NEW B, NEW s \in Seq(B), NEW k \in 0 .. Len(s)
    PROVE  SubSeq(s, 1, k) \o SubSeq(s, k + 1, Len(s)) = s
<1>1. Len(s) \in Nat  BY LenProperties
<1>2. 1 \in 1 .. Len(s) + 1 /\ k \in 1 - 1 .. Len(s) /\ Len(s) \in k .. Len(s)  BY <1>1
<1> QED BY <1>2, ConcatAdjacentSubSeq, SubSeqFull

LEMMA PutBehind ==
    ASSUME NEW B, NEW r \in Seq(B), NEW s \in Seq(B), NEW k \in 0 .. Len(s)
    PROVE  (r \o SubSeq(s, 1, k)) \o SubSeq(s, k + 1, Len(s)) = r \o s
<1>1. PICK a \in Seq(B), b \in Seq(B) :
            a = SubSeq(s, 1, k) /\ b = SubSeq(s, k + 1, Len(s))
  BY CutLen
<1>2. a \o b = s  BY <1>1, PutTogether
<1>3. (r \o a) \o b = r \o (a \o b)  BY ConcatAssociative
<1> QED BY <1>1, <1>2, <1>3

-----------------------------------------------------------------------------
(* The inductive invariant: what a call in progress owns.                  *)

Fns  == {"none", "connect", "send", "recv"}
Errs == {"OK", "NOSOCK", "NOCONN"}

BytesTyped ==
    /\ up \in Seq(Octets) /\ down \in Seq(Octets)
    /\ call \in [fn : Fns, left : Seq(Octets), addrs : Nat, sock : Nat, err : Errs]
    /\ peer \in {"open", "closed"}

\* Bytes are left while a send goes on, and only then.
LeftWhileSending == call.left # <<>> <=> call.fn = "send"

\* A socket that was not given to the program yet is the one just tried.
SocketsKnown ==
    /\ call.fn = "connect" => opened = (IF call.sock = 0 THEN {} ELSE {call.sock})
    /\ call.fn # "connect" => call.sock = 0 /\ opened \in {{}, {sock}}

\* There is an error to return when no address is left.
TriedBefore ==
    call.fn = "connect" =>
        /\ call.sock # 0 => call.addrs > 0 /\ call.err # "OK"
        /\ call.err = "OK" => call.addrs > 0

TInv ==
    /\ BytesTyped /\ LeftWhileSending /\ SocketsKnown /\ TriedBefore
    /\ call.fn = "none" => call = Idle
    /\ peer = "closed" => up = <<>>

USE DEF BytesTyped, LeftWhileSending, SocketsKnown, TriedBefore

LEMMA InitTInv == TransportInit => TInv
BY DEF TransportInit, TInv, Idle, Fns, Errs

LEMMA FdGiven ==
    ASSUME opened = {} PROVE Fd \in Nat /\ Fd # 0
<1>1. 1 \in 1 .. MaxAddrs + 1 /\ 1 \notin opened /\ 1 .. 1 - 1 \subseteq opened  BY TransportAssumption
<1>2. \E s \in 1 .. MaxAddrs + 1 : s \notin opened /\ 1 .. s - 1 \subseteq opened  BY <1>1
<1>3. Fd \in 1 .. MaxAddrs + 1  BY <1>2 DEF Fd
<1> QED BY <1>3, TransportAssumption

LEMMA NextTInv == TInv /\ [TransportNext]_transport => TInv'
<1> SUFFICES ASSUME TInv, [TransportNext]_transport PROVE TInv'  OBVIOUS
<1> USE DEF TInv
<1>1. CASE UNCHANGED transport  BY <1>1 DEF transport
<1>2. CASE opened = {} /\ CallConnect
  <2>1. UNCHANGED <<opened, sock, up, down, peer>>  BY <1>2 DEF CallConnect
  <2>2. ASSUME NEW n \in 1 .. MaxAddrs, call' = [Idle EXCEPT !.fn = "connect", !.addrs = n]
        PROVE  TInv'
    <3>1. n \in Nat /\ n > 0 /\ <<>> \in Seq(Octets)  BY TransportAssumption
    <3>2. call' = [fn |-> "connect", left |-> <<>>, addrs |-> n, sock |-> 0, err |-> "OK"]
      BY <2>2 DEF Idle
    <3> QED BY <1>2, <2>1, <3>1, <3>2 DEF Fns, Errs
  <2>3. CASE Return("NODNS")  BY <1>2, <2>1, <2>3 DEF CallConnect, Return, Idle, Fns, Errs
  <2> QED BY <1>2, <2>2, <2>3 DEF CallConnect
<1>3. ASSUME NEW data \in Seq(Octets), CallSend(data) PROVE TInv'
  BY <1>3 DEF CallSend, Idle, Fns, Errs
<1>4. CASE CallRecv  BY <1>4 DEF CallRecv, Return, Idle, Fns, Errs
<1>5. CASE Close  BY <1>5 DEF Close, Idle, Fns, Errs
<1>6. CASE NewSocket
  <2>1. Fd \in Nat /\ Fd # 0  BY <1>6, FdGiven DEF NewSocket, Trying
  <2> QED BY <1>6, <2>1 DEF NewSocket, Trying, Fns, Errs
<1>7. CASE NoSocket
  <2>1. /\ call' = [call EXCEPT !.addrs = @ - 1, !.err = "NOSOCK"] /\ call.addrs - 1 \in Nat
        /\ call.fn = "connect" /\ call.sock = 0
    BY <1>7 DEF NoSocket, Trying
  <2>2. UNCHANGED <<opened, sock, up, down, peer>>  BY <1>7 DEF NoSocket
  <2> QED BY <2>1, <2>2 DEF Fns, Errs
<1>8. CASE Refused
  <2>1. call.fn = "connect" /\ call.addrs > 0 /\ call.sock # 0 /\ opened = {call.sock}
    BY <1>8 DEF Refused
  <2>2. call' = [call EXCEPT !.sock = 0, !.addrs = @ - 1] /\ opened' = {}
    BY <1>8, <2>1 DEF Refused
  <2>3. UNCHANGED <<sock, up, down, peer>> /\ call.err # "OK"  BY <1>8, <2>1 DEF Refused
  <2>4. call.addrs - 1 \in Nat  BY <2>1
  <2>5. call' \in [fn : Fns, left : Seq(Octets), addrs : Nat, sock : Nat, err : Errs]
    BY <2>2, <2>4
  <2>6. call'.fn = "connect" /\ call'.sock = 0 /\ call'.err # "OK" /\ call'.left = call.left
    BY <2>1, <2>2, <2>3
  <2> QED BY <2>1, <2>2, <2>3, <2>5, <2>6
<1>9. CASE Accepted  BY <1>9 DEF Accepted, Return, Idle, Fns, Errs
<1>10. CASE NoAddressLeft  BY <1>10 DEF NoAddressLeft, Return, Idle, Fns, Errs
<1>11. CASE SendBreaks  BY <1>11 DEF SendBreaks, Return, Idle, Fns, Errs
<1>12. CASE RecvEnds  BY <1>12 DEF RecvEnds, Return, Idle, Fns, Errs
<1>13. ASSUME NEW k \in Nat, SendSome(k) PROVE TInv'
  <2>1. k \in 0 .. Len(call.left) /\ call.fn = "send"  BY <1>13, LenProperties DEF SendSome
  <2>2. /\ SubSeq(call.left, k + 1, Len(call.left)) \in Seq(Octets)
        /\ SubSeq(call.left, 1, k) \in Seq(Octets)
    BY <2>1, CutLen
  <2>3. up' \in Seq(Octets)  BY <1>13, <2>2 DEF SendSome
  <2>4. UNCHANGED <<opened, sock, down, peer>> /\ (peer = "closed" => up' = <<>>)
    BY <1>13 DEF SendSome
  <2>5. CASE Return("OK")  BY <2>1, <2>3, <2>4, <2>5 DEF Return, Idle, Fns, Errs
  <2>6. CASE /\ SubSeq(call.left, k + 1, Len(call.left)) # <<>>
             /\ call' = [call EXCEPT !.left = SubSeq(call.left, k + 1, Len(call.left))]
    BY <2>1, <2>2, <2>3, <2>4, <2>6 DEF Fns, Errs
  <2> QED BY <1>13, <2>5, <2>6 DEF SendSome, SendsTheRest
<1>14. ASSUME NEW k \in Nat, RecvSome(k) PROVE TInv'
  <2>1. k \in 0 .. Len(down) /\ SubSeq(down, k + 1, Len(down)) \in Seq(Octets)
    BY <1>14, LenProperties, CutLen DEF RecvSome
  <2> QED BY <1>14, <2>1 DEF RecvSome, Return, Idle, Fns, Errs
<1>15. ASSUME NEW k \in Nat, PeerTakes(k) PROVE TInv'
  <2>1. k \in 0 .. Len(up) /\ SubSeq(up, k + 1, Len(up)) \in Seq(Octets)
    BY <1>15, LenProperties, CutLen DEF PeerTakes
  <2> QED BY <1>15, <2>1 DEF PeerTakes
<1>16. ASSUME NEW data \in Seq(Octets), PeerGives(data) PROVE TInv'  BY <1>16 DEF PeerGives
<1>17. CASE PeerCloses
  <2>1. PICK k \in 0 .. Len(down) : down' = SubSeq(down, 1, k)  BY <1>17 DEF PeerCloses
  <2>2. down' \in Seq(Octets)  BY <2>1, CutLen
  <2> QED BY <1>17, <2>2 DEF PeerCloses
<1> HIDE DEF TInv
<1>18. CASE SystemCall
  <2>1. 1 .. Room + BufLen \subseteq Nat  BY TransportAssumption
  <2> QED BY <1>6, <1>7, <1>8, <1>9, <1>10, <1>11, <1>12, <1>13, <1>14, <1>18, <2>1 DEF SystemCall
<1> QED
  BY <1>1, <1>2, <1>3, <1>4, <1>5, <1>15, <1>16, <1>17, <1>18 DEF TransportNext, Caller, Peer

LEMMA Invariant == TransportSpec => []TInv
BY InitTInv, NextTInv, PTL DEF TransportSpec

-----------------------------------------------------------------------------
(* Every step is a step of the pipe, or none.                              *)

USE DEF Pipe!First, Pipe!From

LEMMA OneOrNone ==
    /\ Cardinality({}) = 0
    /\ \A s : Cardinality({s}) = 1
BY FS_EmptySet, FS_Singleton

\* What a step leaves alone, of the pipe.
Sockets == IF call.fn = "connect" THEN 0 ELSE Cardinality(opened)

LEMMA NothingLeft ==
    ASSUME TInv, call.fn # "send" PROVE Len(call.left) = 0 /\ up \o call.left = up
<1>1. call.left = <<>> /\ up \in Seq(Octets)  BY DEF TInv
<1> QED BY <1>1, ConcatEmptySeq

LEMMA NothingLeftThen ==
    ASSUME TInv', call'.fn # "send" PROVE Len(call'.left) = 0 /\ up' \o call'.left = up'
<1>1. call'.left = <<>> /\ up' \in Seq(Octets)  BY DEF TInv
<1> QED BY <1>1, ConcatEmptySeq

LEMMA ConnectStep ==
    ASSUME TInv, TInv', call.fn # "send", call'.fn # "send",
           UNCHANGED <<up, down, peer, buf>>, Sockets' = Sockets,
           ret' = ret \/ ret' \in {"NODNS", "NOSOCK", "NOCONN"}
    PROVE  [Pipe!Next]_(Pipe!vars)
<1>1. UNCHANGED <<Len(call.left), up \o call.left>>  BY NothingLeft, NothingLeftThen
<1>2. CASE ret' = ret  BY <1>1, <1>2 DEF Pipe!vars, Sockets
<1>3. CASE ret' \in {"NODNS", "NOSOCK", "NOCONN"}
  <2>1. Pipe!ConnectFails  BY <1>1, <1>3 DEF Pipe!ConnectFails, Sockets
  <2> QED BY <2>1 DEF Pipe!Next
<1> QED BY <1>2, <1>3

LEMMA SystemStep ==
    ASSUME TInv, TInv', SystemCall PROVE [Pipe!Next]_(Pipe!vars)
<1> USE DEF TInv
<1>1. CASE NewSocket \/ NoSocket \/ Refused
  <2>1. /\ call.fn = "connect" /\ call'.fn = "connect"
        /\ UNCHANGED <<up, down, peer, buf, ret>>
    BY <1>1 DEF NewSocket, NoSocket, Refused, Trying
  <2> QED BY <2>1, ConnectStep DEF Sockets
<1>2. CASE Accepted
  <2>1. call.fn = "connect" /\ call' = Idle /\ opened' = {call.sock}  BY <1>2 DEF Accepted, Return
  <2>2. call'.fn = "none" /\ Cardinality(opened') = 1  BY <2>1, OneOrNone DEF Idle
  <2>3. /\ Len(call.left) = 0 /\ Len(call'.left) = 0
        /\ up' \o call'.left = <<>>
    BY <1>2, <2>1, <2>2, NothingLeft, NothingLeftThen DEF Accepted
  <2>4. Pipe!Connect  BY <1>2, <2>1, <2>2, <2>3 DEF Accepted, Return, Pipe!Connect
  <2> QED BY <2>4 DEF Pipe!Next
<1>3. CASE NoAddressLeft
  <2>1. /\ call.fn = "connect" /\ call.addrs = 0 /\ call' = Idle /\ ret' = call.err
        /\ UNCHANGED <<opened, up, down, peer, buf>>
    BY <1>3 DEF NoAddressLeft, Return
  <2>2. call.sock = 0 /\ call.err \in {"NOSOCK", "NOCONN"}  BY <2>1 DEF Errs
  <2>3. opened = {} /\ call'.fn = "none"  BY <2>1, <2>2 DEF Idle
  <2>4. Sockets' = Sockets  BY <2>1, <2>3, OneOrNone DEF Sockets
  <2> QED BY <2>1, <2>2, <2>3, <2>4, ConnectStep
<1>4. CASE SendBreaks
  <2>1. /\ call.fn = "send" /\ call' = Idle /\ ret' = "RWERR"
        /\ UNCHANGED <<opened, up, down, peer, buf>>
    BY <1>4 DEF SendBreaks, Return
  <2>2. call'.fn = "none" /\ call'.left = <<>>  BY <2>1 DEF Idle
  <2>3. Len(call.left) > 0 /\ Len(call.left) \in Nat /\ Len(up) \in Nat /\ Len(call'.left) = 0
    BY <2>1, <2>2, LenProperties, EmptySeq
  <2>4. up' \o call'.left = SubSeq(up \o call.left, 1, Len(up \o call.left) - Len(call.left))
    <3>1. Len(up \o call.left) - Len(call.left) = Len(up)  BY <2>3, ConcatProperties
    <3> QED BY <2>1, <2>2, <3>1, NothingLeftThen, CutBehind
  <2>5. Pipe!SendFails  BY <2>1, <2>2, <2>3, <2>4 DEF Pipe!SendFails
  <2> QED BY <2>5 DEF Pipe!Next
<1>5. CASE RecvEnds
  <2>1. /\ call.fn = "recv" /\ call' = Idle /\ ret' = "RWERR" /\ peer = "closed" /\ down' = <<>>
        /\ UNCHANGED <<opened, up, peer, buf>>
    BY <1>5 DEF RecvEnds, Return
  <2>2. call'.fn = "none"  BY <2>1 DEF Idle
  <2>3. Len(call.left) = 0 /\ UNCHANGED <<Len(call.left), up \o call.left>>
    BY <2>1, <2>2, NothingLeft, NothingLeftThen
  <2>4. Pipe!ReceiveFails  BY <2>1, <2>2, <2>3 DEF Pipe!ReceiveFails
  <2> QED BY <2>4 DEF Pipe!Next
<1>6. ASSUME NEW k \in Nat, SendSome(k) PROVE Pipe!Next
  <2> DEFINE rest == SubSeq(call.left, k + 1, Len(call.left))
  <2>1. /\ call.fn = "send" /\ k \in 1 .. Len(call.left) /\ SendsTheRest(k)
        /\ up' = IF peer = "open" THEN up \o SubSeq(call.left, 1, k) ELSE up
        /\ UNCHANGED <<opened, down, peer, buf>>
    BY <1>6 DEF SendSome
  <2>2. k \in 0 .. Len(call.left) /\ Len(call.left) \in Nat  BY <2>1, LenProperties
  <2>3. rest \in Seq(Octets) /\ Len(rest) = Len(call.left) - k  BY <2>2, CutLen
  <2>4. /\ call'.left = rest /\ call'.fn # "connect"
        /\ ret' = IF Len(rest) = 0 THEN "OK" ELSE ret
    <3>1. CASE rest = <<>>
      <4>1. call' = Idle /\ ret' = "OK"  BY <2>1, <3>1 DEF SendsTheRest, Return
      <4> QED BY <3>1, <4>1, EmptySeq DEF Idle
    <3>2. CASE rest # <<>>
      <4>1. call' = [call EXCEPT !.left = rest] /\ ret' = ret  BY <2>1, <3>2 DEF SendsTheRest
      <4> QED BY <2>1, <2>3, <3>2, <4>1, EmptySeq
    <3> QED BY <3>1, <3>2
  <2> HIDE DEF rest
  <2>5. Len(call.left) > 0 /\ Len(call'.left) \in 0 .. Len(call.left) - 1
        /\ Len(call.left) - Len(call'.left) = k
    BY <2>1, <2>2, <2>3, <2>4
  <2>6. up' \o call'.left = IF peer = "open" THEN up \o call.left
                            ELSE SubSeq(up \o call.left, k + 1, Len(up \o call.left))
    <3>1. CASE peer = "open"
      <4>1. up \in Seq(Octets) /\ call.left \in Seq(Octets)  OBVIOUS
      <4>2. (up \o SubSeq(call.left, 1, k)) \o rest = up \o call.left
        BY ONLY <2>2, <4>1, PutBehind DEF rest
      <4> QED BY <2>1, <2>4, <3>1, <4>2
    <3>2. CASE peer # "open"
      <4>1. up = <<>> /\ up' = <<>>  BY <2>1, <3>2
      <4>2. up \o call.left = call.left /\ up' \o call'.left = rest
        BY <2>3, <2>4, <4>1, ConcatEmptySeq
      <4> QED BY <3>2, <4>2 DEF rest
    <3> QED BY <3>1, <3>2
  <2>7. Pipe!HandOver
    BY <2>1, <2>3, <2>4, <2>5, <2>6 DEF Pipe!HandOver
  <2> QED BY <2>7 DEF Pipe!Next
<1>7. ASSUME NEW k \in Nat, RecvSome(k) PROVE Pipe!Next
  <2>1. /\ call.fn = "recv" /\ call' = Idle /\ ret' = "DATA" /\ k \in 1 .. Len(down)
        /\ buf' = SubSeq(down, 1, k) /\ down' = SubSeq(down, k + 1, Len(down))
        /\ UNCHANGED <<opened, up, peer>>
    BY <1>7 DEF RecvSome, Return
  <2>2. call'.fn = "none"  BY <2>1 DEF Idle
  <2>3. Len(call.left) = 0 /\ UNCHANGED <<Len(call.left), up \o call.left>>
    BY <2>1, <2>2, NothingLeft, NothingLeftThen
  <2>4. Pipe!Receive  BY <2>1, <2>2, <2>3 DEF Pipe!Receive
  <2> QED BY <2>4 DEF Pipe!Next
<1>8. 1 .. Room + BufLen \subseteq Nat  BY TransportAssumption
<1> QED BY <1>1, <1>2, <1>3, <1>4, <1>5, <1>6, <1>7, <1>8 DEF SystemCall

LEMMA CallerStep ==
    ASSUME TInv, TInv', Caller PROVE [Pipe!Next]_(Pipe!vars)
<1> USE DEF TInv
<1>1. CASE opened = {} /\ CallConnect
  <2>1. /\ call = Idle /\ call'.fn \in {"connect", "none"}
        /\ ret' = ret \/ ret' = "NODNS"
        /\ UNCHANGED <<opened, up, down, peer, buf>>
    <3>1. CASE \E n \in 1 .. MaxAddrs : call' = [Idle EXCEPT !.fn = "connect", !.addrs = n]
      BY <1>1, <3>1 DEF CallConnect, Return, Idle
    <3>2. CASE Return("NODNS")  BY <1>1, <3>2 DEF CallConnect, Return, Idle
    <3> QED BY <1>1, <3>1, <3>2 DEF CallConnect
  <2>2. Sockets' = Sockets  BY <1>1, <2>1, OneOrNone DEF Sockets
  <2> QED BY <2>1, <2>2, ConnectStep DEF Idle
<1>2. ASSUME NEW data \in Seq(Octets), CallSend(data) PROVE Pipe!Next
  <2>1. /\ call = Idle /\ data # <<>> /\ call'.fn = "send" /\ call'.left = data
        /\ UNCHANGED <<opened, up, down, peer, buf, ret>>
    BY <1>2 DEF CallSend, Idle
  <2>2. call.fn = "none"  BY <2>1 DEF Idle
  <2>3. Len(call.left) = 0 /\ up \o call.left = up  BY <2>2, NothingLeft
  <2>4. Len(data) \in Nat \ {0} /\ Len(up \o data) = Len(up) + Len(data)
    BY <2>1, EmptySeq, ConcatProperties
  <2>5. SubSeq(up' \o call'.left, 1, Len(up)) = up  BY <2>1, CutBehind
  <2>6. Pipe!Send  BY <2>1, <2>2, <2>3, <2>4, <2>5 DEF Pipe!Send
  <2> QED BY <2>6 DEF Pipe!Next
<1>3. CASE CallRecv
  <2>1. /\ call.fn = "none" /\ call'.fn \in {"recv", "none"}
        /\ ret' = ret \/ ret' = "NOTHING"
        /\ UNCHANGED <<opened, up, down, peer, buf>>
    BY <1>3 DEF CallRecv, Return, Idle
  <2>2. Len(call.left) = 0 /\ UNCHANGED <<Len(call.left), up \o call.left>>
    BY <2>1, NothingLeft, NothingLeftThen
  <2>3. CASE ret' = ret  BY <2>1, <2>2, <2>3 DEF Pipe!vars
  <2>4. CASE ret' = "NOTHING"
    <3>1. Pipe!ReceiveNothing  BY <2>1, <2>2, <2>4 DEF Pipe!ReceiveNothing
    <3> QED BY <3>1 DEF Pipe!Next
  <2> QED BY <2>1, <2>3, <2>4
<1>4. CASE Close
  <2>1. /\ call = Idle /\ call' = Idle /\ opened = {sock} /\ opened' = {} /\ down' = <<>>
        /\ UNCHANGED <<up, peer, buf, ret>>
    BY <1>4 DEF Close, Idle
  <2>2. /\ call.fn = "none" /\ call'.fn = "none" /\ Cardinality(opened) = 1
        /\ Cardinality(opened') = 0
    BY <2>1, OneOrNone DEF Idle
  <2>3. Len(call.left) = 0 /\ UNCHANGED <<Len(call.left), up \o call.left>>
    BY <2>1, <2>2, NothingLeft, NothingLeftThen
  <2>4. Pipe!Close  BY <2>1, <2>2, <2>3 DEF Pipe!Close
  <2> QED BY <2>4 DEF Pipe!Next
<1> QED BY <1>1, <1>2, <1>3, <1>4 DEF Caller

LEMMA PeerStep ==
    ASSUME TInv, TInv', Peer PROVE [Pipe!Next]_(Pipe!vars)
<1> USE DEF TInv
<1>1. ASSUME NEW k \in Nat, PeerTakes(k) PROVE Pipe!Next
  <2>1. /\ peer = "open" /\ k \in 1 .. Len(up) /\ up' = SubSeq(up, k + 1, Len(up))
        /\ UNCHANGED <<opened, down, peer, call, buf, ret>>
    BY <1>1 DEF PeerTakes
  <2>2. /\ Len(up) \in Nat /\ Len(call.left) \in Nat /\ k \in 0 .. Len(up)
        /\ Len(up \o call.left) - Len(call.left) = Len(up)
    BY <2>1, LenProperties, ConcatProperties
  <2>3. up' \o call'.left = SubSeq(up \o call.left, k + 1, Len(up \o call.left))
    <3>1. up \in Seq(Octets) /\ call.left \in Seq(Octets)  OBVIOUS
    <3> QED BY ONLY <2>1, <2>2, <3>1, CutInside
  <2>4. Pipe!Take  BY <2>1, <2>2, <2>3 DEF Pipe!Take
  <2> QED BY <2>4 DEF Pipe!Next
<1>2. ASSUME NEW data \in Seq(Octets), PeerGives(data) PROVE Pipe!Next
  <2>1. /\ peer = "open" /\ data # <<>> /\ down' = down \o data
        /\ UNCHANGED <<opened, up, peer, call, buf, ret>>
    BY <1>2 DEF PeerGives
  <2>2. Len(down') > Len(down) /\ SubSeq(down', 1, Len(down)) = down
    BY <2>1, EmptySeq, LenProperties, ConcatProperties, CutBehind
  <2>3. Pipe!Give  BY <2>1, <2>2 DEF Pipe!Give
  <2> QED BY <2>3 DEF Pipe!Next
<1>3. CASE PeerCloses
  <2>1. /\ peer = "open" /\ peer' = "closed" /\ up' = <<>>
        /\ \E k \in 0 .. Len(down) : down' = SubSeq(down, 1, k)
        /\ UNCHANGED <<opened, call, buf, ret>>
    BY <1>3 DEF PeerCloses
  <2>2. Len(up) \in Nat /\ Len(call.left) \in Nat /\ Len(up) \in 0 .. Len(up)
        /\ Len(up \o call.left) - Len(call.left) = Len(up)
    BY LenProperties, ConcatProperties
  <2>3. SubSeq(up \o call.left, Len(up) + 1, Len(up \o call.left)) = call.left
    <3>1. SubSeq(up, Len(up) + 1, Len(up)) = <<>>  BY <2>2, SubSeqEmpty
    <3> QED BY <2>2, <3>1, CutInside, ConcatEmptySeq
  <2>4. up' \o call'.left = call.left  BY <2>1, ConcatEmptySeq
  <2>5. Pipe!PeerCloses  BY <2>1, <2>2, <2>3, <2>4 DEF Pipe!PeerCloses
  <2> QED BY <2>5 DEF Pipe!Next
<1> QED BY <1>1, <1>2, <1>3 DEF Peer

LEMMA InitPipe == TransportInit => Pipe!Init
<1> SUFFICES ASSUME TransportInit PROVE Pipe!Init  OBVIOUS
<1>1. call.fn = "none" /\ Cardinality(opened) = 0 /\ TInv
  BY OneOrNone, InitTInv DEF TransportInit, Idle
<1>2. Len(call.left) = 0 /\ up \o call.left = up  BY <1>1, NothingLeft
<1> QED BY <1>1, <1>2 DEF TransportInit, Pipe!Init

\* For every number of addresses, room and buffer, every program and every peer: the
\* peer gets each byte of each send once and in order, and the program each of its
\* bytes; a send that succeeds sent everything, and a failed connect left no socket
\* (io_connect, io_send, io_recv, io_close).
THEOREM TransportIsPipe == TransportSpec => ImplementsPipe
<1>1. TInv /\ TInv' /\ [TransportNext]_transport => [Pipe!Next]_(Pipe!vars)
  <2> SUFFICES ASSUME TInv, TInv', [TransportNext]_transport PROVE [Pipe!Next]_(Pipe!vars)
    OBVIOUS
  <2>1. CASE UNCHANGED transport  BY <2>1 DEF transport, Pipe!vars
  <2> QED BY <2>1, SystemStep, CallerStep, PeerStep DEF TransportNext
<1> QED BY <1>1, InitPipe, Invariant, PTL DEF TransportSpec, ImplementsPipe, Pipe!Spec

-----------------------------------------------------------------------------
(* iksroster over it.  The inductive invariant: what may be on its way,    *)
(* and which roster is where.                                              *)

HIDE DEF BytesTyped, LeftWhileSending, SocketsKnown, TriedBefore, Pipe!First, Pipe!From

\* The roster that a restore should leave.
Wanted == IF opts.from THEN "mine" ELSE "saved"

\* What the program may say, in the clear and else, and the server.
MayBeSaid(secure) ==
    {m \in Messages :
        /\ opts.tls /\ ~secure => m.name \in {"header", "starttls"}
        /\ m.name \in {"header", "starttls", "login", "bind", "session", "sasl", "response", "get", "set"}
        /\ m.name = "get" => ~sess.set_roster
        /\ m.name = "set" => sess.set_roster /\ m.items = Wanted}

ProgramSays == MayBeSaid(lib.secure)

ServerSays ==
    {m \in Messages :
        /\ opts.tls /\ ~lib.secure =>
              m.name \in {"header", "features", "proceed", "failure", "stream:error", "/stream"}
        /\ m.name = "result" /\ m.id = "roster" =>
              IF sess.set_roster THEN server.rosters.restore = Wanted ELSE m.items = "mine"}

Sessions == [set_roster : BOOLEAN, authorized : BOOLEAN, job_done : BOOLEAN, counter : Int]

RTyped ==
    /\ pc \in {"load", "main", "connect", "greet", "poll", "recv", "parse", "send", "done", "failed"}
    /\ opts \in Options
    /\ jobs \in {<<>>, <<"backup">>, <<"restore">>, <<"backup", "restore">>}
    /\ sess \in Sessions
    /\ lib \in [secure : BOOLEAN, trying : BOOLEAN, part : Seq(BytesOf(Messages)), todo : Seq(Messages)]
    /\ roster \in Rosters /\ file \in Rosters
    /\ server \in [read : Seq(BytesOf(Messages)), knows : BOOLEAN,
                   rosters : [backup : Rosters, restore : Rosters]]

\* The call in progress is that of the place where the program is.
CallFits ==
    call.fn # "none" =>
        \/ call.fn = "connect" /\ pc = "connect"
        \/ call.fn = "send" /\ pc \in {"greet", "send"}
        \/ call.fn = "recv" /\ pc = "recv"

Online == pc \in {"greet", "poll", "recv", "parse", "send"}

\* Everything on its way was said in this session.
Talk ==
    /\ up \in Seq(BytesOf(ProgramSays)) /\ call.left \in Seq(BytesOf(ProgramSays))
    /\ server.read \in Seq(BytesOf(ProgramSays)) /\ lib.todo \in Seq(ProgramSays)
    /\ down \in Seq(BytesOf(ServerSays)) /\ lib.part \in Seq(BytesOf(ServerSays))
    /\ pc = "recv" /\ call.fn = "none" /\ ret = "DATA" => buf \in Seq(BytesOf(ServerSays))

Fresh ==
    /\ lib = NewLib /\ server.read = <<>> /\ ~sess.job_done
    /\ call.fn = "none" /\ ret = "OK" => up = <<>> /\ down = <<>>

Jobs ==
    /\ Online \/ pc = "connect" => jobs # <<>> /\ (sess.set_roster <=> jobs = <<"restore">>)
    /\ pc = "load" => jobs = <<"restore">> /\ ~opts.from
    /\ pc = "done" => jobs = <<>>
    /\ jobs \in {<<"backup">>, <<"backup", "restore">>} => opts.from
    /\ jobs = <<"backup">> => ~opts.to
    /\ jobs = <<>> /\ pc # "failed" /\ opts.to => server.rosters.restore = Wanted

\* Which roster is where.
InHand == jobs = <<"restore">> /\ pc # "load" /\ ~(Online /\ sess.job_done)

Copies ==
    /\ server.rosters.backup = "mine"
    /\ ~opts.from => file = "saved"
    /\ pc # "failed" =>
        /\ InHand => roster = Wanted
        /\ Online /\ sess.job_done =>
              IF sess.set_roster THEN server.rosters.restore = Wanted ELSE roster = "mine"
        /\ opts.from /\ opts.file /\ jobs \in {<<>>, <<"restore">>} => file = "mine"

RInv ==
    /\ RTyped /\ CallFits /\ Jobs /\ Copies
    /\ Online => Talk
    /\ pc = "send" => lib.todo # <<>>
    /\ pc = "connect" => Fresh
    /\ pc \in {"load", "main", "done"} => opened = {}

-----------------------------------------------------------------------------
(* Messages and their bytes.                                               *)

LEMMA BytesTypes == ASSUME NEW M, NEW m \in M PROVE Bytes(m) \in Seq(BytesOf(M)) /\ Bytes(m) # <<>>
BY DEF Bytes, BytesOf

LEMMA AllBytesTypes ==
    ASSUME NEW M, NEW ms \in Seq(M) PROVE AllBytes(ms) \in Seq(BytesOf(M))
<1>1. CASE ms = <<>>  BY <1>1 DEF AllBytes
<1>2. CASE ms # <<>>
  <2>1. PICK n \in Nat : n = 2 * Len(ms)  OBVIOUS
  <2>2. ASSUME NEW i \in 1 .. n
        PROVE  <<ms[(i + 1) \div 2], IF i % 2 = 1 THEN 1 ELSE 2>> \in BytesOf(M)
    <3>1. (i + 1) \div 2 \in 1 .. Len(ms)  BY <2>1
    <3> QED BY <3>1 DEF BytesOf
  <2>3. AllBytes(ms) = [i \in 1 .. n |-> <<ms[(i + 1) \div 2], IF i % 2 = 1 THEN 1 ELSE 2>>]
    BY <1>2, <2>1 DEF AllBytes
  <2>4. PICK f : f = [i \in 1 .. n |-> <<ms[(i + 1) \div 2], IF i % 2 = 1 THEN 1 ELSE 2>>]
    OBVIOUS
  <2>5. f \in [1 .. n -> BytesOf(M)]  BY <2>2, <2>4
  <2>6. f \in Seq(BytesOf(M))  BY <2>5, SeqDef
  <2> QED BY <2>3, <2>4, <2>6
<1> QED BY <1>1, <1>2

LEMMA MoreBytes ==
    ASSUME NEW M, NEW N, M \subseteq N
    PROVE  /\ \A s \in Seq(BytesOf(M)) : s \in Seq(BytesOf(N))
           /\ \A s \in Seq(M) : s \in Seq(N)
<1>1. BytesOf(M) \subseteq BytesOf(N)  BY DEF BytesOf
<1>2. ASSUME NEW A, NEW B, A \subseteq B, NEW s \in Seq(A) PROVE s \in Seq(B)
  BY <1>2
<1> QED BY <1>1, <1>2

LEMMA Cuts ==
    ASSUME NEW B, NEW s \in Seq(B), NEW k \in 0 .. Len(s)
    PROVE  SubSeq(s, k + 1, Len(s)) \in Seq(B) /\ SubSeq(s, 1, k) \in Seq(B)
BY CutLen

\* What is said may be said as well when more may be said.
Wider ==
    /\ opts' = opts /\ sess'.set_roster = sess.set_roster
    /\ lib.secure => lib'.secure
    /\ server.rosters.restore = Wanted => server'.rosters.restore = Wanted

LEMMA SaysMore ==
    ASSUME Wider PROVE ProgramSays \subseteq ProgramSays' /\ ServerSays \subseteq ServerSays'
BY DEF Wider, ProgramSays, ServerSays, MayBeSaid, Wanted

LEMMA AreMessages == ProgramSays \subseteq Messages /\ ServerSays \subseteq Messages
BY DEF ProgramSays, MayBeSaid, ServerSays

-----------------------------------------------------------------------------
(* What the hooks make of a message of the server.                         *)

State == [sess |-> sess, todo |-> <<>>, roster |-> roster, secure |-> lib.secure, fails |-> FALSE]

\* What may have become of the session.
Fine(e) ==
    /\ e \in [sess : Sessions, todo : Seq(MayBeSaid(e.secure)), roster : Rosters,
              secure : BOOLEAN, fails : BOOLEAN]
    /\ e.sess.set_roster = sess.set_roster
    /\ lib.secure => e.secure
    /\ IF ~e.sess.job_done THEN e.roster = roster
       ELSE IF sess.set_roster THEN server.rosters.restore = Wanted ELSE e.roster = "mine"

LEMMA SayFine ==
    ASSUME NEW e, Fine(e), NEW ms \in Seq(MayBeSaid(e.secure)) PROVE Fine(Say(e, ms))
<1>1. PICK s : s = e.secure  OBVIOUS
<1>2. e.todo \in Seq(MayBeSaid(s)) /\ ms \in Seq(MayBeSaid(s))  BY <1>1 DEF Fine
<1>3. PICK t : t = e.todo \o ms /\ t \in Seq(MayBeSaid(s))  BY <1>2, ConcatProperties
<1>4. Say(e, ms) = [e EXCEPT !.todo = t]  BY <1>3 DEF Say
<1> QED BY <1>1, <1>3, <1>4 DEF Fine

LEMMA One == ASSUME NEW S, NEW x \in S PROVE <<x>> \in Seq(S)
OBVIOUS

LEMMA MsgTypes ==
    ASSUME NEW name \in Names PROVE Msg(name) \in Messages /\ Msg(name).name = name
BY DEF Msg, Messages, Rosters

LEMMA IqTypes ==
    ASSUME NEW name \in Names, NEW id \in {"", "auth", "roster"}
    PROVE  Iq(name, id) \in Messages /\ Iq(name, id).name = name /\ Iq(name, id).id = id
BY DEF Msg, Iq, Messages, Rosters

LEMMA AnswersFine ==
    ASSUME RTyped, Copies, pc = "parse", jobs # <<>>, sess.set_roster <=> jobs = <<"restore">>,
           ~sess.job_done, NEW m \in ServerSays, NEW e \in Answers(State, m)
    PROVE  Fine(e)
<1>1. Fine(State) /\ Fine(Told(State)) /\ Fine([State EXCEPT !.fails = TRUE])
      /\ Fine([Told(State) EXCEPT !.fails = TRUE])
  <2>1. OptTimeout \in Int  BY RosterAssumption
  <2>2. <<>> \in Seq(MayBeSaid(lib.secure))  OBVIOUS
  <2>3. sess = [set_roster |-> sess.set_roster, authorized |-> sess.authorized, job_done |-> FALSE, counter |-> sess.counter]
    BY DEF RTyped, Sessions
  <2> QED BY <2>1, <2>2, <2>3 DEF Fine, State, Told, RTyped, Sessions
<1>2. PICK d : d = Told(State)  OBVIOUS
<1>3. Fine(d) /\ d.secure = lib.secure /\ d.roster = roster  BY <1>1, <1>2 DEF Told, State
<1>4. /\ m \in Messages
      /\ opts.tls /\ ~lib.secure =>
            m.name \in {"header", "features", "proceed", "failure", "stream:error", "/stream"}
      /\ m.name = "result" /\ m.id = "roster" =>
            IF sess.set_roster THEN server.rosters.restore = Wanted ELSE m.items = "mine"
  BY DEF ServerSays
<1>5. /\ Msg("header") \in MayBeSaid(lib.secure) /\ Msg("starttls") \in MayBeSaid(lib.secure)
      /\ Msg("header") \in MayBeSaid(TRUE)
  <2>1. Msg("header") \in Messages /\ Msg("header").name = "header"
        /\ Msg("starttls") \in Messages /\ Msg("starttls").name = "starttls"
    BY MsgTypes DEF Names
  <2> QED BY <2>1 DEF MayBeSaid
<1>6. ASSUME ~(opts.tls /\ ~lib.secure)
      PROVE  /\ \A name \in {"login", "bind", "session", "sasl", "response"} :
                    Msg(name) \in MayBeSaid(lib.secure)
             /\ Iq("login", "auth") \in MayBeSaid(lib.secure)
             /\ Iq("session", "auth") \in MayBeSaid(lib.secure)
             /\ (IF sess.set_roster THEN [Iq("set", "roster") EXCEPT !.items = roster]
                 ELSE Iq("get", "roster")) \in MayBeSaid(lib.secure)
  <2>1. \A name \in {"login", "bind", "session", "sasl", "response"} :
             name \in Names /\ Msg(name) \in Messages /\ Msg(name).name = name
    BY MsgTypes DEF Names
  <2>9. "login" \in Names /\ "session" \in Names /\ "auth" \in {"", "auth", "roster"}  BY DEF Names
  <2>2. Iq("login", "auth") \in Messages /\ Iq("login", "auth").name = "login"
    BY ONLY <2>9, IqTypes
  <2>8. Iq("session", "auth") \in Messages /\ Iq("session", "auth").name = "session"
    BY ONLY <2>9, IqTypes
  <2>3. Iq("get", "roster") \in Messages /\ Iq("get", "roster").name = "get"
    BY IqTypes DEF Names
  <2>4. Iq("set", "roster") \in Messages /\ Iq("set", "roster").name = "set"
    BY IqTypes DEF Names
  <2>5. sess.set_roster => roster = Wanted
    BY DEF Copies, InHand, Online
  <2>6. PICK q : q = [Iq("set", "roster") EXCEPT !.items = roster]  OBVIOUS
  <2>7. q \in Messages /\ q.name = "set" /\ q.items = roster
    BY <2>4, <2>6 DEF Messages, RTyped
  <2> QED BY <1>6, <2>1, <2>2, <2>3, <2>5, <2>6, <2>7, <2>8 DEF MayBeSaid
<1>7. ASSUME NEW x \in MayBeSaid(lib.secure) PROVE Fine(Say(d, <<x>>)) /\ Fine(Say(State, <<x>>))
  <2>1. <<x>> \in Seq(MayBeSaid(d.secure)) /\ <<x>> \in Seq(MayBeSaid(State.secure))
    BY <1>3 DEF State
  <2> QED BY <1>1, <1>3, <2>1, SayFine
<1>8. CASE lib.trying /\ m.name = "proceed"
  <2>1. e = [Say(State, <<Msg("header")>>) EXCEPT !.secure = TRUE] \/ e = [State EXCEPT !.fails = TRUE]
    BY <1>8 DEF Answers
  <2>2. CASE e = [Say(State, <<Msg("header")>>) EXCEPT !.secure = TRUE]
    <3>1. PICK S : S = MayBeSaid(TRUE)  OBVIOUS
    <3>0. PICK x \in S : x = Msg("header")  BY <1>5, <3>1
    <3>1a. PICK t : t = <<x>> /\ t \in Seq(S)  BY One
    <3>2. e = [sess |-> sess, todo |-> t, roster |-> roster, secure |-> TRUE, fails |-> FALSE]
      <4>1. Say(State, t) = [State EXCEPT !.todo = <<>> \o t]  BY DEF Say, State
      <4>2. <<>> \o t = t  BY <3>1a
      <4>3. e = [[State EXCEPT !.todo = t] EXCEPT !.secure = TRUE]
        BY <2>2, <3>0, <3>1a, <4>1, <4>2
      <4> QED BY <4>3 DEF State
    <3> QED BY <3>1, <3>1a, <3>2, <1>1 DEF Fine, RTyped, State
  <2> QED BY <1>1, <2>1, <2>2
<1>9. CASE ~(lib.trying /\ m.name = "proceed") /\ lib.trying /\ m.name = "failure"
  BY <1>1, <1>9 DEF Answers
<1>10. CASE m.name = "challenge"
  <2>1. e = Say(State, <<Msg("response")>>)  BY <1>10 DEF Answers
  <2> QED BY <1>4, <1>6, <1>7, <1>10, <2>1
<1>11. CASE e = on_stream(d, m)
  <2>1. CASE m.name = "header"
    <3>1. e = on_header(d)  BY <1>11, <2>1 DEF on_stream
    <3>2. CASE opts.tls /\ ~lib.secure
      <4>1. e = Say(d, <<Msg("starttls")>>)  BY <3>1, <3>2 DEF on_header
      <4> QED BY <1>5, <1>7, <4>1
    <3>3. CASE ~(opts.tls /\ ~lib.secure)
      <4>1. e = Say(d, <<Iq("login", "auth")>>) \/ e = d  BY <3>1, <3>3 DEF on_header
      <4> QED BY <1>3, <1>6, <1>7, <3>3, <4>1
    <3> QED BY <3>2, <3>3
  <2>2. CASE m.name = "features"
    <3>1. e = on_features(d, m.offers)  BY <1>11, <2>2 DEF on_stream
    <3>2. CASE opts.tls /\ ~lib.secure
      <4>1. e = d  BY <3>1, <3>2 DEF on_features
      <4> QED BY <1>3, <4>1
    <3>3. CASE ~(opts.tls /\ ~lib.secure)
      <4> DEFINE S == Seq(MayBeSaid(lib.secure))
      <4>1. /\ <<Msg("bind")>> \in S /\ <<Iq("session", "auth")>> \in S
            /\ <<Msg("sasl")>> \in S /\ <<>> \in S
        <5>1. {Msg("bind"), Iq("session", "auth"), Msg("sasl")} \subseteq MayBeSaid(lib.secure)
          BY <1>6, <3>3
        <5> QED BY <5>1
      <4> HIDE DEF S
      <4>2. /\ \A p : When(p, <<Msg("bind")>>) \in S /\ When(p, <<Msg("sasl")>>) \in S
                     /\ When(p, <<Iq("session", "auth")>>) \in S
        BY <4>1 DEF When
      <4>3. \A p, q : When(p, <<Msg("bind")>>) \o When(q, <<Iq("session", "auth")>>) \in S
        BY <4>2, ConcatProperties DEF S
      <4>4. e = d \/ \E ms \in S : e = Say(d, ms)  BY <3>1, <4>2, <4>3 DEF on_features
      <4>5. ASSUME NEW ms \in S PROVE Fine(Say(d, ms))  BY <1>3, <4>5, SayFine DEF S
      <4> QED BY <1>3, <4>4, <4>5
    <3> QED BY <3>2, <3>3
  <2>3. CASE m.name \in {"failure", "stream:error", "/stream"}
    <3>1. e = [d EXCEPT !.fails = TRUE]  BY <1>11, <2>3 DEF on_stream
    <3> QED BY <1>1, <1>2, <3>1
  <2>4. CASE m.name = "success"
    <3>1. e = Say([d EXCEPT !.sess.authorized = TRUE], <<Msg("header")>>)
      BY <1>11, <2>4 DEF on_stream, on_success
    <3>2. PICK f : f = [d EXCEPT !.sess.authorized = TRUE]  OBVIOUS
    <3>3. Fine(f) /\ f.secure = lib.secure  BY <1>3, <3>2 DEF Fine, Sessions
    <3>4. <<Msg("header")>> \in Seq(MayBeSaid(f.secure))  BY <1>5, <3>3
    <3> QED BY <3>1, <3>2, <3>3, <3>4, SayFine
  <2>5. CASE m.name \notin {"header", "features", "failure", "stream:error", "/stream", "success"}
    <3>1. e = Filtered(d, m)  BY <1>11, <2>5 DEF on_stream
    <3>6. /\ Iq("result", "auth").name = "result" /\ Iq("result", "auth").id = "auth"
          /\ Iq("error", "auth").name = "error"
      BY IqTypes DEF Names
    <3>2. CASE m = Iq("result", "auth")
      <4>1. e = on_result(d) /\ m.name = "result"
        BY <3>1, <3>2, <3>6 DEF Filtered
      <4>2. ~(opts.tls /\ ~lib.secure)  BY <1>4, <4>1
      <4>3. e = Say(d, <<IF sess.set_roster THEN [Iq("set", "roster") EXCEPT !.items = roster]
                        ELSE Iq("get", "roster")>>)
        BY <1>3, <4>1 DEF on_result, Fine
      <4> QED BY <1>6, <1>7, <4>2, <4>3
    <3>3. CASE m # Iq("result", "auth") /\ m = Iq("error", "auth")
      <4>1. e = [d EXCEPT !.fails = TRUE]  BY <3>1, <3>3, <3>6 DEF Filtered
      <4> QED BY <1>1, <1>2, <4>1
    <3>4. CASE m # Iq("result", "auth") /\ m # Iq("error", "auth") /\ m.name = "result" /\ m.id = "roster"
      <4>1. e = [Done(d) EXCEPT !.roster = m.items]  BY <3>1, <3>4 DEF Filtered, on_roster
      <4>2. m.items \in Rosters  BY <1>4 DEF Messages
      <4> DEFINE States == [sess : Sessions, todo : Seq(MayBeSaid(lib.secure)), roster : Rosters,
                            secure : BOOLEAN, fails : BOOLEAN]
      <4>5. PICK z : z = [d.sess EXCEPT !.job_done = TRUE]  OBVIOUS
      <4>6. z \in Sessions /\ z.job_done = TRUE /\ z.set_roster = sess.set_roster
        BY <1>3, <4>5 DEF Fine, Sessions
      <4>7. d \in States /\ (lib.secure => d.secure)  BY <1>3 DEF Fine
      <4>8. Done(d) = [d EXCEPT !.sess = z]  BY <4>5 DEF Done
      <4>3. PICK f : f = Done(d) /\ f.sess.job_done = TRUE /\ f.sess.set_roster = sess.set_roster
                     /\ f \in States /\ f.secure = lib.secure
        BY <1>3, <4>6, <4>7, <4>8
      <4>4. e = [f EXCEPT !.roster = m.items]  BY <4>1, <4>3
      <4> QED BY <1>4, <3>4, <4>2, <4>3, <4>4 DEF Fine
    <3>5. CASE ~(m.name = "result" /\ m.id = "roster") /\ m # Iq("result", "auth") /\ m # Iq("error", "auth")
      <4>1. e = d  BY <3>1, <3>5 DEF Filtered
      <4> QED BY <1>3, <4>1
    <3> QED BY <3>2, <3>3, <3>4, <3>5
  <2> QED BY <2>1, <2>2, <2>3, <2>4, <2>5
<1> QED BY <1>2, <1>8, <1>9, <1>10, <1>11 DEF Answers

-----------------------------------------------------------------------------
(* What the server answers.                                                *)

LEMMA RepliesSaid ==
    ASSUME RTyped, Jobs, Copies, Online, NEW m \in ProgramSays, NEW r \in Replies(m),
           UNCHANGED <<opts, sess, lib>>,
           server'.rosters = IF m.name = "set" /\ r[1].name = "result"
                             THEN [server.rosters EXCEPT ![Head(jobs)] = m.items]
                             ELSE server.rosters
    PROVE  /\ r \in Seq(ServerSays')
           /\ server'.rosters \in [backup : Rosters, restore : Rosters]
           /\ server'.rosters.backup = "mine"
           /\ server.rosters.restore = Wanted => server'.rosters.restore = Wanted
<1> DEFINE S == ServerSays'
<1>1. /\ m \in Messages
      /\ opts.tls /\ ~lib.secure => m.name \in {"header", "starttls"}
      /\ m.name \in {"header", "starttls", "login", "bind", "session", "sasl", "response", "get", "set"}
      /\ m.name = "get" => ~sess.set_roster
      /\ m.name = "set" => sess.set_roster /\ m.items = Wanted
  BY DEF ProgramSays, MayBeSaid
<1>2. m.items \in Rosters  BY <1>1 DEF Messages
<1>3. /\ server.rosters \in [backup : Rosters, restore : Rosters] /\ server.rosters.backup = "mine"
      /\ sess.set_roster <=> Head(jobs) = "restore"
      /\ ~sess.set_roster <=> Head(jobs) = "backup"
  BY DEF RTyped, Jobs, Copies
<1>4. /\ server'.rosters \in [backup : Rosters, restore : Rosters]
      /\ server'.rosters.backup = "mine"
      /\ server.rosters.restore = Wanted => server'.rosters.restore = Wanted
      /\ m.name = "set" /\ r[1].name = "result" => server'.rosters.restore = Wanted
  <2>1. CASE m.name = "set" /\ r[1].name = "result"
    <3>1. server'.rosters = [server.rosters EXCEPT !["restore"] = Wanted]  BY <1>1, <1>3, <2>1
    <3>2. Wanted \in Rosters  BY <1>1, <1>2, <2>1
    <3> QED BY <1>3, <2>1, <3>1, <3>2
  <2>2. CASE ~(m.name = "set" /\ r[1].name = "result")
    BY <1>3, <2>2
  <2> QED BY <2>1, <2>2
<1>5. \A x \in Messages :
         /\ opts.tls /\ ~lib.secure =>
               x.name \in {"header", "features", "proceed", "failure", "stream:error", "/stream"}
         /\ x.name = "result" /\ x.id = "roster" =>
               IF sess.set_roster THEN server'.rosters.restore = Wanted ELSE x.items = "mine"
         => x \in S
  BY DEF ServerSays, Wanted
<1> HIDE DEF S
<1>6. \A x, y : x \in S /\ y \in S => <<x, y>> \in Seq(S) /\ <<x>> \in Seq(S)
  OBVIOUS
<1>7. CASE r = StreamError
  <2>1. Msg("stream:error") \in Messages /\ Msg("stream:error").name = "stream:error"
    BY MsgTypes DEF Names
  <2>2. Msg("/stream") \in Messages /\ Msg("/stream").name = "/stream"
    BY MsgTypes DEF Names
  <2>3. Msg("stream:error") \in S /\ Msg("/stream") \in S  BY <1>5, <2>1, <2>2
  <2> QED BY <1>4, <1>6, <1>7, <2>3 DEF StreamError, S
<1>8. CASE m.name = "header" /\ r # StreamError
  <2>1. PICK s \in Offers.before \cup Offers.after : r = <<Msg("header"), Features(s)>>
    BY <1>8 DEF Replies
  <2>2. Msg("header") \in Messages /\ Msg("header").name = "header"  BY MsgTypes DEF Names
  <2>3. Msg("features") \in Messages /\ Msg("features").name = "features"  BY MsgTypes DEF Names
  <2>4. Features(s) \in Messages /\ Features(s).name = "features"
    BY <2>3 DEF Features, Messages
  <2>5. Msg("header") \in S /\ Features(s) \in S  BY <1>5, <2>2, <2>4
  <2> QED BY <1>4, <1>6, <2>1, <2>5 DEF S
<1>9. CASE m.name = "starttls" /\ r # StreamError
  <2>1. r = <<Msg("proceed")>> \/ r = <<Msg("failure")>>  BY <1>9 DEF Replies
  <2>2. Msg("proceed") \in Messages /\ Msg("proceed").name = "proceed"  BY MsgTypes DEF Names
  <2>3. Msg("failure") \in Messages /\ Msg("failure").name = "failure"  BY MsgTypes DEF Names
  <2>4. Msg("proceed") \in S /\ Msg("failure") \in S  BY <1>5, <2>2, <2>3
  <2> QED BY <1>4, <1>6, <2>1, <2>4 DEF S
<1>10. ASSUME m.name \notin {"header", "starttls"},
              NEW x \in Messages,
              x.name = "result" /\ x.id = "roster" =>
                 IF sess.set_roster THEN server'.rosters.restore = Wanted ELSE x.items = "mine"
       PROVE  x \in S
  BY <1>1, <1>5, <1>10
<1>11. CASE m.name = "sasl" /\ r # StreamError
  <2>1. r = <<Msg("challenge")>> \/ r = <<Msg("failure")>>  BY <1>11 DEF Replies
  <2>2. Msg("challenge") \in Messages /\ Msg("challenge").name = "challenge"  BY MsgTypes DEF Names
  <2>3. Msg("failure") \in Messages /\ Msg("failure").name = "failure"  BY MsgTypes DEF Names
  <2>4. Msg("challenge") \in S /\ Msg("failure") \in S  BY <1>10, <1>11, <2>2, <2>3
  <2> QED BY <1>4, <1>6, <2>1, <2>4 DEF S
<1>12. CASE m.name = "response" /\ r # StreamError
  <2>1. r = <<Msg("success")>>  BY <1>12 DEF Replies
  <2>2. Msg("success") \in Messages /\ Msg("success").name = "success"  BY MsgTypes DEF Names
  <2>3. Msg("success") \in S  BY <1>10, <1>12, <2>2
  <2> QED BY <1>4, <1>6, <2>1, <2>3 DEF S
<1>13. CASE m.name = "bind" /\ r # StreamError
  <2>1. r = <<Iq("result", "")>>  BY <1>13 DEF Replies
  <2>2. "result" \in Names /\ "" \in {"", "auth", "roster"}  BY DEF Names
  <2>3. Iq("result", "") \in Messages /\ Iq("result", "").id = ""  BY ONLY <2>2, IqTypes
  <2>4. Iq("result", "") \in S  BY <1>10, <1>13, <2>3
  <2> QED BY <1>4, <1>6, <2>1, <2>4 DEF S
<1>14. CASE m.name \in {"login", "session"} /\ r # StreamError
  <2>1. r = <<Msg("presence"), Iq("result", "auth")>> \/ r = <<Iq("error", "auth")>>
    BY <1>14 DEF Replies
  <2>2. "result" \in Names /\ "error" \in Names /\ "auth" \in {"", "auth", "roster"}  BY DEF Names
  <2>3. Iq("result", "auth") \in Messages /\ Iq("result", "auth").id = "auth"  BY ONLY <2>2, IqTypes
  <2>4. Iq("error", "auth") \in Messages /\ Iq("error", "auth").id = "auth"  BY ONLY <2>2, IqTypes
  <2>5. Msg("presence") \in Messages /\ Msg("presence").name = "presence"  BY MsgTypes DEF Names
  <2>6. Iq("result", "auth") \in S /\ Iq("error", "auth") \in S  BY <1>10, <1>14, <2>3, <2>4
  <2>7. Msg("presence") \in S  BY <1>10, <1>14, <2>5
  <2> QED BY <1>4, <1>6, <2>1, <2>6, <2>7 DEF S
<1>15. CASE m.name \in {"get", "set"} /\ r # StreamError
  <2>1. "result" \in Names /\ "error" \in Names /\ "roster" \in {"", "auth", "roster"}  BY DEF Names
  <2>2. Iq("error", "roster") \in Messages /\ Iq("error", "roster").name = "error"
    BY ONLY <2>1, IqTypes
  <2>3. Iq("result", "roster") \in Messages /\ Iq("result", "roster").name = "result"
    BY ONLY <2>1, IqTypes
  <2>4. Iq("error", "roster") \in S  BY <1>10, <1>15, <2>2
  <2>5. CASE m.name = "get"
    <3>1. \/ r = <<[Iq("result", "roster") EXCEPT !.items = server.rosters[Head(jobs)]]>>
          \/ r = <<Iq("error", "roster")>>
      BY <1>15, <2>5 DEF Replies
    <3>2. PICK x : x = [Iq("result", "roster") EXCEPT !.items = "mine"]  OBVIOUS
    <3>3. x \in Messages /\ x.items = "mine"  BY <2>3, <3>2 DEF Messages, Rosters
    <3>4. x \in S  BY <1>1, <1>10, <2>5, <3>3
    <3>5. server.rosters[Head(jobs)] = "mine"  BY <1>1, <1>3, <2>5
    <3> QED BY <1>4, <1>6, <2>4, <3>1, <3>2, <3>4, <3>5 DEF S
  <2>6. CASE m.name = "set"
    <3>1. r = <<Iq("result", "roster")>> \/ r = <<Iq("error", "roster")>>
      BY <1>15, <2>6 DEF Replies
    <3>2. CASE r = <<Iq("result", "roster")>>
      <4>1. r[1].name = "result"  BY <2>3, <3>2
      <4>2. server'.rosters.restore = Wanted  BY <1>4, <2>6, <4>1
      <4>3. Iq("result", "roster") \in S  BY <1>1, <1>10, <2>3, <2>6, <4>2
      <4> QED BY <1>4, <1>6, <3>2, <4>3 DEF S
    <3> QED BY <1>4, <1>6, <2>4, <3>1, <3>2 DEF S
  <2> QED BY <1>15, <2>5, <2>6
<1> QED BY <1>1, <1>7, <1>8, <1>9, <1>11, <1>12, <1>13, <1>14, <1>15

-----------------------------------------------------------------------------
(* Every step of iksroster is one that the transport allows.               *)

LEMMA MoreOctets == \A s \in Seq(BytesOf(Messages)) : s \in Seq(Octets)
<1>1. BytesOf(Messages) \subseteq Octets  BY DEF Octets
<1> QED BY <1>1

LEMMA StepOfTransport ==
    ASSUME RInv, TInv, [Next]_vars PROVE [TransportNext]_transport
<1>1. CASE UNCHANGED transport  BY <1>1
<1>2. ASSUME NEW m \in Messages, CallSend(Bytes(m)) PROVE TransportNext
  <2>1. Bytes(m) \in Seq(Octets)  BY BytesTypes, MoreOctets
  <2> QED BY <1>2, <2>1 DEF TransportNext, Caller
<1>3. CASE Connect  BY <1>3 DEF Connect, RInv, TransportNext, Caller
<1>4. CASE Greet
  <2>1. Msg("header") \in Messages  BY MsgTypes DEF Names
  <2> QED BY <1>1, <1>2, <1>4, <2>1 DEF Greet
<1>5. CASE Poll  BY <1>5 DEF Poll, TransportNext, Caller
<1>6. CASE Send
  <2>1. lib.todo \in Seq(Messages) /\ lib.todo # <<>>  BY <1>6 DEF Send, RInv, RTyped
  <2>2. Head(lib.todo) \in Messages  BY <2>1
  <2> QED BY <1>2, <1>6, <2>2 DEF Send
<1>7. CASE Finish  BY <1>7 DEF Finish, TransportNext, Caller
<1>8. CASE System  BY <1>8 DEF System, TransportNext
<1>9. CASE ReadFile \/ Greeted \/ Received \/ NeedMore \/ Parse \/ Sent \/ Exit
  BY <1>1, <1>9 DEF ReadFile, Greeted, Received, NeedMore, Parse, Sent, Exit
<1>10. CASE ServerReads
  BY <1>10 DEF ServerReads, TransportNext, Peer
<1>11. CASE ServerAnswers
  <2>1. PICK r \in Replies(server.read[1][1]) :
            /\ PeerGives(AllBytes(r))
            /\ server'.rosters = IF server.read[1][1].name = "set" /\ r[1].name = "result"
                                 THEN [server.rosters EXCEPT ![Head(jobs)] = server.read[1][1].items]
                                 ELSE server.rosters
            /\ UNCHANGED <<opts, sess, lib>>
    BY <1>11 DEF ServerAnswers
  <2>2. Online  BY <1>11 DEF ServerAnswers, Connected, Online, RInv, RTyped
  <2>3. server.read \in Seq(BytesOf(ProgramSays)) /\ Len(server.read) >= 2
    BY <1>11, <2>2 DEF ServerAnswers, RInv, Talk
  <2>4. server.read[1] \in BytesOf(ProgramSays)  BY <2>3
  <2>5. PICK m \in ProgramSays : m = server.read[1][1]  BY <2>4 DEF BytesOf
  <2>6. r \in Seq(ServerSays')  BY <2>1, <2>2, <2>5, RepliesSaid DEF RInv
  <2>7. AllBytes(r) \in Seq(Octets)
    <3>1. ServerSays' \subseteq Messages  BY DEF ServerSays
    <3>2. r \in Seq(Messages)  BY <2>6, <3>1, MoreBytes
    <3> QED BY <3>2, AllBytesTypes, MoreOctets
  <2> QED BY <2>1, <2>7 DEF TransportNext, Peer
<1>12. CASE ServerCloses  BY <1>12 DEF ServerCloses, TransportNext, Peer
<1>13. CASE UNCHANGED vars  BY <1>1, <1>13 DEF vars
<1> QED BY <1>3, <1>4, <1>5, <1>6, <1>7, <1>8, <1>9, <1>10, <1>11, <1>12, <1>13
        DEF Next, Program

-----------------------------------------------------------------------------
(* The invariant holds.                                                    *)

LEMMA InitRInv == Init => RInv
<1> SUFFICES ASSUME Init PROVE RInv  OBVIOUS
<1>1. opts \in Options /\ (opts.from \/ opts.to) /\ (opts.to => opts.from \/ opts.file)
  BY RosterAssumption DEF Init
<1>2. jobs = IF opts.from THEN (IF opts.to THEN <<"backup", "restore">> ELSE <<"backup">>)
             ELSE <<"restore">>
  BY <1>1 DEF Init, When
<1>3. /\ lib \in [secure : BOOLEAN, trying : BOOLEAN, part : Seq(BytesOf(Messages)), todo : Seq(Messages)]
      /\ sess \in Sessions
      /\ server \in [read : Seq(BytesOf(Messages)), knows : BOOLEAN,
                     rosters : [backup : Rosters, restore : Rosters]]
  <2>1. <<>> \in Seq(BytesOf(Messages)) /\ <<>> \in Seq(Messages)  OBVIOUS
  <2>2. sess = [set_roster |-> "backup" = "restore", authorized |-> FALSE, job_done |-> FALSE, counter |-> 0]
    BY DEF Init, NewSession
  <2>3. lib \in [secure : BOOLEAN, trying : BOOLEAN, part : Seq(BytesOf(Messages)), todo : Seq(Messages)]
    BY <2>1 DEF Init, NewLib
  <2>4. server \in [read : Seq(BytesOf(Messages)), knows : BOOLEAN,
                     rosters : [backup : Rosters, restore : Rosters]]
    BY <2>1 DEF Init, Rosters
  <2> QED BY <2>2, <2>3, <2>4 DEF Sessions
<1>4. RTyped  BY <1>1, <1>2, <1>3 DEF Init, RTyped, Rosters
<1>5. CallFits /\ Jobs /\ Copies
  <2>1. /\ call.fn = "none" /\ pc = (IF opts.from THEN "main" ELSE "load") /\ roster = None
        /\ file = (IF opts.from THEN None ELSE "saved") /\ server.rosters.backup = "mine"
    BY DEF Init, TransportInit, Idle
  <2>2. jobs # <<>>  BY <1>2
  <2>3. CASE opts.from
    BY <1>1, <1>2, <2>1, <2>2, <2>3 DEF CallFits, Jobs, Copies, Online, InHand, Wanted
  <2>4. CASE ~opts.from
    BY <1>1, <1>2, <2>1, <2>2, <2>4 DEF CallFits, Jobs, Copies, Online, InHand, Wanted
  <2> QED BY <2>3, <2>4
<1>6. pc \in {"main", "load"} /\ opened = {}  BY DEF Init, TransportInit
<1> QED BY <1>4, <1>5, <1>6 DEF RInv, Online

\* Talk, whatever the two may say.
Heard(P, S) ==
    /\ up \in Seq(BytesOf(P)) /\ call.left \in Seq(BytesOf(P))
    /\ server.read \in Seq(BytesOf(P)) /\ lib.todo \in Seq(P)
    /\ down \in Seq(BytesOf(S)) /\ lib.part \in Seq(BytesOf(S))
    /\ pc = "recv" /\ call.fn = "none" /\ ret = "DATA" => buf \in Seq(BytesOf(S))

LEMMA TalkAsHeard ==
    /\ Talk <=> Heard(ProgramSays, ServerSays)
    /\ \A P, S : P \subseteq ProgramSays' /\ S \subseteq ServerSays' /\ Heard(P, S)' => Talk'
<1>1. Talk <=> Heard(ProgramSays, ServerSays)  BY DEF Talk, Heard
<1>2. ASSUME NEW P, NEW S, P \subseteq ProgramSays', S \subseteq ServerSays', Heard(P, S)'
      PROVE  Talk'
  <2>1. /\ \A s \in Seq(BytesOf(P)) : s \in Seq(BytesOf(ProgramSays'))
        /\ \A s \in Seq(P) : s \in Seq(ProgramSays')
    BY <1>2, MoreBytes
  <2>2. \A s \in Seq(BytesOf(S)) : s \in Seq(BytesOf(ServerSays'))
    BY <1>2, MoreBytes
  <2> QED BY <1>2, <2>1, <2>2 DEF Heard, Talk
<1> QED BY <1>1, <1>2

LEMMA SystemRInv ==
    ASSUME RInv, TInv, System PROVE RInv'
<1> USE DEF TInv, BytesTyped, LeftWhileSending, SocketsKnown, TriedBefore
<1>1. UNCHANGED <<pc, opts, jobs, sess, lib, roster, file, server>> /\ SystemCall
  BY DEF System, roster_vars
<1>2. RTyped' /\ Jobs' /\ Copies'
  BY <1>1 DEF RInv, RTyped, Jobs, Copies, InHand, Online, Wanted
<1>3. PICK P, S : P = ProgramSays /\ S = ServerSays  OBVIOUS
<1>4. P = ProgramSays' /\ S = ServerSays'
  BY <1>1, <1>3 DEF ProgramSays, ServerSays, MayBeSaid, Wanted
<1>5. Online => Heard(P, S)  BY <1>3, TalkAsHeard DEF RInv
<1>6. SUFFICES /\ call.fn # "none" /\ call'.fn \in {call.fn, "none"}
               /\ Heard(P, S) => Heard(P, S)'
               /\ pc = "connect" /\ call'.fn = "none" /\ ret' = "OK" => up' = <<>> /\ down' = <<>>
  <2>1. CallFits' /\ pc \notin {"load", "main", "done"}
    BY <1>1, <1>6 DEF RInv, CallFits
  <2>2. pc = "connect" => Fresh'  BY <1>1, <1>6 DEF RInv, Fresh
  <2>3. Online => Talk'  BY <1>4, <1>5, <1>6, TalkAsHeard
  <2> QED BY <1>1, <1>2, <2>1, <2>2, <2>3 DEF RInv, Online
<1>7. CASE NewSocket \/ NoSocket \/ Refused
  <2>1. /\ call.fn = "connect" /\ call'.fn = "connect" /\ call'.left = call.left
        /\ UNCHANGED <<up, down, ret, buf>>
    BY <1>7 DEF NewSocket, NoSocket, Refused, Trying
  <2> QED BY <1>1, <2>1 DEF Heard
<1>8. CASE Accepted
  <2>1. call.fn = "connect" /\ call' = Idle /\ ret' = "OK" /\ up' = <<>> /\ down' = <<>>
    BY <1>8 DEF Accepted, Return
  <2>2. ~Online  BY <2>1 DEF RInv, CallFits, Online
  <2>3. Heard(P, S) => Heard(P, S)'
    BY <1>1, <2>1 DEF Heard, Idle
  <2> QED BY <2>1, <2>3 DEF Idle
<1>9. CASE NoAddressLeft
  <2>1. /\ call.fn = "connect" /\ call' = Idle /\ ret' = call.err /\ call.err # "OK"
        /\ UNCHANGED <<up, down, buf>>
    BY <1>9 DEF NoAddressLeft, Return
  <2>2. ret' # "DATA"  BY <2>1 DEF Errs
  <2> QED BY <1>1, <2>1, <2>2 DEF Heard, Idle
<1>10. CASE SendBreaks \/ RecvEnds
  <2>1. /\ call.fn \in {"send", "recv"} /\ call' = Idle /\ ret' = "RWERR"
        /\ UNCHANGED <<up, buf>> /\ (down' = down \/ down' = <<>>)
    BY <1>10 DEF SendBreaks, RecvEnds, Return
  <2>2. <<>> \in Seq(BytesOf(P)) /\ <<>> \in Seq(BytesOf(S))  OBVIOUS
  <2>3. pc # "connect"  BY <2>1 DEF RInv, CallFits
  <2> QED BY <1>1, <2>1, <2>2, <2>3 DEF Heard, Idle
<1>11. ASSUME NEW k \in Nat, SendSome(k)
       PROVE  /\ call.fn # "none" /\ call'.fn \in {call.fn, "none"}
              /\ Heard(P, S) => Heard(P, S)'
              /\ pc = "connect" /\ call'.fn = "none" /\ ret' = "OK" => up' = <<>> /\ down' = <<>>
  <2>1. call.fn = "send" /\ k \in 1 .. Len(call.left) /\ UNCHANGED <<down, buf>>
        /\ (up' = up \/ up' = up \o SubSeq(call.left, 1, k))
    BY <1>11 DEF SendSome
  <2>2. pc \in {"greet", "send"}  BY <2>1 DEF RInv, CallFits
  <2>3. \/ call'.fn = "none" /\ call'.left = <<>>
        \/ call'.fn = "send" /\ call'.left = SubSeq(call.left, k + 1, Len(call.left))
    BY <1>11, <2>1 DEF SendSome, SendsTheRest, Return, Idle
  <2>4. ASSUME Heard(P, S) PROVE Heard(P, S)'
    <3>1. PICK B : B = BytesOf(P)  OBVIOUS
    <3>2. up \in Seq(B) /\ call.left \in Seq(B)  BY <2>4, <3>1 DEF Heard
    <3>3. k \in 0 .. Len(call.left)  BY <2>1, <3>2
    <3>4. SubSeq(call.left, k + 1, Len(call.left)) \in Seq(B) /\ SubSeq(call.left, 1, k) \in Seq(B)
      BY <3>2, <3>3, Cuts
    <3>6. up \o SubSeq(call.left, 1, k) \in Seq(B)  BY <3>2, <3>4, ConcatProperties
    <3>7. <<>> \in Seq(B)  OBVIOUS
    <3>5. up' \in Seq(B) /\ call'.left \in Seq(B)
      BY ONLY <2>1, <2>3, <3>2, <3>4, <3>6, <3>7
    <3> QED BY <1>1, <2>1, <2>2, <2>4, <3>1, <3>5 DEF Heard
  <2> QED BY <2>1, <2>2, <2>3, <2>4
<1>12. ASSUME NEW k \in Nat, RecvSome(k)
       PROVE  /\ call.fn # "none" /\ call'.fn \in {call.fn, "none"}
              /\ Heard(P, S) => Heard(P, S)'
              /\ pc = "connect" /\ call'.fn = "none" /\ ret' = "OK" => up' = <<>> /\ down' = <<>>
  <2>1. /\ call.fn = "recv" /\ k \in 1 .. Len(down) /\ buf' = SubSeq(down, 1, k)
        /\ down' = SubSeq(down, k + 1, Len(down)) /\ call' = Idle /\ UNCHANGED up
    BY <1>12 DEF RecvSome, Return
  <2>2. pc = "recv"  BY <2>1 DEF RInv, CallFits
  <2>3. ASSUME Heard(P, S) PROVE Heard(P, S)'
    <3>1. PICK B : B = BytesOf(S)  OBVIOUS
    <3>2. down \in Seq(B)  BY <2>3, <3>1 DEF Heard
    <3>3. k \in 0 .. Len(down)  BY <2>1, <3>2
    <3>4. buf' \in Seq(B) /\ down' \in Seq(B)  BY <2>1, <3>2, <3>3, Cuts
    <3> QED BY <1>1, <2>1, <2>3, <3>1, <3>4 DEF Heard, Idle
  <2> QED BY <2>1, <2>2, <2>3 DEF Idle
<1>13. \A k \in 1 .. Room + BufLen : k \in Nat  BY TransportAssumption
<1> QED BY <1>1, <1>7, <1>8, <1>9, <1>10, <1>11, <1>12, <1>13 DEF SystemCall
LEMMA SaysSame ==
    ASSUME UNCHANGED opts, sess'.set_roster = sess.set_roster, lib'.secure = lib.secure,
           server'.rosters = server.rosters
    PROVE  ProgramSays' = ProgramSays /\ ServerSays' = ServerSays
BY DEF ProgramSays, ServerSays, MayBeSaid, Wanted

\* A step that goes on talking in the same session.
LEMMA GoesOn ==
    ASSUME RInv, Online, Online', UNCHANGED <<opts, sess, jobs, roster, file>>,
           lib'.secure = lib.secure, server'.rosters = server.rosters,
           lib' \in [secure : BOOLEAN, trying : BOOLEAN, part : Seq(BytesOf(Messages)), todo : Seq(Messages)],
           server' \in [read : Seq(BytesOf(Messages)), knows : BOOLEAN,
                        rosters : [backup : Rosters, restore : Rosters]],
           CallFits', pc' = "send" => lib'.todo # <<>>,
           Heard(ProgramSays, ServerSays) => \E P, S : P = ProgramSays /\ S = ServerSays /\ Heard(P, S)'
    PROVE  RInv'
<1>1. RTyped'
  BY DEF RInv, RTyped, Online
<1>2. Jobs' /\ Copies'
  BY DEF RInv, Jobs, Copies, InHand, Online, Wanted
<1>3. Talk'
  <2>1. PICK P, S : P = ProgramSays /\ S = ServerSays /\ Heard(P, S)'
    BY TalkAsHeard DEF RInv
  <2>2. P = ProgramSays' /\ S = ServerSays'  BY <2>1, SaysSame
  <2> QED BY <2>1, <2>2, TalkAsHeard
<1> QED BY <1>1, <1>2, <1>3 DEF RInv, Online

LEMMA TodoTypes ==
    ASSUME NEW M, NEW s \in Seq(M), s # <<>>
    PROVE  Head(s) \in M /\ Tail(s) \in Seq(M)
OBVIOUS

LEMMA TalkRInv ==
    ASSUME RInv, TInv, Poll \/ NeedMore \/ Send \/ Sent \/ ServerReads \/ ServerCloses
    PROVE  RInv'
<1> DEFINE Libs == [secure : BOOLEAN, trying : BOOLEAN, part : Seq(BytesOf(Messages)), todo : Seq(Messages)]
           Servers == [read : Seq(BytesOf(Messages)), knows : BOOLEAN,
                       rosters : [backup : Rosters, restore : Rosters]]
<1>1. lib \in Libs /\ server \in Servers  BY DEF RInv, RTyped
<1> HIDE DEF Libs, Servers
<1>2. CASE Poll
  <2>1. Online /\ Online' /\ Stay  BY <1>2 DEF Poll, Goto, Online
  <2>2. /\ UNCHANGED <<up, down, buf>> /\ call.left = <<>> /\ call'.left = <<>>
        /\ call'.fn \in {"none", "recv"} /\ (call'.fn = "none" => ret' = "NOTHING") /\ pc' = "recv"
    BY <1>2 DEF Poll, CallRecv, Return, Idle, Goto
  <2>3. CallFits'  BY <2>2 DEF CallFits
  <2>4. ASSUME NEW P, NEW S, Heard(P, S) PROVE Heard(P, S)'
    BY <2>1, <2>2, <2>4 DEF Heard, Stay
  <2> QED BY <1>1, <2>1, <2>2, <2>3, <2>4, GoesOn DEF Stay, Libs, Servers
<1>3. CASE NeedMore
  <2>1. Online /\ Online' /\ Stay /\ UNCHANGED transport /\ pc = "parse" /\ pc' = "poll"
    BY <1>3 DEF NeedMore, Parsing, Goto, Online
  <2>2. UNCHANGED <<up, down, buf, call, ret>>  BY <2>1 DEF transport
  <2>3. CallFits'  BY <2>1, <2>2 DEF CallFits, RInv
  <2>4. ASSUME NEW P, NEW S, Heard(P, S) PROVE Heard(P, S)'
    BY <2>1, <2>2, <2>4 DEF Heard, Stay
  <2> QED BY <1>1, <2>1, <2>3, <2>4, GoesOn DEF Stay, Libs, Servers
<1>4. CASE Send
  <2>1. Online /\ Online' /\ Stay /\ lib.todo # <<>> /\ pc' = "send"
    BY <1>4 DEF Send, Goto, Online
  <2>2. UNCHANGED <<up, down, buf, ret>> /\ call'.left = Bytes(Head(lib.todo)) /\ call'.fn = "send"
    BY <1>4 DEF Send, CallSend, Idle
  <2>3. CallFits'  BY <2>1, <2>2 DEF CallFits
  <2>4. ASSUME NEW P, NEW S, Heard(P, S) PROVE Heard(P, S)'
    <3>1. Head(lib.todo) \in P  BY <2>1, <2>4, TodoTypes DEF Heard
    <3>2. call'.left \in Seq(BytesOf(P))  BY <2>2, <3>1, BytesTypes
    <3> QED BY <2>1, <2>2, <2>4, <3>2 DEF Heard, Stay
  <2> QED BY <1>1, <2>1, <2>3, <2>4, GoesOn DEF Stay, Libs, Servers
<1>5. CASE Sent
  <2>1. Online /\ Online' /\ UNCHANGED <<transport, opts, jobs, sess, roster, file, server>>
        /\ pc' = "parse" /\ call.fn = "none" /\ lib.todo # <<>>
    BY <1>5 DEF Sent, Goto, Online, Idle, RInv
  <2>2. UNCHANGED <<up, down, buf, call, ret>>  BY <2>1 DEF transport
  <2>3. CallFits'  BY <2>1, <2>2 DEF CallFits
  <2>4. PICK b \in BOOLEAN : lib' = [lib EXCEPT !.todo = Tail(lib.todo), !.trying = b]
    <3>1. lib.trying \in BOOLEAN  BY <1>1 DEF Libs
    <3>2. (lib.trying \/ (Head(lib.todo).name = "starttls" /\ ret = "OK")) \in BOOLEAN
      BY <3>1
    <3> QED BY <1>5, <3>2 DEF Sent
  <2>5. /\ lib'.todo = Tail(lib.todo) /\ lib'.part = lib.part /\ lib'.secure = lib.secure
        /\ lib' \in Libs
    <3>1. Tail(lib.todo) \in Seq(Messages)  BY <1>1, <2>1, TodoTypes DEF Libs
    <3> QED BY <1>1, <2>4, <3>1 DEF Libs
  <2>6. ASSUME NEW P, NEW S, Heard(P, S) PROVE Heard(P, S)'
    <3>1. lib'.todo \in Seq(P)  BY <2>1, <2>5, <2>6, TodoTypes DEF Heard
    <3> QED BY <2>1, <2>2, <2>5, <2>6, <3>1 DEF Heard
  <2> QED BY <1>1, <2>1, <2>3, <2>5, <2>6, GoesOn DEF Libs, Servers
<1>6. CASE ServerReads
  <2>1. PICK k \in 1 .. Len(up) :
            /\ PeerTakes(k) /\ server' = [server EXCEPT !.read = @ \o SubSeq(up, 1, k)]
    BY <1>6 DEF ServerReads
  <2>2. UNCHANGED <<pc, opts, jobs, sess, lib, roster, file>> /\ Online /\ Online'
    BY <1>6 DEF ServerReads, Connected, Online, RInv, RTyped
  <2>3. UNCHANGED <<down, buf, call, ret>> /\ up' = SubSeq(up, k + 1, Len(up))
    BY <2>1 DEF PeerTakes
  <2>4. CallFits' /\ (pc' = "send" => lib'.todo # <<>>)  BY <2>2, <2>3 DEF CallFits, RInv
  <2>5. ASSUME NEW P, Heard(P, ServerSays)
        PROVE  up' \in Seq(BytesOf(P)) /\ server'.read \in Seq(BytesOf(P))
    <3>1. PICK B : B = BytesOf(P)  OBVIOUS
    <3>2. up \in Seq(B) /\ server.read \in Seq(B)  BY <2>5, <3>1 DEF Heard
    <3>3. k \in 0 .. Len(up)  BY <3>2
    <3>4. up' \in Seq(B) /\ SubSeq(up, 1, k) \in Seq(B)  BY <2>3, <3>2, <3>3, Cuts
    <3>5. server.read \o SubSeq(up, 1, k) \in Seq(B)  BY <3>2, <3>4, ConcatProperties
    <3>6. server'.read = server.read \o SubSeq(up, 1, k)  BY <1>1, <2>1 DEF Servers
    <3> QED BY <3>1, <3>4, <3>5, <3>6
  <2>6. PICK P, S : P = ProgramSays /\ S = ServerSays /\ P \subseteq Messages /\ Heard(P, S)
    BY TalkAsHeard, AreMessages, <2>2 DEF RInv
  <2>7. up' \in Seq(BytesOf(P)) /\ server'.read \in Seq(BytesOf(P))  BY <2>5, <2>6
  <2>8. Heard(P, S)'  BY <2>2, <2>3, <2>6, <2>7 DEF Heard
  <2>9. server'.read \in Seq(BytesOf(Messages))  BY <2>6, <2>7, MoreBytes
  <2>10. server' \in Servers /\ server'.rosters = server.rosters
    <3>1. PICK z : z = server'.read  OBVIOUS
    <3>2. server' = [server EXCEPT !.read = z]  BY <1>1, <2>1, <3>1 DEF Servers
    <3> QED BY <1>1, <2>9, <3>1, <3>2 DEF Servers
  <2> QED BY <1>1, <2>2, <2>4, <2>6, <2>8, <2>10, GoesOn DEF Libs, Servers
<1>7. CASE ServerCloses
  <2>1. UNCHANGED roster_vars /\ Online /\ Online'
    BY <1>7 DEF ServerCloses, Connected, Online, RInv, RTyped, roster_vars
  <2>2. UNCHANGED <<pc, opts, jobs, sess, lib, roster, file, server>>  BY <2>1 DEF roster_vars
  <2>3. PICK k \in 0 .. Len(down) :
            up' = <<>> /\ down' = SubSeq(down, 1, k) /\ UNCHANGED <<call, buf, ret>>
    BY <1>7 DEF ServerCloses, PeerCloses
  <2>4. CallFits' /\ (pc' = "send" => lib'.todo # <<>>)  BY <2>2, <2>3 DEF CallFits, RInv
  <2>5. ASSUME NEW P, NEW S, Heard(P, S) PROVE Heard(P, S)'
    <3>1. down' \in Seq(BytesOf(S))
      <4>1. PICK B : B = BytesOf(S)  OBVIOUS
      <4>2. down \in Seq(B)  BY <2>5, <4>1 DEF Heard
      <4> QED BY <2>3, <4>1, <4>2, Cuts
    <3>2. up' \in Seq(BytesOf(P))  BY <2>3
    <3> QED BY <2>2, <2>3, <2>5, <3>1, <3>2 DEF Heard
  <2> QED BY <1>1, <2>1, <2>2, <2>4, <2>5, GoesOn DEF Libs, Servers
<1> QED BY <1>2, <1>3, <1>4, <1>5, <1>6, <1>7
LEMMA ConnectRInv ==
    ASSUME RInv, TInv, ReadFile \/ Connect \/ Exit \/ Greet \/ Greeted
    PROVE  RInv'
<1> DEFINE Libs == [secure : BOOLEAN, trying : BOOLEAN, part : Seq(BytesOf(Messages)), todo : Seq(Messages)]
           Servers == [read : Seq(BytesOf(Messages)), knows : BOOLEAN,
                       rosters : [backup : Rosters, restore : Rosters]]
<1>1. lib \in Libs /\ server \in Servers /\ sess \in Sessions
      /\ jobs \in {<<>>, <<"backup">>, <<"restore">>, <<"backup", "restore">>}
  BY DEF RInv, RTyped
<1>2. NewLib \in Libs /\ NewLib.part = <<>> /\ NewLib.todo = <<>> /\ NewLib.secure = FALSE
  <2>1. <<>> \in Seq(BytesOf(Messages)) /\ <<>> \in Seq(Messages)  OBVIOUS
  <2> QED BY <2>1 DEF NewLib
<1> HIDE DEF Libs, Servers
<1>3. CASE ReadFile
  <2>1. /\ pc = "load" /\ call.fn = "none"
        /\ UNCHANGED <<transport, opts, jobs, sess, lib, file, server>>
        /\ \/ pc' = "failed" /\ roster' = roster
           \/ file # None /\ roster' = file /\ pc' = "main"
    BY <1>3 DEF ReadFile, Goto, Fail, Idle
  <2>2. UNCHANGED <<up, down, buf, call, ret, opened>>  BY <2>1 DEF transport
  <2>3. ~opts.from /\ jobs = <<"restore">> /\ file = "saved"  BY <2>1 DEF RInv, Jobs, Copies
  <2>4. RTyped'  BY <2>1, <2>3 DEF RInv, RTyped
  <2>5. Jobs' /\ Copies' /\ CallFits'
    BY <2>1, <2>2, <2>3 DEF RInv, Jobs, Copies, CallFits, Online, InHand, Wanted
  <2> QED BY <2>1, <2>2, <2>4, <2>5 DEF RInv, Online
<1>4. CASE Connect
  <2>1. /\ pc = "main" /\ pc' = "connect" /\ jobs # <<>> /\ lib' = NewLib
        /\ sess' = NewSession(Head(jobs)) /\ UNCHANGED <<opts, jobs, roster, file>>
        /\ server' = [server EXCEPT !.read = <<>>, !.knows = FALSE]
    BY <1>4 DEF Connect, Goto
  <2>2. call'.fn = "connect" \/ (call'.fn = "none" /\ ret' = "NODNS")
    <3>1. CallConnect  BY <1>4 DEF Connect
    <3>2. (\E n \in 1 .. MaxAddrs : call' = [Idle EXCEPT !.fn = "connect", !.addrs = n]) \/ Return("NODNS")
      BY <3>1 DEF CallConnect
    <3>3. CASE \E n \in 1 .. MaxAddrs : call' = [Idle EXCEPT !.fn = "connect", !.addrs = n]
      <4>1. PICK n : call' = [Idle EXCEPT !.fn = "connect", !.addrs = n]  BY <3>3
      <4>2. call'.fn = "connect"  BY <4>1 DEF Idle
      <4> QED BY <4>2
    <3>4. Return("NODNS") => call'.fn = "none" /\ ret' = "NODNS"  BY DEF Return, Idle
    <3> QED BY <3>2, <3>3, <3>4
  <2>3. /\ server' \in Servers /\ server'.read = <<>> /\ server'.rosters = server.rosters
    <3>1. <<>> \in Seq(BytesOf(Messages))  OBVIOUS
    <3> QED BY <1>1, <2>1, <3>1 DEF Servers
  <2>4. /\ sess' \in Sessions /\ sess'.job_done = FALSE
        /\ sess'.set_roster <=> jobs = <<"restore">>
    <3>1. PICK b \in BOOLEAN : b = (Head(jobs) = "restore")  OBVIOUS
    <3>2. sess' = [set_roster |-> b, authorized |-> FALSE, job_done |-> FALSE, counter |-> 0]
      BY <2>1, <3>1 DEF NewSession
    <3>3. Head(jobs) = "restore" <=> jobs = <<"restore">>  BY <1>1, <2>1
    <3>4. sess' \in Sessions  BY <3>2 DEF Sessions
    <3>5. sess'.job_done = FALSE /\ sess'.set_roster = b  BY <3>2
    <3> QED BY <3>1, <3>3, <3>4, <3>5
  <2>5. RTyped'  BY <1>2, <2>1, <2>3, <2>4 DEF RInv, RTyped, Libs, Servers
  <2>6. Jobs' /\ Copies'
    BY <2>1, <2>3, <2>4 DEF RInv, Jobs, Copies, Online, InHand, Wanted
  <2>7. CallFits' /\ Fresh'  BY <2>1, <2>2, <2>3, <2>4 DEF CallFits, Fresh, NewLib
  <2> QED BY <2>1, <2>5, <2>6, <2>7 DEF RInv, Online
<1>5. CASE Exit
  <2>1. pc = "main" /\ jobs = <<>> /\ pc' = "done" /\ UNCHANGED transport /\ Stay
    BY <1>5 DEF Exit, Goto
  <2>2. UNCHANGED <<up, down, buf, call, ret, opened>>  BY <2>1 DEF transport
  <2>3. RTyped'  BY <2>1 DEF RInv, RTyped, Stay
  <2>4. Jobs' /\ Copies' /\ CallFits'
    BY <2>1, <2>2 DEF RInv, Jobs, Copies, CallFits, Online, InHand, Wanted, Stay
  <2> QED BY <2>1, <2>2, <2>3, <2>4 DEF RInv, Online
<1>6. CASE Greet
  <2>1. pc = "connect" /\ call.fn = "none" /\ Stay  BY <1>6 DEF Greet, Idle
  <2>2. lib = NewLib /\ server.read = <<>> /\ ~sess.job_done  BY <2>1 DEF RInv, Fresh
  <2>3. \/ pc' = "failed" /\ UNCHANGED transport
        \/ ret = "OK" /\ pc' = "greet" /\ CallSend(Bytes(Msg("header")))
    BY <1>6 DEF Greet, Goto, Fail
  <2>4. Jobs' /\ Copies'
    BY <2>1, <2>2, <2>3 DEF RInv, Jobs, Copies, Online, InHand, Wanted, Stay
  <2>5. RTyped'
    BY <2>1, <2>3 DEF RInv, RTyped, Stay
  <2>6. CASE pc' = "failed" /\ UNCHANGED transport
    BY <2>1, <2>4, <2>5, <2>6 DEF RInv, CallFits, Online, transport
  <2>7. CASE ret = "OK" /\ pc' = "greet" /\ CallSend(Bytes(Msg("header")))
    <3>1. /\ call'.fn = "send" /\ call'.left = Bytes(Msg("header")) /\ up' = <<>> /\ down' = <<>>
      BY <2>1, <2>7 DEF RInv, Fresh, CallSend, Idle
    <3>2. Msg("header") \in ProgramSays
      <4>1. Msg("header") \in Messages /\ Msg("header").name = "header"  BY MsgTypes DEF Names
      <4> QED BY <4>1 DEF ProgramSays, MayBeSaid
    <3>3. PICK P, S : P = ProgramSays /\ S = ServerSays  OBVIOUS
    <3>4. P = ProgramSays' /\ S = ServerSays'  BY <2>1, <3>3, SaysSame DEF Stay
    <3>5. Bytes(Msg("header")) \in Seq(BytesOf(P))  BY <3>2, <3>3, BytesTypes
    <3>6. <<>> \in Seq(BytesOf(P)) /\ <<>> \in Seq(P) /\ <<>> \in Seq(BytesOf(S))  OBVIOUS
    <3>7. Heard(P, S)'  BY <1>2, <2>1, <2>2, <2>7, <3>1, <3>5, <3>6 DEF Heard, Stay
    <3>8. Talk'  BY <3>4, <3>7, TalkAsHeard
    <3> QED BY <2>4, <2>5, <2>7, <3>1, <3>8 DEF RInv, CallFits, Online
  <2> QED BY <2>3, <2>6, <2>7
<1>7. CASE Greeted
  <2>1. /\ pc = "greet" /\ call.fn = "none"
        /\ UNCHANGED <<transport, opts, jobs, lib, roster, file, server>>
        /\ \/ pc' = "poll" /\ sess' = [sess EXCEPT !.counter = OptTimeout]
           \/ pc' = "failed" /\ sess' = sess
    BY <1>7 DEF Greeted, Goto, Fail, Idle
  <2>2. UNCHANGED <<up, down, buf, call, ret, opened>>  BY <2>1 DEF transport
  <2>3. sess' \in Sessions /\ sess'.set_roster = sess.set_roster /\ sess'.job_done = sess.job_done
    <3>1. OptTimeout \in Int  BY RosterAssumption
    <3> QED BY <1>1, <2>1, <3>1 DEF Sessions
  <2>4. RTyped'  BY <2>1, <2>3 DEF RInv, RTyped
  <2>5. Jobs' /\ Copies' /\ CallFits'
    BY <2>1, <2>2, <2>3 DEF RInv, Jobs, Copies, CallFits, Online, InHand, Wanted
  <2>6. pc' = "poll" => Talk'
    <3>1. PICK P, S : P = ProgramSays /\ S = ServerSays /\ Heard(P, S)
      BY <2>1, TalkAsHeard DEF RInv, Online
    <3>2. P = ProgramSays' /\ S = ServerSays'  BY <2>1, <2>3, <3>1, SaysSame
    <3>3. pc' = "poll" => Heard(P, S)'  BY <2>1, <2>2, <3>1 DEF Heard
    <3> QED BY <3>2, <3>3, TalkAsHeard
  <2> QED BY <2>1, <2>2, <2>4, <2>5, <2>6 DEF RInv, Online
<1> QED BY <1>3, <1>4, <1>5, <1>6, <1>7
LEMMA ReceivedRInv == ASSUME RInv, TInv, Received PROVE RInv'
<1> DEFINE Libs == [secure : BOOLEAN, trying : BOOLEAN, part : Seq(BytesOf(Messages)), todo : Seq(Messages)]
<1>1. lib \in Libs /\ sess \in Sessions  BY DEF RInv, RTyped
<1> HIDE DEF Libs
<1>2. /\ pc = "recv" /\ call.fn = "none"
      /\ UNCHANGED <<transport, opts, jobs, roster, file, server>>
      /\ \/ ret = "DATA" /\ pc' = "parse" /\ lib' = [lib EXCEPT !.part = @ \o buf] /\ sess' = sess
         \/ pc' \in {"poll", "failed"} /\ sess' = [sess EXCEPT !.counter = @ - 1] /\ lib' = lib
         \/ pc' = "failed" /\ sess' = sess /\ lib' = lib
  BY DEF Received, Goto, Fail, Idle
<1>3. UNCHANGED <<up, down, buf, call, ret, opened>>  BY <1>2 DEF transport
<1>4. sess' \in Sessions /\ sess'.set_roster = sess.set_roster /\ sess'.job_done = sess.job_done
  <2>1. PICK c \in Int : c = sess.counter - 1  BY <1>1 DEF Sessions
  <2>2. sess' = sess \/ sess' = [sess EXCEPT !.counter = c]  BY <1>2, <2>1
  <2> QED BY <1>1, <2>1, <2>2 DEF Sessions
<1>5. PICK P, S : P = ProgramSays /\ S = ServerSays /\ S \subseteq Messages /\ Heard(P, S)
  BY <1>2, TalkAsHeard, AreMessages DEF RInv, Online
<1>6. ret = "DATA" => lib.part \o buf \in Seq(BytesOf(S))
  <2>1. PICK B : B = BytesOf(S)  OBVIOUS
  <2>2. lib.part \in Seq(B) /\ (ret = "DATA" => buf \in Seq(B))  BY <1>2, <1>5, <2>1 DEF Heard
  <2> QED BY <2>1, <2>2, ConcatProperties
<1>7. /\ lib' \in Libs /\ lib'.todo = lib.todo /\ lib'.secure = lib.secure
      /\ lib'.part \in Seq(BytesOf(S))
  <2>1. CASE lib' = lib  BY <1>1, <1>5, <2>1 DEF Heard
  <2>2. CASE ret = "DATA" /\ lib' = [lib EXCEPT !.part = @ \o buf]
    <3>1. PICK p : p = lib.part \o buf  OBVIOUS
    <3>2. p \in Seq(BytesOf(S)) /\ p \in Seq(BytesOf(Messages))
      BY <1>5, <1>6, <2>2, <3>1, MoreBytes
    <3>3. lib' = [lib EXCEPT !.part = p]  BY <2>2, <3>1
    <3> QED BY <1>1, <3>2, <3>3 DEF Libs
  <2> QED BY <1>2, <2>1, <2>2
<1>8. RTyped'  BY <1>2, <1>4, <1>7 DEF RInv, RTyped, Libs
<1>9. Jobs' /\ Copies' /\ CallFits'
  BY <1>2, <1>3, <1>4 DEF RInv, Jobs, Copies, CallFits, Online, InHand, Wanted
<1>10. pc' # "failed" => Talk'
  <2>1. P = ProgramSays' /\ S = ServerSays'  BY <1>2, <1>4, <1>5, <1>7, SaysSame
  <2>2. pc' # "failed" => Heard(P, S)'  BY <1>2, <1>3, <1>5, <1>7 DEF Heard
  <2> QED BY <2>1, <2>2, TalkAsHeard
<1> QED BY <1>2, <1>3, <1>8, <1>9, <1>10 DEF RInv, Online

LEMMA ParseRInv == ASSUME RInv, TInv, Parse PROVE RInv'
<1>1. PICK e \in Answers(State, lib.part[1][1]) :
         /\ sess' = e.sess /\ roster' = e.roster
         /\ lib' = [secure |-> e.secure, trying |-> lib.trying /\ e.secure = lib.secure,
                    part |-> SubSeq(lib.part, 3, Len(lib.part)), todo |-> e.todo]
         /\ IF e.fails THEN pc' = "failed" ELSE pc' = pc
  BY DEF Parse, State, Fail, Goto
<1>2. /\ pc = "parse" /\ ~sess.job_done /\ Len(lib.part) >= 2
      /\ UNCHANGED <<transport, opts, jobs, file, server>>
  BY DEF Parse, Parsing
<1>3. UNCHANGED <<up, down, buf, call, ret, opened>>  BY <1>2 DEF transport
<1>4. PICK P, S : P = ProgramSays /\ S = ServerSays /\ S \subseteq Messages /\ Heard(P, S)
  BY <1>2, TalkAsHeard, AreMessages DEF RInv, Online
<1>5. lib.part[1][1] \in ServerSays
  <2>1. lib.part \in Seq(BytesOf(S))  BY <1>4 DEF Heard
  <2>2. lib.part[1] \in BytesOf(S)  BY <1>2, <2>1
  <2> QED BY <1>4, <2>2 DEF BytesOf
<1>6. Fine(e)  BY <1>1, <1>2, <1>5, AnswersFine DEF RInv, Jobs, Online
<1>7. /\ e.sess \in Sessions /\ e.roster \in Rosters /\ e.secure \in BOOLEAN
      /\ e.todo \in Seq(MayBeSaid(e.secure))
      /\ e.sess.set_roster = sess.set_roster /\ (lib.secure => e.secure)
      /\ IF ~e.sess.job_done THEN e.roster = roster
         ELSE IF sess.set_roster THEN server.rosters.restore = Wanted ELSE e.roster = "mine"
  BY <1>6 DEF Fine
<1>8. lib'.secure = e.secure /\ lib'.todo = e.todo /\ lib'.part = SubSeq(lib.part, 3, Len(lib.part))
  BY <1>1
<1>9. MayBeSaid(e.secure) = ProgramSays' /\ MayBeSaid(e.secure) \subseteq Messages
  <2>1. PICK c : c = e.secure  OBVIOUS
  <2>2. c = lib'.secure /\ UNCHANGED opts /\ sess'.set_roster = sess.set_roster
    BY <1>1, <1>2, <1>7, <1>8, <2>1
  <2>3. MayBeSaid(c) = ProgramSays' /\ MayBeSaid(c) \subseteq Messages
    BY <2>2 DEF ProgramSays, MayBeSaid, Wanted
  <2> QED BY <2>1, <2>3
<1>10. Wider  BY <1>1, <1>2, <1>7, <1>8 DEF Wider
<1>11. lib'.part \in Seq(BytesOf(S)) /\ lib'.part \in Seq(BytesOf(Messages))
  <2>1. PICK B : B = BytesOf(S)  OBVIOUS
  <2>2. lib.part \in Seq(B)  BY <1>4, <2>1 DEF Heard
  <2>3. SubSeq(lib.part, 3, Len(lib.part)) \in Seq(B)
    <3>1. 2 \in 0 .. Len(lib.part)  BY <1>2, <2>2
    <3>2. SubSeq(lib.part, 2 + 1, Len(lib.part)) \in Seq(B)  BY ONLY <2>2, <3>1, Cuts
    <3> QED BY <3>2
  <2>4. \A s \in Seq(BytesOf(S)) : s \in Seq(BytesOf(Messages))  BY <1>4, MoreBytes
  <2> QED BY <1>8, <2>1, <2>3, <2>4
<1>12. lib' \in [secure : BOOLEAN, trying : BOOLEAN, part : Seq(BytesOf(Messages)), todo : Seq(Messages)]
  <2>4. PICK b \in BOOLEAN : b = (lib.trying /\ e.secure = lib.secure)
    <3>1. lib.trying \in BOOLEAN  BY DEF RInv, RTyped
    <3> QED BY <3>1
  <2>5. PICK t, p : t = e.todo /\ p = SubSeq(lib.part, 3, Len(lib.part))  OBVIOUS
  <2>1. /\ lib' = [secure |-> e.secure, trying |-> b, part |-> p, todo |-> t]
        /\ t = e.todo /\ p = SubSeq(lib.part, 3, Len(lib.part))
    BY <1>1, <2>4, <2>5
  <2>2. t \in Seq(Messages)  BY <1>7, <1>9, <2>1, MoreBytes
  <2>3. p \in Seq(BytesOf(Messages))  BY <1>8, <1>11, <2>1
  <2> QED BY <1>7, <2>1, <2>2, <2>3
<1>13. RTyped'  BY <1>1, <1>2, <1>7, <1>12 DEF RInv, RTyped
<1>14. Jobs' /\ Copies' /\ CallFits'
  <2>1. CallFits'  BY <1>1, <1>2, <1>3 DEF RInv, CallFits
  <2>2. Jobs'  BY <1>1, <1>2, <1>7 DEF RInv, Jobs, Online, Wanted
  <2>3. Copies'  BY <1>1, <1>2, <1>7 DEF RInv, Copies, Online, InHand, Wanted
  <2> QED BY <2>1, <2>2, <2>3
<1>15. Talk'
  <2>1. S \subseteq ServerSays' /\ P \subseteq ProgramSays'  BY <1>4, <1>10, SaysMore
  <2>2. /\ \A s \in Seq(BytesOf(S)) : s \in Seq(BytesOf(ServerSays'))
        /\ \A s \in Seq(BytesOf(P)) : s \in Seq(BytesOf(ProgramSays'))
    BY <2>1, MoreBytes
  <2>3. lib'.todo \in Seq(ProgramSays')  BY <1>7, <1>8, <1>9
  <2>4. /\ up' \in Seq(BytesOf(P)) /\ call'.left \in Seq(BytesOf(P)) /\ server'.read \in Seq(BytesOf(P))
        /\ down' \in Seq(BytesOf(S)) /\ pc' # "recv"
    BY <1>1, <1>2, <1>3, <1>4 DEF Heard
  <2> QED BY <1>11, <2>2, <2>3, <2>4 DEF Talk
<1> QED BY <1>1, <1>2, <1>13, <1>14, <1>15 DEF RInv, Online

LEMMA FinishRInv == ASSUME RInv, TInv, Finish PROVE RInv'
<1>1. /\ pc = "parse" /\ sess.job_done /\ call.fn = "none" /\ opened' = opened \ {sock}
      /\ UNCHANGED <<call, opts, sess, lib, roster, server>> /\ jobs' = Tail(jobs)
      /\ \/ /\ Head(jobs) = "backup" /\ opts.file
            /\ (file' = roster /\ pc' = "main") \/ (pc' = "failed" /\ UNCHANGED file)
         \/ /\ ~(Head(jobs) = "backup" /\ opts.file)
            /\ pc' = "main" /\ UNCHANGED file
  BY DEF Finish, Parsing, Close, Goto, Fail, Idle
<1>2. opened' = {}  BY <1>1 DEF TInv, SocketsKnown
<1>3. /\ jobs \in {<<"backup">>, <<"restore">>, <<"backup", "restore">>}
      /\ sess.set_roster <=> jobs = <<"restore">>
      /\ IF sess.set_roster THEN server.rosters.restore = Wanted ELSE roster = "mine"
      /\ jobs \in {<<"backup">>, <<"backup", "restore">>} => opts.from
      /\ jobs = <<"backup">> => ~opts.to
  BY <1>1 DEF RInv, RTyped, Jobs, Copies, Online
<1>4. RTyped' /\ CallFits'
  <2>1. jobs' \in {<<>>, <<"restore">>}
    <3>1. Tail(<<"backup">>) = <<>> /\ Tail(<<"restore">>) = <<>>
          /\ Tail(<<"backup", "restore">>) = <<"restore">>
      OBVIOUS
    <3> QED BY <1>1, <1>3, <3>1
  <2> QED BY <1>1, <2>1 DEF RInv, RTyped, CallFits
<1>5. Jobs' /\ Copies'
  <2>1. CASE jobs = <<"backup">>
    <3>1. jobs' = <<>> /\ Head(jobs) = "backup"  BY <1>1, <2>1
    <3> QED BY <1>1, <1>3, <2>1, <3>1 DEF RInv, Jobs, Copies, Online, InHand, Wanted
  <2>2. CASE jobs = <<"restore">>
    <3>1. jobs' = <<>> /\ Head(jobs) = "restore"  BY <1>1, <2>2
    <3> QED BY <1>1, <1>3, <2>2, <3>1 DEF RInv, Jobs, Copies, Online, InHand, Wanted
  <2>3. CASE jobs = <<"backup", "restore">>
    <3>1. jobs' = <<"restore">> /\ Head(jobs) = "backup"  BY <1>1, <2>3
    <3> QED BY <1>1, <1>3, <2>3, <3>1 DEF RInv, Jobs, Copies, Online, InHand, Wanted
  <2> QED BY <1>3, <2>1, <2>2, <2>3
<1> QED BY <1>1, <1>2, <1>4, <1>5 DEF RInv, Online

LEMMA ServerAnswersRInv == ASSUME RInv, TInv, ServerAnswers PROVE RInv'
<1>1. /\ UNCHANGED <<pc, opts, jobs, sess, lib, roster, file>> /\ Online /\ Online'
      /\ Len(server.read) >= 2
  BY DEF ServerAnswers, Connected, Online, RInv, RTyped
<1>2. PICK r \in Replies(server.read[1][1]) :
         /\ PeerGives(AllBytes(r))
         /\ server' = [read    |-> SubSeq(server.read, 3, Len(server.read)),
                       knows   |-> server.knows \/ server.read[1][1].name = "response",
                       rosters |-> IF server.read[1][1].name = "set" /\ r[1].name = "result"
                                   THEN [server.rosters EXCEPT ![Head(jobs)] = server.read[1][1].items]
                                   ELSE server.rosters]
  BY DEF ServerAnswers
<1>3. PICK P, S : P = ProgramSays /\ S = ServerSays /\ P \subseteq Messages /\ Heard(P, S)
  BY <1>1, TalkAsHeard, AreMessages DEF RInv
<1>4. PICK m \in ProgramSays : m = server.read[1][1]
  <2>1. server.read \in Seq(BytesOf(P))  BY <1>3 DEF Heard
  <2>2. server.read[1] \in BytesOf(P)  BY <1>1, <2>1
  <2> QED BY <1>3, <2>2 DEF BytesOf
<1>5. server'.rosters = IF m.name = "set" /\ r[1].name = "result"
                        THEN [server.rosters EXCEPT ![Head(jobs)] = m.items] ELSE server.rosters
  BY <1>2, <1>4
<1>6. /\ r \in Seq(ServerSays')
      /\ server'.rosters \in [backup : Rosters, restore : Rosters]
      /\ server'.rosters.backup = "mine"
      /\ server.rosters.restore = Wanted => server'.rosters.restore = Wanted
  <2>1. r \in Replies(m) /\ UNCHANGED <<opts, sess, lib>>  BY <1>1, <1>2, <1>4
  <2> QED BY <1>1, <1>5, <2>1, RepliesSaid DEF RInv
<1>7. /\ server'.read = SubSeq(server.read, 3, Len(server.read))
      /\ server'.knows \in BOOLEAN
  <2>1. server.knows \in BOOLEAN  BY DEF RInv, RTyped
  <2> QED BY <1>2, <2>1
<1>8. server'.read \in Seq(BytesOf(P)) /\ server'.read \in Seq(BytesOf(Messages))
  <2>1. PICK B : B = BytesOf(P)  OBVIOUS
  <2>2. server.read \in Seq(B)  BY <1>3, <2>1 DEF Heard
  <2>3. SubSeq(server.read, 3, Len(server.read)) \in Seq(B)
    <3>1. 2 \in 0 .. Len(server.read)  BY <1>1, <2>2
    <3>2. SubSeq(server.read, 2 + 1, Len(server.read)) \in Seq(B)  BY ONLY <2>2, <3>1, Cuts
    <3> QED BY <3>2
  <2>4. \A s \in Seq(BytesOf(P)) : s \in Seq(BytesOf(Messages))  BY <1>3, MoreBytes
  <2> QED BY <1>7, <2>1, <2>3, <2>4
<1>9. server' \in [read : Seq(BytesOf(Messages)), knows : BOOLEAN,
                   rosters : [backup : Rosters, restore : Rosters]]
  <2>1. PICK a, b, c : server' = [read |-> a, knows |-> b, rosters |-> c]  BY <1>2
  <2>2. a = server'.read /\ b = server'.knows /\ c = server'.rosters  BY <2>1
  <2> QED BY <1>6, <1>7, <1>8, <2>1, <2>2
<1>10. UNCHANGED <<up, call, buf, ret>> /\ down' = down \o AllBytes(r)
  BY <1>2 DEF PeerGives
<1>11. RTyped'  BY <1>1, <1>9 DEF RInv, RTyped
<1>12. Jobs' /\ Copies' /\ CallFits' /\ (pc' = "send" => lib'.todo # <<>>)
  <2>1. Jobs'  BY <1>1, <1>6 DEF RInv, Jobs, Online, Wanted
  <2>2. Copies'  BY <1>1, <1>6 DEF RInv, Copies, Online, InHand, Wanted
  <2> QED BY <1>1, <1>10, <2>1, <2>2 DEF RInv, CallFits
<1>13. Talk'
  <2>1. Wider  BY <1>1, <1>6 DEF Wider
  <2>2. S \subseteq ServerSays' /\ P \subseteq ProgramSays'  BY <1>3, <2>1, SaysMore
  <2>3. PICK T : T = ServerSays'  OBVIOUS
  <2>4. down' \in Seq(BytesOf(T))
    <3>1. AllBytes(r) \in Seq(BytesOf(T))  BY <1>6, <2>3, AllBytesTypes
    <3>2. down \in Seq(BytesOf(T))  BY <1>3, <2>2, <2>3, MoreBytes DEF Heard
    <3> QED BY <1>10, <3>1, <3>2, ConcatProperties
  <2>5. /\ \A s \in Seq(BytesOf(S)) : s \in Seq(BytesOf(T))
    BY <2>2, <2>3, MoreBytes
  <2>6. Heard(P, T)'
    BY <1>1, <1>3, <1>8, <1>10, <2>4, <2>5 DEF Heard
  <2>7. T \subseteq ServerSays'  BY <2>3
  <2> QED BY <2>2, <2>6, <2>7, TalkAsHeard
<1> QED BY <1>1, <1>11, <1>12, <1>13 DEF RInv, Online

LEMMA NextRInv == RInv /\ TInv /\ [Next]_vars => RInv'
<1> SUFFICES ASSUME RInv, TInv, [Next]_vars PROVE RInv'  OBVIOUS
<1>1. CASE UNCHANGED vars
  <2>1. UNCHANGED <<opened, up, down, call, buf, ret, pc, opts, jobs, sess, lib, roster, file, server>>
    BY <1>1 DEF vars, transport, roster_vars
  <2>2. RTyped' /\ CallFits' /\ Jobs' /\ Copies' /\ (pc = "connect" => Fresh')
    BY <2>1 DEF RInv, RTyped, CallFits, Jobs, Copies, Fresh, Online, InHand, Wanted
  <2>3. Online => Talk'
    BY <2>1 DEF RInv, Talk, ProgramSays, ServerSays, MayBeSaid, Wanted
  <2> QED BY <2>1, <2>2, <2>3 DEF RInv, Online
<1> QED BY <1>1, SystemRInv, TalkRInv, ConnectRInv, ReceivedRInv, ParseRInv, FinishRInv,
           ServerAnswersRInv DEF Next, Program

LEMMA RosterInvariant == Spec => [](RInv /\ TInv)
<1>1. Init => RInv /\ TInv  BY InitRInv, InitTInv DEF Init
<1>2. RInv /\ TInv /\ [Next]_vars => RInv' /\ TInv'
  BY NextRInv, StepOfTransport, NextTInv
<1> QED BY <1>1, <1>2, PTL DEF Spec

\* In every session with any server, for every command line: with -s nothing but the
\* header and starttls is sent before there is TLS, the credentials and the roster not
\* even in part (j_connect's on_stream, on_result).
THEOREM NothingIsSentInClear == Spec => []NothingInClear
<1>1. RInv => NothingInClear
  <2> SUFFICES ASSUME RInv, opts.tls, ~lib.secure, Connected, NEW i \in 1 .. Len(call.left)
               PROVE  call.left[i][1].name \in {"header", "starttls"}
    BY DEF NothingInClear
  <2>1. Online  BY DEF RInv, RTyped, Connected, Online
  <2>2. call.left \in Seq(BytesOf(ProgramSays))  BY <2>1 DEF RInv, Talk
  <2>3. call.left[i] \in BytesOf(ProgramSays)  BY <2>2
  <2>4. call.left[i][1] \in ProgramSays  BY <2>3 DEF BytesOf
  <2> QED BY <2>4 DEF ProgramSays, MayBeSaid
<1> QED BY <1>1, RosterInvariant, PTL

\* When iksroster ends with success, whatever the server did, the roster of one account
\* is that of the other and the file holds what was downloaded; and no run of it ever
\* changes the account it copies from (main, j_connect, on_result, on_roster).
THEOREM RosterIsRestored == Spec => [](RestoresBackup /\ server.rosters.backup = "mine")
<1>1. RInv => RestoresBackup /\ server.rosters.backup = "mine"
  <2> SUFFICES ASSUME RInv PROVE RestoresBackup /\ server.rosters.backup = "mine"  OBVIOUS
  <2>1. pc = "done" => jobs = <<>>  BY DEF RInv, Jobs
  <2> QED BY <2>1 DEF RInv, Jobs, Copies, RestoresBackup, Wanted
<1> QED BY <1>1, RosterInvariant, PTL

\* The connection of iksroster is a pipe of bytes: every call it makes keeps to what
\* TransportIsPipe asks of a program, so the server gets each byte once and in order
\* and no socket is left behind (main, j_connect, io-posix.c).
THEOREM RosterUsesPipe == Spec => ImplementsPipe
<1>1. Init => TransportInit  BY DEF Init
<1>2. RInv /\ TInv /\ [Next]_vars => [TransportNext]_transport  BY StepOfTransport
<1>3. Spec => TransportSpec
  BY <1>1, <1>2, RosterInvariant, PTL DEF Spec, TransportSpec
<1> QED BY <1>3, TransportIsPipe
=============================================================================
