---------------------------- MODULE Stream_proofs ----------------------------
(***************************************************************************)
(* Sockets, the TLS session and the flags of the stream, for any servers,  *)
(* hooks, ways of connecting and failures; then what its hook is told, for *)
(* servers that send whole elements.  The functions of Stream pass on      *)
(* worlds; Good says what holds of a world between two calls, and the      *)
(* lemmas, one for each function, that it still holds of what they leave.  *)
(* Right and Ready say it of the events told, the node under construction  *)
(* and what is still to come.                                              *)
(***************************************************************************)
EXTENDS Stream, FiniteSetTheorems, TLAPS

\* No hook disconnects and returns IKS_OK (what "disconnect" does).
TellsItsEnd == "disconnect" \notin HookActs

\* Every connection begins with a header or notes its server, none is made in a hook.
Introduced == Connects \subseteq {"tcp", "async"} /\ "reconnect" \notin HookActs

-----------------------------------------------------------------------------
(* Worlds.                                                                 *)

\* That a literal is in STRING is beyond the provers.
TokenNames   == STRING \cup {""}
Tokens       == [kind : Kinds, name : TokenNames]
ParsedTokens == [kind : Kinds \cup {"tls"}, name : TokenNames]

IsData(d) == d \in [trans : BOOLEAN, sock : Nat, server : Nat, flags : {d.flags},
                    tls : Nat, current : {d.current}]
IsNet(n) == n \in [conns : Nat, opened : SUBSET Nat, foreign : {n.foreign}, script : Seq(Bursts),
                   wire : Seq(Tokens), peer : {n.peer}, read : Nat]
IsLog(l) == l \in [parsed : Seq(ParsedTokens), told : {l.told}]
IsWorld(w) == /\ w \in [d : {w.d}, n : {w.n}, log : {w.log}, ub : {w.ub}]
              /\ IsData(w.d) /\ IsNet(w.n) /\ IsLog(w.log)

Tries(d) == "TRY_SECURE" \in d.flags
Named(d) == d.trans => d.server = d.sock

\* No token is read or parsed between two worlds.
SameRead(v, w) == v.log.parsed = w.log.parsed /\ v.n.read = w.n.read

\* The stream has exactly the socket that is open.
GoodSocket(d, n) ==
    /\ d.trans => d.sock \in 1 .. n.conns
    /\ n.opened = IF d.trans THEN {d.sock} ELSE {}

\* Flags belong to a transport; a session belongs to the socket, and is not asked
\* for while there is one.
GoodSession(d) ==
    /\ d.flags # {} => d.trans
    /\ ~(Tries(d) /\ Secure(d))
    /\ d.tls = IF Secure(d) THEN d.sock ELSE NULL
    /\ Introduced /\ (Tries(d) \/ Secure(d)) => d.server = d.sock

Good(w) ==
    /\ IsWorld(w) /\ GoodSocket(w.d, w.n) /\ GoodSession(w.d)
    /\ TellsItsEnd => w.ub = {}

\* What else holds while a buffer is parsed.
InTouch(w) == (TellsItsEnd => w.d.trans) /\ (Introduced => Named(w.d))

\* What a hook leaves: unless it ends the parsing, it is still in touch.
Sound(o) ==
    /\ Good(o.w)
    /\ TellsItsEnd /\ o.ret = "OK" => o.w.d.trans
    /\ Introduced => Named(o.w.d)

\* Tokens can be counted: an openssl session gives none, a connection made in a
\* hook has the rest of an older buffer before it.
Countable == Tls # "openssl" /\ "reconnect" \notin HookActs
Keeps(o, w) == Countable => SameRead(o.w, w)

IInv ==
    /\ Good(World)
    /\ phase \in {"recv", "parse"} => ret = "OK"
    /\ phase = "recv" => data.trans
    /\ TellsItsEnd /\ phase = "parse" /\ buf # <<>> => data.trans
    /\ Introduced /\ ret = "OK" => Named(data)
    /\ buf \in Seq(Tokens)
    /\ phase # "parse" => buf = <<>>
    /\ Countable /\ ret = "OK" /\ (data.trans \/ phase = "parse") =>
           Len(log.parsed) + Len(buf) = net.read

-----------------------------------------------------------------------------
(* Results and worlds that differ in a part.                               *)

LEMMA ResultParts == ASSUME NEW w, NEW r PROVE Result(w, r).w = w /\ Result(w, r).ret = r
BY DEF Result

LEMMA FaultParts ==
    ASSUME NEW w, NEW kinds, IsWorld(w)
    PROVE  /\ IsWorld(Fault(w, kinds)) /\ Fault(w, kinds).d = w.d /\ Fault(w, kinds).n = w.n
           /\ Fault(w, kinds).ub = w.ub \cup kinds /\ Fault(w, kinds).log = w.log
BY DEF IsWorld, Fault

LEMMA WithData ==
    ASSUME NEW w, IsWorld(w), NEW e, IsData(e)
    PROVE  LET v == [w EXCEPT !.d = e] IN IsWorld(v) /\ v.d = e /\ v.n = w.n /\ v.ub = w.ub
                                             /\ v.log = w.log
BY DEF IsWorld

LEMMA WithNet ==
    ASSUME NEW w, IsWorld(w), NEW m, IsNet(m)
    PROVE  LET v == [w EXCEPT !.n = m] IN IsWorld(v) /\ v.d = w.d /\ v.n = m /\ v.ub = w.ub
                                             /\ v.log = w.log
BY DEF IsWorld

\* No call of the stream meets a session or transport that is missing.
LEMMA NothingMissing ==
    ASSUME NEW w, Good(w), w.d.trans PROVE Missing(w.d) = {}
BY DEF Good, GoodSocket, GoodSession, Missing, NULL

LEMMA NetOfPeer ==
    ASSUME NEW n, NEW msg, IsNet(n)
    PROVE  IsNet(Answered(n, msg)) /\ Answered(n, msg).conns = n.conns
           /\ Answered(n, msg).opened = n.opened /\ Answered(n, msg).read = n.read
<1>1. CASE Answered(n, msg) = n  BY <1>1
<1>2. CASE n.script # <<>> /\ Answered(n, msg) = [n EXCEPT !.wire = @ \o Head(n.script).tokens, !.script = Tail(@)]
  <2>1. n.script \in Seq(Bursts) /\ n.wire \in Seq(Tokens)  BY DEF IsNet
  <2>2. Head(n.script) \in Bursts /\ Tail(n.script) \in Seq(Bursts)  BY <1>2, <2>1
  <2>3. PICK t : t = Head(n.script).tokens /\ t \in Seq(Tokens)
    <3>1. PICK S : S = [kind : Kinds, name : STRING]  OBVIOUS
    <3>2. PICK T : T = Tokens  OBVIOUS
    <3>3. S \subseteq T  BY <3>1, <3>2 DEF Tokens, TokenNames
    <3>4. \A u \in Seq(S) : u \in Seq(T)  BY <3>3
    <3>5. Head(n.script).tokens \in Seq(S)  BY <2>2, <3>1 DEF Bursts
    <3> QED BY <3>2, <3>4, <3>5
  <2>6. PICK x : x = n.wire \o t /\ x \in Seq(Tokens)
    <3>1. PICK S : S = Tokens  OBVIOUS
    <3>2. n.wire \in Seq(S) /\ t \in Seq(S)  BY <2>1, <2>3, <3>1
    <3>3. n.wire \o t \in Seq(S)  BY ONLY <3>2
    <3> QED BY <3>1, <3>3
  <2>4. PICK y : y = Tail(n.script) /\ y \in Seq(Bursts)  BY <2>2
  <2>5. Answered(n, msg) = [n EXCEPT !.wire = x, !.script = y]  BY <1>2, <2>3, <2>4, <2>6
  <2> QED BY <2>4, <2>5, <2>6 DEF IsNet
<1> QED BY <1>1, <1>2 DEF Answered

-----------------------------------------------------------------------------
(* Sending.                                                                *)

\* Sending changes nothing of the stream and its sockets; with a transport, or a TLS
\* session, nothing is missing (iks_send_raw).
LEMMA SendRawSound ==
    ASSUME NEW w, NEW msg, Good(w), TellsItsEnd => w.d.trans, NEW o \in SendRaw(w, msg)
    PROVE  /\ Good(o.w) /\ o.w.d = w.d /\ o.w.n.conns = w.n.conns /\ SameRead(o.w, w)
           /\ o.ret \in {"OK", "RWERR"}
<1>1. PICK v : v = Fault(w, Missing(w.d))  OBVIOUS
<1>2. IsWorld(v) /\ v.d = w.d /\ v.n = w.n /\ (TellsItsEnd => v.ub = {}) /\ SameRead(v, w)
  BY <1>1, FaultParts, NothingMissing DEF Good, SameRead
<1>3. Good(v)  BY <1>2 DEF Good
<1>4. PICK u : u = [v EXCEPT !.n = Answered(v.n, msg)]  OBVIOUS
<1>5. IsNet(v.n)  BY <1>2 DEF IsWorld
<1>6. IsWorld(u) /\ u.d = v.d /\ u.n = Answered(v.n, msg) /\ u.ub = v.ub /\ u.log = v.log
  BY <1>2, <1>4, <1>5, WithNet, NetOfPeer
<1>7. Good(u) /\ u.n.conns = w.n.conns /\ SameRead(u, w)
  BY <1>2, <1>3, <1>5, <1>6, NetOfPeer DEF Good, GoodSocket, SameRead
<1>8. o = Result(u, "OK") \/ o = Result(v, "RWERR")  BY <1>1, <1>4 DEF SendRaw
<1>9. CASE o = Result(u, "OK")  BY <1>2, <1>6, <1>7, <1>9, ResultParts
<1>10. CASE o = Result(v, "RWERR")  BY <1>2, <1>3, <1>10, ResultParts
<1> QED BY <1>8, <1>9, <1>10

\* The header only notes the server it is for (iks_send_header).
LEMMA SendHeaderSound ==
    ASSUME NEW w, NEW to \in Nat, Good(w), TellsItsEnd => w.d.trans,
           Introduced => to = w.d.sock \/ (to = w.d.server /\ Named(w.d)),
           Introduced /\ (Tries(w.d) \/ Secure(w.d)) => to = w.d.sock,
           NEW o \in SendHeader(w, to)
    PROVE  /\ Good(o.w) /\ o.w.d.trans = w.d.trans /\ o.w.d.sock = w.d.sock
           /\ o.w.n.conns = w.n.conns /\ SameRead(o.w, w)
           /\ Introduced /\ (o.ret = "OK" \/ Named(w.d)) => Named(o.w.d)
<1>1. PICK p \in SendRaw(w, "header") : o = IF p.ret = "OK" THEN [p EXCEPT !.w.d.server = to] ELSE p
  BY DEF SendHeader
<1>2. Good(p.w) /\ p.w.d = w.d /\ p.w.n.conns = w.n.conns /\ IsData(w.d) /\ SameRead(p.w, w)
  BY SendRawSound DEF Good, IsWorld
<1>3. p \in [w : {p.w}, ret : {p.ret}]  BY DEF SendRaw, Result
<1>4. PICK e : e = [w.d EXCEPT !.server = to]  OBVIOUS
<1>5. IsData(e) /\ e.trans = w.d.trans /\ e.sock = w.d.sock /\ e.server = to
      /\ e.flags = w.d.flags /\ e.tls = w.d.tls
  BY <1>2, <1>4 DEF IsData
<1>6. PICK u : u = [p.w EXCEPT !.d = e]  OBVIOUS
<1>7. IsWorld(u) /\ u.d = e /\ u.n = p.w.n /\ u.ub = p.w.ub /\ SameRead(u, w)
  BY <1>2, <1>5, <1>6, WithData DEF Good, SameRead
<1>8. Good(u)
  <2>1. GoodSocket(u.d, u.n)  BY <1>2, <1>5, <1>7 DEF Good, GoodSocket
  <2>2. GoodSession(u.d)  BY <1>2, <1>5, <1>7 DEF Good, GoodSession, Tries, Secure
  <2> QED BY <1>2, <1>7, <2>1, <2>2 DEF Good
<1>9. CASE o = p /\ p.ret # "OK"  BY <1>2, <1>9 DEF Named
<1>10. CASE p.ret = "OK" /\ o = [p EXCEPT !.w.d.server = to]
  <2>1. p.w.d \in [trans : BOOLEAN, sock : Nat, server : Nat, flags : {p.w.d.flags},
                   tls : Nat, current : {p.w.d.current}]
    BY <1>2 DEF IsData
  <2>2. p.w \in [d : {p.w.d}, n : {p.w.n}, log : {p.w.log}, ub : {p.w.ub}]
    BY <1>2 DEF Good, IsWorld
  <2>3. o.w = u /\ o.ret = "OK"
    BY <1>2, <1>3, <1>4, <1>6, <1>10, <2>1, <2>2
  <2> QED BY <1>2, <1>5, <1>7, <1>8, <2>3 DEF Named
<1> QED BY <1>1, <1>9, <1>10

\* Asking for TLS sets a flag (iks_start_tls).
LEMMA StartTlsSound ==
    ASSUME NEW w, Good(w), w.d.trans, w.d.flags \cap {"TRY_SECURE", "SECURE"} = {},
           Introduced => Named(w.d), NEW o \in StartTls(w)
    PROVE  Good(o.w) /\ o.w.d.trans = w.d.trans /\ (Named(w.d) => Named(o.w.d)) /\ SameRead(o.w, w)
<1>1. CASE o = Result(w, "NOTSUPP")
  <2>1. o.w = w  BY <1>1, ResultParts
  <2> QED BY <2>1 DEF SameRead
<1>2. ASSUME NEW p \in SendRaw(w, "starttls"),
             o = IF p.ret = "OK" THEN [p EXCEPT !.w.d.flags = @ \cup {"TRY_SECURE"}] ELSE p
      PROVE  Good(o.w) /\ o.w.d.trans = w.d.trans /\ (Named(w.d) => Named(o.w.d)) /\ SameRead(o.w, w)
  <2>1. Good(p.w) /\ p.w.d = w.d /\ IsData(w.d) /\ SameRead(p.w, w)  BY SendRawSound DEF Good, IsWorld
  <2>2. p \in [w : {p.w}, ret : {p.ret}]  BY DEF SendRaw, Result
  <2>3. PICK e : e = [w.d EXCEPT !.flags = w.d.flags \cup {"TRY_SECURE"}]  OBVIOUS
  <2>4. IsData(e) /\ e.trans = w.d.trans /\ e.sock = w.d.sock /\ e.server = w.d.server
        /\ e.flags = w.d.flags \cup {"TRY_SECURE"} /\ e.tls = w.d.tls
    BY <2>1, <2>3 DEF IsData
  <2>5. PICK u : u = [p.w EXCEPT !.d = e]  OBVIOUS
  <2>6. IsWorld(u) /\ u.d = e /\ u.n = p.w.n /\ u.ub = p.w.ub /\ SameRead(u, w)
    BY <2>1, <2>4, <2>5, WithData DEF Good, SameRead
  <2>7. Good(u)
    <3>1. GoodSocket(u.d, u.n)  BY <2>1, <2>4, <2>6 DEF Good, GoodSocket
    <3>2. GoodSession(u.d)  BY <2>1, <2>4, <2>6 DEF Good, GoodSession, Tries, Secure, Named
    <3> QED BY <2>1, <2>6, <3>1, <3>2 DEF Good
  <2>8. CASE o = p  BY <2>1, <2>8
  <2>9. CASE o = [p EXCEPT !.w.d.flags = @ \cup {"TRY_SECURE"}]
    <3>1. p.w.d \in [trans : BOOLEAN, sock : Nat, server : Nat, flags : {p.w.d.flags},
                     tls : Nat, current : {p.w.d.current}]
      BY <2>1 DEF IsData
    <3>2. p.w \in [d : {p.w.d}, n : {p.w.n}, log : {p.w.log}, ub : {p.w.ub}]
      BY <2>1 DEF Good, IsWorld
    <3>3. o.w = u  BY <2>1, <2>2, <2>3, <2>5, <2>9, <3>1, <3>2
    <3> QED BY <2>4, <2>6, <2>7, <3>3 DEF Named
  <2> QED BY <1>2, <2>8, <2>9
<1> QED BY <1>1, <1>2 DEF StartTls

\* Nor does a login change anything (iks_start_sasl).
LEMMA StartSaslSound ==
    ASSUME NEW w, Good(w), w.d.trans, NEW o \in StartSasl(w)
    PROVE  Good(o.w) /\ o.w.d = w.d /\ SameRead(o.w, w)
<1>1. PICK p \in SendRaw(w, "auth") : o = [p EXCEPT !.ret = "OK"]  BY DEF StartSasl
<1>2. Good(p.w) /\ p.w.d = w.d /\ SameRead(p.w, w)  BY SendRawSound
<1>3. p \in [w : {p.w}, ret : {p.ret}]  BY DEF SendRaw, Result
<1>4. o.w = p.w  BY <1>1, <1>3
<1> QED BY <1>2, <1>4

-----------------------------------------------------------------------------
(* Connecting and disconnecting.                                           *)

LEMMA ClearedParts ==
    ASSUME NEW d, IsData(d)
    PROVE  /\ IsData(Cleared(d)) /\ ~Cleared(d).trans /\ Cleared(d).flags = {}
           /\ Cleared(d).tls = IF Secure(d) THEN NULL ELSE d.tls
BY DEF IsData, Cleared, NULL

\* After a disconnect nothing is open and no flag is left (deleteHook).
LEMMA DeleteHookSound ==
    ASSUME NEW w, Good(w)
    PROVE  /\ Good(DeleteHook(w)) /\ ~DeleteHook(w).d.trans
           /\ DeleteHook(w).n.conns = w.n.conns /\ SameRead(DeleteHook(w), w)
<1> DEFINE tls   == IF Secure(w.d) /\ w.d.tls = NULL THEN {"tls"} ELSE {}
           close == IF Closes(w.d) /\ w.d.sock \notin w.n.opened THEN {"close"} ELSE {}
<1>1. PICK v : v = Fault(w, tls \cup close)  OBVIOUS
<1>2. ~(Secure(w.d) /\ w.d.tls = NULL) /\ ~(Closes(w.d) /\ w.d.sock \notin w.n.opened)
  <2>1. Secure(w.d) => w.d.trans /\ w.d.tls = w.d.sock  BY DEF Good, GoodSession, Secure
  <2>2. w.d.trans => w.d.sock \in 1 .. w.n.conns /\ w.n.opened = {w.d.sock}
    BY DEF Good, GoodSocket
  <2> QED BY <2>1, <2>2 DEF Closes, NULL
<1>3. IsWorld(v) /\ v.d = w.d /\ v.n = w.n /\ v.ub = w.ub /\ v.log = w.log
  <2>1. tls = {} /\ close = {}  BY <1>2
  <2> HIDE DEF tls, close
  <2>2. tls \cup close = {}  BY <2>1
  <2>3. v = Fault(w, {})  BY <1>1, <2>2
  <2>4. w.ub \cup {} = w.ub  OBVIOUS
  <2> QED BY <2>3, <2>4, FaultParts DEF Good
<1>4. PICK x : x = [v EXCEPT !.d = Cleared(w.d),
                             !.n.opened = IF Closes(w.d) THEN @ \ {w.d.sock} ELSE @,
                             !.n.wire = IF w.d.trans THEN <<>> ELSE @,
                             !.n.peer = IF w.d.trans THEN "gone" ELSE @]
  OBVIOUS
<1>5. x = DeleteHook(w)  BY <1>1, <1>4 DEF DeleteHook
<1>6. IsData(Cleared(w.d)) /\ IsNet(w.n)  BY ClearedParts DEF Good, IsWorld
<1>7. /\ x \in [d : {x.d}, n : {x.n}, log : {x.log}, ub : {x.ub}]
      /\ x.d = Cleared(w.d) /\ x.log = v.log /\ x.ub = w.ub
      /\ IsNet(x.n) /\ x.n.conns = w.n.conns /\ x.n.read = w.n.read
      /\ x.n.opened = IF w.d.trans THEN w.n.opened \ {w.d.sock} ELSE w.n.opened
  <2>1. v \in [d : {v.d}, n : {w.n}, log : {v.log}, ub : {w.ub}]  BY <1>3 DEF IsWorld
  <2>2. PICK m : m = [w.n EXCEPT !.opened = IF w.d.trans THEN @ \ {w.d.sock} ELSE @,
                                 !.wire = IF w.d.trans THEN <<>> ELSE @,
                                 !.peer = IF w.d.trans THEN "gone" ELSE @]
    OBVIOUS
  <2>3. x = [v EXCEPT !.d = Cleared(w.d), !.n = m]  BY <1>4, <2>1, <2>2 DEF Closes
  <2>4. /\ IsNet(m) /\ m.conns = w.n.conns /\ m.read = w.n.read
        /\ m.opened = IF w.d.trans THEN w.n.opened \ {w.d.sock} ELSE w.n.opened
    <3>1. <<>> \in Seq(Tokens)  OBVIOUS
    <3> QED BY <1>6, <2>2, <3>1 DEF IsNet
  <2> QED BY <2>1, <2>3, <2>4
<1>11. SameRead(x, w)  BY <1>3, <1>7 DEF SameRead
<1>8. IsWorld(x)  BY <1>3, <1>6, <1>7 DEF IsWorld
<1>9. GoodSocket(x.d, x.n)
  <2>1. ~x.d.trans  BY <1>7, ClearedParts DEF Good, IsWorld
  <2>2. x.n.opened = {}  BY <1>7 DEF Good, GoodSocket
  <2> QED BY <2>1, <2>2 DEF GoodSocket
<1>10. GoodSession(x.d)  BY <1>7, ClearedParts DEF Good, IsWorld, GoodSession, Tries, Secure
<1> QED BY <1>5, <1>7, <1>8, <1>9, <1>10, <1>11, ClearedParts DEF Good, IsWorld

\* A new socket is one nobody had (iks_connect_with and its like).
LEMMA WithSocketSound ==
    ASSUME NEW w, NEW way, Good(w), ~w.d.trans, NEW v \in WithSocket(w, way)
    PROVE  /\ Good(v) /\ v.d.trans /\ v.d.sock = v.n.conns
           /\ v.log.parsed = <<>> /\ v.n.read = 0
           /\ v.d.flags \cap {"TRY_SECURE", "SECURE"} = {}
<1>1. PICK s \in Peers :
        v = [w EXCEPT !.d.sock = w.n.conns + 1, !.d.trans = TRUE,
               !.d.flags = IF way = "fd" THEN @ \cup {"FOREIGN"} ELSE @,
               !.n = [conns   |-> w.n.conns + 1,
                      opened  |-> w.n.opened \cup {w.n.conns + 1},
                      foreign |-> w.n.foreign \cup (IF way = "fd" THEN {w.n.conns + 1} ELSE {}),
                      script |-> s, wire |-> <<>>, peer |-> "open", read |-> 0],
               !.log = [parsed |-> <<>>, told |-> <<>>]]
  BY DEF WithSocket
<1>2. /\ w \in [d : {w.d}, n : {w.n}, log : {w.log}, ub : {w.ub}]
      /\ w.d \in [trans : BOOLEAN, sock : Nat, server : Nat, flags : {w.d.flags},
                  tls : Nat, current : {w.d.current}]
      /\ w.n.conns \in Nat /\ w.n.opened = {} /\ w.d.flags = {} /\ w.d.tls = NULL
      /\ TellsItsEnd => w.ub = {}
  BY DEF Good, IsWorld, IsData, IsNet, GoodSocket, GoodSession, Secure
<1>3. PICK f : f = IF way = "fd" THEN w.d.flags \cup {"FOREIGN"} ELSE w.d.flags
  OBVIOUS
<1>4. /\ v \in [d : {v.d}, n : {v.n}, log : {v.log}, ub : {v.ub}] /\ v.ub = w.ub
      /\ v.d \in [trans : BOOLEAN, sock : Nat, server : Nat, flags : {v.d.flags},
                  tls : Nat, current : {w.d.current}]
      /\ v.d.trans /\ v.d.sock = w.n.conns + 1 /\ v.d.tls = w.d.tls
      /\ v.d.flags = f
  <2>1. v.d \in [trans : BOOLEAN, sock : Nat, server : Nat, flags : {v.d.flags},
                 tls : Nat, current : {w.d.current}]
    <3>1. PICK c \in Nat : c = w.n.conns + 1  BY <1>2
    <3>2. PICK e : e = [w.d EXCEPT !.sock = c, !.trans = TRUE, !.flags = f]  OBVIOUS
    <3>3. e \in [trans : BOOLEAN, sock : Nat, server : Nat, flags : {f},
                 tls : Nat, current : {w.d.current}] /\ e.flags = f
      BY <1>2, <3>2
    <3>4. v.d = e  BY <1>1, <1>2, <1>3, <3>1, <3>2
    <3> QED BY <3>3, <3>4
  <2>2. v \in [d : {v.d}, n : {v.n}, log : {v.log}, ub : {v.ub}] /\ v.ub = w.ub
    BY <1>1, <1>2
  <2>3. v.d.trans /\ v.d.sock = w.n.conns + 1 /\ v.d.tls = w.d.tls
    BY <1>1, <1>2
  <2>4. v.d.flags = f  BY <1>1, <1>2, <1>3
  <2> QED BY <2>1, <2>2, <2>3, <2>4
<1>5. v.n = [conns   |-> w.n.conns + 1,
             opened  |-> w.n.opened \cup {w.n.conns + 1},
             foreign |-> w.n.foreign \cup (IF way = "fd" THEN {w.n.conns + 1} ELSE {}),
             script |-> s, wire |-> <<>>, peer |-> "open", read |-> 0]
  BY <1>1, <1>2
<1>6. IsNet(v.n) /\ v.n.conns = w.n.conns + 1 /\ v.n.opened = {w.n.conns + 1} /\ v.n.read = 0
  <2>1. s \in Seq(Bursts) /\ <<>> \in Seq(Tokens)  BY StreamAssumption
  <2> QED BY <1>2, <1>5, <2>1 DEF IsNet
<1>7. IsLog(v.log) /\ v.log.parsed = <<>>
  <2>1. v.log = [parsed |-> <<>>, told |-> <<>>]  BY <1>1, <1>2
  <2>2. <<>> \in Seq(ParsedTokens)  OBVIOUS
  <2> QED BY <2>1, <2>2 DEF IsLog
<1>8. IsWorld(v)  BY <1>4, <1>6, <1>7 DEF IsWorld, IsData
<1>9. GoodSocket(v.d, v.n)  BY <1>2, <1>4, <1>6 DEF GoodSocket
<1>10. GoodSession(v.d)  BY <1>2, <1>3, <1>4 DEF GoodSession, Tries, Secure
<1> QED BY <1>2, <1>3, <1>4, <1>6, <1>7, <1>8, <1>9, <1>10 DEF Good

\* iks_connect_with: the header names the server; without it the call fails.
LEMMA ConnectWithSound ==
    ASSUME NEW w, Good(w), ~w.d.trans, NEW o \in ConnectWith(w)
    PROVE  /\ Good(o.w) /\ o.w.d.trans /\ (Introduced /\ o.ret = "OK" => Named(o.w.d))
           /\ o.w.log.parsed = <<>> /\ o.w.n.read = 0
<1>1. PICK v \in WithSocket(w, "tcp") : o \in SendHeader(v, v.d.sock)  BY DEF ConnectWith
<1>2. /\ Good(v) /\ v.d.trans /\ v.d.sock \in Nat /\ v.d.flags \cap {"TRY_SECURE", "SECURE"} = {}
      /\ v.log.parsed = <<>> /\ v.n.read = 0
  BY WithSocketSound DEF Good, IsWorld, IsData
<1>3. /\ Good(o.w) /\ o.w.d.trans = v.d.trans /\ SameRead(o.w, v)
      /\ Introduced /\ o.ret = "OK" => Named(o.w.d)
  BY <1>1, <1>2, SendHeaderSound DEF Tries, Secure
<1> QED BY <1>2, <1>3 DEF SameRead

LEMMA ConnectAsyncSound ==
    ASSUME NEW w, Good(w), ~w.d.trans, NEW o \in ConnectAsync(w)
    PROVE  Good(o.w) /\ Named(o.w.d) /\ o.w.log.parsed = <<>> /\ o.w.n.read = 0
<1>1. PICK v \in WithSocket(w, "async") : o = Result([v EXCEPT !.d.server = v.d.sock], "OK")
  BY DEF ConnectAsync
<1>2. /\ Good(v) /\ v.d.flags \cap {"TRY_SECURE", "SECURE"} = {} /\ IsData(v.d)
      /\ v.log.parsed = <<>> /\ v.n.read = 0
  BY WithSocketSound DEF Good, IsWorld
<1>3. PICK e : e = [v.d EXCEPT !.server = v.d.sock]  OBVIOUS
<1>4. IsData(e) /\ e.trans = v.d.trans /\ e.sock = v.d.sock /\ e.server = v.d.sock
      /\ e.flags = v.d.flags /\ e.tls = v.d.tls
  BY <1>2, <1>3 DEF IsData
<1>5. PICK u : u = [v EXCEPT !.d = e]  OBVIOUS
<1>6. IsWorld(u) /\ u.d = e /\ u.n = v.n /\ u.ub = v.ub /\ u.log = v.log
  BY <1>2, <1>4, <1>5, WithData DEF Good
<1>7. [v EXCEPT !.d.server = v.d.sock] = u  BY <1>2, <1>3, <1>5 DEF Good, IsWorld
<1>8. o.w = u  BY <1>1, <1>7, ResultParts
<1>9. GoodSocket(u.d, u.n) /\ GoodSession(u.d)
  BY <1>2, <1>4, <1>6 DEF Good, GoodSocket, GoodSession, Tries, Secure
<1> QED BY <1>2, <1>4, <1>6, <1>8, <1>9 DEF Good, Named

LEMMA ConnectFdSound ==
    ASSUME NEW w, Good(w), ~w.d.trans, NEW o \in ConnectFd(w)
    PROVE  Good(o.w) /\ o.w.log.parsed = <<>> /\ o.w.n.read = 0
<1>1. PICK v \in WithSocket(w, "fd") : o = Result(v, "OK")  BY DEF ConnectFd
<1> QED BY <1>1, WithSocketSound, ResultParts

-----------------------------------------------------------------------------
(* The hook, and the tokens.                                               *)

\* Whatever the hook does: if the parsing goes on, so does the connection.
LEMMA ActSound ==
    ASSUME NEW w, Good(w), InTouch(w), NEW a \in HookActs, NEW o \in Act(w, a)
    PROVE  Sound(o) /\ Keeps(o, w)
<1>1. Good(DeleteHook(w)) /\ ~DeleteHook(w).d.trans /\ SameRead(DeleteHook(w), w)
  BY DeleteHookSound
<1>2. w.d.sock \in Nat  BY DEF Good, IsWorld, IsData
<1>3. a \in Acts  BY StreamAssumption
<1>4. CASE a = "ok"  BY <1>4, ResultParts DEF Act, Sound, InTouch, Keeps, SameRead
<1>5. CASE a = "error"  BY <1>5, ResultParts DEF Act, Sound, InTouch, Keeps, SameRead
<1>6. CASE a = "send"
  <2>1. PICK p \in SendRaw(w, "stanza") : o = Result(p.w, "OK")  BY <1>6 DEF Act
  <2> QED BY <2>1, SendRawSound, ResultParts DEF Sound, InTouch, Keeps
<1>7. CASE a = "greet"
  <2>1. PICK p \in SendHeader(w, w.d.sock) : o = Result(p.w, "OK")  BY <1>7 DEF Act
  <2>2. /\ Good(p.w) /\ p.w.d.trans = w.d.trans
        /\ Introduced => Named(p.w.d)
        /\ SameRead(p.w, w)
    BY <1>2, SendHeaderSound DEF InTouch
  <2> QED BY <2>1, <2>2, ResultParts DEF Sound, InTouch, Keeps
<1>8. CASE a = "starttls"
  <2>1. w.d.trans /\ w.d.flags \cap {"TRY_SECURE", "SECURE"} = {}  BY <1>8 DEF Act
  <2>2. PICK p \in StartTls(w) : o = Result(p.w, "OK")  BY <1>8 DEF Act
  <2>3. Good(p.w) /\ p.w.d.trans = w.d.trans /\ (Named(w.d) => Named(p.w.d))
        /\ SameRead(p.w, w)
    BY <2>1, StartTlsSound DEF InTouch
  <2> QED BY <2>1, <2>2, <2>3, ResultParts DEF Sound, InTouch, Keeps
<1>9. CASE a = "auth"
  <2>1. w.d.trans /\ o \in StartSasl(w)  BY <1>9 DEF Act
  <2> QED BY <2>1, StartSaslSound DEF Sound, InTouch, Keeps
<1>10. CASE a = "quit"
  BY <1>1, <1>10, ResultParts DEF Act, Sound, Named, Keeps
<1>11. CASE a = "disconnect"
  BY <1>1, <1>11, ResultParts DEF Act, Sound, Named, Keeps, TellsItsEnd
<1>12. CASE a = "reconnect"
  <2>1. PICK p \in ConnectWith(DeleteHook(w)) : o = Result(p.w, "OK")  BY <1>12 DEF Act
  <2>2. Good(p.w) /\ p.w.d.trans  BY <1>1, ConnectWithSound
  <2> QED BY <1>12, <2>1, <2>2, ResultParts DEF Sound, Introduced, Keeps, Countable
<1> QED
  BY <1>3, <1>4, <1>5, <1>6, <1>7, <1>8, <1>9, <1>10, <1>11, <1>12 DEF Acts

LEMMA HookSound ==
    ASSUME NEW w, Good(w), InTouch(w), NEW type, NEW node, NEW o \in StreamHook(w, type, node)
    PROVE  Sound(o) /\ Keeps(o, w)
<1>1. PICK v : v = [w EXCEPT !.log.told = Append(@, Event(type, node))]  OBVIOUS
<1>2. PICK a \in HookActs : o \in Act(v, a)  BY <1>1 DEF StreamHook
<1>3. IsWorld(v) /\ v.d = w.d /\ v.n = w.n /\ v.ub = w.ub /\ v.log.parsed = w.log.parsed
  BY <1>1 DEF Good, IsWorld, IsLog
<1>4. Good(v) /\ InTouch(v)  BY <1>3 DEF Good, InTouch
<1> QED BY <1>2, <1>3, <1>4, ActSound DEF Keeps, SameRead

\* The node under construction is none of the stream's concern.
LEMMA WithCurrent ==
    ASSUME NEW w, Good(w), InTouch(w), NEW x
    PROVE  /\ Good([w EXCEPT !.d.current = x]) /\ InTouch([w EXCEPT !.d.current = x])
           /\ SameRead([w EXCEPT !.d.current = x], w)
<1>1. PICK e : e = [w.d EXCEPT !.current = x]  OBVIOUS
<1>2. IsData(w.d)  BY DEF Good, IsWorld
<1>3. IsData(e) /\ e.trans = w.d.trans /\ e.sock = w.d.sock /\ e.server = w.d.server
      /\ e.flags = w.d.flags /\ e.tls = w.d.tls
  BY <1>1, <1>2 DEF IsData
<1>4. PICK u : u = [w EXCEPT !.d = e]  OBVIOUS
<1>5. IsWorld(u) /\ u.d = e /\ u.n = w.n /\ u.ub = w.ub /\ u.log = w.log
  BY <1>3, <1>4, WithData DEF Good
<1>6. [w EXCEPT !.d.current = x] = u  BY <1>1, <1>4 DEF Good, IsWorld
<1>7. GoodSocket(u.d, u.n)  BY <1>3, <1>5 DEF Good, GoodSocket
<1>8. GoodSession(u.d)  BY <1>3, <1>5 DEF Good, GoodSession, Tries, Secure
<1>9. Good(u) /\ InTouch(u)  BY <1>3, <1>5, <1>7, <1>8 DEF Good, InTouch, Named
<1> QED BY <1>5, <1>6, <1>9 DEF SameRead

LEMMA NothingHappens ==
    ASSUME NEW w, Good(w), InTouch(w), NEW r
    PROVE  Sound(Result(w, r)) /\ Keeps(Result(w, r), w)
BY ResultParts DEF Sound, InTouch, Keeps, SameRead

LEMMA CloseTagSound ==
    ASSUME NEW w, Good(w), InTouch(w), NEW o \in CloseTag(w)
    PROVE  Sound(o) /\ Keeps(o, w)
<1>1. CASE o \in StreamHook(w, "STOP", NoNode)  BY <1>1, HookSound
<1>2. ASSUME o \in Completed(w, w.d.current.items) PROVE Sound(o) /\ Keeps(o, w)
  <2>1. PICK v : v = [w EXCEPT !.d.current = NoCurrent]  OBVIOUS
  <2>2. Good(v) /\ InTouch(v) /\ SameRead(v, w)  BY <2>1, WithCurrent
  <2>3. \/ o = Result(v, "OK")
        \/ \E p \in SendRaw(v, "response") : o = Result(p.w, "OK")
        \/ o \in StreamHook(v, "ERROR", w.d.current.items)
        \/ o \in StreamHook(v, "NORMAL", w.d.current.items)
    BY <1>2, <2>1 DEF Completed
  <2>4. ASSUME NEW p \in SendRaw(v, "response"), o = Result(p.w, "OK") PROVE Sound(o) /\ Keeps(o, w)
    BY <2>2, <2>4, SendRawSound, ResultParts DEF Sound, InTouch, Keeps, SameRead
  <2> QED BY <2>2, <2>3, <2>4, HookSound, NothingHappens DEF Keeps, SameRead
<1>3. CASE o = Result([w EXCEPT !.d.current = Parent(@)], "OK")
  <2>1. PICK v : v = [w EXCEPT !.d.current = Parent(w.d.current)]  OBVIOUS
  <2>2. o = Result(v, "OK")  BY <1>3, <2>1
  <2>3. Good(v) /\ InTouch(v) /\ SameRead(v, w)  BY <2>1, WithCurrent
  <2> QED BY <2>2, <2>3, NothingHappens DEF Keeps, SameRead
<1> QED BY <1>1, <1>2, <1>3 DEF CloseTag

-----------------------------------------------------------------------------
(* Steps.                                                                  *)

LEMMA WorldIs ==
    ASSUME NEW w, IsWorld(w), Become(w)
    PROVE  World' = w
BY DEF IsWorld, Become, World

LEMMA WorldParts == World.d = data /\ World.n = net /\ World.log = log /\ World.ub = ub
BY DEF World

\* While a token is there to be read, the stream is in touch.
LEMMA ParsingInTouch ==
    ASSUME IInv, NEW kinds, Parsing(kinds)
    PROVE  /\ ret = "OK" /\ Good(World) /\ InTouch(World) /\ Token \in Tokens
           /\ Token \in ParsedTokens /\ [Token EXCEPT !.kind = "tls"] \in ParsedTokens
<1>1. Token \in Tokens  BY DEF IInv, Parsing, Token
<1> QED BY <1>1, WorldParts DEF IInv, Parsing, InTouch, Tokens, ParsedTokens

\* One token more than in the state has been parsed, and none read.
OneMore(w) == Len(w.log.parsed) = Len(log.parsed) + 1 /\ w.n.read = net.read

LEMMA ReadingSound ==
    ASSUME NEW t \in ParsedTokens, Good(World), InTouch(World)
    PROVE  Good(Reading(t)) /\ InTouch(Reading(t)) /\ Reading(t).d = data /\ OneMore(Reading(t))
<1>1. PICK v : v = Reading(t)  OBVIOUS
<1>2. log.parsed \in Seq(ParsedTokens)  BY WorldParts DEF Good, IsWorld, IsLog
<1>3. PICK q : q = Append(log.parsed, t) /\ q \in Seq(ParsedTokens) /\ Len(q) = Len(log.parsed) + 1
  <2>1. PICK S : S = ParsedTokens  OBVIOUS
  <2>2. PICK l : l = log.parsed  OBVIOUS
  <2>3. l \in Seq(S) /\ t \in S  BY <1>2, <2>1, <2>2
  <2>4. Append(l, t) \in Seq(S) /\ Len(Append(l, t)) = Len(l) + 1  BY ONLY <2>3
  <2> QED BY <2>1, <2>2, <2>4
<1>4. v = [World EXCEPT !.log.parsed = q]  BY <1>1, <1>3, WorldParts DEF Reading, World
<1>5. /\ IsWorld(v) /\ v.d = World.d /\ v.n = World.n /\ v.ub = World.ub
      /\ v.log.parsed = q
  BY <1>3, <1>4 DEF Good, IsWorld, IsLog
<1>6. Good(v) /\ InTouch(v)  BY <1>5 DEF Good, InTouch
<1> QED BY <1>1, <1>3, <1>5, <1>6, WorldParts DEF OneMore

\* What a hook may leave behind one token: parsing goes on only if it counts.
Counts(o) == Sound(o) /\ (Countable /\ o.ret = "OK" => OneMore(o.w))

LEMMA KeepsCount ==
    ASSUME NEW w, OneMore(w), NEW o, Sound(o), Keeps(o, w) PROVE Counts(o)
BY DEF Counts, OneMore, Keeps, SameRead

LEMMA AfterStep ==
    ASSUME IInv, NEW kinds, Parsing(kinds), NEW outcomes, \A o \in outcomes : Counts(o), After(outcomes)
    PROVE  IInv'
<1>1. PICK o \in outcomes :
        /\ Become(o.w)
        /\ IF o.ret = "OK" THEN buf' = Tail(buf) /\ UNCHANGED <<phase, ret>>
           ELSE buf' = <<>> /\ phase' = "app" /\ ret' = o.ret
  BY DEF After
<1>2. Sound(o) /\ (Countable /\ o.ret = "OK" => OneMore(o.w))  BY <1>1 DEF Counts
<1>3. World' = o.w /\ data' = o.w.d /\ log' = o.w.log /\ net' = o.w.n
  BY <1>1, <1>2, WorldIs DEF Sound, Good, Become
<1>4. Good(World)'
  <2>1. Good(o.w)  BY <1>2 DEF Sound
  <2> QED BY <1>3, <2>1 DEF Good, IsWorld, IsData, IsNet, IsLog, GoodSocket, GoodSession, Tries, Secure
<1>5. ret = "OK" /\ phase = "parse"  BY ParsingInTouch DEF Parsing
<1>6. TellsItsEnd /\ o.ret = "OK" => data'.trans  BY <1>2, <1>3 DEF Sound
<1>7. Introduced => Named(data)'  BY <1>2, <1>3 DEF Sound, Named
<1>8. CASE o.ret = "OK"
  <2>1. buf \in Seq(Tokens) /\ buf # <<>>  BY DEF IInv, Parsing
  <2>2. buf' = Tail(buf) /\ UNCHANGED <<phase, ret>>  BY <1>1, <1>8
  <2>3. buf' \in Seq(Tokens) /\ Len(buf') = Len(buf) - 1
    <3>1. PICK S : S = Tokens  OBVIOUS
    <3> QED BY ONLY <2>1, <2>2, <3>1
  <2>4. Countable => Len(log'.parsed) + Len(buf') = net'.read
    <3>1. ASSUME Countable PROVE Len(log'.parsed) + Len(buf') = net'.read
      <4>1. Len(log'.parsed) = Len(log.parsed) + 1 /\ net'.read = net.read
        BY <1>2, <1>3, <1>8, <3>1 DEF OneMore
      <4>2. Len(log.parsed) + Len(buf) = net.read  BY <1>5, <3>1 DEF IInv
      <4>3. Len(log.parsed) \in Nat /\ Len(buf) \in Nat
        BY <2>1, WorldParts DEF IInv, Good, IsWorld, IsLog
      <4> QED BY <2>3, <4>1, <4>2, <4>3
    <3> QED BY <3>1
  <2> QED BY <1>4, <1>5, <1>6, <1>7, <1>8, <2>2, <2>3, <2>4 DEF IInv
<1>9. CASE o.ret # "OK"
  <2>1. <<>> \in Seq(Tokens)  OBVIOUS
  <2> QED BY <1>1, <1>4, <1>7, <1>9, <2>1 DEF IInv
<1> QED BY <1>8, <1>9

\* A negotiated session is one of the socket (tagHook).
LEMMA TlsProceedStep ==
    ASSUME IInv, TlsProceed
    PROVE  IInv'
<1>1. PICK w : w = TlsReading  OBVIOUS
<1>2. Parsing({"open", "single"}) /\ "TRY_SECURE" \in data.flags  BY DEF TlsProceed, AwaitsTls
<1>3. Good(w) /\ InTouch(w) /\ w.d = data /\ OneMore(w)
  BY <1>1, <1>2, ParsingInTouch, ReadingSound DEF TlsReading
<1>4. /\ w.d.trans /\ ~Secure(w.d) /\ w.d.tls = NULL
      /\ Introduced => w.d.server = w.d.sock
      /\ w.d.sock \in Nat /\ w.d.sock # 0 /\ w.d.server \in Nat /\ IsData(w.d)
  BY <1>2, <1>3 DEF Good, GoodSession, GoodSocket, IsWorld, IsData, Tries
<1>5. PICK e : e = [w.d EXCEPT !.flags = (w.d.flags \ {"TRY_SECURE"}) \cup {"SECURE"}, !.tls = w.d.sock]
  OBVIOUS
<1>6. IsData(e) /\ e.trans = w.d.trans /\ e.sock = w.d.sock /\ e.server = w.d.server
      /\ e.flags = (w.d.flags \ {"TRY_SECURE"}) \cup {"SECURE"} /\ e.tls = w.d.sock
  BY <1>4, <1>5 DEF IsData
<1>7. PICK u : u = [w EXCEPT !.d = e]  OBVIOUS
<1>8. IsWorld(u) /\ u.d = e /\ u.n = w.n /\ u.ub = w.ub /\ u.log = w.log
  BY <1>3, <1>6, <1>7, WithData DEF Good
<1>17. OneMore(u)  BY <1>3, <1>8 DEF OneMore
<1>9. Good(u)
  <2>1. GoodSocket(u.d, u.n)  BY <1>3, <1>6, <1>8 DEF Good, GoodSocket
  <2>2. ~Tries(e) /\ Secure(e)  BY <1>6 DEF Tries, Secure
  <2>3. e.trans  BY <1>4, <1>6
  <2>4. GoodSession(e)  BY <1>4, <1>6, <2>2, <2>3 DEF GoodSession
  <2> QED BY <1>3, <1>8, <2>1, <2>4 DEF Good
<1>10. u = [w EXCEPT !.d.flags = (@ \ {"TRY_SECURE"}) \cup {"SECURE"}, !.d.tls = w.d.sock]
  BY <1>3, <1>4, <1>5, <1>7 DEF Good, IsWorld, IsData
<1>11. PICK f : f = [w EXCEPT !.d.tls = NULL]  OBVIOUS
<1>12. f = w  BY <1>3, <1>4, <1>11 DEF Good, IsWorld, IsData
<1>13. PICK outcomes : outcomes = {Result(o.w, "OK") : o \in SendHeader(u, w.d.server)} \cup
                 {Result(f, "TLSFAIL"), Result(f, "NOMEM")}
  OBVIOUS
<1>14. After(outcomes)  BY <1>1, <1>10, <1>11, <1>13 DEF TlsProceed
<1>15. ASSUME NEW p \in SendHeader(u, w.d.server) PROVE Counts(Result(p.w, "OK"))
  <2>1. u.d.trans /\ (Introduced => w.d.server = u.d.sock /\ Named(u.d))
    BY <1>4, <1>6, <1>8 DEF Named
  <2>2. Good(p.w) /\ p.w.d.trans = u.d.trans /\ (Introduced => Named(p.w.d))
        /\ SameRead(p.w, u)
    BY <1>4, <1>9, <2>1, SendHeaderSound
  <2>3. OneMore(p.w)  BY <1>17, <2>2 DEF OneMore, SameRead
  <2>4. PICK o : o = Result(p.w, "OK")  OBVIOUS
  <2>5. o.w = p.w /\ o.ret = "OK"  BY <2>4, ResultParts
  <2>6. Sound(o)  BY <2>1, <2>2, <2>5 DEF Sound
  <2> QED BY <2>3, <2>4, <2>5, <2>6 DEF Counts
<1>16. \A o \in outcomes : Counts(o)
  BY <1>3, <1>12, <1>13, <1>15, NothingHappens, KeepsCount
<1> QED BY <1>2, <1>14, <1>16, AfterStep

LEMMA AfterOpenSound ==
    ASSUME NEW w, Good(w), InTouch(w), NEW o \in AfterOpen(w)
    PROVE  Sound(o) /\ Keeps(o, w)
BY CloseTagSound, NothingHappens DEF AfterOpen

\* Every token of a buffer, whatever the hook does about it.
LEMMA TokenStep ==
    ASSUME IInv, TlsFailure \/ StreamStart \/ StanzaStart \/ ChildStart \/ Close \/ CData \/ NotXml
    PROVE  IInv'
<1>1. CASE TlsFailure
  <2>1. Parsing({"open", "single"}) /\ After({Result(TlsReading, "TLSFAIL")})  BY <1>1 DEF TlsFailure
  <2>2. Good(TlsReading) /\ InTouch(TlsReading) /\ OneMore(TlsReading)
    BY <2>1, ParsingInTouch, ReadingSound DEF TlsReading
  <2> QED BY <2>1, <2>2, NothingHappens, KeepsCount, AfterStep
<1>2. CASE StreamStart
  <2>1. PICK outcomes :
          /\ outcomes = UNION {StreamHook(Reading(Token), "START", x.items) : x \in NewNodes(NewNode(Header))}
          /\ Parsing({"open", "single"}) /\ After(outcomes)
    BY <1>2 DEF StreamStart
  <2>2. Good(Reading(Token)) /\ InTouch(Reading(Token)) /\ OneMore(Reading(Token))
    BY <2>1, ParsingInTouch, ReadingSound
  <2>3. \A o \in outcomes : Counts(o)  BY <2>1, <2>2, HookSound, KeepsCount
  <2> QED BY <2>1, <2>3, AfterStep
<1>3. CASE StanzaStart
  <2>1. PICK outcomes :
          /\ outcomes = UNION {AfterOpen([Reading(Token) EXCEPT !.d.current = x]) :
                               x \in NewNodes(NewNode(Token.name))}
          /\ Parsing({"open", "single"}) /\ After(outcomes)
    BY <1>3 DEF StanzaStart
  <2>2. Good(Reading(Token)) /\ InTouch(Reading(Token)) /\ OneMore(Reading(Token))
    BY <2>1, ParsingInTouch, ReadingSound
  <2>3. ASSUME NEW x, NEW o \in AfterOpen([Reading(Token) EXCEPT !.d.current = x]) PROVE Counts(o)
    <3>1. PICK w : w = [Reading(Token) EXCEPT !.d.current = x]  OBVIOUS
    <3>2. Good(w) /\ InTouch(w) /\ SameRead(w, Reading(Token))  BY <2>2, <3>1, WithCurrent
    <3>3. OneMore(w)  BY <2>2, <3>2 DEF OneMore, SameRead
    <3> QED BY <2>3, <3>1, <3>2, <3>3, AfterOpenSound, KeepsCount
  <2>4. \A o \in outcomes : Counts(o)  BY <2>1, <2>3
  <2> QED BY <2>1, <2>4, AfterStep
<1>4. CASE ChildStart
  <2>1. PICK outcomes :
          /\ outcomes = UNION {AfterOpen([Reading(Token) EXCEPT !.d.current = x]) :
                               x \in NewNodes(InsertTag(data.current, Token.name))}
          /\ Parsing({"open", "single"}) /\ After(outcomes)
    BY <1>4 DEF ChildStart
  <2>2. Good(Reading(Token)) /\ InTouch(Reading(Token)) /\ OneMore(Reading(Token))
    BY <2>1, ParsingInTouch, ReadingSound
  <2>3. ASSUME NEW x, NEW o \in AfterOpen([Reading(Token) EXCEPT !.d.current = x]) PROVE Counts(o)
    <3>1. PICK w : w = [Reading(Token) EXCEPT !.d.current = x]  OBVIOUS
    <3>2. Good(w) /\ InTouch(w) /\ SameRead(w, Reading(Token))  BY <2>2, <3>1, WithCurrent
    <3>3. OneMore(w)  BY <2>2, <3>2 DEF OneMore, SameRead
    <3> QED BY <2>3, <3>1, <3>2, <3>3, AfterOpenSound, KeepsCount
  <2>4. \A o \in outcomes : Counts(o)  BY <2>1, <2>3
  <2> QED BY <2>1, <2>4, AfterStep
<1>5. CASE Close
  <2>1. Parsing({"close"}) /\ After(CloseTag(Reading(Token)))  BY <1>5 DEF Close
  <2>2. Good(Reading(Token)) /\ InTouch(Reading(Token)) /\ OneMore(Reading(Token))
    BY <2>1, ParsingInTouch, ReadingSound
  <2>3. \A o \in CloseTag(Reading(Token)) : Counts(o)  BY <2>2, CloseTagSound, KeepsCount
  <2> QED BY <2>1, <2>3, AfterStep
<1>6. CASE CData
  <2>1. PICK w : w = Reading(Token)  OBVIOUS
  <2>2. PICK v : v = IF HasCurrent(data) THEN [w EXCEPT !.d.current = InsertText(@, Token.name)] ELSE w
    OBVIOUS
  <2>3. Parsing({"text"}) /\ After({Result(v, "OK")})  BY <1>6, <2>1, <2>2 DEF CData
  <2>4. Good(w) /\ InTouch(w) /\ OneMore(w)  BY <2>1, <2>3, ParsingInTouch, ReadingSound
  <2>5. PICK x : x = InsertText(w.d.current, Token.name)  OBVIOUS
  <2>6. v = w \/ v = [w EXCEPT !.d.current = x]  BY <2>2, <2>5
  <2>8. ASSUME v = [w EXCEPT !.d.current = x] PROVE Good(v) /\ InTouch(v) /\ OneMore(v)
    <3>1. Good(v) /\ InTouch(v) /\ SameRead(v, w)  BY <2>4, <2>8, WithCurrent
    <3> QED BY <2>4, <3>1 DEF OneMore, SameRead
  <2>7. Good(v) /\ InTouch(v) /\ OneMore(v)  BY <2>4, <2>6, <2>8
  <2> QED BY <2>3, <2>7, NothingHappens, KeepsCount, AfterStep
<1>7. CASE NotXml
  <2>1. Parsing({"bad"}) /\ After({Result(World, "BADXML")})  BY <1>7 DEF NotXml
  <2>2. Counts(Result(World, "BADXML"))
    BY <2>1, ParsingInTouch, NothingHappens, ResultParts DEF Counts
  <2> QED BY <2>1, <2>2, AfterStep
<1> QED BY <1>1, <1>2, <1>3, <1>4, <1>5, <1>6, <1>7


-----------------------------------------------------------------------------
(* Reading, the application and the peer.                                  *)

LEMMA NetStep ==
    ASSUME Good(World), NEW m, IsNet(m), m.conns = net.conns, m.opened = net.opened,
           net' = m, UNCHANGED <<data, log, ub>>
    PROVE  Good(World)'
<1>1. PICK u : u = [World EXCEPT !.n = m]  OBVIOUS
<1>2. IsWorld(u) /\ u.d = World.d /\ u.n = m /\ u.ub = World.ub  BY <1>1, WithNet DEF Good
<1>3. Good(u)  BY <1>2, WorldParts DEF Good, GoodSocket
<1>4. World' = u  BY <1>1 DEF World
<1> QED BY <1>3, <1>4 DEF Good, IsWorld, IsData, IsNet, IsLog, GoodSocket, GoodSession, Tries, Secure

\* iks_recv uses what the stream has, and changes nothing but what is on its way.
LEMMA ReadStep ==
    ASSUME IInv, phase = "recv", Use, NEW m, IsNet(m), m.conns = net.conns,
           m.opened = net.opened, net' = m,
           (phase' = "parse" /\ ret' = ret) \/ (phase' = "app" /\ buf' = buf),
           buf' \in Seq(Tokens),
           Countable => m.read + Len(buf) = net.read + Len(buf')
    PROVE  IInv'
<1>1. Good(World) /\ ret = "OK" /\ data.trans  BY DEF IInv
<1>2. Missing(data) = {}  BY <1>1, NothingMissing, WorldParts
<1>3. ub' = ub /\ UNCHANGED <<data, log>>
  <2>1. ub' = ub \cup {}  BY <1>2 DEF Use
  <2>2. ub \cup {} = ub  OBVIOUS
  <2> QED BY <2>1, <2>2 DEF Use
<1>4. Good(World)'  BY <1>1, <1>3, NetStep
<1>5. Introduced => Named(data)'  BY <1>1, <1>3 DEF IInv, Named
<1>6. (phase' \in {"recv", "parse"} => ret' = "OK") /\ phase' # "recv"  BY <1>1
<1>7. data'.trans  BY <1>1, <1>3
<1>8. phase' # "parse" => buf' = <<>>  BY DEF IInv
<1>9. Countable => Len(log'.parsed) + Len(buf') = net'.read
  <2>1. ASSUME Countable PROVE Len(log'.parsed) + Len(buf') = net'.read
    <3>1. Len(log.parsed) + Len(buf) = net.read  BY <1>1, <2>1 DEF IInv
    <3>2. buf \in Seq(Tokens) /\ log.parsed \in Seq(ParsedTokens) /\ net.read \in Nat /\ m.read \in Nat
      BY WorldParts DEF IInv, Good, IsWorld, IsLog, IsNet
    <3>3. Len(log.parsed) \in Nat /\ Len(buf) \in Nat /\ Len(buf') \in Nat  BY <3>2
    <3>4. log' = log /\ net' = m /\ m.read + Len(buf) = net.read + Len(buf')  BY <1>3, <2>1
    <3>5. PICK a, b, c, d, e \in Nat :
            a = Len(log.parsed) /\ b = Len(buf) /\ c = Len(buf') /\ d = net.read /\ e = m.read
      BY <3>2, <3>3
    <3>6. a + b = d /\ e + b = d + c => a + c = e  OBVIOUS
    <3> QED BY <3>1, <3>4, <3>5, <3>6
  <2> QED BY <2>1
<1> QED BY <1>4, <1>5, <1>6, <1>7, <1>8, <1>9 DEF IInv

LEMMA LeftoversTyped ==
    ASSUME ReadLeftovers PROVE buf' \in Seq(Tokens) /\ phase' = "parse" /\ ret' = ret
<1>1. PICK t : t = [kind |-> "bad", name |-> ""]  OBVIOUS
<1>2. t \in Tokens
  <2>1. "bad" \in Kinds /\ "" \in TokenNames  BY DEF Kinds, TokenNames
  <2> QED BY <1>1, <2>1 DEF Tokens
<1>3. <<t>> \in Seq(Tokens) /\ <<>> \in Seq(Tokens)  BY <1>2
<1> QED BY <1>1, <1>3 DEF ReadLeftovers

LEMMA ReadingStep ==
    ASSUME IInv, (\E k \in 1 .. Len(net.wire) : ReadData(k)) \/ ReadNothing \/ ReadClosed
    PROVE  IInv'
<1>0. IsNet(net) /\ buf \in Seq(Tokens) /\ (phase = "recv" => buf = <<>>)
  BY WorldParts DEF IInv, Good, IsWorld
<1>4. <<>> \in Seq(Tokens) /\ Len(<<>>) = 0  OBVIOUS
<1>1. ASSUME NEW k \in 1 .. Len(net.wire), ReadData(k) PROVE IInv'
  <2>1. PICK m : m = [net EXCEPT !.wire = SubSeq(@, k + 1, Len(@)), !.read = @ + k]  OBVIOUS
  <2>4. PICK l : l = net.wire /\ l \in Seq(Tokens) /\ Len(l) \in Nat /\ k \in 1 .. Len(l)  BY <1>0 DEF IsNet
  <2>5. /\ SubSeq(l, k + 1, Len(l)) \in Seq(Tokens)
        /\ SubSeq(l, 1, k) \in Seq(Tokens) /\ Len(SubSeq(l, 1, k)) = k
    <3>1. PICK S : S = Tokens  OBVIOUS
    <3>2. l \in Seq(S) /\ Len(l) \in Nat /\ k \in 1 .. Len(l)  BY <2>4, <3>1
    <3>3. SubSeq(l, k + 1, Len(l)) \in Seq(S)  BY ONLY <3>2
    <3>4. SubSeq(l, 1, k) \in Seq(S) /\ Len(SubSeq(l, 1, k)) = k  BY ONLY <3>2
    <3> QED BY <3>1, <3>3, <3>4
  <2>2. IsNet(m) /\ m.conns = net.conns /\ m.opened = net.opened /\ m.read = net.read + k
    <3>1. PICK x \in Seq(Tokens), y \in Nat : x = SubSeq(l, k + 1, Len(l)) /\ y = net.read + k
      <4>1. net.read \in Nat  BY <1>0 DEF IsNet
      <4>2. net.read + k \in Nat  BY <2>4, <4>1
      <4> QED BY <2>5, <4>2
    <3>2. m = [net EXCEPT !.wire = x, !.read = y]  BY <2>1, <2>4, <3>1
    <3> QED BY <1>0, <3>1, <3>2 DEF IsNet
  <2>3. (phase' = "parse" /\ ret' = ret) \/ (phase' = "app" /\ buf' = buf)
    BY <1>1 DEF ReadData, Back
  <2>6. buf' \in Seq(Tokens)  BY <1>0, <1>1, <2>4, <2>5 DEF ReadData, Back, Received
  <2>7. Countable => m.read + Len(buf) = net.read + Len(buf')
    <3>1. ASSUME Countable PROVE buf' = Received(k)
      BY <1>1, <3>1 DEF ReadData, SslRead, Countable
    <3>2. net.read \in Nat /\ buf = <<>>  BY <1>0, <1>1 DEF ReadData, IsNet
    <3> QED BY <1>4, <2>2, <2>4, <2>5, <3>1, <3>2 DEF Received
  <2> QED BY <1>1, <2>1, <2>2, <2>3, <2>6, <2>7, ReadStep DEF ReadData
<1>2. CASE ReadNothing
  <2>1. /\ (phase' = "parse" /\ ret' = ret) \/ (phase' = "app" /\ buf' = buf)
        /\ buf' \in Seq(Tokens) /\ (Countable => buf' = buf)
    BY <1>0, <1>2, LeftoversTyped DEF ReadNothing, Back, SslRead, Countable
  <2>2. net' = net /\ phase = "recv" /\ Use  BY <1>2 DEF ReadNothing
  <2> QED BY <1>0, <2>1, <2>2, ReadStep
<1>3. CASE ReadClosed
  <2>1. /\ (phase' = "parse" /\ ret' = ret) \/ (phase' = "app" /\ buf' = buf)
        /\ buf' \in Seq(Tokens) /\ (Countable => buf' = buf)
    BY <1>0, <1>3, LeftoversTyped DEF ReadClosed, ReadError, Back, SslRead, Countable
  <2>2. net' = net /\ phase = "recv" /\ Use  BY <1>3 DEF ReadClosed
  <2> QED BY <1>0, <2>1, <2>2, ReadStep
<1> QED BY <1>1, <1>2, <1>3

\* Everything that was read of the connection it leaves has been parsed.
Balanced(o) == o.ret = "OK" /\ o.w.d.trans => Len(o.w.log.parsed) = o.w.n.read
Leaves(o) == /\ Good(o.w) /\ (Introduced /\ o.ret = "OK" => Named(o.w.d))
             /\ Countable => Balanced(o)

\* A call of the application leaves a good world, with its server named if it went well.
LEMMA CallStep ==
    ASSUME IInv, NEW outcomes, Calling(outcomes),
           \A o \in outcomes : Leaves(o)
    PROVE  IInv'
<1>1. PICK o \in outcomes : Become(o.w) /\ ret' = o.ret  BY DEF Calling
<1>2. Good(o.w) /\ (Introduced /\ o.ret = "OK" => Named(o.w.d))  BY <1>1 DEF Leaves
<1>3. World' = o.w /\ data' = o.w.d /\ log' = o.w.log /\ net' = o.w.n
  BY <1>1, <1>2, WorldIs DEF Good, Become
<1>4. Good(World)'
  BY <1>2, <1>3 DEF Good, IsWorld, IsData, IsNet, IsLog, GoodSocket, GoodSession, Tries, Secure
<1>5. phase' = "app" /\ buf' = buf /\ buf = <<>>  BY DEF Calling, IInv
<1>6. Introduced /\ ret' = "OK" => Named(data)'  BY <1>1, <1>2, <1>3 DEF Named
<1>7. Countable /\ ret' = "OK" /\ data'.trans => Len(log'.parsed) + Len(buf') = net'.read
  <2>1. Len(buf') = 0  BY <1>5
  <2>2. log'.parsed \in Seq(ParsedTokens)  BY <1>2, <1>3 DEF Good, IsWorld, IsLog
  <2>3. Len(log'.parsed) \in Nat  BY <2>2
  <2>4. ASSUME Countable, ret' = "OK", data'.trans PROVE Len(log'.parsed) + Len(buf') = net'.read
    <3>1. Balanced(o)  BY <1>1, <2>4 DEF Leaves
    <3>2. Len(log'.parsed) = net'.read  BY <1>1, <1>3, <2>4, <3>1 DEF Balanced
    <3> QED BY <2>1, <2>3, <3>2
  <2> QED BY <2>4
<1> QED BY <1>4, <1>5, <1>6, <1>7 DEF IInv

\* A call on a connection that is not replaced.
LEMMA LeavesBalanced ==
    ASSUME IInv, phase = "app", data.trans, ret = "OK", NEW o, Good(o.w), SameRead(o.w, World),
           Introduced /\ o.ret = "OK" => Named(o.w.d)
    PROVE  Leaves(o)
<1>1. buf = <<>> /\ (Countable => Len(log.parsed) + Len(buf) = net.read)  BY DEF IInv
<1>2. log.parsed \in Seq(ParsedTokens)  BY WorldParts DEF IInv, Good, IsWorld, IsLog
<1>3. Len(log.parsed) \in Nat /\ Len(buf) = 0  BY <1>1, <1>2
<1> QED BY <1>1, <1>3, WorldParts DEF Leaves, Balanced, SameRead

LEMMA ConnectStep ==
    ASSUME IInv, NEW way \in Connects, Connect(way)
    PROVE  IInv'
<1>1. PICK new : new = (CASE way = "tcp"   -> ConnectWith(World)
                          [] way = "async" -> ConnectAsync(World)
                          [] way = "fd"    -> ConnectFd(World))
  OBVIOUS
<1>2. ~data.trans /\ Calling(new \cup {Result(World, "NOCONN")})  BY <1>1 DEF Connect
<1>3. Good(World) /\ ~World.d.trans  BY <1>2, WorldParts DEF IInv
<1>4. way \in {"tcp", "async", "fd"} /\ (Introduced => way \in {"tcp", "async"})
  BY StreamAssumption DEF Introduced
<1>7. Len(<<>>) = 0  OBVIOUS
<1>5. \A o \in new : Leaves(o)
  <2>1. CASE way = "tcp"  BY <1>1, <1>3, <1>7, <2>1, ConnectWithSound DEF Leaves, Balanced
  <2>2. CASE way = "async"  BY <1>1, <1>3, <1>7, <2>2, ConnectAsyncSound DEF Leaves, Balanced
  <2>3. CASE way = "fd"  BY <1>1, <1>3, <1>4, <1>7, <2>3, ConnectFdSound DEF Leaves, Balanced
  <2> QED BY <1>4, <2>1, <2>2, <2>3
<1>6. Leaves(Result(World, "NOCONN"))
  BY <1>3, ResultParts DEF Leaves, Balanced
<1> QED BY <1>2, <1>5, <1>6, CallStep

LEMMA ApplicationStep ==
    ASSUME IInv, Greet \/ Send \/ AskForTls \/ AskForSasl \/ Disconnect \/ Delete
    PROVE  IInv'
<1>1. Good(World) /\ World.d = data /\ data.sock \in Nat
  BY WorldParts DEF IInv, Good, IsWorld, IsData
<1>2. Introduced /\ ret = "OK" => Named(data)  BY DEF IInv
<1>3. CASE Greet
  <2>1. data.trans /\ ret = "OK" /\ Calling(SendHeader(World, data.sock))  BY <1>3 DEF Greet
  <2>2. \A o \in SendHeader(World, data.sock) :
           Good(o.w) /\ SameRead(o.w, World) /\ (Introduced /\ o.ret = "OK" => Named(o.w.d))
    BY <1>1, <2>1, SendHeaderSound
  <2> QED BY <2>1, <2>2, LeavesBalanced, CallStep DEF Calling
<1>4. CASE Send
  <2>1. data.trans /\ ret = "OK" /\ Calling(SendRaw(World, "stanza"))  BY <1>4 DEF Send
  <2>2. \A o \in SendRaw(World, "stanza") :
           Good(o.w) /\ SameRead(o.w, World) /\ (Introduced /\ o.ret = "OK" => Named(o.w.d))
    BY <1>1, <1>2, <2>1, SendRawSound
  <2> QED BY <2>1, <2>2, LeavesBalanced, CallStep DEF Calling
<1>5. CASE AskForTls
  <2>1. data.trans /\ ret = "OK" /\ data.flags \cap {"TRY_SECURE", "SECURE"} = {}
        /\ Calling(StartTls(World))
    BY <1>5 DEF AskForTls
  <2>2. \A o \in StartTls(World) :
           Good(o.w) /\ SameRead(o.w, World) /\ (Introduced /\ o.ret = "OK" => Named(o.w.d))
    BY <1>1, <1>2, <2>1, StartTlsSound
  <2> QED BY <2>1, <2>2, LeavesBalanced, CallStep DEF Calling
<1>6. CASE AskForSasl
  <2>1. data.trans /\ ret = "OK" /\ Calling(StartSasl(World))  BY <1>6 DEF AskForSasl
  <2>2. \A o \in StartSasl(World) :
           Good(o.w) /\ SameRead(o.w, World) /\ (Introduced /\ o.ret = "OK" => Named(o.w.d))
    BY <1>1, <1>2, <2>1, StartSaslSound
  <2> QED BY <2>1, <2>2, LeavesBalanced, CallStep DEF Calling
<1>7. Good(DeleteHook(World)) /\ Named(DeleteHook(World).d) /\ ~DeleteHook(World).d.trans
  BY <1>1, DeleteHookSound DEF Named
<1>8. CASE Disconnect
  <2>1. Calling({Result(DeleteHook(World), "OK")})  BY <1>8 DEF Disconnect
  <2>2. Leaves(Result(DeleteHook(World), "OK"))
    BY <1>7, ResultParts DEF Leaves, Balanced
  <2> QED BY <2>1, <2>2, CallStep
<1>9. CASE Delete
  <2>1. PICK w : w = DeleteHook(World)  OBVIOUS
  <2>2. Become(w) /\ phase' = "deleted"  BY <1>9, <2>1 DEF Delete
  <2>3. World' = w /\ data' = w.d  BY <1>7, <2>1, <2>2, WorldIs DEF Good, Become
  <2>4. Good(World)'
    BY <1>7, <2>1, <2>3 DEF Good, IsWorld, IsData, IsNet, IsLog, GoodSocket, GoodSession, Tries, Secure
  <2>5. Named(data)' /\ ~data'.trans  BY <1>7, <2>1, <2>3 DEF Named
  <2>6. buf' = buf /\ buf = <<>> /\ buf \in Seq(Tokens)  BY <1>9 DEF Delete, IInv
  <2> QED BY <2>2, <2>4, <2>5, <2>6 DEF IInv
<1> QED BY <1>3, <1>4, <1>5, <1>6, <1>8, <1>9

\* Steps that leave the stream itself alone.
LEMMA QuietStep ==
    ASSUME IInv, Recv \/ ParseDone \/ PeerClose \/ UNCHANGED vars
    PROVE  IInv'
<1>0. IsNet(net) /\ Good(World)  BY WorldParts DEF IInv, Good, IsWorld
<1>1. PICK m : m = net'  OBVIOUS
<1>2. /\ IsNet(m) /\ m.conns = net.conns /\ m.opened = net.opened /\ m.read = net.read
      /\ UNCHANGED <<data, log, ub>>
  <2>1. CASE PeerClose
    <3>1. <<>> \in Seq(Bursts)  OBVIOUS
    <3> QED BY <1>0, <1>1, <2>1, <3>1 DEF IsNet, PeerClose
  <2> QED BY <1>0, <1>1, <2>1 DEF Recv, ParseDone, vars
<1>8. UNCHANGED buf /\ buf \in Seq(Tokens)  BY DEF IInv, Recv, ParseDone, Back, PeerClose, vars, control
<1>3. Good(World)'  BY <1>0, <1>1, <1>2, NetStep
<1>4. Named(data)' <=> Named(data)  BY <1>2 DEF Named
<1>5. CASE Recv  BY <1>1, <1>2, <1>3, <1>4, <1>5, <1>8 DEF IInv, Recv
<1>6. CASE ParseDone
  <2>1. ret = "OK" /\ (Introduced => Named(data))  BY <1>6 DEF IInv, ParseDone
  <2>2. CASE data.trans  BY <1>1, <1>2, <1>3, <1>4, <1>6, <1>8, <2>1, <2>2 DEF IInv, ParseDone
  <2>3. CASE ~data.trans  BY <1>2, <1>3, <1>6, <1>8, <2>3 DEF IInv, ParseDone, Back
  <2> QED BY <2>2, <2>3
<1>7. CASE PeerClose \/ UNCHANGED vars
  <2>1. UNCHANGED <<phase, ret, buf>>  BY <1>7 DEF PeerClose, vars, control
  <2> QED BY <1>1, <1>2, <1>3, <1>4, <1>8, <2>1 DEF IInv
<1> QED BY <1>5, <1>6, <1>7

-----------------------------------------------------------------------------
(* The theorems.                                                           *)

LEMMA InitSound == Init => IInv
<1> SUFFICES ASSUME Init PROVE IInv  OBVIOUS
<1>1. IsData(data) /\ ~data.trans /\ data.flags = {} /\ data.tls = NULL
  BY DEF Init, IsData, NULL
<1>2. IsNet(net) /\ net.opened = {}
  <2>1. <<>> \in Seq(Bursts) /\ <<>> \in Seq(Tokens)  OBVIOUS
  <2> QED BY <2>1 DEF Init, IsNet
<1>3. IsLog(log) /\ ub = {}
  <2>1. <<>> \in Seq(ParsedTokens)  OBVIOUS
  <2> QED BY <2>1 DEF Init, IsLog
<1>4. IsWorld(World)  BY <1>1, <1>2, <1>3, WorldParts DEF IsWorld, World
<1>5. GoodSocket(data, net) /\ GoodSession(data)
  BY <1>1, <1>2 DEF GoodSocket, GoodSession, Tries, Secure
<1>6. Good(World)  BY <1>3, <1>4, <1>5, WorldParts DEF Good
<1>7. phase = "app" /\ Named(data) /\ buf = <<>> /\ ~data.trans  BY <1>1 DEF Init, Named
<1>8. <<>> \in Seq(Tokens)  OBVIOUS
<1> QED BY <1>6, <1>7, <1>8 DEF IInv

LEMMA NextSound == IInv /\ [Next]_vars => IInv'
<1> SUFFICES ASSUME IInv, [Next]_vars PROVE IInv'  OBVIOUS
<1>1. CASE TlsProceed  BY <1>1, TlsProceedStep
<1>2. CASE TlsFailure \/ StreamStart \/ StanzaStart \/ ChildStart \/ Close \/ CData \/ NotXml
  BY <1>2, TokenStep
<1>3. CASE (\E k \in 1 .. Len(net.wire) : ReadData(k)) \/ ReadNothing \/ ReadClosed
  BY <1>3, ReadingStep
<1>4. CASE \E way \in Connects : Connect(way)  BY <1>4, ConnectStep
<1>5. CASE Greet \/ Send \/ AskForTls \/ AskForSasl \/ Disconnect \/ Delete
  BY <1>5, ApplicationStep
<1>6. CASE Recv \/ ParseDone \/ PeerClose \/ UNCHANGED vars  BY <1>6, QuietStep
<1> QED BY <1>1, <1>2, <1>3, <1>4, <1>5, <1>6 DEF Next, Library

\* Whatever hooks, servers and the network do, the stream keeps a good world
\* between any two steps (stream.c).
THEOREM StreamStaysGood == Spec => []IInv
BY InitSound, NextSound, PTL DEF Spec

\* However a stream is connected, by hooks too, and however sending, negotiating or
\* parsing fails: it has one open socket of its own while it is connected, none
\* afterwards (iks_connect_with, iks_connect_fd, deleteHook).
THEOREM SocketClosedOnce == Spec => []OneSocket
<1>1. IInv => OneSocket
  <2> SUFFICES ASSUME IInv PROVE OneSocket  OBVIOUS
  <2>1. net.opened = IF data.trans THEN {data.sock} ELSE {}
    BY WorldParts DEF IInv, Good, GoodSocket
  <2> QED BY <2>1 DEF OneSocket
<1> QED BY <1>1, StreamStaysGood, PTL

\* If hooks that disconnect say so by their result, no call ever goes through a NULL
\* transport or TLS session, and no socket is closed twice (iks_send_raw, iks_recv,
\* tagHook, deleteHook).
THEOREM NothingMissingIsUsed ==
    ASSUME TellsItsEnd
    PROVE  Spec => []NoUndefinedBehaviour
<1>1. IInv => NoUndefinedBehaviour
  BY WorldParts DEF IInv, Good, NoUndefinedBehaviour
<1> QED BY <1>1, StreamStaysGood, PTL

\* If a connection is made by name and never inside a hook, a TLS session is that of
\* the socket now open, to the server this connection's header named (tagHook,
\* iks_start_tls, iks_send_header, deleteHook).
THEOREM SessionIsOurs ==
    ASSUME Introduced
    PROVE  Spec => []SessionOfThisConnection
<1>1. IInv => SessionOfThisConnection
  <2> SUFFICES ASSUME IInv PROVE SessionOfThisConnection  OBVIOUS
  <2>1. GoodSession(data)  BY WorldParts DEF IInv, Good
  <2>2. Secure(data) => data.flags # {}  BY DEF Secure
  <2> QED BY <2>1, <2>2 DEF SessionOfThisConnection, GoodSession
<1> QED BY <1>1, StreamStaysGood, PTL

\* Unless the TLS back end is that of openssl, whose read drops what it reads, and if
\* no connection is made inside a hook: when iks_recv returns IKS_OK on a connection,
\* every token that was read of it has been parsed (iks_recv, tagHook, deleteHook).
THEOREM WhatIsReadIsParsed ==
    ASSUME Countable
    PROVE  Spec => []ReadIsProcessed
<1>1. IInv => ReadIsProcessed
  <2> SUFFICES ASSUME IInv, phase = "app", ret = "OK", data.trans
               PROVE  Len(log.parsed) = net.read
    BY DEF ReadIsProcessed
  <2>1. buf = <<>> /\ Len(log.parsed) + Len(buf) = net.read  BY DEF IInv
  <2>2. log.parsed \in Seq(ParsedTokens)  BY WorldParts DEF IInv, Good, IsWorld, IsLog
  <2>3. Len(buf) = 0 /\ Len(log.parsed) \in Nat  BY <2>1, <2>2
  <2> QED BY <2>1, <2>3
<1> QED BY <1>1, StreamStaysGood, PTL

-----------------------------------------------------------------------------
(* Numbers in order.                                                       *)

LEMMA FiniteNumbers == ASSUME NEW m \in Nat, NEW S \in SUBSET (1 .. m)
    PROVE  IsFiniteSet(S) /\ Cardinality(S) \in 0 .. m
<1>1. IsFiniteSet(1 .. m) /\ Cardinality(1 .. m) = m  BY FS_Interval
<1>2. IsFiniteSet(S) /\ Cardinality(S) <= m  BY <1>1, FS_Subset
<1> QED BY <1>2, FS_CardinalityType

\* A greater number has more numbers up to it.
LEMMA MoreUpTo ==
    ASSUME NEW m \in Nat, NEW S \in SUBSET (1 .. m), NEW i \in S, NEW k \in S, i < k
    PROVE  Cardinality(UpTo(S, i)) < Cardinality(UpTo(S, k))
<1>5. i \in Int /\ k \in Int /\ \A j \in S : j \in Int  OBVIOUS
<1>6. \A j \in S : j <= i => j <= k  BY <1>5
<1>1. UpTo(S, i) \subseteq UpTo(S, k) /\ k \in UpTo(S, k) /\ k \notin UpTo(S, i)
  <2>1. UpTo(S, i) \subseteq UpTo(S, k)  BY <1>6 DEF UpTo
  <2>2. k \in UpTo(S, k)  BY <1>5 DEF UpTo
  <2>3. k \notin UpTo(S, i)  BY <1>5 DEF UpTo
  <2> QED BY <2>1, <2>2, <2>3
<1>2. UpTo(S, k) \in SUBSET (1 .. m) /\ UpTo(S, i) \in SUBSET (1 .. m)  BY DEF UpTo
<1>3. IsFiniteSet(UpTo(S, k)) /\ Cardinality(UpTo(S, k)) \in Nat /\ Cardinality(UpTo(S, i)) \in Nat
  BY <1>2, FiniteNumbers
<1>4. UpTo(S, i) # UpTo(S, k)  BY <1>1
<1> QED BY <1>1, <1>3, <1>4, FS_Subset

\* The numbers of a set have the places from the first to the last.
LEMMA Places ==
    ASSUME NEW m \in Nat, NEW S \in SUBSET (1 .. m)
    PROVE  /\ \A n \in 1 .. Cardinality(S) :
                  InOrder(S)[n] \in S /\ Cardinality(UpTo(S, InOrder(S)[n])) = n
           /\ \A i \in S : Cardinality(UpTo(S, i)) \in 1 .. Cardinality(S)
           /\ \A i \in S : InOrder(S)[Cardinality(UpTo(S, i))] = i
<1> DEFINE f == [i \in S |-> Cardinality(UpTo(S, i))]
<1>1. IsFiniteSet(S) /\ Cardinality(S) \in Nat  BY FiniteNumbers
<1>2. \A i \in S : Cardinality(UpTo(S, i)) \in 1 .. Cardinality(S)
  <2>1. TAKE i \in S
  <2>2. UpTo(S, i) \in SUBSET S /\ i \in UpTo(S, i)  BY DEF UpTo
  <2>3. IsFiniteSet(UpTo(S, i)) /\ Cardinality(UpTo(S, i)) <= Cardinality(S)  BY <1>1, <2>2, FS_Subset
  <2>4. Cardinality(UpTo(S, i)) \in Nat /\ Cardinality(UpTo(S, i)) # 0
    BY <2>2, <2>3, FS_CardinalityType, FS_EmptySet
  <2> QED BY <1>1, <2>3, <2>4
<1>3. \A i, k \in S : f[i] = f[k] => i = k
  <2>1. \A i, k \in S : i < k => f[i] < f[k]  BY MoreUpTo
  <2>2. \A i \in S : f[i] \in Nat /\ i \in Nat  BY <1>2
  <2> HIDE DEF f
  <2> QED BY <2>1, <2>2
<1>4. f \in [S -> 1 .. Cardinality(S)]  BY <1>2
<1>5. f \in Surjection(S, 1 .. Cardinality(S))
  <2>1. PICK T : T = 1 .. Cardinality(S)  OBVIOUS
  <2>2. IsFiniteSet(T) /\ Cardinality(T) = Cardinality(S)  BY <1>1, <2>1, FS_Interval
  <2> HIDE DEF f
  <2>3. f \in Injection(S, T)  BY <1>3, <1>4, <2>1 DEF Injection, IsInjective
  <2> QED BY <2>1, <2>2, <2>3, FS_Injection
<1>6. \A n \in 1 .. Cardinality(S) : \E i \in S : f[i] = n
  <2> HIDE DEF f
  <2> QED BY <1>5 DEF Surjection
<1>7. ASSUME NEW n \in 1 .. Cardinality(S)
      PROVE  InOrder(S)[n] \in S /\ Cardinality(UpTo(S, InOrder(S)[n])) = n
  <2>1. \E i \in S : Cardinality(UpTo(S, i)) = n  BY <1>6
  <2>2. InOrder(S)[n] = CHOOSE i \in S : Cardinality(UpTo(S, i)) = n  BY DEF InOrder
  <2> QED BY <2>1, <2>2
<1>8. ASSUME NEW i \in S PROVE InOrder(S)[Cardinality(UpTo(S, i))] = i
  <2>1. PICK n : n = Cardinality(UpTo(S, i)) /\ n \in 1 .. Cardinality(S)  BY <1>2
  <2>2. PICK k \in S : k = InOrder(S)[n] /\ Cardinality(UpTo(S, k)) = n  BY <1>7, <2>1
  <2>3. k = i  BY <1>3, <2>1, <2>2
  <2> QED BY <2>1, <2>2, <2>3
<1> QED BY <1>2, <1>7, <1>8

\* A number greater than the others comes last.
LEMMA GreatestIsLast ==
    ASSUME NEW m \in Nat, NEW S \in SUBSET (1 .. m), NEW k \in 1 .. m + 1, \A j \in S : j < k
    PROVE  /\ Cardinality(S \cup {k}) = Cardinality(S) + 1 /\ Cardinality(S) \in Nat
           /\ InOrder(S \cup {k})[Cardinality(S) + 1] = k
           /\ \A n \in 1 .. Cardinality(S) : InOrder(S \cup {k})[n] = InOrder(S)[n]
<1>1. PICK T : T = S \cup {k}  OBVIOUS
<1>2. T \in SUBSET (1 .. m + 1) /\ m + 1 \in Nat  BY <1>1
<1>3. IsFiniteSet(S) /\ Cardinality(S) \in Nat /\ k \notin S  BY FiniteNumbers
<1>4. Cardinality(T) = Cardinality(S) + 1  BY <1>1, <1>3, FS_AddElement
<1>5. InOrder(T)[Cardinality(T)] = k
  <2>1. k \in T /\ \A j \in T : j <= k  BY <1>1
  <2>2. UpTo(T, k) = T  BY <2>1 DEF UpTo
  <2> QED BY <1>2, <2>1, <2>2, Places
<1>6. ASSUME NEW n \in 1 .. Cardinality(S) PROVE InOrder(T)[n] = InOrder(S)[n]
  <2>1. PICK i \in S : i = InOrder(S)[n] /\ Cardinality(UpTo(S, i)) = n  BY Places
  <2>2. UpTo(T, i) = UpTo(S, i)  BY <1>1, <2>1 DEF UpTo
  <2>3. i \in T  BY <1>1
  <2> QED BY <1>2, <2>1, <2>2, <2>3, Places
<1> QED BY <1>1, <1>3, <1>4, <1>5, <1>6

LEMMA MaxIs ==
    ASSUME NEW S \in SUBSET Int, NEW b \in S, \A j \in S : j <= b PROVE Max(S) = b
<1>1. \E x \in S : \A y \in S : x >= y  OBVIOUS
<1>2. PICK x : x = Max(S) /\ x \in S /\ \A y \in S : x >= y  BY <1>1 DEF Max
<1>3. x >= b /\ x <= b  BY <1>2
<1> QED BY <1>2, <1>3

-----------------------------------------------------------------------------
(* Streams that grow by a token.                                           *)

Rise(t) == IF t.kind = "open" /\ t.name # Header THEN 1
           ELSE IF t.kind = "close" /\ t.name # Header THEN -1 ELSE 0

Height(s) == Level(s, Len(s))

Longer(s, t, s1) ==
    /\ Len(s) \in Nat /\ Len(s1) = Len(s) + 1
    /\ s1[Len(s) + 1] = t
    /\ \A i \in 1 .. Len(s) : s1[i] = s[i]

LEMMA AppendIsLonger ==
    ASSUME NEW T, NEW s \in Seq(T), NEW t \in T PROVE Longer(s, t, Append(s, t))
BY DEF Longer

LEMMA LevelStep ==
    ASSUME NEW s, Len(s) \in Nat, NEW i \in 1 .. Len(s)
    PROVE  Level(s, i) = Level(s, i - 1) + Rise(s[i]) /\ Level(s, i - 1) \in Int /\ Level(s, i) \in Int
<1> DEFINE O == Opened(s, i - 1)
           C == Closed(s, i - 1)
<1>1. i - 1 \in Nat /\ i - 1 < i /\ i \in Int /\ i >= 1  OBVIOUS
<1>2. O \in SUBSET (1 .. (i - 1)) /\ C \in SUBSET (1 .. (i - 1)) /\ i \notin O /\ i \notin C
  BY DEF Opened, Closed
<1>3. IsFiniteSet(O) /\ IsFiniteSet(C) /\ Cardinality(O) \in Int /\ Cardinality(C) \in Int
  <2> HIDE DEF O, C
  <2> QED BY <1>1, <1>2, FiniteNumbers
<1>4. 1 .. i = (1 .. (i - 1)) \cup {i}  BY <1>1
<1>5. Opened(s, i) = IF s[i].kind = "open" /\ s[i].name # Header THEN O \cup {i} ELSE O
  BY <1>4 DEF Opened
<1>6. Closed(s, i) = IF s[i].kind = "close" /\ s[i].name # Header THEN C \cup {i} ELSE C
  BY <1>4 DEF Closed
<1> HIDE DEF O, C
<1>7. Cardinality(O \cup {i}) = Cardinality(O) + 1 /\ Cardinality(C \cup {i}) = Cardinality(C) + 1
  BY <1>2, <1>3, FS_AddElement
<1>8. Level(s, i - 1) = Cardinality(O) - Cardinality(C)  BY DEF Level, O, C
<1>9. Level(s, i) = Cardinality(Opened(s, i)) - Cardinality(Closed(s, i))  BY DEF Level
<1>10. PICK o \in Int, c \in Int : o = Cardinality(O) /\ c = Cardinality(C)  BY <1>3
<1>11. Level(s, i - 1) = o - c  BY <1>8, <1>10
<1>12. CASE s[i].kind = "open" /\ s[i].name # Header
  <2>1. Level(s, i) = o + 1 - c /\ Rise(s[i]) = 1  BY <1>5, <1>6, <1>7, <1>9, <1>10, <1>12 DEF Rise
  <2> QED BY <1>10, <1>11, <2>1
<1>13. CASE s[i].kind = "close" /\ s[i].name # Header
  <2>1. Level(s, i) = o - (c + 1) /\ Rise(s[i]) = -1  BY <1>5, <1>6, <1>7, <1>9, <1>10, <1>13 DEF Rise
  <2> QED BY <1>10, <1>11, <2>1
<1>14. CASE s[i].kind \notin {"open", "close"} \/ s[i].name = Header
  <2>1. Level(s, i) = o - c /\ Rise(s[i]) = 0  BY <1>5, <1>6, <1>9, <1>10, <1>14 DEF Rise
  <2> QED BY <1>10, <1>11, <2>1
<1> QED BY <1>12, <1>13, <1>14

LEMMA LevelZero == ASSUME NEW s PROVE Level(s, 0) = 0
<1>1. Opened(s, 0) = {} /\ Closed(s, 0) = {}  BY DEF Opened, Closed
<1> QED BY <1>1, FS_EmptySet DEF Level

LEMMA LevelIsInt == ASSUME NEW s, Len(s) \in Nat, NEW i \in 0 .. Len(s) PROVE Level(s, i) \in Int
<1>1. CASE i = 0  BY <1>1, LevelZero
<1>2. CASE i # 0  BY <1>2, LevelStep
<1> QED BY <1>1, <1>2

\* What comes behind a token does not change its level.
LEMMA LevelSame ==
    ASSUME NEW s, NEW t, NEW s1, Longer(s, t, s1), NEW i \in 0 .. Len(s)
    PROVE  Level(s1, i) = Level(s, i)
<1>1. \A k \in 1 .. i : s1[k] = s[k]  BY DEF Longer
<1>2. Opened(s1, i) = Opened(s, i) /\ Closed(s1, i) = Closed(s, i)  BY <1>1 DEF Opened, Closed
<1> QED BY <1>2 DEF Level

LEMMA HeightStep ==
    ASSUME NEW s, NEW t, NEW s1, Longer(s, t, s1)
    PROVE  /\ Height(s1) = Height(s) + Rise(t) /\ Height(s) \in Int
           /\ Level(s1, Len(s)) = Height(s) /\ Level(s1, Len(s) + 1) = Height(s1)
<1>1. Len(s) \in Nat /\ Len(s1) = Len(s) + 1 /\ s1[Len(s) + 1] = t  BY DEF Longer
<1>2. Level(s1, Len(s1)) = Level(s1, Len(s1) - 1) + Rise(s1[Len(s1)])  BY <1>1, LevelStep
<1>3. Level(s1, Len(s)) = Level(s, Len(s)) /\ Level(s, Len(s)) \in Int  BY <1>1, LevelSame, LevelIsInt
<1> QED BY <1>1, <1>2, <1>3 DEF Height

LEMMA FirstsSame ==
    ASSUME NEW s, NEW t, NEW s1, Longer(s, t, s1), NEW i \in 0 .. Len(s)
    PROVE  Firsts(s1, i) = Firsts(s, i)
<1>1. \A k \in 1 .. i : s1[k] = s[k]  BY DEF Longer
<1>2. \A k \in 1 .. i : Level(s1, k - 1) = Level(s, k - 1)  BY LevelSame DEF Longer
<1> QED BY <1>1, <1>2 DEF Firsts, IsTag

LEMMA FirstsStep ==
    ASSUME NEW s, NEW t, NEW s1, Longer(s, t, s1)
    PROVE  Firsts(s1, Len(s) + 1) =
               Firsts(s, Len(s)) \cup IF IsTag(t) /\ Height(s) = 0 THEN {Len(s) + 1} ELSE {}
<1>1. PICK n : n = Len(s) /\ n \in Nat  BY DEF Longer
<1>2. Firsts(s1, n) = Firsts(s, n)  BY <1>1, FirstsSame
<1>3. 1 .. n + 1 = (1 .. n) \cup {n + 1}  BY <1>1
<1>4. s1[n + 1] = t /\ Level(s1, (n + 1) - 1) = Height(s)  BY <1>1, HeightStep DEF Longer
<1>5. Firsts(s1, n + 1) = Firsts(s1, n) \cup {k \in {n + 1} : IsTag(s1[k]) /\ Level(s1, k - 1) = 0}
  BY <1>3 DEF Firsts
<1> DEFINE P(k) == IsTag(s1[k]) /\ Level(s1, k - 1) = 0
<1>7. P(n + 1) <=> IsTag(t) /\ Height(s) = 0  BY <1>4
<1>6. {k \in {n + 1} : P(k)} = IF IsTag(t) /\ Height(s) = 0 THEN {n + 1} ELSE {}
  <2> HIDE DEF P
  <2> QED BY <1>7
<1> QED BY <1>1, <1>2, <1>5, <1>6

-----------------------------------------------------------------------------
(* The items of an element.                                                *)

\* A token with which an item begins, behind another.
Begins(u, t) == IsTag(t) \/ (IsText(t) /\ ~IsText(u))

LEMMA StartsSame ==
    ASSUME NEW s, NEW t, NEW s1, Longer(s, t, s1), NEW i \in 1 .. Len(s), NEW b \in 1 .. i, IsTag(s[b])
    PROVE  Starts(s1, b, i) = Starts(s, b, i)
<1>1. \A k \in b .. i : s1[k] = s[k]  BY DEF Longer
<1>2. \A k \in b .. i : k # b => s1[k - 1] = s[k - 1]  BY DEF Longer
<1>3. \A k \in b .. i : (IsTag(s1[k]) \/ (IsText(s1[k]) /\ ~IsText(s1[k - 1])))
                         <=> (IsTag(s[k]) \/ (IsText(s[k]) /\ ~IsText(s[k - 1])))
  BY <1>1, <1>2
<1> QED BY <1>3 DEF Starts

LEMMA StartsStep ==
    ASSUME NEW s, NEW t, NEW s1, Longer(s, t, s1), NEW b \in 1 .. Len(s), IsTag(s[b])
    PROVE  Starts(s1, b, Len(s) + 1) =
               Starts(s, b, Len(s)) \cup IF Begins(s[Len(s)], t) THEN {Len(s) + 1} ELSE {}
<1>1. PICK n : n = Len(s) /\ n \in Nat  BY DEF Longer
<1>2. Starts(s1, b, n) = Starts(s, b, n)  BY <1>1, StartsSame
<1>3. b .. n + 1 = (b .. n) \cup {n + 1}  BY <1>1
<1>4. s1[n + 1] = t /\ s1[(n + 1) - 1] = s[n]  BY <1>1 DEF Longer
<1> DEFINE P(k) == IsTag(s1[k]) \/ (IsText(s1[k]) /\ ~IsText(s1[k - 1]))
<1>5. Starts(s1, b, n + 1) = Starts(s1, b, n) \cup {k \in {n + 1} : P(k)}
  BY <1>3 DEF Starts
<1>7. P(n + 1) <=> Begins(s[n], t)  BY <1>4 DEF Begins
<1>6. {k \in {n + 1} : P(k)} = IF Begins(s[n], t) THEN {n + 1} ELSE {}
  <2> HIDE DEF P
  <2> QED BY <1>7
<1> QED BY <1>1, <1>2, <1>5, <1>6

LEMMA StartsAre ==
    ASSUME NEW s, NEW i \in Nat, NEW b \in 1 .. i, IsTag(s[b])
    PROVE  /\ Starts(s, b, i) \in SUBSET (1 .. i) /\ b \in Starts(s, b, i)
           /\ \A k \in Starts(s, b, i) : b <= k
           /\ IsFiniteSet(Starts(s, b, i)) /\ Cardinality(Starts(s, b, i)) \in Nat \ {0}
<1>1. Starts(s, b, i) \in SUBSET (1 .. i) /\ b \in Starts(s, b, i) /\ \A k \in Starts(s, b, i) : b <= k
  BY DEF Starts
<1>2. IsFiniteSet(Starts(s, b, i)) /\ Cardinality(Starts(s, b, i)) \in Nat  BY <1>1, FiniteNumbers
<1>3. Cardinality(Starts(s, b, i)) # 0  BY <1>1, <1>2, FS_EmptySet
<1> QED BY <1>1, <1>2, <1>3

\* A text is over at the first token that is none.
Over(s, i) == \E k \in i .. Len(s) : ~IsText(s[k])

LEMMA TextSame ==
    ASSUME NEW s, NEW t, NEW s1, Longer(s, t, s1), NEW i \in 1 .. Len(s), ~IsText(t) \/ Over(s, i)
    PROVE  TextFrom(s1, i) = TextFrom(s, i)
<1>1. PICK n : n = Len(s) /\ n \in Nat  BY DEF Longer
<1>2. Len(s1) = n + 1 /\ s1[n + 1] = t /\ \A k \in 1 .. n : s1[k] = s[k]  BY <1>1 DEF Longer
<1>3. Run(s, i) \in SUBSET (i .. n)  BY <1>1 DEF Run
<1>4. Run(s1, i) = Run(s, i)
  <2>1. \A k \in i .. n : (\A j \in i .. k : IsText(s1[j])) <=> (\A j \in i .. k : IsText(s[j]))
    BY <1>1, <1>2
  <2>2. ~\A j \in i .. n + 1 : IsText(s1[j])
    <3>1. CASE ~IsText(t)  BY <1>1, <1>2, <3>1
    <3>2. CASE Over(s, i)  BY <1>1, <1>2, <3>2 DEF Over
    <3> QED BY <3>1, <3>2
  <2>3. i .. n + 1 = (i .. n) \cup {n + 1}  BY <1>1
  <2> QED BY <1>1, <1>2, <2>1, <2>2, <2>3 DEF Run
<1>5. Cardinality(Run(s, i)) \in Nat /\ Cardinality(Run(s, i)) <= n - i + 1
  <2>1. IsFiniteSet(i .. n) /\ Cardinality(i .. n) = n - i + 1  BY <1>1, FS_Interval
  <2> QED BY <1>3, <2>1, FS_Subset, FS_CardinalityType
<1>6. PICK c \in Nat : c = Cardinality(Run(s, i)) /\ c <= n - i + 1  BY <1>5
<1>7. \A k \in 1 .. c : s1[i + k - 1] = s[i + k - 1]  BY <1>1, <1>2, <1>6
<1> QED BY <1>4, <1>6, <1>7 DEF TextFrom

\* The text that is growing.
LEMMA TextStep ==
    ASSUME NEW s, NEW t, NEW s1, Longer(s, t, s1), NEW i \in 1 .. Len(s) + 1, IsText(t),
           \A k \in i .. Len(s) : IsText(s[k])
    PROVE  /\ Len(s) - i + 1 \in Nat
           /\ i <= Len(s) => TextFrom(s, i) = [k \in 1 .. Len(s) - i + 1 |-> s[i + k - 1].name]
           /\ TextFrom(s1, i) = [k \in 1 .. Len(s) - i + 2 |->
                                    IF k = Len(s) - i + 2 THEN t.name ELSE s[i + k - 1].name]
<1>1. PICK n : n = Len(s) /\ n \in Nat  BY DEF Longer
<1>2. Len(s1) = n + 1 /\ s1[n + 1] = t /\ \A k \in 1 .. n : s1[k] = s[k]  BY <1>1 DEF Longer
<1>3. Run(s, i) = i .. n  BY <1>1 DEF Run
<1>4. Run(s1, i) = i .. n + 1
  <2>1. \A k \in i .. n + 1 : IsText(s1[k])  BY <1>1, <1>2
  <2> QED BY <1>1, <1>2, <2>1 DEF Run
<1>5. Cardinality(i .. n + 1) = n - i + 2  BY <1>1, FS_Interval
<1>6. i <= n => Cardinality(i .. n) = n - i + 1  BY <1>1, FS_Interval
<1>7. TextFrom(s1, i) = [k \in 1 .. n - i + 2 |-> s1[i + k - 1].name]
  BY <1>4, <1>5 DEF TextFrom
<1>8. \A k \in 1 .. n - i + 2 :
        s1[i + k - 1].name = IF k = n - i + 2 THEN t.name ELSE s[i + k - 1].name
  <2>1. TAKE k \in 1 .. n - i + 2
  <2>2. CASE k = n - i + 2
    <3>1. i + k - 1 = n + 1  BY <1>1, <2>2
    <3> QED BY <1>2, <2>2, <3>1
  <2>3. CASE k # n - i + 2
    <3>1. i + k - 1 \in 1 .. n  BY <1>1, <2>3
    <3> QED BY <1>2, <2>3, <3>1
  <2> QED BY <2>2, <2>3
<1>9. TextFrom(s1, i) = [k \in 1 .. n - i + 2 |-> IF k = n - i + 2 THEN t.name ELSE s[i + k - 1].name]
  BY <1>7, <1>8
<1>10. i <= n => TextFrom(s, i) = [k \in 1 .. n - i + 1 |-> s[i + k - 1].name]
  BY <1>3, <1>6 DEF TextFrom
<1> QED BY <1>1, <1>9, <1>10

-----------------------------------------------------------------------------
(* Trees.                                                                  *)

Nodes == [depth : Int, name : TokenNames, text : Seq(TokenNames)]
Typed(s) == Len(s) \in Nat /\ \A i \in 1 .. Len(s) : s[i].name \in TokenNames

LEMMA ListIs ==
    ASSUME NEW S, NEW n \in Nat, NEW f \in [1 .. n -> S] PROVE f \in Seq(S) /\ Len(f) = n
OBVIOUS

LEMMA AppendIs ==
    ASSUME NEW S, NEW f \in Seq(S), NEW e \in S, NEW g \in Seq(S), Len(g) = Len(f) + 1,
           \A i \in 1 .. Len(f) : g[i] = f[i], g[Len(f) + 1] = e
    PROVE  g = Append(f, e)
OBVIOUS

LEMMA TextType ==
    ASSUME NEW s, Typed(s), NEW i \in 1 .. Len(s) PROVE TextFrom(s, i) \in Seq(TokenNames)
<1>1. PICK n \in Nat : n = Len(s)  BY DEF Typed
<1>2. Run(s, i) \in SUBSET (i .. n)  BY <1>1 DEF Run
<1>3. IsFiniteSet(i .. n) /\ Cardinality(i .. n) = n - i + 1  BY <1>1, FS_Interval
<1>4. PICK c \in Nat : c = Cardinality(Run(s, i)) /\ c <= n - i + 1
  BY <1>2, <1>3, FS_Subset, FS_CardinalityType
<1>5. \A k \in 1 .. c : s[i + k - 1].name \in TokenNames
  <2>1. \A k \in 1 .. c : i + k - 1 \in 1 .. n  BY <1>1, <1>4
  <2> QED BY <1>1, <2>1 DEF Typed
<1>6. TextFrom(s, i) = [k \in 1 .. c |-> s[i + k - 1].name]  BY <1>4 DEF TextFrom
<1>7. PICK S : S = TokenNames  OBVIOUS
<1>8. TextFrom(s, i) \in [1 .. c -> S]  BY <1>5, <1>6, <1>7
<1>9. TextFrom(s, i) \in Seq(S)  BY ONLY <1>8, <1>4, ListIs
<1> QED BY <1>7, <1>9

LEMMA ItemType ==
    ASSUME NEW s, Typed(s), NEW i \in 1 .. Len(s) PROVE Item(s, i) \in Nodes
<1>1. i - 1 \in 0 .. Len(s) /\ Len(s) \in Nat  BY DEF Typed
<1>2. Level(s, i - 1) \in Int /\ s[i].name \in TokenNames /\ TextFrom(s, i) \in Seq(TokenNames)
  BY <1>1, LevelIsInt, TextType DEF Typed
<1>3. Element(Level(s, i - 1), s[i].name) \in Nodes
  <2>1. <<>> \in Seq(TokenNames)  OBVIOUS
  <2> QED BY <1>2, <2>1 DEF Element, Nodes
<1>4. Text(Level(s, i - 1), TextFrom(s, i)) \in Nodes
  <2>1. "" \in TokenNames  BY DEF TokenNames
  <2> QED BY <1>2, <2>1 DEF Text, Nodes
<1> QED BY <1>3, <1>4 DEF Item

LEMMA TreeParts ==
    ASSUME NEW s, Typed(s), NEW i \in 1 .. Len(s), NEW b \in 1 .. i, IsTag(s[b])
    PROVE  /\ Tree(s, b, i) \in Seq(Nodes)
           /\ Len(Tree(s, b, i)) = Cardinality(Starts(s, b, i))
           /\ Cardinality(Starts(s, b, i)) \in Nat \ {0}
           /\ \A n \in 1 .. Cardinality(Starts(s, b, i)) :
                  /\ InOrder(Starts(s, b, i))[n] \in Starts(s, b, i)
                  /\ InOrder(Starts(s, b, i))[n] \in b .. i
                  /\ Tree(s, b, i)[n] = Item(s, InOrder(Starts(s, b, i))[n])
<1>1. PICK S : S = Starts(s, b, i)  OBVIOUS
<1>2. S \in SUBSET (1 .. i) /\ i \in Nat /\ S \in SUBSET (b .. i)
  BY <1>1, StartsAre DEF Typed, Starts
<1>3. PICK c \in Nat \ {0} : c = Cardinality(S)  BY <1>1, <1>2, StartsAre
<1>4. \A n \in 1 .. c : InOrder(S)[n] \in S  BY <1>2, <1>3, Places
<1>5. Tree(s, b, i) = [n \in 1 .. c |-> Item(s, InOrder(S)[n])]  BY <1>1, <1>3 DEF Tree
<1>6. \A n \in 1 .. c : Item(s, InOrder(S)[n]) \in Nodes
  <2>1. \A k \in S : k \in 1 .. Len(s)  BY <1>2 DEF Typed
  <2>2. \A n \in 1 .. c : InOrder(S)[n] \in 1 .. Len(s)  BY <1>4, <2>1
  <2> QED BY <2>2, ItemType
<1>7. PICK N : N = Nodes  OBVIOUS
<1>8. PICK f : f = Tree(s, b, i)  OBVIOUS
<1>9. f \in [1 .. c -> N]  BY <1>5, <1>6, <1>7, <1>8
<1>10. f \in Seq(N) /\ Len(f) = c  BY ONLY <1>3, <1>9, ListIs
<1>11. \A n \in 1 .. c : f[n] = Item(s, InOrder(S)[n])  BY <1>5, <1>8
<1> QED BY <1>1, <1>2, <1>3, <1>4, <1>7, <1>8, <1>10, <1>11

LEMMA ItemSame ==
    ASSUME NEW s, NEW t, NEW s1, Longer(s, t, s1), NEW i \in 1 .. Len(s),
           IsTag(s[i]) \/ ~IsText(t) \/ Over(s, i)
    PROVE  Item(s1, i) = Item(s, i)
<1>1. i - 1 \in 0 .. Len(s)  BY DEF Longer
<1>2. s1[i] = s[i] /\ Level(s1, i - 1) = Level(s, i - 1)  BY <1>1, LevelSame DEF Longer
<1>3. CASE IsTag(s[i])  BY <1>2, <1>3 DEF Item
<1>4. CASE ~IsText(t) \/ Over(s, i)
  <2>1. TextFrom(s1, i) = TextFrom(s, i)  BY <1>4, TextSame
  <2> QED BY <1>2, <2>1 DEF Item
<1> QED BY <1>3, <1>4

\* An element that is over, or that is not in a text, stays what it is.
LEMMA TreeSame ==
    ASSUME NEW s, NEW t, NEW s1, Longer(s, t, s1), Typed(s),
           NEW i \in 1 .. Len(s), NEW b \in 1 .. i, IsTag(s[b]), ~IsText(t) \/ ~IsText(s[i])
    PROVE  Tree(s1, b, i) = Tree(s, b, i)
<1>1. PICK S : S = Starts(s, b, i)  OBVIOUS
<1>2. Starts(s1, b, i) = S  BY <1>1, StartsSame
<1>3. \A n \in 1 .. Cardinality(S) : InOrder(S)[n] \in b .. i  BY <1>1, TreeParts
<1>4. \A k \in b .. i : Item(s1, k) = Item(s, k)
  <2>1. \A k \in b .. i : k \in 1 .. Len(s) /\ (~IsText(t) \/ Over(s, k))  BY DEF Typed, Over
  <2> QED BY <2>1, ItemSame
<1>5. \A n \in 1 .. Cardinality(S) : Item(s1, InOrder(S)[n]) = Item(s, InOrder(S)[n])
  BY <1>3, <1>4
<1> QED BY <1>1, <1>2, <1>5 DEF Tree

LEMMA LongerTyped ==
    ASSUME NEW s, NEW t, NEW s1, Longer(s, t, s1), Typed(s), t.name \in TokenNames PROVE Typed(s1)
BY DEF Longer, Typed

\* A token that begins no item leaves the items as they are.
LEMMA TreeKeeps ==
    ASSUME NEW s, NEW t, NEW s1, Longer(s, t, s1), Typed(s),
           NEW b \in 1 .. Len(s), IsTag(s[b]), ~IsTag(t), ~IsText(t)
    PROVE  Tree(s1, b, Len(s) + 1) = Tree(s, b, Len(s))
<1>1. PICK S : S = Starts(s, b, Len(s))  OBVIOUS
<1>2. Starts(s1, b, Len(s) + 1) = S
  <2>1. ~Begins(s[Len(s)], t)  BY DEF Begins
  <2>2. Starts(s1, b, Len(s) + 1) = S \cup {}  BY <1>1, <2>1, StartsStep
  <2> QED BY <2>2
<1>3. Len(s) \in 1 .. Len(s) /\ Len(s) \in Nat  BY DEF Longer
<1>4. Starts(s1, b, Len(s)) = S  BY <1>1, <1>3, StartsSame
<1>5. Tree(s1, b, Len(s) + 1) = Tree(s1, b, Len(s))  BY <1>2, <1>4 DEF Tree
<1> QED BY <1>3, <1>5, TreeSame

\* One that begins an item appends it.
LEMMA TreeAppends ==
    ASSUME NEW s, NEW t, NEW s1, Longer(s, t, s1), Typed(s), t.name \in TokenNames,
           NEW b \in 1 .. Len(s), IsTag(s[b]), Begins(s[Len(s)], t), ~(IsTag(t) /\ IsText(t))
    PROVE  Tree(s1, b, Len(s) + 1) = Append(Tree(s, b, Len(s)), Item(s1, Len(s) + 1))
           /\ Item(s1, Len(s) + 1) \in Nodes
<1>1. PICK n : n = Len(s) /\ n \in Nat /\ Len(s1) = n + 1 /\ n \in 1 .. n  BY DEF Longer
<1>2. PICK S : S = Starts(s, b, n)  OBVIOUS
<1>3. PICK T : T = Starts(s1, b, n + 1)  OBVIOUS
<1>4. T = S \cup {n + 1}  BY <1>1, <1>2, <1>3, StartsStep
<1>5. s1[b] = s[b] /\ b \in 1 .. n + 1 /\ Typed(s1)  BY <1>1, LongerTyped DEF Longer
<1>6. S \in SUBSET (1 .. n)  BY <1>1, <1>2, StartsAre
<1>7. PICK c : c = Cardinality(S) /\ c \in Nat  BY <1>6, <1>1, FiniteNumbers
<1>8. /\ Cardinality(T) = c + 1 /\ InOrder(T)[c + 1] = n + 1
      /\ \A k \in 1 .. c : InOrder(T)[k] = InOrder(S)[k]
  <2>1. \A j \in S : j < n + 1  BY <1>1, <1>6
  <2>2. n + 1 \in 1 .. n + 1 /\ n \in Nat  BY <1>1
  <2>3. PICK k : k = n + 1 /\ k \in 1 .. n + 1 /\ \A j \in S : j < k  BY <2>1, <2>2
  <2>4. T = S \cup {k}  BY <1>4, <2>3
  <2>5. /\ Cardinality(S \cup {k}) = Cardinality(S) + 1
        /\ InOrder(S \cup {k})[Cardinality(S) + 1] = k
        /\ \A j \in 1 .. Cardinality(S) : InOrder(S \cup {k})[j] = InOrder(S)[j]
    BY ONLY <1>6, <2>2, <2>3, GreatestIsLast
  <2> QED BY <1>7, <2>3, <2>4, <2>5
<1>9. PICK f : f = Tree(s, b, n)  OBVIOUS
<1>10. PICK g : g = Tree(s1, b, n + 1)  OBVIOUS
<1>11. PICK e : e = Item(s1, n + 1)  OBVIOUS
<1>12. PICK N : N = Nodes  OBVIOUS
<1>13. /\ f \in Seq(N) /\ Len(f) = c
       /\ \A k \in 1 .. c : InOrder(S)[k] \in b .. n /\ f[k] = Item(s, InOrder(S)[k])
  BY <1>1, <1>2, <1>7, <1>9, <1>12, TreeParts
<1>14. /\ g \in Seq(N) /\ Len(g) = c + 1
       /\ \A k \in 1 .. c + 1 : g[k] = Item(s1, InOrder(T)[k])
  <2>1. n + 1 \in 1 .. Len(s1)  BY <1>1
  <2> QED BY <2>1, <1>3, <1>5, <1>8, <1>10, <1>12, TreeParts
<1>15. e \in N  BY <1>1, <1>5, <1>11, <1>12, ItemType
<1>16. \A k \in b .. n : Item(s1, k) = Item(s, k)
  <2>1. ~IsText(t) \/ ~IsText(s[n])  BY <1>1 DEF Begins
  <2>2. \A k \in b .. n : k \in 1 .. n /\ (~IsText(t) \/ Over(s, k))
    BY <1>1, <2>1 DEF Over
  <2> QED BY <1>1, <2>2, ItemSame
<1>17. \A k \in 1 .. c : g[k] = f[k]
  <2>1. TAKE k \in 1 .. c
  <2>2. k \in 1 .. c + 1  BY <1>7
  <2> QED BY <1>8, <1>13, <1>14, <1>16, <2>2
<1>18. g[c + 1] = e
  <2>1. c + 1 \in 1 .. c + 1  BY <1>7
  <2> QED BY <1>8, <1>11, <1>14, <2>1
<1>19. g = Append(f, e)  BY <1>13, <1>14, <1>15, <1>17, <1>18, AppendIs
<1> QED BY <1>1, <1>9, <1>10, <1>11, <1>12, <1>15, <1>19

\* The tree of a tag alone.
LEMMA TreeBegins ==
    ASSUME NEW s, NEW t, NEW s1, Longer(s, t, s1), IsTag(t)
    PROVE  Tree(s1, Len(s) + 1, Len(s) + 1) = <<Element(Height(s), t.name)>>
<1>1. PICK n : n = Len(s) /\ n \in Nat /\ Len(s1) = n + 1 /\ s1[n + 1] = t  BY DEF Longer
<1>2. PICK S : S = Starts(s1, n + 1, n + 1)  OBVIOUS
<1>3. S = {n + 1}
  <2>1. (n + 1) .. (n + 1) = {n + 1}  BY <1>1
  <2>2. IsTag(s1[n + 1])  BY <1>1
  <2> QED BY <1>2, <2>1, <2>2 DEF Starts
<1>4. Cardinality(S) = 1  BY <1>3, FS_Singleton
<1>5. S \in SUBSET (1 .. n + 1)  BY <1>1, <1>3
<1>6. InOrder(S)[1] = n + 1
  <2>1. 1 \in 1 .. Cardinality(S) /\ n + 1 \in Nat  BY <1>1, <1>4
  <2>2. InOrder(S)[1] \in S  BY <1>5, <2>1, Places
  <2> QED BY <1>3, <2>2
<1>7. (n + 1) - 1 = n /\ Level(s1, n) = Height(s)  BY <1>1, HeightStep
<1>8. Item(s1, n + 1) = Element(Height(s), t.name)  BY <1>1, <1>7 DEF Item
<1>9. Tree(s1, n + 1, n + 1) = [k \in 1 .. 1 |-> Item(s1, InOrder(S)[k])]
  BY <1>2, <1>4 DEF Tree
<1>10. 1 .. 1 = {1}  OBVIOUS
<1> QED BY <1>1, <1>6, <1>8, <1>9, <1>10

-----------------------------------------------------------------------------
(* The item under construction.                                            *)

\* The last item of what begins at b begins at e.
Tip(s, b, e) ==
    /\ e \in Starts(s, b, Len(s)) /\ \A j \in Starts(s, b, Len(s)) : j <= e
    /\ IF IsText(s[Len(s)])
       THEN (\A j \in e .. Len(s) : IsText(s[j])) /\ Level(s, e - 1) = Height(s)
       ELSE \/ IsTag(s[e]) /\ s[e].name # ""
            \/ IsText(s[e]) /\ Height(s) < Level(s, e - 1)

LEMMA TipIsLast ==
    ASSUME NEW m \in Nat, NEW S \in SUBSET (1 .. m), NEW e \in S, \A j \in S : j <= e
    PROVE  /\ InOrder(S)[Cardinality(S)] = e
           /\ \A k \in 1 .. Cardinality(S) - 1 : InOrder(S)[k] \in S /\ InOrder(S)[k] < e
<1>1. UpTo(S, e) = S  BY DEF UpTo
<1>2. PICK c : c = Cardinality(S) /\ c \in Nat  BY FiniteNumbers
<1>3. InOrder(S)[c] = e  BY <1>1, <1>2, Places
<1>4. ASSUME NEW k \in 1 .. c - 1 PROVE InOrder(S)[k] \in S /\ InOrder(S)[k] < e
  <2>1. k \in 1 .. c /\ k # c  BY <1>2
  <2>2. PICK j \in S : j = InOrder(S)[k] /\ Cardinality(UpTo(S, j)) = k  BY <1>2, <2>1, Places
  <2>3. j # e  BY <1>1, <1>2, <2>1, <2>2
  <2>4. j <= e /\ j \in Int /\ e \in Int  OBVIOUS
  <2> QED BY <2>2, <2>3, <2>4
<1> QED BY <1>2, <1>3, <1>4

LEMMA OtherText ==
    ASSUME NEW l, NEW m, NEW p, NEW q
    PROVE  [[depth |-> l, name |-> m, text |-> p] EXCEPT !.text = q] = [depth |-> l, name |-> m, text |-> q]
<1>1. PICK v : v = [depth |-> l, name |-> m, text |-> p]  OBVIOUS
<1>2. v \in [depth : {l}, name : {m}, text : {p}]  BY <1>1
<1>3. [v EXCEPT !.text = q] = [depth |-> l, name |-> m, text |-> q]  BY ONLY <1>2
<1> QED BY <1>1, <1>3

\* A further piece of a text is appended to it.
LEMMA TreeGrowsText ==
    ASSUME NEW s, NEW t, NEW s1, Longer(s, t, s1), Typed(s), t.name \in TokenNames,
           NEW b \in 1 .. Len(s), IsTag(s[b]), NEW e, Tip(s, b, e), IsText(t), IsText(s[Len(s)])
    PROVE  LET f == Tree(s, b, Len(s))
           IN  /\ Tree(s1, b, Len(s) + 1) = [f EXCEPT ![Len(f)].text = Append(@, t.name)]
               /\ f[Len(f)] = Item(s, e) /\ Tree(s1, b, Len(s) + 1) \in Seq(Nodes)
<1>1. PICK n : n = Len(s) /\ n \in Nat /\ Len(s1) = n + 1 /\ n \in 1 .. n  BY DEF Longer
<1>2. PICK S : S = Starts(s, b, n)  OBVIOUS
<1>3. Starts(s1, b, n + 1) = S
  <2>1. ~Begins(s[n], t)  BY <1>1 DEF Begins, IsTag, IsText
  <2>2. Starts(s1, b, n + 1) = S \cup {}  BY <1>1, <1>2, <2>1, StartsStep
  <2> QED BY <2>2
<1>4. s1[b] = s[b] /\ b \in 1 .. n + 1 /\ Typed(s1) /\ n + 1 \in 1 .. Len(s1)
  BY <1>1, LongerTyped DEF Longer
<1>5. S \in SUBSET (1 .. n) /\ e \in S /\ \A j \in S : j <= e  BY <1>1, <1>2, StartsAre DEF Tip
<1>6. PICK c : c = Cardinality(S) /\ c \in Nat \ {0}  BY <1>1, <1>2, StartsAre
<1>7. InOrder(S)[c] = e /\ \A k \in 1 .. c - 1 : InOrder(S)[k] \in S /\ InOrder(S)[k] < e
  BY <1>1, <1>5, <1>6, TipIsLast
<1>8. PICK f : f = Tree(s, b, n)  OBVIOUS
<1>9. PICK g : g = Tree(s1, b, n + 1)  OBVIOUS
<1>10. PICK N : N = Nodes  OBVIOUS
<1>11. f \in Seq(N) /\ Len(f) = c /\ \A k \in 1 .. c : f[k] = Item(s, InOrder(S)[k])
  BY <1>1, <1>2, <1>6, <1>8, <1>10, TreeParts
<1>12. g \in Seq(N) /\ Len(g) = c /\ \A k \in 1 .. c : g[k] = Item(s1, InOrder(S)[k])
  BY <1>3, <1>4, <1>6, <1>9, <1>10, TreeParts
<1>13. (\A j \in e .. n : IsText(s[j])) /\ e \in 1 .. n  BY <1>1, <1>5 DEF Tip
<1>14. ASSUME NEW k \in 1 .. c - 1 PROVE g[k] = f[k]
  <2>1. PICK j : j = InOrder(S)[k] /\ j \in S /\ j < e  BY <1>7
  <2>2. ~IsText(s[e - 1])
    <3>1. IsText(s[e])  BY <1>13
    <3>2. ~IsTag(s[e])  BY <3>1 DEF IsTag, IsText
    <3> QED BY <1>2, <1>5, <3>2 DEF Starts
  <2>3. e - 1 \in j .. n /\ j \in 1 .. n
    <3>1. j \in 1 .. n  BY <1>5, <2>1
    <3> QED BY <1>1, <1>13, <2>1, <3>1
  <2>4. Over(s, j)  BY <1>1, <2>2, <2>3 DEF Over
  <2>5. Item(s1, j) = Item(s, j)  BY <1>1, <2>3, <2>4, ItemSame
  <2>6. k \in 1 .. c  BY <1>6
  <2> QED BY <1>11, <1>12, <2>1, <2>5, <2>6
<1>15. PICK l : l = Level(s, e - 1)  OBVIOUS
<1>16. PICK p : p = TextFrom(s, e)  OBVIOUS
<1>17. f[c] = Text(l, p) /\ f[c] = Item(s, e)
  <2>1. c \in 1 .. c  BY <1>6
  <2>2. f[c] = Item(s, e)  BY <1>7, <1>11, <2>1
  <2>3. ~IsTag(s[e])  BY <1>13 DEF IsTag, IsText
  <2> QED BY <1>15, <1>16, <2>2, <2>3 DEF Item
<1>18. TextFrom(s1, e) = Append(p, t.name)
  <2>1. PICK m : m = n - e + 1 /\ m \in Nat  BY <1>1, <1>13
  <2>2. p = [k \in 1 .. m |-> s[e + k - 1].name]  BY <1>1, <1>13, <1>16, <2>1, TextStep
  <2>3. TextFrom(s1, e) = [k \in 1 .. m + 1 |-> IF k = m + 1 THEN t.name ELSE s[e + k - 1].name]
    <3>1. n - e + 2 = m + 1  BY <1>1, <1>13, <2>1
    <3>2. e \in 1 .. Len(s) + 1 /\ \A k \in e .. Len(s) : IsText(s[k])  BY <1>1, <1>13
    <3>3. TextFrom(s1, e) = [k \in 1 .. n - e + 2 |->
                               IF k = n - e + 2 THEN t.name ELSE s[e + k - 1].name]
      BY <1>1, <3>2, TextStep
    <3> QED BY <3>1, <3>3
  <2>4. PICK A : A = TokenNames  OBVIOUS
  <2>5. p \in Seq(A)  BY <1>1, <1>13, <1>16, <2>4, TextType
  <2>6. e \in 1 .. Len(s1)  BY <1>1, <1>13
  <2>7. PICK q : q = TextFrom(s1, e) /\ q \in Seq(A)  BY <1>4, <2>4, <2>6, TextType
  <2>8. Len(p) = m /\ Len(q) = m + 1  BY <2>1, <2>2, <2>3, <2>5, <2>7
  <2>9. t.name \in A  BY <2>4
  <2>10. \A k \in 1 .. m : q[k] = p[k]  BY <2>1, <2>2, <2>3, <2>7
  <2>11. q[m + 1] = t.name  BY <2>1, <2>3, <2>7
  <2> QED BY <2>5, <2>7, <2>8, <2>9, <2>10, <2>11, AppendIs
<1>19. g[c] = Text(l, Append(p, t.name))
  <2>1. c \in 1 .. c  BY <1>6
  <2>2. g[c] = Item(s1, e)  BY <1>7, <1>12, <2>1
  <2>3. s1[e] = s[e] /\ e - 1 \in 0 .. n  BY <1>1, <1>13 DEF Longer
  <2>4. ~IsTag(s1[e])  BY <1>13, <2>3 DEF IsTag, IsText
  <2>5. Level(s1, e - 1) = l  BY <1>1, <1>15, <2>3, LevelSame
  <2> QED BY <1>18, <2>2, <2>4, <2>5 DEF Item
<1>20. g = [f EXCEPT ![c].text = Append(@, t.name)]
  <2>1. PICK u : u = Text(l, Append(p, t.name))  OBVIOUS
  <2>6. PICK v : v = f[c]  OBVIOUS
  <2>7. v = [depth |-> l, name |-> "", text |-> p]  BY <1>17, <2>6 DEF Text
  <2>8. u = [depth |-> l, name |-> "", text |-> Append(p, t.name)]  BY <2>1 DEF Text
  <2>10. PICK q : q = Append(p, t.name)  OBVIOUS
  <2>11. v.text = p  BY <2>7
  <2>12. [v EXCEPT !.text = q] = u  BY <2>7, <2>8, <2>10, OtherText
  <2>9. [v EXCEPT !.text = Append(v.text, t.name)] = u  BY <2>10, <2>11, <2>12
  <2>2. [f[c] EXCEPT !.text = Append(f[c].text, t.name)] = u  BY <2>6, <2>9
  <2>3. [f EXCEPT ![c].text = Append(@, t.name)] = [f EXCEPT ![c] = u]  BY <2>2
  <2>4. \A k \in 1 .. c : g[k] = [f EXCEPT ![c] = u][k]
    <3>1. TAKE k \in 1 .. c
    <3>2. CASE k = c  BY <1>11, <1>19, <2>1, <3>2
    <3>3. CASE k # c
      <4>1. k \in 1 .. c - 1  BY <1>6, <3>3
      <4> QED BY <1>11, <1>14, <3>3, <4>1
    <3> QED BY <3>2, <3>3
  <2>5. g = [f EXCEPT ![c] = u]  BY <1>11, <1>12, <2>4
  <2> QED BY <2>3, <2>5
<1> QED BY <1>1, <1>8, <1>9, <1>10, <1>11, <1>12, <1>17, <1>20

-----------------------------------------------------------------------------
(* Events.                                                                 *)

\* The element that is open, or complete, at token i begins at b.
First(s, b, i) == b \in Firsts(s, i) /\ \A j \in Firsts(s, i) : j <= b
Started(s) == \A i \in 1 .. Len(s) : IsStanza(s, i) => \E b : First(s, b, i)

LEMMA BeginIs ==
    ASSUME NEW s, NEW i \in Nat, NEW b, First(s, b, i)
    PROVE  Begin(s, i) = b /\ b \in 1 .. i /\ IsTag(s[b])
<1>1. b \in 1 .. i /\ IsTag(s[b])  BY DEF First, Firsts
<1>2. Firsts(s, i) \in SUBSET Int  BY DEF Firsts
<1>3. Begin(s, i) = b  BY <1>2, MaxIs DEF First, Begin
<1> QED BY <1>1, <1>3

LEMMA StanzaSame ==
    ASSUME NEW s, NEW t, NEW s1, Longer(s, t, s1), NEW i \in 1 .. Len(s)
    PROVE  /\ s1[i] = s[i] /\ (IsStanza(s1, i) <=> IsStanza(s, i))
           /\ (IsHeader(s1, i) <=> IsHeader(s, i)) /\ (IsEnd(s1, i) <=> IsEnd(s, i))
           /\ Begin(s1, i) = Begin(s, i) /\ Firsts(s1, i) = Firsts(s, i)
<1>1. i \in 0 .. Len(s) /\ i - 1 \in 0 .. Len(s)  BY DEF Longer
<1>2. s1[i] = s[i]  BY DEF Longer
<1>3. Level(s1, i - 1) = Level(s, i - 1) /\ Level(s1, i) = Level(s, i)  BY <1>1, LevelSame
<1>4. Firsts(s1, i) = Firsts(s, i)  BY <1>1, FirstsSame
<1>5. IsStanza(s1, i) <=> IsStanza(s, i)  BY <1>2, <1>3 DEF IsStanza
<1>6. (IsHeader(s1, i) <=> IsHeader(s, i)) /\ (IsEnd(s1, i) <=> IsEnd(s, i))
  BY <1>2 DEF IsHeader, IsEnd, IsTag
<1>7. Begin(s1, i) = Begin(s, i)  BY <1>4 DEF Begin
<1> QED BY <1>2, <1>4, <1>5, <1>6, <1>7

\* What was told stays true.
LEMMA ToldSame ==
    ASSUME NEW s, NEW t, NEW s1, Longer(s, t, s1), Typed(s), Started(s), NEW i \in 1 .. Len(s)
    PROVE  /\ Reported(s1, i) <=> Reported(s, i)
           /\ Reported(s, i) => EventAt(s1, i) = EventAt(s, i)
<1>1. /\ s1[i] = s[i] /\ (IsStanza(s1, i) <=> IsStanza(s, i))
      /\ (IsHeader(s1, i) <=> IsHeader(s, i)) /\ (IsEnd(s1, i) <=> IsEnd(s, i))
      /\ Begin(s1, i) = Begin(s, i)
  BY StanzaSame
<1>2. CASE ~IsStanza(s, i)  BY <1>1, <1>2 DEF Reported, EventAt
<1>3. CASE IsStanza(s, i)
  <2>1. PICK b : First(s, b, i)  BY <1>3 DEF Started
  <2>2. i \in Nat  BY DEF Typed
  <2>3. Begin(s, i) = b /\ b \in 1 .. i /\ IsTag(s[b])  BY <2>1, <2>2, BeginIs
  <2>4. s1[b] = s[b]
    <3>1. b \in 1 .. Len(s)  BY <2>3 DEF Typed
    <3> QED BY <3>1 DEF Longer
  <2>5. ~IsText(s[i])  BY <1>3 DEF IsStanza, IsText
  <2>6. Tree(s1, b, i) = Tree(s, b, i)  BY <2>3, <2>5, TreeSame
  <2> QED BY <1>1, <2>3, <2>4, <2>6 DEF Reported, EventAt
<1> QED BY <1>2, <1>3

Told(s) == {i \in 1 .. Len(s) : Reported(s, i)}

LEMMA EventsAre ==
    ASSUME NEW s, Len(s) \in Nat
    PROVE  /\ Told(s) \in SUBSET (1 .. Len(s)) /\ Cardinality(Told(s)) \in Nat
           /\ \A n \in 1 .. Cardinality(Told(s)) : InOrder(Told(s))[n] \in Told(s)
           /\ Events(s) = [n \in 1 .. Cardinality(Told(s)) |-> EventAt(s, InOrder(Told(s))[n])]
<1>1. Told(s) \in SUBSET (1 .. Len(s))  BY DEF Told
<1>2. Cardinality(Told(s)) \in Nat  BY <1>1, FiniteNumbers
<1> QED BY <1>1, <1>2, Places DEF Events, Told

\* A token that completes nothing tells nothing, another one event more.
LEMMA EventsGrow ==
    ASSUME NEW s, NEW t, NEW s1, Longer(s, t, s1), Typed(s), Started(s)
    PROVE  /\ ~Reported(s1, Len(s) + 1) => Events(s1) = Events(s)
           /\ Reported(s1, Len(s) + 1) => Events(s1) = Append(Events(s), EventAt(s1, Len(s) + 1))
<1>1. PICK n \in Nat : n = Len(s) /\ Len(s1) = n + 1  BY DEF Longer
<1>2. PICK S : S = Told(s)  OBVIOUS
<1>3. PICK c : c = Cardinality(S)  OBVIOUS
<1>4. /\ S \in SUBSET (1 .. n) /\ c \in Nat
      /\ \A k \in 1 .. c : InOrder(S)[k] \in S
      /\ Events(s) = [k \in 1 .. c |-> EventAt(s, InOrder(S)[k])]
  BY <1>1, <1>2, <1>3, EventsAre
<1>5. \A i \in S : EventAt(s1, i) = EventAt(s, i)  BY <1>2, ToldSame DEF Told
<1>6. Told(s1) = IF Reported(s1, n + 1) THEN S \cup {n + 1} ELSE S
  <2>1. 1 .. n + 1 = (1 .. n) \cup {n + 1}  BY <1>1
  <2>2. \A i \in 1 .. n : Reported(s1, i) <=> Reported(s, i)  BY <1>1, ToldSame
  <2> QED BY <1>1, <1>2, <2>1, <2>2 DEF Told
<1>7. CASE ~Reported(s1, n + 1)
  <2>1. Told(s1) = S  BY <1>6, <1>7
  <2>2. Events(s1) = [k \in 1 .. c |-> EventAt(s1, InOrder(S)[k])]
    BY <1>1, <1>3, <2>1, EventsAre
  <2>3. \A k \in 1 .. c : EventAt(s1, InOrder(S)[k]) = EventAt(s, InOrder(S)[k])
    BY <1>4, <1>5
  <2>4. Events(s1) = Events(s)  BY <1>4, <2>2, <2>3
  <2> QED BY <1>1, <1>7, <2>4
<1>8. CASE Reported(s1, n + 1)
  <2>1. PICK T : T = Told(s1) /\ T = S \cup {n + 1}  BY <1>6, <1>8
  <2>2. /\ Cardinality(T) = c + 1 /\ InOrder(T)[c + 1] = n + 1
        /\ \A k \in 1 .. c : InOrder(T)[k] = InOrder(S)[k]
    <3>1. \A j \in S : j < n + 1  BY <1>1, <1>4
    <3>2. PICK k : k = n + 1 /\ k \in 1 .. n + 1 /\ \A j \in S : j < k  BY <1>1, <3>1
    <3>3. T = S \cup {k}  BY <2>1, <3>2
    <3>4. /\ Cardinality(S \cup {k}) = Cardinality(S) + 1
          /\ InOrder(S \cup {k})[Cardinality(S) + 1] = k
          /\ \A j \in 1 .. Cardinality(S) : InOrder(S \cup {k})[j] = InOrder(S)[j]
      <4>1. n \in Nat /\ S \in SUBSET (1 .. n)  BY <1>1, <1>4
      <4> QED BY ONLY <4>1, <3>2, GreatestIsLast
    <3> QED BY <1>3, <3>2, <3>3, <3>4
  <2>3. Events(s1) = [k \in 1 .. c + 1 |-> EventAt(s1, InOrder(T)[k])]
    <3>1. Len(s1) \in Nat  BY <1>1
    <3>2. Events(s1) = [k \in 1 .. Cardinality(Told(s1)) |-> EventAt(s1, InOrder(Told(s1))[k])]
      BY ONLY <3>1, EventsAre
    <3> QED BY <2>1, <2>2, <3>2
  <2>4. PICK e : e = EventAt(s1, n + 1)  OBVIOUS
  <2>5. PICK f : f = Events(s)  OBVIOUS
  <2>6. PICK g : g = Events(s1)  OBVIOUS
  <2>7. PICK N : N = {EventAt(s1, i) : i \in 1 .. n + 1}  OBVIOUS
  <2>8. \A k \in 1 .. c : g[k] = f[k] /\ g[k] \in N
    <3>1. TAKE k \in 1 .. c
    <3>2. k \in 1 .. c + 1  BY <1>4
    <3>3. PICK i \in S : i = InOrder(S)[k] /\ i = InOrder(T)[k]  BY <1>4, <2>2
    <3>4. g[k] = EventAt(s1, i) /\ f[k] = EventAt(s, i)  BY <1>4, <2>3, <2>5, <2>6, <3>2, <3>3
    <3>5. i \in 1 .. n + 1  BY <1>4, <1>1
    <3> QED BY <1>5, <2>7, <3>3, <3>4, <3>5
  <2>9. g[c + 1] = e /\ e \in N
    <3>1. c + 1 \in 1 .. c + 1 /\ n + 1 \in 1 .. n + 1  BY <1>1, <1>4
    <3> QED BY <2>2, <2>3, <2>4, <2>6, <2>7, <3>1
  <2>10. f \in [1 .. c -> N]  BY <1>4, <2>5, <2>8
  <2>11. g \in [1 .. c + 1 -> N]
    <3>1. \A k \in 1 .. c + 1 : k \in 1 .. c \/ k = c + 1  BY <1>4
    <3>2. \A k \in 1 .. c + 1 : g[k] \in N  BY <2>8, <2>9, <3>1
    <3> QED BY <2>3, <2>6, <3>2
  <2>12. f \in Seq(N) /\ Len(f) = c  BY ONLY <1>4, <2>10, ListIs
  <2>13. g \in Seq(N) /\ Len(g) = c + 1  BY ONLY <1>4, <2>11, ListIs
  <2>14. g = Append(f, e)  BY ONLY <2>8, <2>9, <2>12, <2>13, AppendIs
  <2> QED BY <1>1, <1>8, <2>4, <2>5, <2>6, <2>14
<1> QED BY <1>1, <1>7, <1>8

LEMMA StartedGrows ==
    ASSUME NEW s, NEW t, NEW s1, Longer(s, t, s1), Started(s),
           IsStanza(s1, Len(s) + 1) => \E b : First(s1, b, Len(s) + 1)
    PROVE  Started(s1)
<1>1. PICK n \in Nat : n = Len(s) /\ Len(s1) = n + 1  BY DEF Longer
<1>2. ASSUME NEW i \in 1 .. n, IsStanza(s1, i) PROVE \E b : First(s1, b, i)
  <2>1. IsStanza(s, i) /\ Firsts(s1, i) = Firsts(s, i)  BY <1>1, <1>2, StanzaSame
  <2> QED BY <1>1, <2>1 DEF Started, First
<1>3. \A i \in 1 .. n + 1 : i \in 1 .. n \/ i = n + 1  BY <1>1
<1> QED BY <1>1, <1>2, <1>3 DEF Started

-----------------------------------------------------------------------------
(* The node under construction is the element that is open.                *)

\* Where a server may use a token: at which level, and with a name or none.
Fits(t, l) ==
    /\ t.kind \in {"open", "single", "close"} /\ t.name = Header => l = 0
    /\ t.kind = "close" /\ t.name # Header => l > 0
    /\ IsTag(t) => t.name # ""
    /\ IsTag(t) /\ t.name = "proceed" => t.kind = "single" /\ l = 0

UnderWay(s, x, b, e) ==
    /\ First(s, b, Len(s)) /\ Tip(s, b, e)
    /\ x \in [items : Seq(Nodes), depth : Nat] /\ Height(s) = x.depth + 1
    /\ x.items = Tree(s, b, Len(s))

Building(s, x) ==
    \/ x = NoCurrent /\ Height(s) = 0
    \/ \E b, e : UnderWay(s, x, b, e)

\* A token of a server behind what was parsed.
Follows(s, t, s1) ==
    /\ Longer(s, t, s1) /\ Typed(s) /\ Started(s)
    /\ t.name \in TokenNames /\ Fits(t, Height(s))

LEMMA UnderWayParts ==
    ASSUME NEW s, Typed(s), NEW x, NEW b, NEW e, UnderWay(s, x, b, e)
    PROVE  /\ b \in 1 .. Len(s) /\ IsTag(s[b]) /\ Begin(s, Len(s)) = b
           /\ Len(x.items) \in Nat \ {0} /\ x.items # NoNode /\ x # NoCurrent /\ Height(s) > 0
<1>1. Len(s) \in Nat  BY DEF Typed
<1>2. b \in 1 .. Len(s) /\ IsTag(s[b]) /\ Begin(s, Len(s)) = b  BY <1>1, BeginIs DEF UnderWay
<1>3. Len(s) \in 1 .. Len(s)  BY <1>1, <1>2
<1>4. Len(x.items) \in Nat \ {0}  BY <1>2, <1>3, TreeParts DEF UnderWay
<1>5. x.items # NoNode  BY <1>4 DEF NoNode
<1>6. x # NoCurrent  BY <1>5 DEF NoCurrent
<1> QED BY <1>2, <1>4, <1>5, <1>6 DEF UnderWay

\* The events and the level behind a token.
LEMMA Behind ==
    ASSUME NEW s, NEW t, NEW s1, Follows(s, t, s1)
    PROVE  /\ Typed(s1) /\ Len(s) \in Nat /\ Len(s1) = Len(s) + 1 /\ Height(s) \in Int
           /\ Height(s1) = Height(s) + Rise(t) /\ s1[Len(s) + 1] = t
           /\ (IsHeader(s1, Len(s) + 1) <=> IsTag(t) /\ t.name = Header)
           /\ (IsEnd(s1, Len(s) + 1) <=> t.kind = "close" /\ t.name = Header)
           /\ (IsStanza(s1, Len(s) + 1) <=>
                  \/ t.kind = "single" /\ t.name # Header /\ Height(s) = 0
                  \/ t.kind = "close" /\ t.name # Header /\ Height(s1) = 0)
<1>1. Longer(s, t, s1) /\ Typed(s) /\ t.name \in TokenNames  BY DEF Follows
<1>2. Typed(s1)  BY <1>1, LongerTyped
<1>3. PICK n \in Nat : n = Len(s) /\ Len(s1) = n + 1 /\ s1[n + 1] = t  BY <1>1 DEF Longer
<1>4. /\ Height(s1) = Height(s) + Rise(t) /\ Height(s) \in Int
      /\ Level(s1, n) = Height(s) /\ Level(s1, n + 1) = Height(s1)
  BY <1>1, <1>3, HeightStep
<1>5. (n + 1) - 1 = n  BY <1>3
<1>6. IsHeader(s1, n + 1) <=> IsTag(t) /\ t.name = Header  BY <1>3 DEF IsHeader, IsTag
<1>7. IsEnd(s1, n + 1) <=> t.kind = "close" /\ t.name = Header  BY <1>3 DEF IsEnd
<1>8. IsStanza(s1, n + 1) <=>
          \/ t.kind = "single" /\ t.name # Header /\ Height(s) = 0
          \/ t.kind = "close" /\ t.name # Header /\ Height(s1) = 0
  BY <1>3, <1>4, <1>5 DEF IsStanza
<1> QED BY <1>2, <1>3, <1>4, <1>6, <1>7, <1>8

\* Nothing of the first level is complete.
LEMMA NothingTold ==
    ASSUME NEW s, NEW t, NEW s1, Follows(s, t, s1),
           ~IsHeader(s1, Len(s) + 1), ~IsEnd(s1, Len(s) + 1), ~IsStanza(s1, Len(s) + 1)
    PROVE  Events(s1) = Events(s) /\ Started(s1)
<1>1. Longer(s, t, s1) /\ Typed(s) /\ Started(s)  BY DEF Follows
<1>2. ~Reported(s1, Len(s) + 1)  BY DEF Reported
<1>3. Events(s1) = Events(s)  BY <1>1, <1>2, EventsGrow
<1>4. Started(s1)  BY <1>1, StartedGrows
<1> QED BY <1>3, <1>4

\* An element of the first level is complete.
LEMMA StanzaTold ==
    ASSUME NEW s, NEW t, NEW s1, Follows(s, t, s1), IsStanza(s1, Len(s) + 1),
           NEW b, First(s1, b, Len(s) + 1), NEW items, items = Tree(s1, b, Len(s) + 1)
    PROVE  /\ Started(s1)
           /\ Events(s1) = IF t.name = "challenge" THEN Events(s)
                           ELSE Append(Events(s), Event(IF t.name = "stream:error"
                                                        THEN "ERROR" ELSE "NORMAL", items))
<1>1. Longer(s, t, s1) /\ Typed(s) /\ Started(s)  BY DEF Follows
<1>2. Started(s1)  BY <1>1, StartedGrows
<1>3. PICK n \in Nat : n = Len(s) /\ n + 1 \in Nat  BY <1>1 DEF Longer
<1>4. Begin(s1, n + 1) = b  BY <1>3, BeginIs
<1>5. ~IsHeader(s1, n + 1) /\ ~IsEnd(s1, n + 1)  BY <1>3 DEF IsStanza, IsHeader, IsEnd
<1>8. s1[n + 1] = t  BY <1>1, <1>3 DEF Longer
<1>6. Reported(s1, n + 1) <=> t.name # "challenge"  BY <1>3, <1>5, <1>8 DEF Reported
<1>7. EventAt(s1, n + 1) = Event(IF t.name = "stream:error" THEN "ERROR" ELSE "NORMAL", items)
  BY <1>3, <1>4, <1>5, <1>8 DEF EventAt
<1> QED BY <1>1, <1>2, <1>3, <1>6, <1>7, EventsGrow

\* <stream:stream> (tagHook, its IKS_OPEN outside of any element).
LEMMA HeaderBuilt ==
    ASSUME NEW s, NEW t, NEW s1, Follows(s, t, s1), IsTag(t), t.name = Header
    PROVE  /\ Building(s1, NoCurrent) /\ Started(s1) /\ Height(s) = 0
           /\ Events(s1) = Append(Events(s), Event("START", <<Element(0, Header)>>))
<1>1. Longer(s, t, s1) /\ Typed(s) /\ Started(s)  BY DEF Follows
<1>2. t.kind # "close" /\ t.kind # "text"  BY DEF IsTag
<1>3. Height(s) = 0  BY DEF Follows, Fits, IsTag
<1>4. Height(s1) = 0  BY <1>3, Behind DEF Rise
<1>5. IsHeader(s1, Len(s) + 1) /\ ~IsEnd(s1, Len(s) + 1) /\ ~IsStanza(s1, Len(s) + 1)
  BY <1>2, Behind
<1>6. EventAt(s1, Len(s) + 1) = Event("START", <<Element(0, Header)>>)  BY <1>5 DEF EventAt
<1>7. Reported(s1, Len(s) + 1)  BY <1>5 DEF Reported
<1>8. Started(s1)  BY <1>1, <1>5, StartedGrows
<1> QED BY <1>1, <1>3, <1>4, <1>6, <1>7, <1>8, EventsGrow DEF Building

\* </stream:stream>.
LEMMA EndBuilt ==
    ASSUME NEW s, NEW t, NEW s1, Follows(s, t, s1), t.kind = "close", t.name = Header
    PROVE  /\ Building(s1, NoCurrent) /\ Started(s1) /\ Height(s) = 0
           /\ Events(s1) = Append(Events(s), Event("STOP", NoNode))
<1>1. Longer(s, t, s1) /\ Typed(s) /\ Started(s)  BY DEF Follows
<1>2. Height(s) = 0  BY DEF Follows, Fits
<1>3. Height(s1) = 0  BY <1>2, Behind DEF Rise
<1>4. IsEnd(s1, Len(s) + 1) /\ ~IsHeader(s1, Len(s) + 1) /\ ~IsStanza(s1, Len(s) + 1)
  BY Behind DEF IsTag
<1>5. EventAt(s1, Len(s) + 1) = Event("STOP", NoNode)  BY <1>4 DEF EventAt
<1>6. Reported(s1, Len(s) + 1)  BY <1>4 DEF Reported
<1>7. Started(s1)  BY <1>1, <1>4, StartedGrows
<1> QED BY <1>1, <1>2, <1>3, <1>5, <1>6, <1>7, EventsGrow DEF Building

\* The first tag of an element of the first level.
LEMMA StanzaBuilt ==
    ASSUME NEW s, NEW t, NEW s1, Follows(s, t, s1), IsTag(t), t.name # Header, Height(s) = 0
    PROVE  /\ Started(s1)
           /\ t.kind = "open" => Building(s1, NewNode(t.name)) /\ Events(s1) = Events(s)
           /\ t.kind = "single" =>
                  /\ Building(s1, NoCurrent)
                  /\ Events(s1) = IF t.name = "challenge" THEN Events(s)
                                  ELSE Append(Events(s), Event(IF t.name = "stream:error"
                                                               THEN "ERROR" ELSE "NORMAL",
                                                               <<Element(0, t.name)>>))
<1>1. Longer(s, t, s1) /\ Typed(s) /\ Started(s) /\ t.name # ""  BY DEF Follows, Fits
<1>2. PICK n \in Nat : n = Len(s) /\ Len(s1) = n + 1 /\ s1[n + 1] = t /\ n + 1 \in Nat /\ Typed(s1)
  BY Behind
<1>3. First(s1, n + 1, n + 1)
  <2>1. Firsts(s1, n + 1) = Firsts(s, n) \cup {n + 1}  BY <1>1, <1>2, FirstsStep
  <2>2. \A j \in Firsts(s, n) : j <= n + 1  BY <1>2 DEF Firsts
  <2> QED BY <1>2, <2>1, <2>2 DEF First
<1>4. Tree(s1, n + 1, n + 1) = <<Element(0, t.name)>>  BY <1>1, <1>2, TreeBegins
<1>5. CASE t.kind = "open"
  <2>1. ~IsHeader(s1, n + 1) /\ ~IsEnd(s1, n + 1) /\ ~IsStanza(s1, n + 1)  BY <1>2, <1>5, Behind
  <2>2. Events(s1) = Events(s) /\ Started(s1)  BY <1>2, <2>1, NothingTold
  <2>3. Height(s1) = 1  BY <1>2, <1>5, Behind DEF Rise
  <2>4. n + 1 \in 1 .. Len(s1) /\ n + 1 \in 1 .. n + 1 /\ IsTag(s1[n + 1])  BY <1>2
  <2>5. Tip(s1, n + 1, n + 1)
    <3>1. n + 1 \in Starts(s1, n + 1, n + 1)  BY <1>2, <2>4, StartsAre
    <3>2. \A j \in Starts(s1, n + 1, n + 1) : j <= n + 1  BY <1>2 DEF Starts
    <3>3. ~IsText(s1[n + 1])  BY <1>2, <1>5 DEF IsText
    <3> QED BY <1>1, <1>2, <2>4, <3>1, <3>2, <3>3 DEF Tip
  <2>6. <<Element(0, t.name)>> \in Seq(Nodes)  BY <1>2, <1>4, <2>4, TreeParts
  <2>7. PICK x : x = NewNode(t.name)  OBVIOUS
  <2>8. x \in [items : Seq(Nodes), depth : Nat] /\ x.items = <<Element(0, t.name)>> /\ x.depth = 0
    BY <2>6, <2>7 DEF NewNode
  <2>10. UnderWay(s1, x, n + 1, n + 1)  BY <1>2, <1>3, <1>4, <2>3, <2>5, <2>8 DEF UnderWay
  <2> QED BY <1>5, <2>2, <2>7, <2>10 DEF Building
<1>6. CASE t.kind = "single"
  <2>1. IsStanza(s1, n + 1)  BY <1>2, <1>6, Behind
  <2>2. Height(s1) = 0  BY <1>2, <1>6, Behind DEF Rise
  <2>3. /\ Started(s1)
        /\ Events(s1) = IF t.name = "challenge" THEN Events(s)
                        ELSE Append(Events(s), Event(IF t.name = "stream:error"
                                                     THEN "ERROR" ELSE "NORMAL",
                                                     <<Element(0, t.name)>>))
    BY <1>2, <1>3, <1>4, <2>1, StanzaTold
  <2> QED BY <1>6, <2>2, <2>3 DEF Building
<1> QED BY <1>5, <1>6 DEF IsTag

\* An element that is open stays the one that begins at b.
LEMMA StillFirst ==
    ASSUME NEW s, NEW t, NEW s1, Follows(s, t, s1), NEW b, First(s, b, Len(s)),
           ~IsTag(t) \/ Height(s) > 0
    PROVE  First(s1, b, Len(s) + 1) /\ s1[b] = s[b]
<1>1. Longer(s, t, s1) /\ Len(s) \in Nat  BY DEF Follows, Typed
<1>2. Height(s) \in Int  BY Behind
<1>3. ~(IsTag(t) /\ Height(s) = 0)  BY <1>2
<1>4. Firsts(s1, Len(s) + 1) = Firsts(s, Len(s)) \cup {}  BY <1>1, <1>3, FirstsStep
<1>5. Firsts(s1, Len(s) + 1) = Firsts(s, Len(s))  BY <1>4
<1>6. b \in 1 .. Len(s)  BY <1>1, BeginIs
<1>7. s1[b] = s[b]  BY <1>1, <1>6 DEF Longer
<1> QED BY <1>5, <1>7 DEF First

LEMMA LastItem ==
    ASSUME NEW s, Typed(s), NEW x, NEW b, NEW e, UnderWay(s, x, b, e)
    PROVE  x.items[Len(x.items)] = Item(s, e) /\ e \in 1 .. Len(s)
<1>1. PICK n \in Nat : n = Len(s)  BY DEF Typed
<1>2. b \in 1 .. n /\ IsTag(s[b]) /\ Len(x.items) \in Nat \ {0} /\ n \in 1 .. n
  BY <1>1, UnderWayParts
<1>3. PICK S : S = Starts(s, b, n)  OBVIOUS
<1>4. S \in SUBSET (1 .. n) /\ e \in S /\ \A j \in S : j <= e
  BY <1>1, <1>2, <1>3, StartsAre DEF UnderWay, Tip
<1>5. PICK c : c = Cardinality(S) /\ c \in Nat \ {0}  BY <1>2, <1>3, StartsAre
<1>6. InOrder(S)[c] = e  BY <1>1, <1>4, <1>5, TipIsLast
<1>7. x.items = Tree(s, b, n)  BY <1>1 DEF UnderWay
<1>8. Len(x.items) = c /\ \A k \in 1 .. c : x.items[k] = Item(s, InOrder(S)[k])
  BY <1>1, <1>2, <1>3, <1>5, <1>7, TreeParts
<1>9. c \in 1 .. c  BY <1>5
<1> QED BY <1>1, <1>4, <1>6, <1>8, <1>9

\* What a new item makes of the node.
LEMMA ItemBuilt ==
    ASSUME NEW s, NEW t, NEW s1, Follows(s, t, s1), NEW x, NEW b, NEW e, UnderWay(s, x, b, e),
           IsTag(t) \/ (IsText(t) /\ ~IsText(s[Len(s)])), ~(IsTag(t) /\ IsText(t)),
           NEW d \in Nat, Height(s1) = d + 1,
           IsText(t) => Height(s1) = Height(s),
           NEW y, y = [items |-> Append(x.items, Item(s1, Len(s) + 1)), depth |-> d]
    PROVE  Building(s1, y)
<1>1. Longer(s, t, s1) /\ Typed(s) /\ t.name \in TokenNames /\ (IsTag(t) => t.name # "")
  BY DEF Follows, Fits
<1>2. PICK n \in Nat : n = Len(s) /\ Len(s1) = n + 1 /\ s1[n + 1] = t /\ n + 1 \in Nat /\ Typed(s1)
  BY Behind
<1>3. b \in 1 .. n /\ IsTag(s[b]) /\ Len(x.items) \in Nat \ {0} /\ Height(s) > 0
  BY <1>1, <1>2, UnderWayParts
<1>4. First(s1, b, n + 1) /\ s1[b] = s[b]
  <2>1. Follows(s, t, s1) /\ First(s, b, Len(s)) /\ Height(s) > 0  BY <1>3 DEF UnderWay
  <2>2. First(s1, b, Len(s) + 1) /\ s1[b] = s[b]  BY ONLY <2>1, StillFirst
  <2> QED BY <1>2, <2>2
<1>5. Begins(s[n], t)  BY <1>2 DEF Begins
<1>6. Tree(s1, b, n + 1) = Append(x.items, Item(s1, n + 1)) /\ Item(s1, n + 1) \in Nodes
  BY <1>1, <1>2, <1>3, <1>5, TreeAppends DEF UnderWay
<1>7. PICK N : N = Nodes  OBVIOUS
<1>8. PICK f : f = x.items /\ f \in Seq(N) /\ Len(f) \in Nat \ {0}
  BY <1>3, <1>7 DEF UnderWay
<1>9. PICK i \in N : i = Item(s1, n + 1)  BY <1>6, <1>7
<1>10. Append(f, i) \in Seq(N)  BY <1>8, <1>9
<1>11. y \in [items : Seq(N), depth : Nat] /\ y.depth = d /\ y.items = Append(f, i)
  BY <1>2, <1>8, <1>9, <1>10
<1>12. Tip(s1, b, n + 1)
  <2>1. Starts(s1, b, n + 1) = Starts(s, b, n) \cup {n + 1}  BY <1>1, <1>2, <1>3, <1>5, StartsStep
  <2>2. \A j \in Starts(s1, b, n + 1) : j <= n + 1  BY <1>2, <1>3 DEF Starts
  <2>6. (n + 1) - 1 = n  BY <1>2
  <2>3. (n + 1) - 1 = n /\ Level(s1, n) = Height(s)  BY <1>1, <1>2, <2>6, HeightStep
  <2>4. CASE IsTag(t)
    <3>1. ~IsText(s1[n + 1])  BY <1>2, <2>4
    <3> QED BY <1>1, <1>2, <2>1, <2>2, <2>4, <3>1 DEF Tip
  <2>5. CASE IsText(t)
    <3>1. \A j \in n + 1 .. n + 1 : IsText(s1[j])  BY <1>2, <2>5
    <3> QED BY <1>2, <2>1, <2>2, <2>3, <2>5, <3>1 DEF Tip
  <2> QED BY <2>4, <2>5
<1>13. UnderWay(s1, y, b, n + 1)
  BY <1>2, <1>4, <1>6, <1>7, <1>8, <1>9, <1>10, <1>11, <1>12 DEF UnderWay
<1> QED BY <1>13 DEF Building

\* A tag inside of an element.
LEMMA ChildBuilt ==
    ASSUME NEW s, NEW t, NEW s1, Follows(s, t, s1), NEW x, NEW b, NEW e, UnderWay(s, x, b, e), IsTag(t)
    PROVE  /\ Started(s1) /\ Events(s1) = Events(s) /\ t.name # Header
           /\ t.kind = "open" => Building(s1, InsertTag(x, t.name))
           /\ t.kind = "single" => Building(s1, Parent(InsertTag(x, t.name)))
           /\ InsertTag(x, t.name).depth # 0 /\ InsertTag(x, t.name).items # NoNode
<1>1. Longer(s, t, s1) /\ Typed(s)  BY DEF Follows
<1>2. x \in [items : Seq(Nodes), depth : Nat] /\ Height(s) = x.depth + 1  BY DEF UnderWay
<1>17. Height(s) # 0 /\ x.depth \in Nat  BY <1>2
<1>3. t.name # Header  BY <1>17 DEF Follows, Fits, IsTag
<1>4. PICK n \in Nat : n = Len(s) /\ s1[n + 1] = t  BY Behind
<1>5. t.kind # "close" /\ t.kind # "text" /\ t.kind \in {"open", "single"}  BY DEF IsTag
<1>6. Height(s1) = Height(s) + Rise(t)  BY Behind
<1>7. ~IsHeader(s1, n + 1) /\ ~IsEnd(s1, n + 1) /\ ~IsStanza(s1, n + 1)
  <2>1. Height(s) # 0  BY <1>2
  <2> QED BY <1>3, <1>4, <1>5, <2>1, Behind
<1>8. Started(s1) /\ Events(s1) = Events(s)  BY <1>4, <1>7, NothingTold
<1>9. Item(s1, n + 1) = Element(x.depth + 1, t.name)
  <2>1. (n + 1) - 1 = n /\ Level(s1, n) = Height(s)  BY <1>1, <1>4, HeightStep
  <2> QED BY <1>2, <1>4, <2>1 DEF Item
<1>10. PICK y : y = InsertTag(x, t.name)  OBVIOUS
<1>11. y = [items |-> Append(x.items, Item(s1, n + 1)), depth |-> x.depth + 1]
  BY <1>9, <1>10 DEF InsertTag
<1>12. Parent(y) = [items |-> Append(x.items, Item(s1, n + 1)), depth |-> x.depth]
  <2>1. PICK f : f = Append(x.items, Item(s1, n + 1))  OBVIOUS
  <2>2. PICK d \in Nat : d = x.depth  BY <1>2
  <2>3. y \in [items : {f}, depth : {d + 1}]  BY <1>11, <2>1, <2>2
  <2>4. Parent(y) = [items |-> f, depth |-> d]  BY <2>2, <2>3 DEF Parent
  <2> QED BY <2>1, <2>2, <2>4
<1>13. ~IsText(t)  BY <1>5 DEF IsText
<1>14. ASSUME t.kind = "open" PROVE Building(s1, y)
  <2>1. Rise(t) = 1  BY <1>3, <1>14 DEF Rise
  <2>2. Height(s1) = (x.depth + 1) + 1 /\ x.depth + 1 \in Nat  BY <1>2, <1>6, <2>1
  <2>3. PICK d \in Nat : d = x.depth + 1 /\ Height(s1) = d + 1  BY <2>2
  <2>4. y = [items |-> Append(x.items, Item(s1, Len(s) + 1)), depth |-> d]  BY <1>4, <1>11, <2>3
  <2>5. Building(s1, y)  BY <1>13, <2>3, <2>4, ItemBuilt
  <2> QED BY <2>5
<1>15. ASSUME t.kind = "single" PROVE Building(s1, Parent(y))
  <2>1. Rise(t) = 0  BY <1>15 DEF Rise
  <2>2. Height(s1) = x.depth + 1 /\ x.depth \in Nat  BY <1>2, <1>6, <2>1
  <2>3. PICK z : z = Parent(y)  OBVIOUS
  <2>5. PICK d \in Nat : d = x.depth /\ Height(s1) = d + 1  BY <2>2
  <2>6. z = [items |-> Append(x.items, Item(s1, Len(s) + 1)), depth |-> d]  BY <1>4, <1>12, <2>3, <2>5
  <2>4. Building(s1, z)  BY <1>13, <2>5, <2>6, ItemBuilt
  <2> QED BY <2>3, <2>4
<1>16. y.depth # 0 /\ y.items # NoNode
  <2>1. y.depth = x.depth + 1 /\ y.items = Append(x.items, Item(s1, n + 1))  BY <1>11
  <2>2. x.items \in Seq(Nodes)  BY <1>2
  <2>3. Append(x.items, Item(s1, n + 1)) # <<>>
    <3>1. PICK N : N = Nodes  OBVIOUS
    <3>2. PICK i : i = Item(s1, n + 1) /\ i \in N
      <4>1. Typed(s1) /\ n + 1 \in 1 .. Len(s1)  BY <1>4, Behind
      <4> QED BY <3>1, <4>1, ItemType
    <3>3. PICK f : f = x.items /\ f \in Seq(N)  BY <2>2, <3>1
    <3>4. Append(f, i) # <<>>  BY ONLY <3>2, <3>3
    <3> QED BY <3>2, <3>3, <3>4
  <2> QED BY <1>2, <2>1, <2>3 DEF NoNode
<1> QED BY <1>3, <1>5, <1>8, <1>10, <1>14, <1>15, <1>16

\* The end of an element.
LEMMA CloseBuilt ==
    ASSUME NEW s, NEW t, NEW s1, Follows(s, t, s1), NEW x, NEW b, NEW e, UnderWay(s, x, b, e),
           t.kind = "close"
    PROVE  /\ Started(s1)
           /\ x.depth # 0 => Building(s1, Parent(x)) /\ Events(s1) = Events(s)
           /\ x.depth = 0 =>
                  /\ Building(s1, NoCurrent)
                  /\ Events(s1) = IF t.name = "challenge" THEN Events(s)
                                  ELSE Append(Events(s), Event(IF t.name = "stream:error"
                                                               THEN "ERROR" ELSE "NORMAL", x.items))
<1>1. Longer(s, t, s1) /\ Typed(s)  BY DEF Follows
<1>2. x \in [items : Seq(Nodes), depth : Nat] /\ Height(s) = x.depth + 1
  BY DEF UnderWay
<1>17. Height(s) # 0 /\ x.depth \in Nat  BY <1>2
<1>3. t.name # Header  BY <1>17 DEF Follows, Fits
<1>4. PICK n \in Nat : n = Len(s) /\ Len(s1) = n + 1 /\ s1[n + 1] = t  BY Behind
<1>5. ~IsTag(t) /\ ~IsText(t)  BY DEF IsTag, IsText
<1>6. Height(s1) = x.depth
  <2>1. Rise(t) = -1  BY <1>3 DEF Rise
  <2> QED BY <1>2, <2>1, Behind
<1>7. First(s1, b, n + 1) /\ s1[b] = s[b]  BY <1>4, <1>5, StillFirst DEF UnderWay
<1>8. b \in 1 .. n /\ IsTag(s[b]) /\ n \in 1 .. n  BY <1>1, <1>4, UnderWayParts
<1>9. Tree(s1, b, n + 1) = x.items  BY <1>1, <1>4, <1>5, <1>8, TreeKeeps DEF UnderWay
<1>10. CASE x.depth # 0
  <2>1. ~IsHeader(s1, n + 1) /\ ~IsEnd(s1, n + 1) /\ ~IsStanza(s1, n + 1)
    BY <1>3, <1>4, <1>5, <1>6, <1>10, Behind
  <2>2. Started(s1) /\ Events(s1) = Events(s)  BY <1>4, <2>1, NothingTold
  <2>3. PICK y : y = Parent(x)  OBVIOUS
  <2>4. y \in [items : Seq(Nodes), depth : Nat] /\ y.items = x.items /\ Height(s1) = y.depth + 1
    <3>1. PICK N : N = Seq(Nodes)  OBVIOUS
    <3>2. x \in [items : N, depth : Nat] /\ x.depth - 1 \in Nat  BY <1>2, <1>10, <1>17, <3>1
    <3>3. y = [x EXCEPT !.depth = x.depth - 1]  BY <2>3 DEF Parent
    <3>4. y \in [items : N, depth : Nat] /\ y.items = x.items /\ y.depth = x.depth - 1
      BY ONLY <3>2, <3>3
    <3>5. Height(s1) = y.depth + 1  BY <1>6, <1>17, <3>4
    <3> QED BY <3>1, <3>4, <3>5
  <2>5. Tip(s1, b, e)
    <3>7. ~Begins(s[n], t)  BY <1>5 DEF Begins
    <3>1. Starts(s1, b, n + 1) = Starts(s, b, n) \cup {}  BY <1>1, <1>4, <1>8, <3>7, StartsStep
    <3>2. e \in Starts(s1, b, n + 1) /\ \A j \in Starts(s1, b, n + 1) : j <= e
      BY <1>4, <3>1 DEF UnderWay, Tip
    <3>3. e \in 1 .. n  BY <1>1, <1>4, LastItem
    <3>4. s1[e] = s[e] /\ Level(s1, e - 1) = Level(s, e - 1)
      <4>1. e - 1 \in 0 .. n  BY <3>3
      <4> QED BY <1>1, <1>4, <3>3, <4>1, LevelSame DEF Longer
    <3>5. ~IsText(s1[n + 1])  BY <1>4, <1>5
    <3>6. \/ IsTag(s[e]) /\ s[e].name # ""
          \/ IsText(s[e]) /\ Height(s1) < Level(s, e - 1)
      <4>1. Height(s1) < Height(s)  BY <1>2, <1>6
      <4>2. Level(s, e - 1) \in Int
        <5>1. e - 1 \in 0 .. n  BY <3>3
        <5> QED BY <1>4, <5>1, LevelIsInt
      <4>3. Height(s) \in Int /\ Height(s1) \in Int  BY <1>2, <1>6
      <4>4. CASE IsText(s[n])
        <5>1. e \in e .. n  BY <3>3
        <5>2. IsText(s[e]) /\ Level(s, e - 1) = Height(s)  BY <1>4, <4>4, <5>1 DEF UnderWay, Tip
        <5> QED BY <4>1, <5>2
      <4>5. CASE ~IsText(s[n])
        <5>1. \/ IsTag(s[e]) /\ s[e].name # ""
              \/ IsText(s[e]) /\ Height(s) < Level(s, e - 1)
          BY <1>4, <4>5 DEF UnderWay, Tip
        <5>2. Height(s) < Level(s, e - 1) => Height(s1) < Level(s, e - 1)  BY <4>1, <4>2, <4>3
        <5> QED BY <5>1, <5>2
      <4> QED BY <4>4, <4>5
    <3> QED BY <1>4, <3>2, <3>4, <3>5, <3>6 DEF Tip
  <2>6. UnderWay(s1, y, b, e)  BY <1>2, <1>4, <1>7, <1>9, <2>4, <2>5 DEF UnderWay
  <2> QED BY <1>10, <2>2, <2>3, <2>6 DEF Building
<1>11. CASE x.depth = 0
  <2>1. IsStanza(s1, n + 1)  BY <1>3, <1>4, <1>6, <1>11, Behind
  <2>2. /\ Started(s1)
        /\ Events(s1) = IF t.name = "challenge" THEN Events(s)
                        ELSE Append(Events(s), Event(IF t.name = "stream:error"
                                                     THEN "ERROR" ELSE "NORMAL", x.items))
    BY <1>4, <1>7, <1>9, <2>1, StanzaTold
  <2> QED BY <1>6, <1>11, <2>2 DEF Building
<1> QED BY <1>10, <1>11

\* A token that is no tag, where no element is open.
LEMMA NothingBuilt ==
    ASSUME NEW s, NEW t, NEW s1, Follows(s, t, s1), t.kind \notin {"open", "single", "close"}
    PROVE  /\ Started(s1) /\ Events(s1) = Events(s) /\ Height(s1) = Height(s)
           /\ Building(s, NoCurrent) => Building(s1, NoCurrent)
<1>1. ~IsHeader(s1, Len(s) + 1) /\ ~IsEnd(s1, Len(s) + 1) /\ ~IsStanza(s1, Len(s) + 1)
  BY Behind DEF IsTag
<1>2. Rise(t) = 0  BY DEF Rise
<1>3. Height(s1) = Height(s)  BY <1>2, Behind
<1>4. Building(s, NoCurrent) => Height(s) = 0
  <2>1. \A b, e : ~UnderWay(s, NoCurrent, b, e)  BY UnderWayParts DEF Follows
  <2> QED BY <2>1 DEF Building
<1> QED BY <1>1, <1>3, <1>4, NothingTold DEF Building

LEMMA TextParts == ASSUME NEW l, NEW p PROVE Text(l, p).depth = l /\ Text(l, p).name = ""
BY DEF Text

\* Text inside of an element.
LEMMA TextBuilt ==
    ASSUME NEW s, NEW t, NEW s1, Follows(s, t, s1), NEW x, NEW b, NEW e, UnderWay(s, x, b, e),
           t.kind = "text"
    PROVE  Building(s1, InsertText(x, t.name))
<1>1. Longer(s, t, s1) /\ Typed(s) /\ t.name \in TokenNames  BY DEF Follows
<1>2. x \in [items : Seq(Nodes), depth : Nat] /\ Height(s) = x.depth + 1 /\ x.depth \in Nat
  BY DEF UnderWay
<1>3. PICK n \in Nat : n = Len(s) /\ Len(s1) = n + 1 /\ s1[n + 1] = t /\ n + 1 \in Nat /\ Typed(s1)
  BY Behind
<1>4. IsText(t) /\ ~IsTag(t) /\ Height(s1) = Height(s)  BY NothingBuilt DEF IsText, IsTag
<1>5. b \in 1 .. n /\ IsTag(s[b]) /\ n \in 1 .. n /\ Len(x.items) \in Nat \ {0}
  BY <1>1, <1>3, UnderWayParts
<1>6. x.items[Len(x.items)] = Item(s, e) /\ e \in 1 .. n  BY <1>1, <1>3, LastItem
<1>7. CASE IsText(s[n])
  <2>1. (\A j \in e .. n : IsText(s[j])) /\ Level(s, e - 1) = Height(s) /\ e \in Starts(s, b, n)
        /\ \A j \in Starts(s, b, n) : j <= e
    BY <1>3, <1>7 DEF UnderWay, Tip
  <2>2. IsText(s[e]) /\ ~IsTag(s[e])
    <3>1. e \in e .. n  BY <1>6
    <3> QED BY <2>1, <3>1 DEF IsText, IsTag
  <2>3. LastIsText(x)
    <3>1. Item(s, e) = Text(x.depth + 1, TextFrom(s, e))  BY <1>2, <2>1, <2>2 DEF Item
    <3>2. PICK y : y = x.items[Len(x.items)]  OBVIOUS
    <3>4. PICK l : l = x.depth + 1  OBVIOUS
    <3>5. PICK p : p = TextFrom(s, e)  OBVIOUS
    <3>6. y = Text(l, p)  BY <1>6, <3>1, <3>2, <3>4, <3>5
    <3>7. y.depth = l /\ y.name = ""  BY ONLY <3>6, TextParts
    <3>3. y.depth = x.depth + 1 /\ y.name = ""  BY <3>4, <3>7
    <3> QED BY <3>2, <3>3 DEF LastIsText
  <2>4. PICK f : f = x.items /\ f \in Seq(Nodes) /\ Len(f) \in Nat \ {0} /\ f = Tree(s, b, n)
    BY <1>2, <1>3, <1>5 DEF UnderWay
  <2>5. PICK g : g = [f EXCEPT ![Len(f)].text = Append(@, t.name)]  OBVIOUS
  <2>6. Tree(s1, b, n + 1) = g /\ g \in Seq(Nodes)
    <3>1. Tip(s, b, e)  BY DEF UnderWay
    <3>2. PICK h : h = Tree(s, b, Len(s)) /\ h = f  BY <1>3, <2>4
    <3>3. b \in 1 .. Len(s) /\ IsText(s[Len(s)]) /\ Typed(s)  BY <1>1, <1>3, <1>5, <1>7
    <3>4. LET r == Tree(s, b, Len(s))
          IN  /\ Tree(s1, b, Len(s) + 1) = [r EXCEPT ![Len(r)].text = Append(@, t.name)]
              /\ Tree(s1, b, Len(s) + 1) \in Seq(Nodes)
      BY ONLY <1>1, <1>4, <1>5, <3>1, <3>3, TreeGrowsText
    <3>5. Tree(s1, b, Len(s) + 1) = [h EXCEPT ![Len(h)].text = Append(@, t.name)]  BY ONLY <3>2, <3>4
    <3>6. Tree(s1, b, Len(s) + 1) = g  BY ONLY <2>5, <3>2, <3>5
    <3> QED BY <1>3, <3>4, <3>6
  <2>7. PICK y : y = [x EXCEPT !.items = g]  OBVIOUS
  <2>8. InsertText(x, t.name) = y
    <3>1. [x EXCEPT !.items[Len(x.items)].text = Append(@, t.name)] = y  BY <2>4, <2>5, <2>7
    <3> QED BY <2>3, <3>1 DEF InsertText
  <2>9. y \in [items : Seq(Nodes), depth : Nat] /\ y.items = g /\ y.depth = x.depth
    <3>1. PICK N : N = Seq(Nodes)  OBVIOUS
    <3>2. x \in [items : N, depth : Nat] /\ g \in N  BY <1>2, <2>6, <3>1
    <3>3. y \in [items : N, depth : Nat] /\ y.items = g /\ y.depth = x.depth  BY ONLY <2>7, <3>2
    <3> QED BY <3>1, <3>3
  <2>11. Tip(s1, b, e)
    <3>1. ~Begins(s[n], t)  BY <1>4, <1>7 DEF Begins
    <3>2. Starts(s1, b, n + 1) = Starts(s, b, n) \cup {}  BY <1>1, <1>3, <1>5, <3>1, StartsStep
    <3>3. e \in Starts(s1, b, n + 1) /\ \A j \in Starts(s1, b, n + 1) : j <= e  BY <2>1, <3>2
    <3>4. \A j \in e .. n + 1 : IsText(s1[j])
      <4>1. \A j \in e .. n : s1[j] = s[j]  BY <1>1, <1>3, <1>6 DEF Longer
      <4>2. \A j \in e .. n + 1 : j \in e .. n \/ j = n + 1  BY <1>3, <1>6
      <4> QED BY <1>3, <1>4, <2>1, <4>1, <4>2
    <3>5. Level(s1, e - 1) = Height(s1)
      <4>1. e - 1 \in 0 .. n  BY <1>6
      <4> QED BY <1>1, <1>3, <1>4, <2>1, <4>1, LevelSame
    <3>6. IsText(s1[n + 1])  BY <1>3, <1>4
    <3> QED BY <1>3, <3>3, <3>4, <3>5, <3>6 DEF Tip
  <2>12. First(s1, b, n + 1) /\ s1[b] = s[b]  BY <1>3, <1>4, StillFirst DEF UnderWay
  <2>13. UnderWay(s1, y, b, e)
    BY <1>2, <1>3, <1>4, <2>4, <2>6, <2>9, <2>11, <2>12 DEF UnderWay
  <2> QED BY <2>8, <2>13 DEF Building
<1>8. CASE ~IsText(s[n])
  <2>1. \/ IsTag(s[e]) /\ s[e].name # ""
        \/ IsText(s[e]) /\ Height(s) < Level(s, e - 1)
    BY <1>3, <1>8 DEF UnderWay, Tip
  <2>2. ~LastIsText(x)
    <3>1. CASE IsTag(s[e]) /\ s[e].name # ""
      <4>1. Item(s, e) = Element(Level(s, e - 1), s[e].name)  BY <3>1 DEF Item
      <4>2. PICK y : y = x.items[Len(x.items)]  OBVIOUS
      <4>3. y.name = s[e].name  BY <1>6, <4>1, <4>2 DEF Element
      <4> QED BY <3>1, <4>2, <4>3 DEF LastIsText
    <3>2. CASE IsText(s[e]) /\ Height(s) < Level(s, e - 1)
      <4>1. Item(s, e) = Text(Level(s, e - 1), TextFrom(s, e))  BY <3>2 DEF Item, IsTag, IsText
      <4>2. Level(s, e - 1) # x.depth + 1
        <5>1. e - 1 \in 0 .. n  BY <1>6
        <5>2. Level(s, e - 1) \in Int  BY <1>3, <5>1, LevelIsInt
        <5> QED BY <1>2, <3>2, <5>2
      <4>3. PICK y : y = x.items[Len(x.items)]  OBVIOUS
      <4>5. PICK l : l = Level(s, e - 1)  OBVIOUS
      <4>6. PICK p : p = TextFrom(s, e)  OBVIOUS
      <4>7. y = Text(l, p)  BY <1>6, <4>1, <4>3, <4>5, <4>6
      <4>8. y.depth = l  BY ONLY <4>7, TextParts
      <4>4. y.depth = Level(s, e - 1)  BY <4>5, <4>8
      <4> QED BY <4>2, <4>3, <4>4 DEF LastIsText
    <3> QED BY <2>1, <3>1, <3>2
  <2>3. Item(s1, n + 1) = Text(x.depth + 1, <<t.name>>)
    <3>1. TextFrom(s1, n + 1) = <<t.name>>
      <4>1. n + 1 \in 1 .. Len(s) + 1 /\ \A k \in n + 1 .. Len(s) : IsText(s[k])  BY <1>3
      <4>2. TextFrom(s1, n + 1) = [k \in 1 .. n - (n + 1) + 2 |->
                                     IF k = n - (n + 1) + 2 THEN t.name ELSE s[(n + 1) + k - 1].name]
        BY <1>1, <1>3, <1>4, <4>1, TextStep
      <4>3. n - (n + 1) + 2 = 1  BY <1>3
      <4>4. 1 .. 1 = {1}  OBVIOUS
      <4>5. TextFrom(s1, n + 1) = [k \in {1} |-> t.name]  BY <4>2, <4>3, <4>4
      <4> QED BY <4>4, <4>5
    <3>2. (n + 1) - 1 = n  BY <1>3
    <3>3. Level(s1, n) = Height(s)  BY <1>1, <1>3, HeightStep
    <3>4. ~IsTag(s1[n + 1])  BY <1>3, <1>4
    <3> QED BY <1>2, <3>1, <3>2, <3>3, <3>4 DEF Item
  <2>4. PICK d \in Nat : d = x.depth  BY <1>2
  <2>5. PICK y : y = [items |-> Append(x.items, Item(s1, Len(s) + 1)), depth |-> d]  OBVIOUS
  <2>6. InsertText(x, t.name) = y
    <3>1. PICK f : f = Append(x.items, Item(s1, n + 1))  OBVIOUS
    <3>2. InsertText(x, t.name) = [x EXCEPT !.items = f]  BY <2>2, <2>3, <3>1 DEF InsertText
    <3>3. PICK h : h = x.items  OBVIOUS
    <3>4. x \in [items : {h}, depth : {d}]  BY <1>2, <2>4, <3>3
    <3>5. [x EXCEPT !.items = f] = [items |-> f, depth |-> d]  BY ONLY <3>4
    <3> QED BY <1>3, <2>5, <3>1, <3>2, <3>5
  <2>7. Building(s1, y)
    <3>1. ~(IsTag(t) /\ IsText(t)) /\ (IsText(t) /\ ~IsText(s[Len(s)]))  BY <1>3, <1>4, <1>8
    <3>2. Height(s1) = d + 1  BY <1>2, <1>4, <2>4
    <3> QED BY <1>4, <2>5, <3>1, <3>2, ItemBuilt
  <2> QED BY <2>6, <2>7
<1> QED BY <1>7, <1>8

-----------------------------------------------------------------------------
(* What is still to come.                                                  *)

\* From level l the tokens go to level m, and each is where a server may use it.
RunsFrom(l, t, m) ==
    \E f \in [0 .. Len(t) -> Int] :
        /\ f[0] = l /\ f[Len(t)] = m
        /\ \A k \in 1 .. Len(t) : f[k] = f[k - 1] + Rise(t[k]) /\ Fits(t[k], f[k - 1])

\* A burst of whole elements, headers and ends.
Whole(t) == Height(t) = 0 /\ \A k \in 1 .. Len(t) : Fits(t[k], Level(t, k - 1))

LEMMA RunsNowhere == ASSUME NEW l \in Int PROVE RunsFrom(l, <<>>, l)
<1>1. PICK f : f = [k \in 0 .. 0 |-> l]  OBVIOUS
<1>2. f \in [0 .. Len(<<>>) -> Int] /\ f[0] = l /\ f[Len(<<>>)] = l  BY <1>1
<1>3. \A k \in 1 .. Len(<<>>) : FALSE  OBVIOUS
<1> QED BY <1>2, <1>3 DEF RunsFrom

LEMMA RunsNowhereElse == ASSUME NEW l, NEW m, RunsFrom(l, <<>>, m) PROVE m = l
<1>1. Len(<<>>) = 0  OBVIOUS
<1> QED BY <1>1 DEF RunsFrom

LEMMA RunsOn ==
    ASSUME NEW T, NEW t \in Seq(T), t # <<>>, NEW l, NEW m, RunsFrom(l, t, m)
    PROVE  Fits(Head(t), l) /\ RunsFrom(l + Rise(Head(t)), Tail(t), m)
<1>1. PICK n \in Nat : Len(t) = n + 1 /\ Len(Tail(t)) = n /\ t[1] = Head(t)
                       /\ \A k \in 1 .. n : Tail(t)[k] = t[k + 1]
  <2>1. Len(t) - 1 \in Nat  OBVIOUS
  <2> QED BY <2>1
<1>2. PICK f \in [0 .. n + 1 -> Int] :
        /\ f[0] = l /\ f[n + 1] = m
        /\ \A k \in 1 .. n + 1 : f[k] = f[k - 1] + Rise(t[k]) /\ Fits(t[k], f[k - 1])
  BY <1>1 DEF RunsFrom
<1>3. f[1] = l + Rise(Head(t)) /\ Fits(Head(t), l)
  <2>1. 1 \in 1 .. n + 1 /\ 1 - 1 = 0  BY <1>1
  <2> QED BY <1>1, <1>2, <2>1
<1>4. PICK g : g = [k \in 0 .. n |-> f[k + 1]]  OBVIOUS
<1>5. g \in [0 .. n -> Int] /\ g[0] = f[1] /\ g[n] = m  BY <1>1, <1>2, <1>4
<1>6. \A k \in 1 .. n : g[k] = g[k - 1] + Rise(Tail(t)[k]) /\ Fits(Tail(t)[k], g[k - 1])
  <2>1. TAKE k \in 1 .. n
  <2>2. k + 1 \in 1 .. n + 1 /\ (k + 1) - 1 = k /\ k - 1 \in 0 .. n /\ (k - 1) + 1 = k /\ k \in 0 .. n
    BY <1>1
  <2>3. g[k] = f[k + 1] /\ g[k - 1] = f[k]  BY <1>4, <2>2
  <2> QED BY <1>1, <1>2, <2>2, <2>3
<1> QED BY <1>1, <1>3, <1>5, <1>6 DEF RunsFrom

LEMMA RunsApart ==
    ASSUME NEW T, NEW t \in Seq(T), NEW l, NEW m, RunsFrom(l, t, m), NEW i \in 0 .. Len(t)
    PROVE  \E j \in Int : RunsFrom(l, SubSeq(t, 1, i), j) /\ RunsFrom(j, SubSeq(t, i + 1, Len(t)), m)
<1>1. PICK n \in Nat : n = Len(t)  OBVIOUS
<1>2. PICK f \in [0 .. n -> Int] :
        /\ f[0] = l /\ f[n] = m
        /\ \A k \in 1 .. n : f[k] = f[k - 1] + Rise(t[k]) /\ Fits(t[k], f[k - 1])
  BY <1>1 DEF RunsFrom
<1>3. PICK u : u = SubSeq(t, 1, i) /\ Len(u) = i /\ \A k \in 1 .. i : u[k] = t[k]
  <2>1. Len(SubSeq(t, 1, i)) = i /\ \A k \in 1 .. i : SubSeq(t, 1, i)[k] = t[k]  OBVIOUS
  <2> QED BY <2>1
<1>4. PICK v : v = SubSeq(t, i + 1, n) /\ Len(v) = n - i /\ \A k \in 1 .. n - i : v[k] = t[i + k]
  <2>1. /\ Len(SubSeq(t, i + 1, n)) = n - i
        /\ \A k \in 1 .. n - i : SubSeq(t, i + 1, n)[k] = t[i + k]
    BY <1>1
  <2> QED BY <2>1
<1>5. f[i] \in Int /\ i \in Nat /\ n - i \in Nat  BY <1>1
<1>6. RunsFrom(l, u, f[i])
  <2>1. PICK g : g = [k \in 0 .. i |-> f[k]]  OBVIOUS
  <2>4. 0 \in 0 .. i /\ i \in 0 .. i /\ \A k \in 0 .. i : k \in 0 .. n  BY <1>1
  <2>2. g \in [0 .. i -> Int] /\ g[0] = l /\ g[i] = f[i]  BY <1>2, <2>1, <2>4
  <2>3. \A k \in 1 .. i : g[k] = g[k - 1] + Rise(u[k]) /\ Fits(u[k], g[k - 1])
    <3>1. TAKE k \in 1 .. i
    <3>2. k \in 1 .. n /\ k \in 0 .. i /\ k - 1 \in 0 .. i  BY <1>1
    <3> QED BY <1>2, <1>3, <2>1, <3>2
  <2> QED BY <1>3, <2>2, <2>3 DEF RunsFrom
<1>7. RunsFrom(f[i], v, m)
  <2>1. PICK g : g = [k \in 0 .. n - i |-> f[i + k]]  OBVIOUS
  <2>2. g \in [0 .. n - i -> Int] /\ g[0] = f[i] /\ g[n - i] = m  BY <1>1, <1>2, <2>1
  <2>3. \A k \in 1 .. n - i : g[k] = g[k - 1] + Rise(v[k]) /\ Fits(v[k], g[k - 1])
    <3>1. TAKE k \in 1 .. n - i
    <3>2. i + k \in 1 .. n /\ k \in 0 .. n - i /\ k - 1 \in 0 .. n - i  BY <1>1
    <3>3. g[k] = f[i + k] /\ g[k - 1] = f[i + (k - 1)]  BY <2>1, <3>2
    <3>4. i + (k - 1) = (i + k) - 1  BY <1>1
    <3> QED BY <1>2, <1>4, <3>2, <3>3, <3>4
  <2> QED BY <1>4, <2>2, <2>3 DEF RunsFrom
<1> QED BY <1>1, <1>3, <1>4, <1>5, <1>6, <1>7

LEMMA RunsTogether ==
    ASSUME NEW T, NEW t \in Seq(T), NEW u \in Seq(T), NEW l, NEW m, NEW j,
           RunsFrom(l, t, j), RunsFrom(j, u, m)
    PROVE  RunsFrom(l, t \o u, m)
<1>1. PICK n \in Nat, c \in Nat : n = Len(t) /\ c = Len(u)  OBVIOUS
<1>2. PICK f \in [0 .. n -> Int] :
        /\ f[0] = l /\ f[n] = j
        /\ \A k \in 1 .. n : f[k] = f[k - 1] + Rise(t[k]) /\ Fits(t[k], f[k - 1])
  BY <1>1 DEF RunsFrom
<1>3. PICK g \in [0 .. c -> Int] :
        /\ g[0] = j /\ g[c] = m
        /\ \A k \in 1 .. c : g[k] = g[k - 1] + Rise(u[k]) /\ Fits(u[k], g[k - 1])
  BY <1>1 DEF RunsFrom
<1>4. PICK v : /\ v = t \o u /\ Len(v) = n + c
               /\ \A k \in 1 .. n : v[k] = t[k]
               /\ \A k \in 1 .. c : v[n + k] = u[k]
  <2>1. Len(t \o u) = n + c  BY <1>1
  <2>2. \A k \in 1 .. n : (t \o u)[k] = t[k]  BY <1>1
  <2>3. \A k \in 1 .. c : (t \o u)[n + k] = u[k]
    <3>1. TAKE k \in 1 .. c
    <3>2. n + k \in 1 .. n + c /\ ~(n + k <= n) /\ (n + k) - n = k  BY <1>1
    <3> QED BY <1>1, <2>1, <3>2
  <2> QED BY <2>1, <2>2, <2>3
<1>5. PICK h : h = [k \in 0 .. n + c |-> IF k <= n THEN f[k] ELSE g[k - n]]  OBVIOUS
<1>6. h \in [0 .. n + c -> Int]
  <2>1. \A k \in 0 .. n + c : (k <= n => k \in 0 .. n) /\ (~(k <= n) => k - n \in 0 .. c)  BY <1>1
  <2> QED BY <1>5, <2>1
<1>7. h[0] = l  BY <1>1, <1>2, <1>5
<1>8. \A k \in 0 .. c : h[n + k] = g[k]
  <2>1. TAKE k \in 0 .. c
  <2>2. n + k \in 0 .. n + c /\ (n + k) - n = k  BY <1>1
  <2>3. CASE k = 0  BY <1>1, <1>2, <1>3, <1>5, <2>2, <2>3
  <2>4. CASE k # 0  BY <1>1, <1>5, <2>2, <2>4
  <2> QED BY <2>3, <2>4
<1>9. \A k \in 0 .. n : h[k] = f[k]  BY <1>1, <1>5
<1>10. \A k \in 1 .. n + c : h[k] = h[k - 1] + Rise(v[k]) /\ Fits(v[k], h[k - 1])
  <2>1. TAKE k \in 1 .. n + c
  <2>2. CASE k <= n
    <3>1. k \in 1 .. n /\ k \in 0 .. n /\ k - 1 \in 0 .. n  BY <1>1, <2>2
    <3> QED BY <1>2, <1>4, <1>9, <3>1
  <2>3. CASE ~(k <= n)
    <3>1. PICK i \in 1 .. c : k = n + i
      <4>1. k - n \in 1 .. c /\ k = n + (k - n)  BY <1>1, <2>3
      <4> QED BY <4>1
    <3>2. i \in 0 .. c /\ i - 1 \in 0 .. c /\ k - 1 = n + (i - 1)  BY <1>1, <3>1
    <3>3. h[k] = g[i] /\ h[k - 1] = g[i - 1] /\ v[k] = u[i]  BY <1>4, <1>8, <3>1, <3>2
    <3> QED BY <1>3, <3>3
  <2> QED BY <2>2, <2>3
<1>11. h[n + c] = m
  <2>1. c \in 0 .. c  BY <1>1
  <2> QED BY <1>3, <1>8, <2>1
<1> QED BY <1>4, <1>6, <1>7, <1>10, <1>11 DEF RunsFrom

LEMMA WholeRuns == ASSUME NEW t, Len(t) \in Nat, Whole(t) PROVE RunsFrom(0, t, 0)
<1>1. PICK n \in Nat : n = Len(t)  OBVIOUS
<1>2. PICK f : f = [k \in 0 .. n |-> Level(t, k)]  OBVIOUS
<1>3. f \in [0 .. n -> Int]  BY <1>1, <1>2, LevelIsInt
<1>4. f[0] = 0 /\ f[n] = 0
  <2>1. 0 \in 0 .. n /\ n \in 0 .. n  BY <1>1
  <2> QED BY <1>1, <1>2, <2>1, LevelZero DEF Whole, Height
<1>5. \A k \in 1 .. n : f[k] = f[k - 1] + Rise(t[k]) /\ Fits(t[k], f[k - 1])
  <2>1. TAKE k \in 1 .. n
  <2>2. k \in 0 .. n /\ k - 1 \in 0 .. n  BY <1>1
  <2>3. f[k] = Level(t, k) /\ f[k - 1] = Level(t, k - 1)  BY <1>2, <2>2
  <2> QED BY <1>1, <2>3, LevelStep DEF Whole
<1> QED BY <1>1, <1>3, <1>4, <1>5 DEF RunsFrom

-----------------------------------------------------------------------------
(* What calls leave of the stream that is read.                            *)

Speaking(script) == \A i \in 1 .. Len(script) : Whole(script[i].tokens)

\* What is on its way goes from level m to level zero; an openssl session gives nothing.
Goes(w, m) == w.d.trans /\ ~(Secure(w.d) /\ Tls = "openssl") => RunsFrom(m, w.n.wire, 0)

\* Nothing is parsed or built, and what is on its way stays whole.
Quiet(v, w) ==
    /\ v.log = w.log /\ v.d.current = w.d.current /\ v.d.trans = w.d.trans
    /\ Speaking(w.n.script) => /\ Speaking(v.n.script)
                               /\ \A m \in Int : Goes(w, m) => Goes(v, m)

LEMMA AnsweredQuiet ==
    ASSUME NEW n, NEW msg, IsNet(n), Speaking(n.script)
    PROVE  /\ Speaking(Answered(n, msg).script)
           /\ \A m \in Int : RunsFrom(m, n.wire, 0) => RunsFrom(m, Answered(n, msg).wire, 0)
<1>1. CASE Answered(n, msg) = n  BY <1>1
<1>2. CASE n.script # <<>>
           /\ Answered(n, msg) = [n EXCEPT !.wire = @ \o Head(n.script).tokens, !.script = Tail(@)]
  <2>1. PICK s : s = n.script /\ s \in Seq(Bursts) /\ s # <<>>  BY <1>2 DEF IsNet
  <2>2. n.wire \in Seq(Tokens) /\ Answered(n, msg).script = Tail(s)
        /\ Answered(n, msg).wire = n.wire \o Head(s).tokens
    BY <1>2, <2>1 DEF IsNet
  <2>3. Whole(Head(s).tokens)
    <3>1. Head(s) = s[1] /\ 1 \in 1 .. Len(s)  BY <2>1
    <3> QED BY <2>1, <3>1 DEF Speaking
  <2>4. Speaking(Tail(s))
    <3>1. \A i \in 1 .. Len(Tail(s)) : Tail(s)[i] = s[i + 1] /\ i + 1 \in 1 .. Len(s)  BY <2>1
    <3> QED BY <2>1, <3>1 DEF Speaking
  <2>5. PICK T : T = [kind : Kinds, name : STRING]  OBVIOUS
  <2>6. PICK U : U = Tokens  OBVIOUS
  <2>11. T \subseteq U  BY <2>5, <2>6 DEF Tokens, TokenNames
  <2>12. Head(s) \in Bursts  BY <2>1
  <2>13. Head(s).tokens \in Seq(T)  BY <2>5, <2>12 DEF Bursts
  <2>7. PICK t : t = Head(s).tokens /\ t \in Seq(T)  BY <2>13
  <2>14. \A u \in Seq(T) : u \in Seq(U)  BY <2>11
  <2>8. t \in Seq(U) /\ Len(t) \in Nat  BY <2>7, <2>14
  <2>9. RunsFrom(0, t, 0)  BY <2>3, <2>7, <2>8, WholeRuns
  <2>10. \A m \in Int : RunsFrom(m, n.wire, 0) => RunsFrom(m, n.wire \o t, 0)
    BY <2>2, <2>6, <2>8, <2>9, RunsTogether
  <2> QED BY <2>2, <2>4, <2>7, <2>10
<1> QED BY <1>1, <1>2 DEF Answered

LEMMA SendRawQuiet ==
    ASSUME NEW w, NEW msg, IsWorld(w), NEW o \in SendRaw(w, msg)
    PROVE  Quiet(o.w, w) /\ o.w.d = w.d /\ IsWorld(o.w) /\ o \in [w : {o.w}, ret : {o.ret}]
<1>1. PICK v : v = Fault(w, Missing(w.d))  OBVIOUS
<1>2. IsWorld(v) /\ v.d = w.d /\ v.n = w.n /\ v.log = w.log  BY <1>1, FaultParts
<1>3. PICK u : u = [v EXCEPT !.n = Answered(v.n, msg)]  OBVIOUS
<1>4. IsNet(v.n)  BY <1>2 DEF IsWorld
<1>5. IsWorld(u) /\ u.d = w.d /\ u.n = Answered(w.n, msg) /\ u.log = w.log
  BY <1>2, <1>3, <1>4, WithNet, NetOfPeer
<1>6. Quiet(v, w)  BY <1>2 DEF Quiet, Goes
<1>7. Quiet(u, w)
  <2>1. Speaking(w.n.script) => /\ Speaking(u.n.script)
                                /\ \A m \in Int : RunsFrom(m, w.n.wire, 0) => RunsFrom(m, u.n.wire, 0)
    BY <1>2, <1>4, <1>5, AnsweredQuiet
  <2> QED BY <1>5, <2>1 DEF Quiet, Goes
<1>8. o = Result(u, "OK") \/ o = Result(v, "RWERR")  BY <1>1, <1>3 DEF SendRaw
<1>9. o \in [w : {o.w}, ret : {o.ret}]  BY <1>8 DEF Result
<1> QED BY <1>2, <1>5, <1>6, <1>7, <1>8, <1>9, ResultParts

\* A part of the data that is neither the transport, the session nor the node.
LEMMA DataQuiet ==
    ASSUME NEW w, IsWorld(w), NEW e, e.current = w.d.current, e.trans = w.d.trans,
           Secure(e) <=> Secure(w.d), NEW v, v.d = e, v.n = w.n, v.log = w.log
    PROVE  Quiet(v, w)
BY DEF Quiet, Goes

LEMMA QuietFollows ==
    ASSUME NEW u, NEW v, NEW w, Quiet(u, v), Quiet(v, w) PROVE Quiet(u, w)
BY DEF Quiet

LEMMA SendHeaderQuiet ==
    ASSUME NEW w, NEW to \in Nat, IsWorld(w), NEW o \in SendHeader(w, to)
    PROVE  Quiet(o.w, w) /\ IsWorld(o.w)
<1>1. PICK p \in SendRaw(w, "header") : o = IF p.ret = "OK" THEN [p EXCEPT !.w.d.server = to] ELSE p
  BY DEF SendHeader
<1>2. Quiet(p.w, w) /\ p.w.d = w.d /\ IsWorld(p.w) /\ p \in [w : {p.w}, ret : {p.ret}]  BY SendRawQuiet
<1>3. CASE o = p  BY <1>2, <1>3
<1>4. CASE o = [p EXCEPT !.w.d.server = to]
  <2>1. p.w.d \in [trans : BOOLEAN, sock : Nat, server : Nat, flags : {p.w.d.flags},
                   tls : Nat, current : {p.w.d.current}]
    BY <1>2 DEF IsWorld, IsData
  <2>2. p.w \in [d : {p.w.d}, n : {p.w.n}, log : {p.w.log}, ub : {p.w.ub}]  BY <1>2 DEF IsWorld
  <2>3. PICK e : e = [p.w.d EXCEPT !.server = to]  OBVIOUS
  <2>4. e.current = p.w.d.current /\ e.trans = p.w.d.trans /\ e.flags = p.w.d.flags /\ IsData(e)
    BY <2>1, <2>3 DEF IsData
  <2>5. PICK u : u = [p.w EXCEPT !.d = e]  OBVIOUS
  <2>6. u.d = e /\ u.n = p.w.n /\ u.log = p.w.log /\ IsWorld(u)  BY <1>2, <2>4, <2>5, WithData
  <2>7. o.w = u  BY <1>2, <1>4, <2>1, <2>2, <2>3, <2>5
  <2>8. Secure(e) <=> Secure(p.w.d)  BY <2>4 DEF Secure
  <2>9. Quiet(u, p.w)  BY <1>2, <2>4, <2>6, <2>8, DataQuiet
  <2> QED BY <1>2, <2>6, <2>7, <2>9, QuietFollows
<1> QED BY <1>1, <1>3, <1>4

LEMMA StartTlsQuiet ==
    ASSUME NEW w, IsWorld(w), NEW o \in StartTls(w) PROVE Quiet(o.w, w) /\ IsWorld(o.w)
<1>1. CASE o = Result(w, "NOTSUPP")  BY <1>1, ResultParts DEF Quiet
<1>2. ASSUME NEW p \in SendRaw(w, "starttls"),
             o = IF p.ret = "OK" THEN [p EXCEPT !.w.d.flags = @ \cup {"TRY_SECURE"}] ELSE p
      PROVE  Quiet(o.w, w) /\ IsWorld(o.w)
  <2>1. Quiet(p.w, w) /\ p.w.d = w.d /\ IsWorld(p.w) /\ p \in [w : {p.w}, ret : {p.ret}]
    BY SendRawQuiet
  <2>2. CASE o = p  BY <2>1, <2>2
  <2>3. CASE o = [p EXCEPT !.w.d.flags = @ \cup {"TRY_SECURE"}]
    <3>1. p.w.d \in [trans : BOOLEAN, sock : Nat, server : Nat, flags : {p.w.d.flags},
                     tls : Nat, current : {p.w.d.current}]
      BY <2>1 DEF IsWorld, IsData
    <3>2. p.w \in [d : {p.w.d}, n : {p.w.n}, log : {p.w.log}, ub : {p.w.ub}]  BY <2>1 DEF IsWorld
    <3>3. PICK e : e = [p.w.d EXCEPT !.flags = p.w.d.flags \cup {"TRY_SECURE"}]  OBVIOUS
    <3>4. e.current = p.w.d.current /\ e.trans = p.w.d.trans
          /\ e.flags = p.w.d.flags \cup {"TRY_SECURE"} /\ IsData(e)
      BY <3>1, <3>3 DEF IsData
    <3>5. PICK u : u = [p.w EXCEPT !.d = e]  OBVIOUS
    <3>6. u.d = e /\ u.n = p.w.n /\ u.log = p.w.log /\ IsWorld(u)  BY <2>1, <3>4, <3>5, WithData
    <3>7. o.w = u  BY <2>1, <2>3, <3>1, <3>2, <3>3, <3>5
    <3>8. Secure(e) <=> Secure(p.w.d)  BY <3>4 DEF Secure
    <3>9. Quiet(u, p.w)  BY <2>1, <3>4, <3>6, <3>8, DataQuiet
    <3> QED BY <2>1, <3>6, <3>7, <3>9, QuietFollows
  <2> QED BY <1>2, <2>2, <2>3
<1> QED BY <1>1, <1>2 DEF StartTls

LEMMA StartSaslQuiet ==
    ASSUME NEW w, IsWorld(w), NEW o \in StartSasl(w) PROVE Quiet(o.w, w) /\ IsWorld(o.w)
<1>1. PICK p \in SendRaw(w, "auth") : o = [p EXCEPT !.ret = "OK"]  BY DEF StartSasl
<1>2. Quiet(p.w, w) /\ IsWorld(p.w) /\ p \in [w : {p.w}, ret : {p.ret}]  BY SendRawQuiet
<1>3. o.w = p.w  BY <1>1, <1>2
<1> QED BY <1>2, <1>3

LEMMA DeleteHookLeaves ==
    ASSUME NEW w, IsWorld(w)
    PROVE  /\ DeleteHook(w).log = w.log /\ DeleteHook(w).d.current = NoCurrent
           /\ DeleteHook(w).d.trans = FALSE
<1> DEFINE kinds == (IF Secure(w.d) /\ w.d.tls = NULL THEN {"tls"} ELSE {}) \cup
                    (IF Closes(w.d) /\ w.d.sock \notin w.n.opened THEN {"close"} ELSE {})
<1>1. PICK v : v = Fault(w, kinds)  OBVIOUS
<1>2. IsWorld(v) /\ v.log = w.log  BY <1>1, FaultParts
<1>3. PICK x : x = [v EXCEPT !.d = Cleared(w.d),
                             !.n.opened = IF Closes(w.d) THEN @ \ {w.d.sock} ELSE @,
                             !.n.wire = IF w.d.trans THEN <<>> ELSE @,
                             !.n.peer = IF w.d.trans THEN "gone" ELSE @]
  OBVIOUS
<1>4. x = DeleteHook(w)  BY <1>1, <1>3 DEF DeleteHook
<1>5. v \in [d : {v.d}, n : {v.n}, log : {v.log}, ub : {v.ub}]  BY <1>2 DEF IsWorld
<1>6. x.log = v.log /\ x.d = Cleared(w.d)  BY <1>3, <1>5
<1>7. Cleared(w.d).current = NoCurrent /\ Cleared(w.d).trans = FALSE
  BY DEF Cleared, IsWorld, IsData
<1> QED BY <1>2, <1>4, <1>6, <1>7

-----------------------------------------------------------------------------
(* The invariant behind the order of events.                               *)

\* Servers send whole elements, headers and ends in a burst.
WholeElements == \A s \in Peers : Speaking(s)

\* Nothing is missing while a tree is built, hooks that disconnect say so, and no
\* connection is made inside a hook.
Orderly == WholeElements /\ TreeMayFail = FALSE /\ TellsItsEnd /\ "reconnect" \notin HookActs

\* Everything that is complete was told; without a connection nothing is built.
Right(w) ==
    /\ w.log.told = Events(w.log.parsed) /\ Started(w.log.parsed)
    /\ w.d.trans = FALSE => w.d.current = NoCurrent

\* What the buffer and the connection still hold goes on from the present level.
Coming(w, rest) ==
    /\ Speaking(w.n.script)
    /\ \E m \in Int : RunsFrom(Height(w.log.parsed), rest, m) /\ Goes(w, m)

Ready(w, rest) == Building(w.log.parsed, w.d.current) /\ Coming(w, rest)

Outcome(o, rest) == Right(o.w) /\ (o.ret = "OK" /\ o.w.d.trans => Ready(o.w, rest))

DInv == Right(World) /\ (ret = "OK" /\ data.trans => Ready(World, buf))

-----------------------------------------------------------------------------
(* Outcomes of calls and hooks.                                            *)

LEMMA QuietOutcome ==
    ASSUME NEW w, Right(w), NEW rest, Ready(w, rest), NEW v, Quiet(v, w), NEW r
    PROVE  Outcome(Result(v, r), rest)
<1>1. v.log = w.log /\ v.d.current = w.d.current /\ v.d.trans = w.d.trans
  BY DEF Quiet
<1>2. Right(v)  BY <1>1 DEF Right
<1>3. Speaking(w.n.script)  BY DEF Ready, Coming
<1>4. PICK m \in Int : RunsFrom(Height(w.log.parsed), rest, m) /\ Goes(w, m)
  BY DEF Ready, Coming
<1>5. Speaking(v.n.script) /\ Goes(v, m)  BY <1>3, <1>4 DEF Quiet
<1>6. Coming(v, rest)  BY <1>1, <1>4, <1>5 DEF Coming
<1>7. Ready(v, rest)  BY <1>1, <1>6 DEF Ready
<1> QED BY <1>2, <1>7, ResultParts DEF Outcome

LEMMA SameOutcome ==
    ASSUME NEW w, Right(w), NEW rest, Ready(w, rest), NEW r
    PROVE  Outcome(Result(w, r), rest)
BY ResultParts DEF Outcome

\* A connection that is closed has nothing to come.
LEMMA ClosedOutcome ==
    ASSUME NEW w, IsWorld(w), w.log.told = Events(w.log.parsed), Started(w.log.parsed),
           NEW rest, NEW r
    PROVE  Outcome(Result(DeleteHook(w), r), rest)
<1>1. PICK v : v = DeleteHook(w)  OBVIOUS
<1>2. v.log = w.log /\ v.d.current = NoCurrent /\ v.d.trans = FALSE  BY <1>1, DeleteHookLeaves
<1>3. Right(v)  BY <1>2 DEF Right
<1> QED BY <1>1, <1>2, <1>3, ResultParts DEF Outcome

\* The hook is told an event and does one thing.
LEMMA HookOutcome ==
    ASSUME Orderly, NEW w, IsWorld(w), w.d.trans, NEW rest, Ready(w, rest), Started(w.log.parsed),
           NEW type, NEW node, Append(w.log.told, Event(type, node)) = Events(w.log.parsed),
           NEW o \in StreamHook(w, type, node)
    PROVE  Outcome(o, rest)
<1>1. PICK v : v = [w EXCEPT !.log.told = Append(@, Event(type, node))]  OBVIOUS
<1>2. PICK a \in HookActs : o \in Act(v, a)  BY <1>1 DEF StreamHook
<1>3. IsWorld(v) /\ v.d = w.d /\ v.n = w.n /\ v.log.parsed = w.log.parsed
      /\ v.log.told = Append(w.log.told, Event(type, node))
  BY <1>1 DEF IsWorld, IsLog
<1>4. v.log.told = Events(v.log.parsed) /\ Started(v.log.parsed) /\ v.d.trans  BY <1>3
<1>5. Right(v) /\ Ready(v, rest)  BY <1>3, <1>4 DEF Right, Ready, Coming, Goes
<1>6. v.d.sock \in Nat  BY <1>3 DEF IsWorld, IsData
<1>7. a \in Acts /\ a # "disconnect" /\ a # "reconnect"
  BY StreamAssumption DEF Orderly, TellsItsEnd
<1>8. CASE a = "ok" \/ a = "error"
  <2>1. o = Result(v, "OK") \/ o = Result(v, "HOOK")  BY <1>2, <1>8 DEF Act
  <2> QED BY <1>5, <2>1, SameOutcome
<1>9. CASE a = "send"
  <2>1. PICK p \in SendRaw(v, "stanza") : o = Result(p.w, "OK")  BY <1>2, <1>9 DEF Act
  <2> QED BY <1>3, <1>5, <2>1, SendRawQuiet, QuietOutcome
<1>10. CASE a = "greet"
  <2>1. PICK p \in SendHeader(v, v.d.sock) : o = Result(p.w, "OK")  BY <1>2, <1>10 DEF Act
  <2> QED BY <1>3, <1>5, <1>6, <2>1, SendHeaderQuiet, QuietOutcome
<1>11. CASE a = "starttls"
  <2>1. PICK p \in StartTls(v) : o = Result(p.w, "OK")  BY <1>2, <1>11 DEF Act
  <2> QED BY <1>3, <1>5, <2>1, StartTlsQuiet, QuietOutcome
<1>12. CASE a = "auth"
  <2>1. o \in StartSasl(v)  BY <1>2, <1>12 DEF Act
  <2>2. PICK p \in SendRaw(v, "auth") : o = [p EXCEPT !.ret = "OK"]  BY <2>1 DEF StartSasl
  <2>3. Quiet(p.w, v) /\ p \in [w : {p.w}, ret : {p.ret}]  BY <1>3, SendRawQuiet
  <2>4. o = Result(p.w, "OK")  BY <2>2, <2>3 DEF Result
  <2> QED BY <1>5, <2>3, <2>4, QuietOutcome
<1>13. CASE a = "quit"
  <2>1. o = Result(DeleteHook(v), "HOOK")  BY <1>2, <1>13 DEF Act
  <2> QED BY <1>3, <1>4, <2>1, ClosedOutcome
<1> QED BY <1>7, <1>8, <1>9, <1>10, <1>11, <1>12, <1>13 DEF Acts

-----------------------------------------------------------------------------
(* One token.                                                              *)

\* The world in which a token is handled: it is parsed, and nothing is told of it.
Came(w, t) ==
    /\ IsWorld(w) /\ w.d = data /\ data.trans /\ w.log.told = Events(log.parsed)
    /\ Follows(log.parsed, t, w.log.parsed)
    /\ Building(log.parsed, data.current)
    /\ Rise(t) = Rise(Token) => Coming(w, Tail(buf))

LEMMA TokenFits ==
    ASSUME Orderly, IInv, DInv, NEW kinds, Parsing(kinds)
    PROVE  Fits(Token, Height(log.parsed))
<1>1. ret = "OK" /\ InTouch(World)  BY ParsingInTouch
<1>2. data.trans  BY <1>1, WorldParts DEF InTouch, Orderly
<1>3. PICK m \in Int : RunsFrom(Height(log.parsed), buf, m)
  BY <1>1, <1>2, WorldParts DEF DInv, Ready, Coming
<1>4. buf \in Seq(Tokens) /\ buf # <<>>  BY DEF IInv, Parsing
<1>5. PICK S : S = Tokens  OBVIOUS
<1> QED BY <1>3, <1>4, <1>5, RunsOn DEF Token

LEMMA TokenComes ==
    ASSUME Orderly, IInv, DInv, NEW kinds, Parsing(kinds), NEW t \in ParsedTokens,
           t.name = Token.name, Fits(Token, Height(log.parsed)) => Fits(t, Height(log.parsed))
    PROVE  Came(Reading(t), t)
<1>1. ret = "OK" /\ Good(World) /\ InTouch(World)  BY ParsingInTouch
<1>2. data.trans  BY <1>1, WorldParts DEF InTouch, Orderly
<1>3. Right(World) /\ Ready(World, buf)  BY <1>1, <1>2 DEF DInv
<1>4. PICK s : s = log.parsed /\ s \in Seq(ParsedTokens)  BY <1>1, WorldParts DEF Good, IsWorld, IsLog
<1>5. PICK w : w = Reading(t)  OBVIOUS
<1>6. Good(w) /\ w.d = data  BY <1>1, <1>5, ReadingSound
<1>7. w.log.parsed = Append(s, t) /\ w.log.told = log.told /\ w.n = net
  <2>1. World \in [d : {data}, n : {net}, log : {log}, ub : {ub}]  BY DEF World
  <2>2. log \in [parsed : {s}, told : {log.told}]  BY <1>1, <1>4, WorldParts DEF Good, IsWorld, IsLog
  <2> QED BY <1>4, <1>5, <2>1, <2>2, WorldParts DEF Reading
<1>8. Longer(s, t, w.log.parsed)
  <2>1. PICK S : S = ParsedTokens  OBVIOUS
  <2> QED BY <1>4, <1>7, <2>1, AppendIsLonger
<1>9. Typed(s)
  <2>1. PICK S : S = ParsedTokens  OBVIOUS
  <2>2. s \in Seq(S)  BY <1>4, <2>1
  <2>3. Len(s) \in Nat /\ \A i \in 1 .. Len(s) : s[i] \in S  BY ONLY <2>2
  <2> QED BY <2>1, <2>3 DEF Typed, ParsedTokens
<1>10. t.name \in TokenNames  BY DEF ParsedTokens
<1>11. PICK m \in Int : RunsFrom(Height(s), buf, m) /\ Goes(World, m)
  BY <1>3, <1>4, WorldParts DEF Ready, Coming
<1>12. buf \in Seq(Tokens) /\ buf # <<>>  BY DEF IInv, Parsing
<1>13. Fits(Token, Height(s)) /\ RunsFrom(Height(s) + Rise(Token), Tail(buf), m)
  <2>1. PICK S : S = Tokens  OBVIOUS
  <2> QED BY <1>11, <1>12, <2>1, RunsOn DEF Token
<1>14. Height(w.log.parsed) = Height(s) + Rise(t)  BY <1>8, HeightStep
<1>15. Rise(t) = Rise(Token) => RunsFrom(Height(w.log.parsed), Tail(buf), m)  BY <1>13, <1>14
<1>16. Goes(w, m)  BY <1>6, <1>7, <1>11, WorldParts DEF Goes
<1>17. Speaking(w.n.script)  BY <1>3, <1>7, WorldParts DEF Ready, Coming
<1>18. Rise(t) = Rise(Token) => Coming(w, Tail(buf))  BY <1>15, <1>16, <1>17 DEF Coming
<1>19. Follows(s, t, w.log.parsed)  BY <1>3, <1>4, <1>8, <1>9, <1>10, <1>13, WorldParts DEF Follows, Right
<1>20. w.log.told = Events(s) /\ Building(s, data.current)
  BY <1>3, <1>4, <1>7, WorldParts DEF Right, Ready
<1> QED BY <1>2, <1>4, <1>5, <1>6, <1>18, <1>19, <1>20 DEF Came, Good

LEMMA CurrentIs ==
    ASSUME NEW w, IsWorld(w), NEW x
    PROVE  LET v == [w EXCEPT !.d.current = x]
           IN  /\ IsWorld(v) /\ v.d.current = x /\ v.d.trans = w.d.trans
               /\ v.d.flags = w.d.flags /\ v.n = w.n /\ v.log = w.log
<1>0. PICK v : v = [w EXCEPT !.d.current = x]  OBVIOUS
<1>1. PICK e : e = [w.d EXCEPT !.current = x]  OBVIOUS
<1>2. IsData(w.d)  BY DEF IsWorld
<1>3. IsData(e) /\ e.trans = w.d.trans /\ e.flags = w.d.flags /\ e.current = x
  BY <1>1, <1>2 DEF IsData
<1>4. PICK u : u = [w EXCEPT !.d = e]  OBVIOUS
<1>5. IsWorld(u) /\ u.d = e /\ u.n = w.n /\ u.log = w.log  BY <1>3, <1>4, WithData
<1>6. v = u  BY <1>0, <1>1, <1>4 DEF IsWorld
<1> QED BY <1>0, <1>3, <1>5, <1>6

LEMMA ComingSame ==
    ASSUME NEW w, NEW v, NEW rest, Coming(w, rest), v.d.trans = w.d.trans, v.d.flags = w.d.flags,
           v.n = w.n, v.log = w.log
    PROVE  Coming(v, rest)
BY DEF Coming, Goes, Secure

\* The element is complete: it is told, unless it is a challenge.
LEMMA CompletedOutcome ==
    ASSUME Orderly, NEW w, IsWorld(w), w.d.trans, NEW rest, Coming(w, rest),
           Started(w.log.parsed), Building(w.log.parsed, NoCurrent), NEW items,
           Events(w.log.parsed) = IF Token.name = "challenge" THEN w.log.told
                                  ELSE Append(w.log.told, Event(IF Token.name = "stream:error"
                                                                THEN "ERROR" ELSE "NORMAL", items)),
           NEW o \in Completed(w, items)
    PROVE  Outcome(o, rest)
<1>1. PICK v : v = [w EXCEPT !.d.current = NoCurrent]  OBVIOUS
<1>2. IsWorld(v) /\ v.d.current = NoCurrent /\ v.d.trans = w.d.trans /\ v.log = w.log /\ Coming(v, rest)
  <2>1. /\ IsWorld(v) /\ v.d.current = NoCurrent /\ v.d.trans = w.d.trans /\ v.n = w.n
        /\ v.log = w.log /\ v.d.flags = w.d.flags
    BY <1>1, CurrentIs
  <2> QED BY <2>1, ComingSame
<1>3. Ready(v, rest)  BY <1>2 DEF Ready
<1>4. CASE Token.name = "challenge"
  <2>1. Right(v)  BY <1>2, <1>4 DEF Right
  <2>2. o = Result(v, "OK") \/ \E p \in SendRaw(v, "response") : o = Result(p.w, "OK")
    BY <1>1, <1>4 DEF Completed
  <2> QED BY <1>2, <1>3, <2>1, <2>2, SameOutcome, SendRawQuiet, QuietOutcome
<1>5. CASE Token.name = "stream:error"
  <2>1. o \in StreamHook(v, "ERROR", items)  BY <1>1, <1>5 DEF Completed
  <2>2. Append(v.log.told, Event("ERROR", items)) = Events(v.log.parsed)  BY <1>2, <1>5
  <2> QED BY <1>2, <1>3, <2>1, <2>2, HookOutcome
<1>6. CASE Token.name \notin {"challenge", "stream:error"}
  <2>1. o \in StreamHook(v, "NORMAL", items)  BY <1>1, <1>6 DEF Completed
  <2>2. Append(v.log.told, Event("NORMAL", items)) = Events(v.log.parsed)  BY <1>2, <1>6
  <2> QED BY <1>2, <1>3, <2>1, <2>2, HookOutcome
<1> QED BY <1>4, <1>5, <1>6

-----------------------------------------------------------------------------
(* The cases of tagHook and cdataHook.                                     *)

LEMMA CameParts ==
    ASSUME NEW w, Came(w, Token)
    PROVE  /\ IsWorld(w) /\ w.d = data /\ w.d.trans /\ Coming(w, Tail(buf))
           /\ w.log.told = Events(log.parsed) /\ Follows(log.parsed, Token, w.log.parsed)
           /\ Typed(log.parsed) /\ Building(log.parsed, w.d.current)
BY DEF Came, Follows

LEMMA NoNodeIsBuilt ==
    ASSUME NEW s, Typed(s), NEW x, Building(s, x)
    PROVE  x.items = NoNode => x = NoCurrent /\ Height(s) = 0
BY UnderWayParts DEF Building

LEMMA GroundIsEmpty ==
    ASSUME NEW s, Typed(s), NEW x, Building(s, x), Height(s) = 0 PROVE x = NoCurrent
<1>1. ~(Height(s) > 0)  OBVIOUS
<1> QED BY <1>1, UnderWayParts DEF Building

LEMMA NodeIsBuilt ==
    ASSUME NEW s, NEW x, Building(s, x), x.items # NoNode
    PROVE  \E b, e : UnderWay(s, x, b, e)
BY DEF Building, NoCurrent

LEMMA HeaderOutcome ==
    ASSUME Orderly, NEW w, Came(w, Token), IsTag(Token), Token.name = Header, ~HasCurrent(w.d),
           NEW o \in StreamHook(w, "START", NewNode(Header).items)
    PROVE  Outcome(o, Tail(buf))
<1>1. /\ IsWorld(w) /\ w.d.trans /\ Coming(w, Tail(buf)) /\ w.log.told = Events(log.parsed)
      /\ Follows(log.parsed, Token, w.log.parsed) /\ Typed(log.parsed)
      /\ Building(log.parsed, w.d.current)
  BY CameParts
<1>2. w.d.current = NoCurrent  BY <1>1, NoNodeIsBuilt DEF HasCurrent
<1>3. /\ Building(w.log.parsed, NoCurrent) /\ Started(w.log.parsed)
      /\ Events(w.log.parsed) = Append(Events(log.parsed), Event("START", <<Element(0, Header)>>))
  BY <1>1, HeaderBuilt
<1>4. Ready(w, Tail(buf))  BY <1>1, <1>2, <1>3 DEF Ready
<1>5. NewNode(Header).items = <<Element(0, Header)>>  BY DEF NewNode
<1>6. Append(w.log.told, Event("START", NewNode(Header).items)) = Events(w.log.parsed)
  BY <1>1, <1>3, <1>5
<1> QED BY <1>1, <1>3, <1>4, <1>6, HookOutcome

\* A node takes the place of another, and nothing is told.
LEMMA BuiltOutcome ==
    ASSUME NEW w, IsWorld(w), w.d.trans, NEW rest, Coming(w, rest), NEW x,
           Building(w.log.parsed, x), Started(w.log.parsed), w.log.told = Events(w.log.parsed)
    PROVE  Outcome(Result([w EXCEPT !.d.current = x], "OK"), rest)
<1>1. PICK v : v = [w EXCEPT !.d.current = x]  OBVIOUS
<1>2. /\ v.d.current = x /\ v.d.trans = w.d.trans /\ v.d.flags = w.d.flags
      /\ v.n = w.n /\ v.log = w.log
  BY <1>1, CurrentIs
<1>3. Coming(v, rest)  BY <1>2, ComingSame
<1>4. Ready(v, rest)  BY <1>2, <1>3 DEF Ready
<1>5. Right(v)  BY <1>2 DEF Right
<1> QED BY <1>1, <1>4, <1>5, SameOutcome

LEMMA StanzaOutcome ==
    ASSUME Orderly, NEW w, Came(w, Token), IsTag(Token), Token.name # Header, ~HasCurrent(w.d),
           NEW o \in AfterOpen([w EXCEPT !.d.current = NewNode(Token.name)])
    PROVE  Outcome(o, Tail(buf))
<1>1. /\ IsWorld(w) /\ w.d.trans /\ Coming(w, Tail(buf)) /\ w.log.told = Events(log.parsed)
      /\ Follows(log.parsed, Token, w.log.parsed) /\ Typed(log.parsed)
      /\ Building(log.parsed, w.d.current)
  BY CameParts
<1>2. Height(log.parsed) = 0  BY <1>1, NoNodeIsBuilt DEF HasCurrent
<1>3. PICK x : x = NewNode(Token.name)  OBVIOUS
<1>4. x.items = <<Element(0, Token.name)>> /\ x.depth = 0  BY <1>3 DEF NewNode
<1>5. /\ Started(w.log.parsed)
      /\ Token.kind = "open" => Building(w.log.parsed, x) /\ Events(w.log.parsed) = Events(log.parsed)
      /\ Token.kind = "single" =>
             /\ Building(w.log.parsed, NoCurrent)
             /\ Events(w.log.parsed) = IF Token.name = "challenge" THEN Events(log.parsed)
                                       ELSE Append(Events(log.parsed),
                                                   Event(IF Token.name = "stream:error"
                                                         THEN "ERROR" ELSE "NORMAL",
                                                         <<Element(0, Token.name)>>))
  BY <1>1, <1>2, <1>3, StanzaBuilt
<1>6. PICK v : v = [w EXCEPT !.d.current = x]  OBVIOUS
<1>7. CASE Token.kind = "open"
  <2>1. o = Result(v, "OK")  BY <1>3, <1>6, <1>7 DEF AfterOpen
  <2> QED BY <1>1, <1>5, <1>6, <1>7, <2>1, BuiltOutcome
<1>8. CASE Token.kind = "single"
  <2>1. /\ IsWorld(v) /\ v.d.current = x /\ v.d.trans = w.d.trans /\ v.d.flags = w.d.flags
        /\ v.n = w.n /\ v.log = w.log
    BY <1>1, <1>6, CurrentIs
  <2>2. Coming(v, Tail(buf))  BY <1>1, <2>1, ComingSame
  <2>3. o \in CloseTag(v)  BY <1>3, <1>6, <1>8 DEF AfterOpen
  <2>4. x.items # NoNode  BY <1>4 DEF NoNode
  <2>5. o \in Completed(v, x.items)  BY <1>4, <2>1, <2>3, <2>4 DEF CloseTag, HasCurrent, IsRoot
  <2>7. Events(v.log.parsed) =
            IF Token.name = "challenge" THEN v.log.told
            ELSE Append(v.log.told, Event(IF Token.name = "stream:error"
                                          THEN "ERROR" ELSE "NORMAL", x.items))
    BY <1>1, <1>4, <1>5, <1>8, <2>1
  <2>8. Started(v.log.parsed) /\ Building(v.log.parsed, NoCurrent) /\ v.d.trans
    BY <1>1, <1>5, <1>8, <2>1
  <2> QED BY <2>1, <2>2, <2>5, <2>7, <2>8, CompletedOutcome
<1> QED BY <1>7, <1>8 DEF IsTag

LEMMA ChildOutcome ==
    ASSUME Orderly, NEW w, Came(w, Token), IsTag(Token), HasCurrent(w.d),
           NEW o \in AfterOpen([w EXCEPT !.d.current = InsertTag(w.d.current, Token.name)])
    PROVE  Outcome(o, Tail(buf))
<1>1. /\ IsWorld(w) /\ w.d.trans /\ Coming(w, Tail(buf)) /\ w.log.told = Events(log.parsed)
      /\ Follows(log.parsed, Token, w.log.parsed) /\ Typed(log.parsed)
      /\ Building(log.parsed, w.d.current)
  BY CameParts
<1>2. PICK c : c = w.d.current  OBVIOUS
<1>3. PICK b, e : UnderWay(log.parsed, c, b, e)  BY <1>1, <1>2, NodeIsBuilt DEF HasCurrent
<1>4. PICK x : x = InsertTag(c, Token.name)  OBVIOUS
<1>5. /\ Started(w.log.parsed) /\ Events(w.log.parsed) = Events(log.parsed)
      /\ Token.kind = "open" => Building(w.log.parsed, x)
      /\ Token.kind = "single" => Building(w.log.parsed, Parent(x))
      /\ x.depth # 0 /\ x.items # NoNode
  BY <1>1, <1>3, <1>4, ChildBuilt
<1>6. PICK v : v = [w EXCEPT !.d.current = x]  OBVIOUS
<1>7. CASE Token.kind = "open"
  <2>1. o = Result(v, "OK")  BY <1>2, <1>4, <1>6, <1>7 DEF AfterOpen
  <2> QED BY <1>1, <1>5, <1>6, <1>7, <2>1, BuiltOutcome
<1>8. CASE Token.kind = "single"
  <2>1. /\ IsWorld(v) /\ v.d.current = x /\ v.d.trans = w.d.trans /\ v.d.flags = w.d.flags
        /\ v.n = w.n /\ v.log = w.log
    BY <1>1, <1>6, CurrentIs
  <2>2. Coming(v, Tail(buf))  BY <1>1, <2>1, ComingSame
  <2>3. o \in CloseTag(v)  BY <1>2, <1>4, <1>6, <1>8 DEF AfterOpen
  <2>4. o = Result([v EXCEPT !.d.current = Parent(v.d.current)], "OK")
    BY <1>5, <2>1, <2>3 DEF CloseTag, HasCurrent, IsRoot
  <2>5. o = Result([v EXCEPT !.d.current = Parent(x)], "OK")  BY <2>1, <2>4
  <2> QED BY <1>1, <1>5, <1>8, <2>1, <2>2, <2>5, BuiltOutcome
<1> QED BY <1>7, <1>8 DEF IsTag

LEMMA EndFits ==
    ASSUME NEW t, NEW l, Fits(t, l), t.kind = "close", l = 0 PROVE t.name = Header
<1>1. ~(l > 0)  OBVIOUS
<1> QED BY <1>1 DEF Fits

LEMMA CloseOutcome ==
    ASSUME Orderly, NEW w, Came(w, Token), Token.kind = "close", NEW o \in CloseTag(w)
    PROVE  Outcome(o, Tail(buf))
<1>1. /\ IsWorld(w) /\ w.d.trans /\ Coming(w, Tail(buf)) /\ w.log.told = Events(log.parsed)
      /\ Follows(log.parsed, Token, w.log.parsed) /\ Typed(log.parsed)
      /\ Building(log.parsed, w.d.current)
  BY CameParts
<1>2. CASE ~HasCurrent(w.d)
  <2>1. w.d.current = NoCurrent /\ Height(log.parsed) = 0  BY <1>1, <1>2, NoNodeIsBuilt DEF HasCurrent
  <2>2. Token.name = Header
    <3>1. Fits(Token, Height(log.parsed))  BY <1>1 DEF Follows
    <3> QED BY <2>1, <3>1, EndFits
  <2>3. /\ Building(w.log.parsed, NoCurrent) /\ Started(w.log.parsed)
        /\ Events(w.log.parsed) = Append(Events(log.parsed), Event("STOP", NoNode))
    BY <1>1, <2>2, EndBuilt
  <2>4. Ready(w, Tail(buf))  BY <1>1, <2>1, <2>3 DEF Ready
  <2>5. o \in StreamHook(w, "STOP", NoNode)  BY <1>2 DEF CloseTag
  <2>6. Append(w.log.told, Event("STOP", NoNode)) = Events(w.log.parsed)  BY <1>1, <2>3
  <2> QED BY <1>1, <2>3, <2>4, <2>5, <2>6, HookOutcome
<1>3. CASE HasCurrent(w.d)
  <2>1. PICK x : x = w.d.current  OBVIOUS
  <2>2. PICK b, e : UnderWay(log.parsed, x, b, e)  BY <1>1, <1>3, <2>1, NodeIsBuilt DEF HasCurrent
  <2>3. /\ Started(w.log.parsed)
        /\ x.depth # 0 => Building(w.log.parsed, Parent(x)) /\ Events(w.log.parsed) = Events(log.parsed)
        /\ x.depth = 0 =>
               /\ Building(w.log.parsed, NoCurrent)
               /\ Events(w.log.parsed) =
                      IF Token.name = "challenge" THEN Events(log.parsed)
                      ELSE Append(Events(log.parsed), Event(IF Token.name = "stream:error"
                                                            THEN "ERROR" ELSE "NORMAL", x.items))
    <3>1. PICK s, t, s1 : s = log.parsed /\ t = Token /\ s1 = w.log.parsed  OBVIOUS
    <3>2. Follows(s, t, s1) /\ t.kind = "close" /\ UnderWay(s, x, b, e)  BY <1>1, <2>2, <3>1
    <3>3. /\ Started(s1)
          /\ x.depth # 0 => Building(s1, Parent(x)) /\ Events(s1) = Events(s)
          /\ x.depth = 0 =>
                 /\ Building(s1, NoCurrent)
                 /\ Events(s1) = IF t.name = "challenge" THEN Events(s)
                                 ELSE Append(Events(s), Event(IF t.name = "stream:error"
                                                              THEN "ERROR" ELSE "NORMAL", x.items))
      BY ONLY <3>2, CloseBuilt
    <3> QED BY <3>1, <3>3
  <2>4. CASE x.depth # 0
    <3>1. o = Result([w EXCEPT !.d.current = Parent(w.d.current)], "OK")
      BY <1>3, <2>1, <2>4 DEF CloseTag, IsRoot
    <3>2. o = Result([w EXCEPT !.d.current = Parent(x)], "OK")  BY <2>1, <3>1
    <3> QED BY <1>1, <2>3, <2>4, <3>2, BuiltOutcome
  <2>5. CASE x.depth = 0
    <3>1. o \in Completed(w, x.items)  BY <1>3, <2>1, <2>5 DEF CloseTag, IsRoot
    <3>2. Events(w.log.parsed) =
              IF Token.name = "challenge" THEN w.log.told
              ELSE Append(w.log.told, Event(IF Token.name = "stream:error"
                                            THEN "ERROR" ELSE "NORMAL", x.items))
      BY <1>1, <2>3, <2>5
    <3> QED BY <1>1, <2>3, <2>5, <3>1, <3>2, CompletedOutcome
  <2> QED BY <2>4, <2>5
<1> QED BY <1>2, <1>3

\* A text, and what the server says about TLS, completes nothing.
LEMMA TextOutcome ==
    ASSUME Orderly, NEW w, Came(w, Token), Token.kind = "text",
           NEW v, v = IF HasCurrent(w.d) THEN [w EXCEPT !.d.current = InsertText(@, Token.name)] ELSE w
    PROVE  Outcome(Result(v, "OK"), Tail(buf))
<1>1. /\ IsWorld(w) /\ w.d.trans /\ Coming(w, Tail(buf)) /\ w.log.told = Events(log.parsed)
      /\ Follows(log.parsed, Token, w.log.parsed) /\ Typed(log.parsed)
      /\ Building(log.parsed, w.d.current)
  BY CameParts
<1>2. /\ Started(w.log.parsed) /\ w.log.told = Events(w.log.parsed)
      /\ Building(log.parsed, NoCurrent) => Building(w.log.parsed, NoCurrent)
  BY <1>1, NothingBuilt
<1>3. CASE ~HasCurrent(w.d)
  <2>1. w.d.current = NoCurrent  BY <1>1, <1>3, NoNodeIsBuilt DEF HasCurrent
  <2>2. Ready(w, Tail(buf)) /\ Right(w)  BY <1>1, <1>2, <2>1 DEF Ready, Right
  <2> QED BY <1>3, <2>2, SameOutcome
<1>4. CASE HasCurrent(w.d)
  <2>1. PICK x : x = w.d.current  OBVIOUS
  <2>2. PICK b, e : UnderWay(log.parsed, x, b, e)  BY <1>1, <1>4, <2>1, NodeIsBuilt DEF HasCurrent
  <2>3. Building(w.log.parsed, InsertText(x, Token.name))  BY <1>1, <2>2, TextBuilt
  <2>4. v = [w EXCEPT !.d.current = InsertText(x, Token.name)]  BY <1>4, <2>1
  <2> QED BY <1>1, <1>2, <2>3, <2>4, BuiltOutcome
<1> QED BY <1>3, <1>4

-----------------------------------------------------------------------------
(* What is told after every step.                                          *)

LEMMA AfterDelivers ==
    ASSUME NEW outcomes, After(outcomes), \A o \in outcomes : Outcome(o, Tail(buf))
    PROVE  DInv'
<1>1. PICK o \in outcomes :
        /\ Become(o.w)
        /\ IF o.ret = "OK" THEN buf' = Tail(buf) /\ UNCHANGED <<phase, ret>>
           ELSE buf' = <<>> /\ phase' = "app" /\ ret' = o.ret
  BY DEF After
<1>2. Outcome(o, Tail(buf))  BY <1>1
<1>3. World'.d = o.w.d /\ World'.n = o.w.n /\ World'.log = o.w.log /\ data' = o.w.d
  BY <1>1 DEF World, Become
<1>4. Right(World')  BY <1>2, <1>3 DEF Outcome, Right
<1>5. CASE o.ret = "OK"
  <2>1. buf' = Tail(buf)  BY <1>1, <1>5
  <2>2. data'.trans => Ready(World', buf')
    BY <1>2, <1>3, <1>5, <2>1 DEF Outcome, Ready, Coming, Goes
  <2> QED BY <1>4, <2>2 DEF DInv
<1>6. CASE o.ret # "OK"
  <2>1. ret' # "OK"  BY <1>1, <1>6
  <2> QED BY <1>4, <2>1 DEF DInv
<1> QED BY <1>5, <1>6

LEMMA TlsComes ==
    ASSUME Orderly, IInv, DInv, NEW kinds, Parsing(kinds), NEW w, w = TlsReading
    PROVE  /\ IsWorld(w) /\ w.d = data /\ w.d.trans /\ Right(w)
           /\ Token.name = "proceed" /\ IsTag(Token) => Ready(w, Tail(buf))
<1>1. PICK t : t = [Token EXCEPT !.kind = "tls"]  OBVIOUS
<1>2. Token \in Tokens /\ t \in ParsedTokens  BY <1>1, ParsingInTouch
<1>3. t.kind = "tls" /\ t.name = Token.name  BY <1>1, <1>2 DEF Tokens
<1>4. Fits(t, Height(log.parsed)) /\ Rise(t) = 0  BY <1>3 DEF Fits, IsTag, Rise
<1>5. Came(w, t)  BY <1>1, <1>2, <1>3, <1>4, TokenComes DEF TlsReading
<1>6. IsWorld(w) /\ w.d = data /\ data.trans /\ Follows(log.parsed, t, w.log.parsed)
      /\ w.log.told = Events(log.parsed) /\ Building(log.parsed, data.current)
      /\ Typed(log.parsed)
  BY <1>5 DEF Came, Follows
<1>7. /\ Started(w.log.parsed) /\ Events(w.log.parsed) = Events(log.parsed)
      /\ Building(log.parsed, NoCurrent) => Building(w.log.parsed, NoCurrent)
  BY <1>3, <1>6, NothingBuilt
<1>8. Right(w)  BY <1>6, <1>7 DEF Right
<1>9. ASSUME Token.name = "proceed", IsTag(Token) PROVE Ready(w, Tail(buf))
  <2>1. Fits(Token, Height(log.parsed))  BY TokenFits
  <2>2. Token.kind = "single" /\ Height(log.parsed) = 0  BY <1>9, <2>1 DEF Fits
  <2>3. Rise(Token) = 0  BY <2>2 DEF Rise
  <2>4. Coming(w, Tail(buf))  BY <1>4, <1>5, <2>3 DEF Came
  <2>5. data.current = NoCurrent  BY <1>6, <2>2, GroundIsEmpty
  <2> QED BY <1>6, <1>7, <2>4, <2>5 DEF Ready
<1> QED BY <1>6, <1>8, <1>9

LEMMA TlsDelivers ==
    ASSUME Orderly, IInv, DInv, TlsProceed \/ TlsFailure
    PROVE  DInv'
<1>1. PICK w : w = TlsReading  OBVIOUS
<1>2. Parsing({"open", "single"})  BY DEF TlsProceed, TlsFailure
<1>3. /\ IsWorld(w) /\ w.d = data /\ w.d.trans /\ Right(w)
      /\ Token.name = "proceed" /\ IsTag(Token) => Ready(w, Tail(buf))
  BY <1>1, <1>2, TlsComes
<1>4. CASE TlsFailure
  <2>1. After({Result(w, "TLSFAIL")})  BY <1>1, <1>4 DEF TlsFailure
  <2>2. Outcome(Result(w, "TLSFAIL"), Tail(buf))  BY <1>3, ResultParts DEF Outcome
  <2> QED BY <2>1, <2>2, AfterDelivers
<1>5. CASE TlsProceed
  <2>1. Ready(w, Tail(buf))  BY <1>2, <1>3, <1>5 DEF TlsProceed, Parsing, IsTag
  <2>2. PICK u : u = [w EXCEPT !.d.flags = (@ \ {"TRY_SECURE"}) \cup {"SECURE"}, !.d.tls = w.d.sock]
    OBVIOUS
  <2>3. PICK f : f = [w EXCEPT !.d.tls = NULL]  OBVIOUS
  <2>4. PICK outcomes :
          /\ outcomes = {Result(o.w, "OK") : o \in SendHeader(u, w.d.server)} \cup
                        {Result(f, "TLSFAIL"), Result(f, "NOMEM")}
          /\ After(outcomes)
    BY <1>1, <1>5, <2>2, <2>3 DEF TlsProceed
  <2>5. IsData(w.d)  BY <1>3 DEF IsWorld
  <2>6. IsWorld(u) /\ Quiet(u, w)
    <3>1. PICK e : e = [w.d EXCEPT !.flags = (w.d.flags \ {"TRY_SECURE"}) \cup {"SECURE"}, !.tls = w.d.sock]
      OBVIOUS
    <3>2. /\ IsData(e) /\ e.trans = w.d.trans /\ e.current = w.d.current
          /\ e.flags = (w.d.flags \ {"TRY_SECURE"}) \cup {"SECURE"}
      BY <2>5, <3>1 DEF IsData
    <3>3. PICK v : v = [w EXCEPT !.d = e]  OBVIOUS
    <3>4. IsWorld(v) /\ v.d = e /\ v.n = w.n /\ v.log = w.log  BY <1>3, <3>2, <3>3, WithData
    <3>5. u = v  BY <1>3, <2>2, <2>5, <3>1, <3>3 DEF IsWorld, IsData
    <3>6. Secure(e)  BY <3>2 DEF Secure
    <3>7. Quiet(v, w)  BY <3>2, <3>4, <3>6 DEF Quiet, Goes
    <3> QED BY <3>4, <3>5, <3>7
  <2>7. Quiet(f, w)
    <3>1. PICK e : e = [w.d EXCEPT !.tls = NULL]  OBVIOUS
    <3>2. e.trans = w.d.trans /\ e.current = w.d.current /\ e.flags = w.d.flags /\ IsData(e)
      BY <2>5, <3>1 DEF IsData, NULL
    <3>3. PICK v : v = [w EXCEPT !.d = e]  OBVIOUS
    <3>4. v.d = e /\ v.n = w.n /\ v.log = w.log  BY <1>3, <3>2, <3>3, WithData
    <3>5. f = v  BY <1>3, <2>3, <2>5, <3>1, <3>3 DEF IsWorld, IsData
    <3>6. Secure(e) <=> Secure(w.d)  BY <3>2 DEF Secure
    <3> QED BY <1>3, <3>2, <3>4, <3>5, <3>6, DataQuiet
  <2>8. ASSUME NEW p \in SendHeader(u, w.d.server) PROVE Outcome(Result(p.w, "OK"), Tail(buf))
    <3>1. w.d.server \in Nat  BY <2>5 DEF IsData
    <3>2. Quiet(p.w, u)  BY <2>6, <3>1, SendHeaderQuiet
    <3>3. Quiet(p.w, w)  BY <2>6, <3>2, QuietFollows
    <3> QED BY <1>3, <2>1, <3>3, QuietOutcome
  <2>9. \A o \in outcomes : Outcome(o, Tail(buf))
    BY <1>3, <2>1, <2>4, <2>7, <2>8, QuietOutcome
  <2> QED BY <2>4, <2>9, AfterDelivers
<1> QED BY <1>4, <1>5

\* Every other token.
LEMMA TokenDelivers ==
    ASSUME Orderly, IInv, DInv, StreamStart \/ StanzaStart \/ ChildStart \/ Close \/ CData \/ NotXml
    PROVE  DInv'
<1>1. PICK w : w = Reading(Token)  OBVIOUS
<1>2. ASSUME NEW kinds, Parsing(kinds) PROVE Came(w, Token) /\ w.d = data
  <2>1. Token \in ParsedTokens  BY <1>2, ParsingInTouch
  <2>2. Came(w, Token)  BY <1>1, <1>2, <2>1, TokenComes
  <2> QED BY <2>2 DEF Came
<1>3. \A x : NewNodes(x) = {x}  BY DEF NewNodes, Orderly
<1>4. CASE StreamStart
  <2>1. /\ Parsing({"open", "single"}) /\ ~HasCurrent(data) /\ Token.name = Header
        /\ After(StreamHook(w, "START", NewNode(Header).items))
    <3>1. UNION {StreamHook(w, "START", x.items) : x \in {NewNode(Header)}}
              = StreamHook(w, "START", NewNode(Header).items)
      OBVIOUS
    <3> QED BY <1>1, <1>3, <1>4, <3>1 DEF StreamStart
  <2>2. IsTag(Token)  BY <2>1 DEF Parsing, IsTag
  <2> QED BY <1>2, <2>1, <2>2, HeaderOutcome, AfterDelivers
<1>5. CASE StanzaStart
  <2>1. PICK outcomes :
          /\ outcomes = UNION {AfterOpen([Reading(Token) EXCEPT !.d.current = x]) :
                               x \in NewNodes(NewNode(Token.name))}
          /\ Parsing({"open", "single"}) /\ ~HasCurrent(data) /\ Token.name # Header /\ After(outcomes)
    BY <1>5 DEF StanzaStart
  <2>2. IsTag(Token)  BY <2>1 DEF Parsing, IsTag
  <2>3. ASSUME NEW o \in outcomes PROVE Outcome(o, Tail(buf))
    <3>1. PICK x \in NewNodes(NewNode(Token.name)) : o \in AfterOpen([Reading(Token) EXCEPT !.d.current = x])
      BY <2>1, <2>3
    <3>2. x = NewNode(Token.name)  BY <1>3, <3>1
    <3> QED BY <1>1, <1>2, <2>1, <2>2, <3>1, <3>2, StanzaOutcome
  <2> QED BY <2>1, <2>3, AfterDelivers
<1>6. CASE ChildStart
  <2>1. PICK outcomes :
          /\ outcomes = UNION {AfterOpen([Reading(Token) EXCEPT !.d.current = x]) :
                               x \in NewNodes(InsertTag(data.current, Token.name))}
          /\ Parsing({"open", "single"}) /\ HasCurrent(data) /\ After(outcomes)
    BY <1>6 DEF ChildStart
  <2>2. IsTag(Token)  BY <2>1 DEF Parsing, IsTag
  <2>3. ASSUME NEW o \in outcomes PROVE Outcome(o, Tail(buf))
    <3>1. PICK x \in NewNodes(InsertTag(data.current, Token.name)) : o \in AfterOpen([Reading(Token) EXCEPT !.d.current = x])
      BY <2>1, <2>3
    <3>2. x = InsertTag(data.current, Token.name)  BY <1>3, <3>1
    <3> QED BY <1>1, <1>2, <2>1, <2>2, <3>1, <3>2, ChildOutcome
  <2> QED BY <2>1, <2>3, AfterDelivers
<1>7. CASE Close
  <2>1. Parsing({"close"}) /\ After(CloseTag(w))  BY <1>1, <1>7 DEF Close
  <2>2. Token.kind = "close"  BY <2>1 DEF Parsing
  <2> QED BY <1>2, <2>1, <2>2, CloseOutcome, AfterDelivers
<1>8. CASE CData
  <2>1. PICK v : v = IF HasCurrent(w.d) THEN [w EXCEPT !.d.current = InsertText(@, Token.name)] ELSE w
    OBVIOUS
  <2>2. Parsing({"text"})  BY <1>8 DEF CData
  <2>3. After({Result(v, "OK")})  BY <1>1, <1>2, <1>8, <2>1, <2>2 DEF CData
  <2>4. Token.kind = "text"  BY <2>2 DEF Parsing
  <2>5. Outcome(Result(v, "OK"), Tail(buf))  BY <1>2, <2>1, <2>2, <2>4, TextOutcome
  <2> QED BY <2>3, <2>5, AfterDelivers
<1>9. CASE NotXml
  <2>1. After({Result(World, "BADXML")})  BY <1>9 DEF NotXml
  <2>2. Right(World)  BY DEF DInv
  <2>3. Outcome(Result(World, "BADXML"), Tail(buf))  BY <2>2, ResultParts DEF Outcome
  <2> QED BY <2>1, <2>3, AfterDelivers
<1> QED BY <1>4, <1>5, <1>6, <1>7, <1>8, <1>9

-----------------------------------------------------------------------------
(* Reading and calls.                                                      *)

LEMMA ComesStill ==
    ASSUME DInv, UNCHANGED <<data, log, buf>>, ret' = "OK" => ret = "OK",
           net'.script = net.script \/ net'.script = <<>>, net'.wire = net.wire
    PROVE  DInv'
<1>1. World'.d = World.d /\ World'.log = World.log /\ World'.n = net' /\ World.n = net /\ World.d = data
  BY DEF World
<1>2. Right(World')  BY <1>1 DEF DInv, Right
<1>3. ASSUME ret' = "OK", data'.trans PROVE Ready(World', buf')
  <2>1. Ready(World, buf)  BY <1>3 DEF DInv
  <2>2. Speaking(<<>>)
    <3>1. \A i \in 1 .. Len(<<>>) : FALSE  OBVIOUS
    <3> QED BY <3>1 DEF Speaking
  <2>3. Speaking(net'.script)  BY <1>1, <2>1, <2>2 DEF Ready, Coming
  <2> QED BY <1>1, <2>1, <2>3 DEF Ready, Coming, Goes
<1> QED BY <1>2, <1>3 DEF DInv

\* What is read goes on where the last buffer ended.
LEMMA ReadDelivers ==
    ASSUME IInv, DInv, NEW k \in 1 .. Len(net.wire), ReadData(k)
    PROVE  DInv'
<1>1. ret = "OK" /\ data.trans /\ buf = <<>> /\ IsNet(net)
  BY WorldParts DEF ReadData, IInv, Good, IsWorld
<1>2. UNCHANGED <<data, log, ret>>  BY <1>1 DEF ReadData, Use, Back
<1>3. PICK l : l = net.wire /\ l \in Seq(Tokens)  BY <1>1 DEF IsNet
<1>4. net' = [net EXCEPT !.wire = SubSeq(l, k + 1, Len(l)), !.read = @ + k]  BY <1>3 DEF ReadData
<1>5. net'.wire = SubSeq(l, k + 1, Len(l)) /\ net'.script = net.script  BY <1>1, <1>4 DEF IsNet
<1>6. /\ World'.d = data /\ World'.log = log /\ World'.n = net'
      /\ World.d = data /\ World.log = log /\ World.n = net
  BY <1>2 DEF World
<1>7. Right(World')  BY <1>6 DEF DInv, Right
<1>8. Ready(World, buf)  BY <1>1 DEF DInv
<1>9. PICK h \in Int : h = Height(log.parsed)
  <2>1. Right(World)  BY DEF DInv
  <2>2. log.parsed \in Seq(ParsedTokens)  BY WorldParts DEF IInv, Good, IsWorld, IsLog
  <2>3. Len(log.parsed) \in Nat  BY <2>2
  <2>4. Len(log.parsed) \in 0 .. Len(log.parsed)  BY <2>3
  <2> QED BY <2>3, <2>4, LevelIsInt DEF Height
<1>10. PICK m \in Int : RunsFrom(h, buf, m) /\ Goes(World, m)
  BY <1>6, <1>8, <1>9 DEF Ready, Coming
<1>11. m = h  BY <1>1, <1>10, RunsNowhereElse
<1>12. \E j \in Int : RunsFrom(h, buf', j) /\ Goes(World', j)
  <2>1. CASE SslRead
    <3>1. buf' = buf  BY <2>1 DEF ReadData, Back
    <3>2. Goes(World', m)  BY <1>6, <2>1 DEF Goes, SslRead
    <3> QED BY <1>10, <3>1, <3>2
  <2>2. CASE ~SslRead
    <3>1. buf' = SubSeq(l, 1, k)  BY <1>3, <2>2 DEF ReadData, Received
    <3>2. RunsFrom(h, l, 0)  BY <1>1, <1>3, <1>6, <1>10, <1>11, <2>2 DEF Goes, SslRead
    <3>3. PICK j \in Int : RunsFrom(h, SubSeq(l, 1, k), j) /\ RunsFrom(j, SubSeq(l, k + 1, Len(l)), 0)
      <4>1. PICK S : S = Tokens  OBVIOUS
      <4>2. k \in 0 .. Len(l)  BY <1>3
      <4> QED BY <1>3, <3>2, <4>1, <4>2, RunsApart
    <3>4. Goes(World', j)  BY <1>5, <1>6, <3>3 DEF Goes
    <3> QED BY <3>1, <3>3, <3>4
  <2> QED BY <2>1, <2>2
<1>13. Ready(World', buf')
  <2>1. Building(log.parsed, data.current) /\ Speaking(net.script)  BY <1>6, <1>8 DEF Ready, Coming
  <2> QED BY <1>5, <1>6, <1>9, <1>12, <2>1 DEF Ready, Coming
<1> QED BY <1>7, <1>13 DEF DInv

LEMMA LeftoversRun ==
    ASSUME NEW l \in Int, NEW t, t.kind = "bad" PROVE RunsFrom(l, <<t>>, l)
<1>1. PICK f : f = [k \in 0 .. 1 |-> l]  OBVIOUS
<1>2. PICK u : u = <<t>> /\ Len(u) = 1 /\ u[1] = t
  <2>1. Len(<<t>>) = 1 /\ <<t>>[1] = t  OBVIOUS
  <2> QED BY ONLY <2>1
<1>3. f \in [0 .. 1 -> Int] /\ f[0] = l /\ f[1] = l  BY <1>1
<1>4. Rise(t) = 0 /\ Fits(t, l)  BY DEF Rise, Fits, IsTag
<1>5. \A k \in 1 .. 1 : f[k] = f[k - 1] + Rise(u[k]) /\ Fits(u[k], f[k - 1])
  <2>1. TAKE k \in 1 .. 1
  <2>2. k = 1 /\ k - 1 = 0  OBVIOUS
  <2> QED BY <1>2, <1>3, <1>4, <2>2
<1> QED BY <1>2, <1>3, <1>5 DEF RunsFrom

LEMMA NothingReadDelivers ==
    ASSUME IInv, DInv, ReadNothing \/ ReadClosed
    PROVE  DInv'
<1>1. ret = "OK" /\ data.trans /\ buf = <<>> /\ UNCHANGED <<data, log, net>>
  BY DEF ReadNothing, ReadClosed, IInv, Use
<1>2. (SslRead /\ ReadLeftovers) \/ Back("OK") \/ Back("RWERR")
  BY DEF ReadNothing, ReadClosed, ReadError
<1>3. CASE Back("OK") \/ Back("RWERR")
  <2>1. buf' = buf  BY <1>3 DEF Back
  <2> QED BY <1>1, <2>1, ComesStill
<1>4. CASE SslRead /\ ReadLeftovers
  <2>1. /\ World'.d = data /\ World'.log = log /\ World'.n = net
        /\ World.d = data /\ World.log = log /\ World.n = net
    BY <1>1 DEF World
  <2>2. PICK h \in Int : h = Height(log.parsed)
    <3>2. log.parsed \in Seq(ParsedTokens)  BY WorldParts DEF IInv, Good, IsWorld, IsLog
    <3>3. Len(log.parsed) \in Nat  BY <3>2
    <3>4. Len(log.parsed) \in 0 .. Len(log.parsed)  BY <3>3
    <3> QED BY <3>3, <3>4, LevelIsInt DEF Height
  <2>3. RunsFrom(h, buf', h)
    <3>1. PICK t : t = [kind |-> "bad", name |-> ""]  OBVIOUS
    <3>2. buf' = <<>> \/ buf' = <<t>>  BY <1>4, <3>1 DEF ReadLeftovers
    <3>3. t.kind = "bad"  BY <3>1
    <3> QED BY <3>2, <3>3, RunsNowhere, LeftoversRun
  <2>4. Goes(World', h)  BY <1>4, <2>1 DEF Goes, SslRead
  <2>5. Ready(World, buf)  BY <1>1 DEF DInv
  <2>6. Ready(World', buf')  BY <2>1, <2>2, <2>3, <2>4, <2>5 DEF Ready, Coming
  <2>7. Right(World')  BY <2>1 DEF DInv, Right
  <2> QED BY <2>6, <2>7 DEF DInv
<1> QED BY <1>2, <1>3, <1>4

LEMMA CallDelivers ==
    ASSUME NEW outcomes, Calling(outcomes), \A o \in outcomes : Outcome(o, buf)
    PROVE  DInv'
<1>1. PICK o \in outcomes : Become(o.w) /\ ret' = o.ret  BY DEF Calling
<1>2. Outcome(o, buf) /\ buf' = buf  BY <1>1 DEF Calling
<1>3. World'.d = o.w.d /\ World'.n = o.w.n /\ World'.log = o.w.log /\ data' = o.w.d
  BY <1>1 DEF World, Become
<1>4. Right(World')  BY <1>2, <1>3 DEF Outcome, Right
<1>5. ret' = "OK" /\ data'.trans => Ready(World', buf')
  BY <1>1, <1>2, <1>3 DEF Outcome, Ready, Coming, Goes
<1> QED BY <1>4, <1>5 DEF DInv

LEMMA QuietLeaves ==
    ASSUME NEW w, Right(w), NEW rest, Ready(w, rest), NEW o, Quiet(o.w, w)
    PROVE  Outcome(o, rest)
<1>1. Outcome(Result(o.w, o.ret), rest)  BY QuietOutcome
<1> QED BY <1>1, ResultParts DEF Outcome

LEMMA ApplicationDelivers ==
    ASSUME IInv, DInv, Greet \/ Send \/ AskForTls \/ AskForSasl \/ Disconnect \/ Delete
    PROVE  DInv'
<1>1. Right(World) /\ IsWorld(World) /\ data.sock \in Nat
  BY WorldParts DEF IInv, DInv, Good, IsWorld, IsData
<1>2. ASSUME data.trans, ret = "OK", NEW outcomes, Calling(outcomes),
             \A o \in outcomes : Quiet(o.w, World)
      PROVE  DInv'
  <2>1. Ready(World, buf)  BY <1>2 DEF DInv
  <2>2. \A o \in outcomes : Outcome(o, buf)  BY <1>1, <1>2, <2>1, QuietLeaves
  <2> QED BY <1>2, <2>2, CallDelivers
<1>3. CASE Greet  BY <1>1, <1>2, <1>3, SendHeaderQuiet DEF Greet
<1>4. CASE Send  BY <1>1, <1>2, <1>4, SendRawQuiet DEF Send
<1>5. CASE AskForTls  BY <1>1, <1>2, <1>5, StartTlsQuiet DEF AskForTls
<1>6. CASE AskForSasl  BY <1>1, <1>2, <1>6, StartSaslQuiet DEF AskForSasl
<1>7. World.log.told = Events(World.log.parsed) /\ Started(World.log.parsed)  BY <1>1 DEF Right
<1>8. CASE Disconnect
  <2>1. Calling({Result(DeleteHook(World), "OK")})  BY <1>8 DEF Disconnect
  <2> QED BY <1>1, <1>7, <2>1, ClosedOutcome, CallDelivers
<1>9. CASE Delete
  <2>1. PICK w : w = DeleteHook(World)  OBVIOUS
  <2>2. w.log = World.log /\ w.d.current = NoCurrent /\ w.d.trans = FALSE  BY <1>1, <2>1, DeleteHookLeaves
  <2>3. World'.d = w.d /\ World'.log = w.log /\ data' = w.d  BY <1>9, <2>1 DEF Delete, World, Become
  <2>4. Right(World')  BY <1>7, <2>2, <2>3 DEF Right
  <2> QED BY <2>2, <2>3, <2>4 DEF DInv
<1> QED BY <1>3, <1>4, <1>5, <1>6, <1>8, <1>9

-----------------------------------------------------------------------------
(* A new connection.                                                       *)

LEMMA NothingParsed ==
    /\ Events(<<>>) = <<>> /\ Started(<<>>) /\ Height(<<>>) = 0 /\ Building(<<>>, NoCurrent)
<1>1. PICK s : s = <<>> /\ Len(s) = 0  OBVIOUS
<1>2. \A i \in 1 .. Len(s) : FALSE  BY <1>1
<1>3. Height(s) = 0  BY <1>1, LevelZero DEF Height
<1>4. Started(s)  BY <1>2 DEF Started
<1>5. Events(s) = <<>>
  <2>1. PICK S : S = Told(s) /\ S = {}  BY <1>2 DEF Told
  <2>2. Cardinality(S) = 0  BY <2>1, FS_EmptySet
  <2>3. Events(s) = [n \in 1 .. Cardinality(S) |-> EventAt(s, InOrder(S)[n])]  BY <1>1, <2>1, EventsAre
  <2>4. Events(s) = [n \in 1 .. 0 |-> EventAt(s, InOrder(S)[n])]  BY <2>2, <2>3
  <2>5. PICK f : f = [n \in 1 .. 0 |-> EventAt(s, InOrder(S)[n])]  OBVIOUS
  <2>6. f \in [1 .. 0 -> {}]  BY <2>5
  <2>7. f \in Seq({}) /\ Len(f) = 0  BY ONLY <2>6, ListIs
  <2>8. f = <<>>  BY ONLY <2>7
  <2> QED BY <2>4, <2>5, <2>8
<1> QED BY <1>1, <1>3, <1>4, <1>5 DEF Building

\* Nothing of an older connection is left, and the server may speak.
Fresh(w) ==
    /\ IsWorld(w) /\ w.log.parsed = <<>> /\ w.log.told = <<>> /\ w.n.wire = <<>>
    /\ w.d.current = NoCurrent /\ Speaking(w.n.script)

LEMMA FreshIsReady == ASSUME NEW w, Fresh(w) PROVE Right(w) /\ Ready(w, <<>>)
<1>1. RunsFrom(0, <<>>, 0)  BY RunsNowhere
<1>2. Goes(w, 0)  BY <1>1 DEF Fresh, Goes
<1>3. Coming(w, <<>>)  BY <1>1, <1>2, NothingParsed DEF Fresh, Coming
<1> QED BY <1>3, NothingParsed DEF Fresh, Right, Ready

LEMMA SocketIsFresh ==
    ASSUME Orderly, NEW w, Good(w), ~w.d.trans, w.d.current = NoCurrent, NEW way,
           NEW v \in WithSocket(w, way)
    PROVE  Fresh(v) /\ v.d.sock \in Nat
<1>1. PICK s \in Peers :
        v = [w EXCEPT !.d.sock = w.n.conns + 1, !.d.trans = TRUE,
               !.d.flags = IF way = "fd" THEN @ \cup {"FOREIGN"} ELSE @,
               !.n = [conns   |-> w.n.conns + 1,
                      opened  |-> w.n.opened \cup {w.n.conns + 1},
                      foreign |-> w.n.foreign \cup (IF way = "fd" THEN {w.n.conns + 1} ELSE {}),
                      script |-> s, wire |-> <<>>, peer |-> "open", read |-> 0],
               !.log = [parsed |-> <<>>, told |-> <<>>]]
  BY DEF WithSocket
<1>2. IsWorld(v)  BY WithSocketSound DEF Good
<1>3. /\ w \in [d : {w.d}, n : {w.n}, log : {w.log}, ub : {w.ub}]
      /\ w.d \in [trans : BOOLEAN, sock : Nat, server : Nat, flags : {w.d.flags},
                  tls : Nat, current : {w.d.current}]
  BY DEF Good, IsWorld, IsData
<1>4. v.d.current = NoCurrent  BY <1>1, <1>3
<1>5. v.n.script = s /\ v.n.wire = <<>>  BY <1>1, <1>3
<1>6. v.log = [parsed |-> <<>>, told |-> <<>>]  BY <1>1, <1>3
<1>7. Speaking(s)  BY DEF Orderly, WholeElements
<1>8. v.d.sock \in Nat  BY <1>2 DEF IsWorld, IsData
<1> QED BY <1>2, <1>4, <1>5, <1>6, <1>7, <1>8 DEF Fresh

LEMMA ConnectDelivers ==
    ASSUME Orderly, IInv, DInv, NEW way \in Connects, Connect(way)
    PROVE  DInv'
<1>1. PICK new : new = (CASE way = "tcp"   -> ConnectWith(World)
                          [] way = "async" -> ConnectAsync(World)
                          [] way = "fd"    -> ConnectFd(World))
  OBVIOUS
<1>2. ~data.trans /\ Calling(new \cup {Result(World, "NOCONN")}) /\ phase = "app"
  BY <1>1 DEF Connect, Calling
<1>3. Good(World) /\ ~World.d.trans /\ buf = <<>> /\ Right(World)
  BY <1>2, WorldParts DEF IInv, DInv
<1>4. World.d.current = NoCurrent
  <2>1. World.d.trans \in BOOLEAN  BY <1>3 DEF Good, IsWorld, IsData
  <2> QED BY <1>3, <2>1 DEF Right
<1>5. way \in {"tcp", "async", "fd"}  BY StreamAssumption
<1>6. ASSUME NEW how, NEW v \in WithSocket(World, how)
      PROVE  Fresh(v) /\ v.d.sock \in Nat /\ Right(v) /\ Ready(v, buf)
  BY <1>3, <1>4, SocketIsFresh, FreshIsReady
<1>7. \A o \in new : Outcome(o, buf)
  <2>1. CASE way = "tcp"
    <3>1. ASSUME NEW o \in ConnectWith(World) PROVE Outcome(o, buf)
      <4>1. PICK v \in WithSocket(World, "tcp") : o \in SendHeader(v, v.d.sock)  BY <3>1 DEF ConnectWith
      <4>2. IsWorld(v) /\ v.d.sock \in Nat /\ Right(v) /\ Ready(v, buf)  BY <1>6 DEF Fresh
      <4> QED BY <4>1, <4>2, SendHeaderQuiet, QuietLeaves
    <3> QED BY <1>1, <2>1, <3>1
  <2>2. CASE way = "async"
    <3>1. ASSUME NEW o \in ConnectAsync(World) PROVE Outcome(o, buf)
      <4>1. PICK v \in WithSocket(World, "async") : o = Result([v EXCEPT !.d.server = v.d.sock], "OK")
        BY <3>1 DEF ConnectAsync
      <4>2. IsWorld(v) /\ Right(v) /\ Ready(v, buf) /\ v.d.sock \in Nat  BY <1>6 DEF Fresh
      <4>3. PICK e : e = [v.d EXCEPT !.server = v.d.sock]  OBVIOUS
      <4>4. IsData(e) /\ e.trans = v.d.trans /\ e.current = v.d.current /\ e.flags = v.d.flags
        BY <4>2, <4>3 DEF IsWorld, IsData
      <4>5. PICK u : u = [v EXCEPT !.d = e]  OBVIOUS
      <4>6. u.d = e /\ u.n = v.n /\ u.log = v.log  BY <4>2, <4>4, <4>5, WithData
      <4>7. [v EXCEPT !.d.server = v.d.sock] = u  BY <4>2, <4>3, <4>5 DEF IsWorld
      <4>8. Secure(e) <=> Secure(v.d)  BY <4>4 DEF Secure
      <4>9. Quiet(u, v)  BY <4>2, <4>4, <4>6, <4>8, DataQuiet
      <4> QED BY <4>1, <4>2, <4>7, <4>9, QuietOutcome
    <3> QED BY <1>1, <2>2, <3>1
  <2>3. CASE way = "fd"
    <3>1. ASSUME NEW o \in ConnectFd(World) PROVE Outcome(o, buf)
      <4>1. PICK v \in WithSocket(World, "fd") : o = Result(v, "OK")  BY <3>1 DEF ConnectFd
      <4> QED BY <1>6, <4>1, SameOutcome
    <3> QED BY <1>1, <2>3, <3>1
  <2> QED BY <1>5, <2>1, <2>2, <2>3
<1>8. Outcome(Result(World, "NOCONN"), buf)  BY <1>3, ResultParts DEF Outcome
<1>9. \A o \in new \cup {Result(World, "NOCONN")} : Outcome(o, buf)  BY <1>7, <1>8
<1> QED BY <1>2, <1>9, CallDelivers

LEMMA InitDelivers == Init => DInv
<1> SUFFICES ASSUME Init PROVE DInv  OBVIOUS
<1>1. /\ log.parsed = <<>> /\ log.told = <<>> /\ data.current = NoCurrent /\ data.trans = FALSE
  BY DEF Init
<1> QED BY <1>1, NothingParsed, WorldParts DEF DInv, Right

LEMMA NextDelivers == Orderly => (IInv /\ DInv /\ [Next]_vars => DInv')
<1> SUFFICES ASSUME Orderly, IInv, DInv, [Next]_vars PROVE DInv'  OBVIOUS
<1>1. CASE TlsProceed \/ TlsFailure  BY <1>1, TlsDelivers
<1>2. CASE StreamStart \/ StanzaStart \/ ChildStart \/ Close \/ CData \/ NotXml
  BY <1>2, TokenDelivers
<1>3. CASE \E k \in 1 .. Len(net.wire) : ReadData(k)  BY <1>3, ReadDelivers
<1>4. CASE ReadNothing \/ ReadClosed  BY <1>4, NothingReadDelivers
<1>5. CASE \E way \in Connects : Connect(way)  BY <1>5, ConnectDelivers
<1>6. CASE Greet \/ Send \/ AskForTls \/ AskForSasl \/ Disconnect \/ Delete
  BY <1>6, ApplicationDelivers
<1>7. CASE Recv \/ ParseDone \/ PeerClose \/ UNCHANGED vars
  <2>1. UNCHANGED <<data, log, buf>> /\ (ret' = "OK" => ret = "OK")
    BY <1>7 DEF Recv, ParseDone, Back, PeerClose, vars, control
  <2>2. (net'.script = net.script \/ net'.script = <<>>) /\ net'.wire = net.wire
    <3>1. IsNet(net)  BY WorldParts DEF IInv, Good, IsWorld
    <3>2. CASE PeerClose  BY <3>1, <3>2 DEF IsNet, PeerClose
    <3>3. CASE net' = net  BY <3>3
    <3> QED BY <1>7, <3>2, <3>3 DEF Recv, ParseDone, vars
  <2> QED BY <2>1, <2>2, ComesStill
<1> QED BY <1>1, <1>2, <1>3, <1>4, <1>5, <1>6, <1>7 DEF Next, Library

\* However the stream is cut into buffers and whatever is sent or lost: if servers send
\* whole elements, no node is lost for want of memory, hooks that disconnect say so and
\* none connects again, hooks are told the header, every element of the first level,
\* once, complete and in order, and the end (tagHook, cdataHook, iks_recv).
THEOREM EventsInOrder ==
    ASSUME Orderly
    PROVE  Spec => []DeliversInOrder
<1>1. DInv => DeliversInOrder  BY WorldParts DEF DInv, Right, DeliversInOrder
<1>2. IInv /\ DInv /\ [Next]_vars => DInv'  BY NextDelivers
<1> QED BY <1>1, <1>2, InitDelivers, StreamStaysGood, PTL DEF Spec
=============================================================================
