------------------------------- MODULE Stream -------------------------------
(***************************************************************************)
(* The XMPP stream of src/src/stream.c between a transport, the SAX parser *)
(* and an application.  One step is one call of tagHook or cdataHook, with *)
(* everything the application's hook does inside it, one read of iks_recv  *)
(* or one call of the application.                                         *)
(*                                                                         *)
(* The peer answers to what it is sent, a burst of tokens at a time; the   *)
(* transport hands the tokens over in buffers of any size.  Using memory   *)
(* that is not there adds its kind to ub.                                  *)
(***************************************************************************)
EXTENDS Stanzas

CONSTANTS
    Peers,         \* what a server says: bursts [after |-> message, tokens |-> ...]
    HookActs,      \* what the stream hook may do
    Connects,      \* ways of connecting: "tcp", "async", "fd"
    Tls,           \* TLS back end of the build: "none", "gnutls", "openssl"
    SendMayFail, TreeMayFail, PeerMayClose,
    MaxConnects    \* bound: number of connections

Acts == {"ok", "error", "send", "greet", "starttls", "auth", "quit", "disconnect", "reconnect"}

Kinds  == {"open", "single", "close", "text", "bad"}
Bursts == [after : STRING, tokens : Seq([kind : Kinds, name : STRING])]

ASSUME StreamAssumption ==
    /\ Peers \subseteq Seq(Bursts)
    /\ HookActs \subseteq Acts /\ "ok" \in HookActs
    /\ Connects \subseteq {"tcp", "async", "fd"}
    /\ Tls \in {"none", "gnutls", "openssl"}
    /\ SendMayFail \in BOOLEAN /\ TreeMayFail \in BOOLEAN /\ PeerMayClose \in BOOLEAN
    /\ MaxConnects \in Nat

VARIABLES
    data,     \* struct stream_data
    net,      \* sockets and the peer of the current connection
    log,      \* of the current connection: tokens parsed, events told
    ub,       \* kinds of undefined behaviour met
    phase,    \* "app", in iks_recv ("recv"), in its iks_parse ("parse"), "deleted"
    ret,      \* result of the last call of the application
    buf,      \* what iks_parse still has before it
    bufSock   \* the socket it was read from

control == <<phase, ret, buf, bufSock>>
vars == <<data, net, log, ub, control>>

\* Connections, sockets and servers have the same numbers.
NULL == 0

\* Functions that call each other pass on the state they leave.
World == [d |-> data, n |-> net, log |-> log, ub |-> ub]
Become(w) == data' = w.d /\ net' = w.n /\ log' = w.log /\ ub' = w.ub

Result(w, r) == [w |-> w, ret |-> r]
Fault(w, kinds) == [w EXCEPT !.ub = @ \cup kinds]

-----------------------------------------------------------------------------
(* The node under construction.                                            *)

NoCurrent == [items |-> NoNode, depth |-> 0]
HasCurrent(d) == d.current.items # NoNode

NewNode(name) == [items |-> <<Element(0, name)>>, depth |-> 0]
IsRoot(x) == x.depth = 0
Parent(x) == [x EXCEPT !.depth = @ - 1]

InsertTag(x, name) ==
    [items |-> Append(x.items, Element(x.depth + 1, name)), depth |-> x.depth + 1]

\* iks_insert_cdata: behind a text, it is appended to that text.
LastIsText(x) == LET y == x.items[Len(x.items)] IN y.depth = x.depth + 1 /\ y.name = ""
InsertTextApart(x, t) == [x EXCEPT !.items = Append(@, Text(x.depth + 1, <<t>>))]
InsertText(x, t) ==
    IF LastIsText(x) THEN [x EXCEPT !.items[Len(x.items)].text = Append(@, t)]
    ELSE [x EXCEPT !.items = Append(@, Text(x.depth + 1, <<t>>))]

-----------------------------------------------------------------------------
(* Sending.                                                                *)

Secure(d) == "SECURE" \in d.flags

\* iks_send_raw and iks_recv use the TLS session or the transport.
Missing(d) == IF Secure(d) THEN (IF d.tls = NULL THEN {"tls"} ELSE {})
              ELSE (IF d.trans THEN {} ELSE {"transport"})

\* The next burst of the peer was waiting for this message.
Answered(n, msg) ==
    IF n.peer = "open" /\ n.script # <<>> /\ Head(n.script).after = msg
    THEN [n EXCEPT !.wire = @ \o Head(n.script).tokens, !.script = Tail(@)] ELSE n

SendRaw(w, msg) ==
    LET v == Fault(w, Missing(w.d))
    IN  {Result([v EXCEPT !.n = Answered(@, msg)], "OK")} \cup
        (IF SendMayFail THEN {Result(v, "RWERR")} ELSE {})

\* iks_send_header: the server's name is kept if the header could be sent.
SendHeaderFirstName(w, to) ==
    {IF o.ret = "OK" /\ w.d.server = NULL THEN [o EXCEPT !.w.d.server = to] ELSE o :
        o \in SendRaw(w, "header")}
SendHeader(w, to) ==
    {IF o.ret = "OK" THEN [o EXCEPT !.w.d.server = to] ELSE o : o \in SendRaw(w, "header")}

\* iks_start_tls.
StartTls(w) ==
    IF Tls = "none" THEN {Result(w, "NOTSUPP")}
    ELSE {IF o.ret = "OK" THEN [o EXCEPT !.w.d.flags = @ \cup {"TRY_SECURE"}] ELSE o :
            o \in SendRaw(w, "starttls")}

\* iks_start_sasl does not look at the result of iks_send.
StartSasl(w) == {[o EXCEPT !.ret = "OK"] : o \in SendRaw(w, "auth")}

-----------------------------------------------------------------------------
(* Connecting and disconnecting.                                           *)

\* deleteHook.
ForgetsFlags(d) == [d EXCEPT !.trans = FALSE, !.current = NoCurrent,
                             !.tls = IF Secure(d) THEN NULL ELSE @]
Cleared(d) == [d EXCEPT !.trans = FALSE, !.current = NoCurrent, !.flags = {},
                        !.tls = IF Secure(d) THEN NULL ELSE @]
ClosesPlainOnly(d) == d.trans /\ ~Secure(d)
Closes(d) == d.trans

DeleteHook(w) ==
    LET v == Fault(w, (IF Secure(w.d) /\ w.d.tls = NULL THEN {"tls"} ELSE {}) \cup
                      (IF Closes(w.d) /\ w.d.sock \notin w.n.opened THEN {"close"} ELSE {}))
    IN  [v EXCEPT !.d = Cleared(w.d),
                  !.n.opened = IF Closes(w.d) THEN @ \ {w.d.sock} ELSE @,
                  !.n.wire = IF w.d.trans THEN <<>> ELSE @,
                  !.n.peer = IF w.d.trans THEN "gone" ELSE @]

\* A new socket, connected to a peer that waits for the header.
WithSocket(w, way) ==
    {[w EXCEPT !.d.sock = w.n.conns + 1, !.d.trans = TRUE,
               !.d.flags = IF way = "fd" THEN @ \cup {"FOREIGN"} ELSE @,
               !.n = [conns   |-> w.n.conns + 1,
                      opened  |-> w.n.opened \cup {w.n.conns + 1},
                      foreign |-> w.n.foreign \cup (IF way = "fd" THEN {w.n.conns + 1} ELSE {}),
                      script |-> s, wire |-> <<>>, peer |-> "open", read |-> 0],
               !.log = [parsed |-> <<>>, told |-> <<>>]] : s \in Peers}

MayConnect(w) == w.n.conns < MaxConnects

ConnectWith(w) == UNION {SendHeader(v, v.d.sock) : v \in WithSocket(w, "tcp")}

\* iks_connect_async_with notes the server before the header is sent.
ConnectAsync(w) == {Result([v EXCEPT !.d.server = v.d.sock], "OK") : v \in WithSocket(w, "async")}

ConnectFd(w) == {Result(v, "OK") : v \in WithSocket(w, "fd")}

-----------------------------------------------------------------------------
(* The application's hook: one act inside the call.  It knows when it has  *)
(* disconnected and sends nothing then; it starts TLS once.                *)

Act(w, a) ==
    CASE a = "ok"    -> {Result(w, "OK")}
      [] a = "error" -> {Result(w, "HOOK")}
      [] a = "send"  -> IF w.d.trans
                        THEN {Result(o.w, "OK") : o \in SendRaw(w, "stanza")} ELSE {}
      [] a = "greet" -> IF w.d.trans
                        THEN {Result(o.w, "OK") : o \in SendHeader(w, w.d.sock)} ELSE {}
      [] a = "starttls" -> IF w.d.trans /\ w.d.flags \cap {"TRY_SECURE", "SECURE"} = {}
                           THEN {Result(o.w, "OK") : o \in StartTls(w)} ELSE {}
      [] a = "auth" -> IF w.d.trans THEN StartSasl(w) ELSE {}
      [] a = "quit"       -> {Result(DeleteHook(w), "HOOK")}
      [] a = "disconnect" -> {Result(DeleteHook(w), "OK")}
      [] a = "reconnect"  -> IF MayConnect(w)
                             THEN {Result(o.w, "OK") : o \in ConnectWith(DeleteHook(w))} ELSE {}

StreamHook(w, type, node) ==
    UNION {Act([w EXCEPT !.log.told = Append(@, Event(type, node))], a) : a \in HookActs}

-----------------------------------------------------------------------------
(* tagHook and cdataHook: one token of the buffer.                         *)

Token == Head(buf)
Parsing(kinds) == phase = "parse" /\ buf # <<>> /\ Token.kind \in kinds

Reading(t) == [World EXCEPT !.log.parsed = Append(@, t)]

\* A hook result other than IKS_OK ends iks_parse and iks_recv.
After(outcomes) ==
    \E o \in outcomes :
        /\ Become(o.w)
        /\ IF o.ret = "OK" THEN buf' = Tail(buf) /\ UNCHANGED <<phase, ret>>
           ELSE buf' = <<>> /\ phase' = "app" /\ ret' = o.ret
        /\ UNCHANGED bufSock

AwaitsTls == "TRY_SECURE" \in data.flags /\ Token.name \in {"proceed", "failure"}

\* What the peer says about TLS is no part of the stream.
TlsReading == Reading([Token EXCEPT !.kind = "tls"])

\* The header that opens the secure stream may fail: nobody looks.
TlsProceed ==
    /\ Parsing({"open", "single"}) /\ AwaitsTls /\ Token.name = "proceed"
    /\ LET w      == TlsReading
           secure == [w EXCEPT !.d.flags = (@ \ {"TRY_SECURE"}) \cup {"SECURE"},
                               !.d.tls = w.d.sock]
           failed == [w EXCEPT !.d.tls = NULL]
       IN  After({Result(o.w, "OK") : o \in SendHeader(secure, w.d.server)} \cup
                 {Result(failed, "TLSFAIL"), Result(failed, "NOMEM")})

TlsFailure ==
    /\ Parsing({"open", "single"}) /\ AwaitsTls /\ Token.name = "failure"
    /\ After({Result(TlsReading, "TLSFAIL")})

\* The element is complete: IKS_CLOSE at the root of current.  The name looked at
\* is that of the tag that ends it.
Completed(w, items) ==
    LET v == [w EXCEPT !.d.current = NoCurrent]
    IN  CASE Token.name = "challenge" ->
                {Result(v, "OK")} \cup {Result(o.w, "OK") : o \in SendRaw(v, "response")}
          [] Token.name = "stream:error" -> StreamHook(v, "ERROR", items)
          [] OTHER -> StreamHook(v, "NORMAL", items)

\* The case IKS_CLOSE of tagHook.
CloseTag(w) ==
    CASE ~HasCurrent(w.d) -> StreamHook(w, "STOP", NoNode)
      [] HasCurrent(w.d) /\ IsRoot(w.d.current) -> Completed(w, w.d.current.items)
      [] OTHER -> {Result([w EXCEPT !.d.current = Parent(@)], "OK")}

\* IKS_SINGLE falls through into IKS_CLOSE.
AfterOpen(w) == IF Token.kind = "single" THEN CloseTag(w) ELSE {Result(w, "OK")}

\* iks_new and iks_insert return NULL when memory is short.
NewNodes(x) == {x} \cup IF TreeMayFail THEN {NoCurrent} ELSE {}

StreamStart ==
    /\ Parsing({"open", "single"}) /\ ~AwaitsTls
    /\ ~HasCurrent(data) /\ Token.name = Header
    /\ After(UNION {StreamHook(Reading(Token), "START", x.items) : x \in NewNodes(NewNode(Header))})

StanzaStart ==
    /\ Parsing({"open", "single"}) /\ ~AwaitsTls
    /\ ~HasCurrent(data) /\ Token.name # Header
    /\ After(UNION {AfterOpen([Reading(Token) EXCEPT !.d.current = x]) :
                    x \in NewNodes(NewNode(Token.name))})

ChildStart ==
    /\ Parsing({"open", "single"}) /\ ~AwaitsTls /\ HasCurrent(data)
    /\ After(UNION {AfterOpen([Reading(Token) EXCEPT !.d.current = x]) :
                    x \in NewNodes(InsertTag(data.current, Token.name))})

Close == Parsing({"close"}) /\ After(CloseTag(Reading(Token)))

CData ==
    /\ Parsing({"text"})
    /\ LET w == Reading(Token)
       IN  After({Result(IF HasCurrent(data)
                         THEN [w EXCEPT !.d.current = InsertText(@, Token.name)] ELSE w, "OK")})

\* The parser refuses what it reads: iks_parse returns another result.
NotXml == Parsing({"bad"}) /\ After({Result(World, "BADXML")})

-----------------------------------------------------------------------------
(* iks_recv.                                                               *)

Back(r) == phase' = "app" /\ ret' = r /\ UNCHANGED <<buf, bufSock>>

\* The application polls while it is connected and nothing went wrong.
Recv ==
    /\ phase = "app" /\ ret = "OK" /\ data.trans
    /\ phase' = "recv"
    /\ UNCHANGED <<data, net, log, ub, ret, buf, bufSock>>

Use == ub' = ub \cup Missing(data) /\ UNCHANGED <<data, log>>

AllButLast(k) == SubSeq(net.wire, 1, k - 1)
Received(k) == SubSeq(net.wire, 1, k)

SslRead == Secure(data) /\ Tls = "openssl"

\* The openssl back end returns IKS_NET_RWERR, which is positive: a length of
\* bytes that some earlier read has left in the buffer.
ReadLeftovers ==
    /\ \E old \in {<<>>, <<[kind |-> "bad", name |-> ""]>>} : buf' = old
    /\ phase' = "parse" /\ bufSock' = data.sock /\ UNCHANGED ret

\* The default transport returns the length, and so does the gnutls back end;
\* the openssl back end returns IKS_OK, which is no data.
ReadData(k) ==
    /\ phase = "recv" /\ k <= Len(net.wire)
    /\ net' = [net EXCEPT !.wire = SubSeq(@, k + 1, Len(@)), !.read = @ + k]
    /\ IF SslRead THEN Back("OK")
       ELSE phase' = "parse" /\ buf' = Received(k) /\ bufSock' = data.sock /\ UNCHANGED ret
    /\ Use

\* Nothing arrived in time.
ReadNothing ==
    /\ phase = "recv" /\ net.wire = <<>> /\ net.peer = "open"
    /\ IF SslRead THEN ReadLeftovers ELSE Back("OK")
    /\ Use /\ UNCHANGED net

ReadErrorAsNothing == Back("OK")
ReadError == Back("RWERR")

\* The peer has closed the connection, what was on its way may be lost.  The
\* end of a TLS session is the length zero of gnutls_record_recv.
ReadClosed ==
    /\ phase = "recv" /\ net.peer = "closed"
    /\ CASE SslRead -> ReadLeftovers
         [] Secure(data) /\ ~SslRead -> ReadError \/ Back("OK")
         [] OTHER -> ReadError
    /\ Use /\ UNCHANGED net

\* The buffer is parsed: "stream hook called iks_disconnect", or read again.
ParseDone ==
    /\ phase = "parse" /\ buf = <<>>
    /\ IF data.trans THEN phase' = "recv" /\ UNCHANGED <<ret, buf, bufSock>>
       ELSE Back("NOCONN")
    /\ UNCHANGED <<data, net, log, ub>>

-----------------------------------------------------------------------------
(* The application and the peer.                                           *)

Calling(outcomes) ==
    /\ phase = "app"
    /\ \E o \in outcomes : Become(o.w) /\ ret' = o.ret
    /\ UNCHANGED <<phase, buf, bufSock>>

\* iks_connect_with and its like; nothing changes if the connection is refused.
Connect(way) ==
    /\ ~data.trans /\ MayConnect(World)
    /\ Calling((CASE way = "tcp"   -> ConnectWith(World)
                  [] way = "async" -> ConnectAsync(World)
                  [] way = "fd"    -> ConnectFd(World)) \cup {Result(World, "NOCONN")})

\* iks_send_header, on connections that were made without it.
Greet == /\ data.trans /\ ret = "OK" /\ log.parsed = <<>>
         /\ Calling(SendHeader(World, data.sock))

Send == /\ data.trans /\ ret = "OK"
        /\ Calling(SendRaw(World, "stanza"))

\* iks_start_tls and iks_start_sasl from outside a hook.
AskForTls  == /\ data.trans /\ ret = "OK" /\ data.flags \cap {"TRY_SECURE", "SECURE"} = {}
              /\ Calling(StartTls(World))
AskForSasl == /\ data.trans /\ ret = "OK"
              /\ Calling(StartSasl(World))

\* iks_disconnect is iks_parser_reset, which calls deleteHook first.
Disconnect == Calling({Result(DeleteHook(World), "OK")})

Delete ==
    /\ phase = "app" /\ phase' = "deleted"
    /\ Become(DeleteHook(World))
    /\ UNCHANGED <<ret, buf, bufSock>>

PeerClose ==
    /\ PeerMayClose /\ net.peer = "open"
    /\ net' = [net EXCEPT !.peer = "closed", !.script = <<>>]
    /\ UNCHANGED <<data, log, ub, control>>

\* iks_stream_new.
Init ==
    /\ data = [trans |-> FALSE, sock |-> NULL, server |-> NULL, flags |-> {},
               tls |-> NULL, current |-> NoCurrent]
    /\ net = [conns |-> 0, opened |-> {}, foreign |-> {}, script |-> <<>>, wire |-> <<>>,
              peer |-> "gone", read |-> 0]
    /\ log = [parsed |-> <<>>, told |-> <<>>]
    /\ ub = {} /\ phase = "app" /\ ret = "OK" /\ buf = <<>> /\ bufSock = NULL

Library == \/ TlsProceed \/ TlsFailure \/ StreamStart \/ StanzaStart \/ ChildStart
           \/ Close \/ CData \/ NotXml
           \/ \E k \in 1 .. Len(net.wire) : ReadData(k)
           \/ ReadNothing \/ ReadClosed \/ ParseDone

Next == \/ Library \/ Recv
        \/ \E way \in Connects : Connect(way)
        \/ Greet \/ Send \/ AskForTls \/ AskForSasl \/ Disconnect \/ Delete
        \/ PeerClose

Spec == Init /\ [][Next]_vars

\* The library runs, and the application polls (tools/iksroster.c, j_connect).
FairSpec == Spec /\ WF_vars(Library) /\ WF_vars(Recv)

-----------------------------------------------------------------------------
(* Properties.                                                             *)

Results == {"OK", "HOOK", "BADXML", "NOMEM", "NOCONN", "RWERR", "NOTSUPP", "TLSFAIL"}
Types == {"START", "NORMAL", "ERROR", "STOP"}

TypeOK ==
    /\ data.trans \in BOOLEAN /\ data.current.depth \in Nat
    /\ data.flags \subseteq {"FOREIGN", "TRY_SECURE", "SECURE"}
    /\ {data.sock, data.server, data.tls, bufSock} \subseteq 0 .. net.conns
    /\ net.conns \in 0 .. MaxConnects
    /\ net.foreign \cup net.opened \subseteq 1 .. net.conns
    /\ net.peer \in {"open", "closed", "gone"} /\ net.read \in Nat
    /\ \A i \in 1 .. Len(buf) : buf[i].kind \in Kinds
    /\ \A i \in 1 .. Len(log.told) : log.told[i].type \in Types
    /\ phase \in {"app", "recv", "parse", "deleted"} /\ ret \in Results
    /\ ub \subseteq {"tls", "transport", "close"}

\* However the stream is cut into buffers, and whatever hooks do, they are told
\* its header, its first level elements, each once, complete and in order, and
\* its end (tagHook, cdataHook, iks_recv).
DeliversInOrder == log.told = Events(log.parsed)

\* No function is called through a NULL transport or TLS session, and no socket
\* is closed that is not open (iks_send_raw, iks_recv, deleteHook).
NoUndefinedBehaviour == ub = {}

\* While the stream has a transport it has one open socket, and otherwise none:
\* every socket it opened is closed once (iks_connect_with, deleteHook).
OneSocket ==
    net.opened \ net.foreign = IF data.trans THEN {data.sock} \ net.foreign ELSE {}

\* A TLS session belongs to the current socket, to a server the header of this
\* connection has named; without SECURE there is none (tagHook, deleteHook,
\* iks_send_header).
SessionOfThisConnection ==
    IF Secure(data) THEN data.trans /\ data.tls = data.sock /\ data.server = data.sock
    ELSE data.tls = NULL

\* "waits until some data arrives from server, and process the data": what was
\* read has been parsed when iks_recv returns IKS_OK.
ReadIsProcessed ==
    phase = "app" /\ ret = "OK" /\ data.trans => Len(log.parsed) = net.read

\* An application that polls learns that the peer has closed a connection in
\* the clear: iks_recv does not answer IKS_OK for ever (its transport's recv
\* tells a closed connection from silence).
CloseNoticed ==
    data.trans /\ net.peer = "closed" ~>
        ~data.trans \/ ret # "OK" \/ phase = "deleted" \/ Secure(data)

\* IKS_NODE_STOP: "</stream:stream> tag is received or connection is closed".
StopMeansEnd ==
    \A i \in 1 .. Len(log.told) : log.told[i].type = "STOP" =>
        net.peer # "open" \/ \E k \in 1 .. Len(log.parsed) : IsEnd(log.parsed, k)

\* The same sentence: when the connection is closed the hook gets IKS_NODE_STOP.
CloseIsToldAsStop ==
    phase = "app" /\ ret = "RWERR" /\ net.peer = "closed" /\ ~SendMayFail =>
        \E i \in 1 .. Len(log.told) : log.told[i].type = "STOP"

\* iks_connect_fd: "opening and closing of the socket is up to your application".
ForeignStaysOpen == net.foreign \subseteq net.opened

\* iks_disconnect "closes connection to the server", and iks_recv "checks if
\* iks_disconnect called during parsing": the hook is told nothing of a
\* connection that is no longer there.
ToldOfThisConnection ==
    [][log'.told # log.told /\ net'.conns = net.conns => data.trans /\ bufSock = data.sock]_vars
=============================================================================
