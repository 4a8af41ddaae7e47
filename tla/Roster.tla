-------------------------------- MODULE Roster --------------------------------
(***************************************************************************)
(* tools/iksroster.c over the default transport: main, j_connect and its   *)
(* hooks.  Between the two, of the stream, is what other modules show of   *)
(* it: a stanza reaches on_stream when all its bytes came.  A message has  *)
(* two bytes, so that every send and receive may be partial.               *)
(***************************************************************************)
EXTENDS Transport

CONSTANTS
    Options,      \* command lines
    OptTimeout,   \* opt_timeout
    Offers        \* features a server may offer before and after a login

ASSUME RosterAssumption ==
    /\ OptTimeout \in Nat \ {0}
    /\ \A o \in Options : (o.from \/ o.to) /\ (o.to => o.from \/ o.file)

VARIABLES
    pc,        \* where main and j_connect are; "done" and "failed" are exits
    opts,      \* the command line
    jobs,      \* sessions to come
    sess,      \* struct session
    lib,       \* of the stream: secure, waiting for TLS, bytes of a stanza, sends to come
    roster,    \* my_roster: whose
    file,      \* whose roster the file holds
    server     \* what it has read, whether it knows the user, the rosters it keeps

roster_vars == <<pc, opts, jobs, sess, lib, roster, file, server>>
vars == <<transport, roster_vars>>

None == "none"

\* An iq or another element; a name stands for the type of an iq, too.
Msg(name) == [name |-> name, id |-> "", items |-> None, offers |-> {}]
Iq(name, id) == [Msg(name) EXCEPT !.id = id]
Bytes(m) == <<<<m, 1>>, <<m, 2>>>>
AllBytes(ms) == IF ms = <<>> THEN <<>> ELSE
    [i \in 1 .. 2 * Len(ms) |-> <<ms[(i + 1) \div 2], IF i % 2 = 1 THEN 1 ELSE 2>>]

-----------------------------------------------------------------------------
(* The hooks.  What a message does: to the session, to what is sent, to    *)
(* my_roster, and whether the program fails.                               *)

Say(e, ms) == [e EXCEPT !.todo = @ \o ms]

Done(e) == [e EXCEPT !.sess.job_done = TRUE]

on_result(e) ==
    Say(e, <<IF e.sess.set_roster THEN [Iq("set", "roster") EXCEPT !.items = e.roster]
             ELSE Iq("get", "roster")>>)

on_roster(e, m) == [Done(e) EXCEPT !.roster = m.items]

\* The rules of j_setup_filter; what matches none is dropped.
Filtered(e, m) ==
    CASE m = Iq("result", "auth")                    -> on_result(e)
      [] m = Iq("error", "auth")                     -> [e EXCEPT !.fails = TRUE]
      [] m.name = "result" /\ m.id = "roster"        -> on_roster(e, m)
      [] OTHER                                       -> e

on_header(e) ==
    IF opts.tls /\ ~lib.secure THEN Say(e, <<Msg("starttls")>>)
    ELSE IF ~opts.sasl THEN Say(e, <<Iq("login", "auth")>>) ELSE e

When(p, s) == IF p THEN s ELSE <<>>

on_features_insecure(e, offers) ==
    IF ~opts.sasl THEN e
    ELSE IF e.sess.authorized
         THEN Say(e, When("bind" \in offers, <<Msg("bind")>>)
                       \o When("session" \in offers, <<Iq("session", "auth")>>))
         ELSE Say(e, When(offers \cap {"md5", "plain"} # {}, <<Msg("sasl")>>))
on_features(e, offers) ==
    IF ~opts.sasl \/ (opts.tls /\ ~lib.secure) THEN e
    ELSE IF e.sess.authorized
         THEN Say(e, When("bind" \in offers, <<Msg("bind")>>)
                       \o When("session" \in offers, <<Iq("session", "auth")>>))
         ELSE Say(e, When(offers \cap {"md5", "plain"} # {}, <<Msg("sasl")>>))

on_success(e) == Say([e EXCEPT !.sess.authorized = TRUE], <<Msg("header")>>)

Told(e) == [e EXCEPT !.sess.counter = OptTimeout]

on_stream(e, m) ==
    CASE m.name = "header"                                -> on_header(e)
      [] m.name = "features"                              -> on_features(e, m.offers)
      [] m.name \in {"failure", "stream:error", "/stream"} -> [e EXCEPT !.fails = TRUE]
      [] m.name = "success"                               -> on_success(e)
      [] OTHER                                            -> Filtered(e, m)

\* What stream.c does itself: a TLS handshake, an answer to a SASL challenge.
Answers(e, m) ==
    CASE lib.trying /\ m.name = "proceed" ->
            {[Say(e, <<Msg("header")>>) EXCEPT !.secure = TRUE], [e EXCEPT !.fails = TRUE]}
      [] lib.trying /\ m.name = "failure" -> {[e EXCEPT !.fails = TRUE]}
      [] m.name = "challenge"             -> {Say(e, <<Msg("response")>>)}
      [] OTHER                            -> {on_stream(Told(e), m)}

-----------------------------------------------------------------------------
(* main and j_connect.                                                     *)

Stay == UNCHANGED <<opts, jobs, sess, lib, roster, file, server>>
Goto(l) == pc' = l
Fail == Goto("failed")

NewSessionGets(job) ==
    [set_roster |-> FALSE, authorized |-> FALSE, job_done |-> FALSE, counter |-> 0]
NewSession(job) ==
    [set_roster |-> job = "restore", authorized |-> FALSE, job_done |-> FALSE, counter |-> 0]
NewLib == [secure |-> FALSE, trying |-> FALSE, part |-> <<>>, todo |-> <<>>]

ReadFile ==
    /\ pc = "load" /\ call = Idle
    /\ \/ Fail /\ UNCHANGED roster
       \/ file # None /\ roster' = file /\ Goto("main")
    /\ UNCHANGED <<transport, opts, jobs, sess, lib, file, server>>

Connect ==
    /\ pc = "main" /\ jobs # <<>> /\ CallConnect /\ Goto("connect")
    /\ sess' = NewSession(Head(jobs)) /\ lib' = NewLib
    /\ server' = [server EXCEPT !.read = <<>>, !.knows = FALSE]
    /\ UNCHANGED <<opts, jobs, roster, file>>

Greet ==
    /\ pc = "connect" /\ call = Idle
    /\ IF ret = "OK" THEN CallSend(Bytes(Msg("header"))) /\ Goto("greet")
       ELSE UNCHANGED transport /\ Fail
    /\ Stay

Greeted ==
    /\ pc = "greet" /\ call = Idle
    /\ IF ret = "OK" THEN Goto("poll") /\ sess' = [sess EXCEPT !.counter = OptTimeout]
       ELSE Fail /\ UNCHANGED sess
    /\ UNCHANGED <<transport, opts, jobs, lib, roster, file, server>>

\* iks_recv, its first read and the next.
Poll == pc = "poll" /\ CallRecv /\ Goto("recv") /\ Stay

\* Nothing came: iks_recv returns IKS_OK, and that counts down.
ReceivedUncounted ==
    /\ pc = "recv" /\ call = Idle
    /\ CASE ret = "DATA"    -> Goto("parse") /\ lib' = [lib EXCEPT !.part = @ \o buf]
         [] ret = "NOTHING" -> Goto("poll") /\ UNCHANGED lib
         [] OTHER           -> Fail /\ UNCHANGED lib
    /\ UNCHANGED <<transport, opts, jobs, sess, roster, file, server>>
Received ==
    /\ pc = "recv" /\ call = Idle
    /\ CASE ret = "DATA"    -> Goto("parse") /\ lib' = [lib EXCEPT !.part = @ \o buf] /\ UNCHANGED sess
         [] ret = "NOTHING" -> /\ sess' = [sess EXCEPT !.counter = @ - 1] /\ UNCHANGED lib
                               /\ IF sess.counter = 1 THEN Fail ELSE Goto("poll")
         [] OTHER           -> Fail /\ UNCHANGED <<sess, lib>>
    /\ UNCHANGED <<transport, opts, jobs, roster, file, server>>

Parsing == pc = "parse" /\ lib.todo = <<>>

\* on_stream returned IKS_HOOK, or all of the buffer is parsed.
NeedMore ==
    /\ Parsing /\ ~sess.job_done /\ Len(lib.part) < 2 /\ Goto("poll")
    /\ UNCHANGED transport /\ Stay

Parse ==
    /\ Parsing /\ ~sess.job_done /\ Len(lib.part) >= 2
    /\ \E e \in Answers([sess |-> sess, todo |-> <<>>, roster |-> roster, secure |-> lib.secure,
                         fails |-> FALSE], lib.part[1][1]) :
           /\ sess' = e.sess /\ roster' = e.roster
           /\ lib' = [secure |-> e.secure, trying |-> lib.trying /\ e.secure = lib.secure,
                      part |-> SubSeq(lib.part, 3, Len(lib.part)), todo |-> e.todo]
           /\ IF e.fails THEN Fail ELSE UNCHANGED pc
    /\ UNCHANGED <<transport, opts, jobs, file, server>>

Send ==
    /\ pc = "parse" /\ lib.todo # <<>>
    /\ CallSend(Bytes(Head(lib.todo))) /\ Goto("send") /\ Stay

\* Nobody looks at the result but iks_start_tls.
Sent ==
    /\ pc = "send" /\ call = Idle /\ Goto("parse")
    /\ lib' = [lib EXCEPT !.todo = Tail(@),
                          !.trying = @ \/ (Head(lib.todo).name = "starttls" /\ ret = "OK")]
    /\ UNCHANGED <<transport, opts, jobs, sess, roster, file, server>>

\* iks_parser_delete, then iks_save in main.
Finish ==
    /\ Parsing /\ sess.job_done
    /\ Close /\ jobs' = Tail(jobs)
    /\ IF Head(jobs) = "backup" /\ opts.file
       THEN (file' = roster /\ Goto("main")) \/ (Fail /\ UNCHANGED file)
       ELSE Goto("main") /\ UNCHANGED file
    /\ UNCHANGED <<opts, sess, lib, roster, server>>

Exit == pc = "main" /\ jobs = <<>> /\ Goto("done") /\ UNCHANGED transport /\ Stay

System == pc \notin {"done", "failed"} /\ SystemCall /\ UNCHANGED roster_vars

Program ==
    \/ ReadFile \/ Connect \/ Greet \/ Greeted \/ Poll \/ Received \/ NeedMore \/ Parse
    \/ Send \/ Sent \/ Finish \/ Exit \/ System

-----------------------------------------------------------------------------
(* The server (external), as the protocol has it.  It may refuse, and keep *)
(* silent or close at any time.                                            *)

Connected == pc \notin {"main", "load", "connect", "done", "failed"}

Features(s) == [Msg("features") EXCEPT !.offers = s]

StreamError == <<Msg("stream:error"), Msg("/stream")>>

Replies(m) == {StreamError} \cup
    CASE m.name = "header"   -> {<<Msg("header"), Features(s)>> :
                                    s \in IF server.knows THEN Offers.after ELSE Offers.before}
      [] m.name = "starttls" -> {<<Msg("proceed")>>, <<Msg("failure")>>}
      [] m.name = "sasl"     -> {<<Msg("challenge")>>, <<Msg("failure")>>}
      [] m.name = "response" -> {<<Msg("success")>>}
      [] m.name = "bind"     -> {<<Iq("result", "")>>}
      [] m.name \in {"login", "session"} -> {<<Msg("presence"), Iq("result", "auth")>>, <<Iq("error", "auth")>>}
      [] m.name = "get" -> {<<[Iq("result", "roster") EXCEPT !.items = server.rosters[Head(jobs)]]>>,
                            <<Iq("error", "roster")>>}
      [] m.name = "set" -> {<<Iq("result", "roster")>>, <<Iq("error", "roster")>>}

ServerReads ==
    /\ Connected
    /\ \E k \in 1 .. Len(up) :
           PeerTakes(k) /\ server' = [server EXCEPT !.read = @ \o SubSeq(up, 1, k)]
    /\ UNCHANGED <<pc, opts, jobs, sess, lib, roster, file>>

ServerAnswers ==
    /\ Connected /\ Len(server.read) >= 2
    /\ LET m == server.read[1][1]
       IN  \E r \in Replies(m) :
             /\ PeerGives(AllBytes(r))
             /\ server' = [read    |-> SubSeq(server.read, 3, Len(server.read)),
                           knows   |-> server.knows \/ m.name = "response",
                           rosters |-> IF m.name = "set" /\ r[1].name = "result"
                                       THEN [server.rosters EXCEPT ![Head(jobs)] = m.items]
                                       ELSE server.rosters]
    /\ UNCHANGED <<pc, opts, jobs, sess, lib, roster, file>>

ServerCloses == Connected /\ PeerCloses /\ UNCHANGED roster_vars

Init ==
    /\ TransportInit
    /\ opts \in Options
    /\ jobs = When(opts.from, <<"backup">>) \o When(opts.to, <<"restore">>)
    /\ pc = IF opts.from THEN "main" ELSE "load"
    /\ sess = NewSession("backup") /\ lib = NewLib /\ roster = None
    /\ file = IF opts.from THEN None ELSE "saved"
    /\ server = [read |-> <<>>, knows |-> FALSE,
                 rosters |-> [backup |-> "mine", restore |-> "old"]]

Next == Program \/ ServerReads \/ ServerAnswers \/ ServerCloses

Spec == Init /\ [][Next]_vars

\* A program goes on; a server reads what it is sent, whatever it says to it.
FairSpec == Spec /\ WF_vars(Program) /\ WF_vars(ServerReads)

-----------------------------------------------------------------------------
(* Properties.                                                             *)

\* A roster that was taken from one account or a file is, when the program ends with
\* success, the roster of the other account, and the file holds what was downloaded
\* (main, on_result, on_roster).
RestoresBackup ==
    pc = "done" =>
        /\ opts.to => server.rosters.restore = (IF opts.from THEN "mine" ELSE "saved")
        /\ opts.from /\ opts.file => file = "mine"
        /\ server.rosters.backup = "mine"

\* With -s a login, and the roster, are only sent through TLS.
NothingInClear ==
    opts.tls /\ ~lib.secure /\ Connected =>
        \A i \in 1 .. Len(call.left) : call.left[i][1].name \in {"header", "starttls"}

\* The program ends, with success or an error, whether the server answers, refuses,
\* keeps silent or closes (main, on_stream): it counts down the polls between stanzas.
\* The server modelled says a finite number of them.
SessionEnds == <>(pc \in {"done", "failed"})
=============================================================================
