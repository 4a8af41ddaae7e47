------------------------------ MODULE MCStream ------------------------------
(***************************************************************************)
(* Servers that speak XMPP.  A first burst answers the header; what comes  *)
(* after depends on what the client sends.                                 *)
(***************************************************************************)
EXTENDS Stream

O(name) == [kind |-> "open", name |-> name]
S(name) == [kind |-> "single", name |-> name]
C(name) == [kind |-> "close", name |-> name]
T(piece) == [kind |-> "text", name |-> piece]

Burst(msg, tokens) == [after |-> msg, tokens |-> tokens]

\* Mixed content, text in pieces, white space between stanzas, an error, an end.
Plain ==
    <<Burst("header", <<O(Header), O("message"), O("body"), T("a"), T("b"), S("x"), T("c"),
                        C("body"), C("message"), T("w"), S("presence")>>),
      Burst("stanza", <<O("iq"), T("d"), C("iq")>>),
      Burst("stanza", <<S("stream:error"), C(Header)>>)>>

\* Two challenges; a second header after success.
Sasl ==
    <<Burst("header", <<O(Header), S("stream:features")>>),
      Burst("auth", <<O("challenge"), T("a"), C("challenge")>>),
      Burst("response", <<O("challenge"), T("b"), C("challenge")>>),
      Burst("response", <<S("success")>>),
      Burst("header", <<O(Header), O("stream:features"), S("bind"), C("stream:features")>>)>>

WithTls(answer) ==
    <<Burst("header", <<O(Header), S("stream:features")>>),
      Burst("starttls", answer),
      Burst("header", <<O(Header), O("message"), T("a"), C("message"), C(Header)>>)>>

StartsTls   == WithTls(<<S("proceed")>>)
RefusesTls  == WithTls(<<S("failure")>>)
StartsTlsInTwoTags == WithTls(<<O("proceed"), C("proceed")>>)

Short == <<Burst("header", <<O(Header), S("presence"), O("message"), T("a"), C("message"),
                             [kind |-> "bad", name |-> ""]>>)>>

SessionPeers == {Plain, Sasl, StartsTls, RefusesTls}
ShortPeers == {Short, StartsTls, RefusesTls}
PlainPeer == {Plain}
ShortPeer == {Short}
TlsPeer == {StartsTls}
TwoTagPeer == {StartsTlsInTwoTags}
=============================================================================
