------------------------------ MODULE Packets -------------------------------
(***************************************************************************)
(* The packets of src/src/jabber.c, as trees of nodes: what iks_make_...   *)
(* builds, and what iks_packet and iks_stream_features read.  The packet   *)
(* is the first node of its heap.                                          *)
(***************************************************************************)
EXTENDS IksHeap, TLC

-----------------------------------------------------------------------------
(* Making: a string that is NULL adds nothing.                             *)

Element(name) == <<TagNode(name)>>
WithType(h, t)    == IF t = NoString THEN h ELSE InsertedAttrib(h, 1, "type", t)
WithTo(h, to)     == IF to = NoString THEN h ELSE InsertedAttrib(h, 1, "to", to)
WithText(h, x, t) == IF t = NoString THEN h ELSE InsertedText(h, x, t)
WithChild(h, x, name, t) == WithText(InsertedTag(h, x, name), Made(h), t)
WithChildIf(h, x, name, t) == IF t = NoString THEN h ELSE WithChild(h, x, name, t)

\* The name of a type, among those the function knows.
Known(type, types) == IF type \in types THEN type ELSE NoString

Asks  == {"subscribe", "subscribed", "unsubscribe", "unsubscribed"}
Shows == {"chat", "away", "xa", "dnd"}

iks_make_msg(type, to, body) ==
    WithChildIf(WithTo(WithType(Element("message"), Known(type, {"chat", "groupchat", "headline"})), to),
                1, "body", body)

iks_make_s10n(type, to, msg) ==
    WithChildIf(WithTo(WithType(Element("presence"), Known(type, Asks \cup {"probe"})), to),
                1, "status", msg)

iks_make_pres(show, status) ==
    LET x == WithType(Element("presence"), IF show = "unavailable" THEN show ELSE NoString)
    IN  WithChildIf(WithChildIf(x, 1, "show", Known(show, Shows)), 1, "status", status)

\* A child of the iq with a namespace; it is the node Made names.
Request(x, name, xmlns) == InsertedAttrib(InsertedTag(x, 1, name), Made(x), "xmlns", xmlns)

iks_make_iq(type, xmlns) ==
    Request(WithType(Element("iq"), Known(type, {"get", "set", "result", "error"})), "query", xmlns)

SetRequest == WithType(Element("iq"), "set")
iks_make_session == Request(SetRequest, "session", "xmpp-session")

iks_make_resource_bind(resource) ==
    LET h == Request(SetRequest, "bind", "xmpp-bind")
    IN  IF resource \in {NoString, ""} THEN h ELSE WithChild(h, Made(SetRequest), "resource", resource)

\* The digest, by what is hashed.
Digest(sid, pass) == "sha(" \o sid \o pass \o ")"
iks_make_auth(user, resource, pass, sid) ==
    LET q == Made(SetRequest)
        h == WithChild(WithChild(Request(SetRequest, "query", "jabber:iq:auth"), q, "username", user),
                       q, "resource", resource)
    IN  IF sid # NoString THEN WithChild(h, q, "digest", Digest(sid, pass))
        ELSE WithChild(h, q, "password", pass)

-----------------------------------------------------------------------------
(* Reading.                                                                *)

\* What memset leaves, with the type of packet.
Pak(h, type) ==
    [type |-> type, subtype |-> NoString, show |-> "unavailable", ns |-> NoString, query |-> NULL,
     from |-> FindAttrib(h, 1, "from"), id |-> FindAttrib(h, 1, "id")]

MessagePak(h, type) ==
    [Pak(h, "message") EXCEPT !.subtype = Known(type, {"chat", "groupchat", "headline", "error"})]

ShowOf(h) == LET show == FindCData(h, 1, "show") IN IF show \in Shows THEN show ELSE "available"
PresencePak(h, type) ==
    CASE type = NoString -> [Pak(h, "presence") EXCEPT !.subtype = "available", !.show = ShowOf(h)]
      [] type \in {"unavailable", "probe"} -> [Pak(h, "presence") EXCEPT !.subtype = type]
      [] OTHER -> [Pak(h, "s10n") EXCEPT !.subtype = Known(type, Asks \cup {"error"})]

\* The first child element that has a namespace.
Query(h) ==
    FirstOr(SelectSeq(TagsOf(h, Chain(h, Child(h, 1), "next")),
                      LAMBDA q : FindAttrib(h, q, "xmlns") # NoString), NULL)
IqPak(h, type) ==
    LET pak == [Pak(h, "iq") EXCEPT !.subtype = Known(type, {"get", "set", "result", "error"}),
                                    !.query = Query(h)]
    IN  IF pak.query = NULL THEN pak ELSE [pak EXCEPT !.ns = FindAttrib(h, pak.query, "xmlns")]

iks_packet(h) ==
    LET type == FindAttrib(h, 1, "type")
    IN  CASE h[1].name = "message"  -> MessagePak(h, type)
          [] h[1].name = "presence" -> PresencePak(h, type)
          [] h[1].name = "iq"       -> IqPak(h, type)
          [] OTHER                  -> Pak(h, NoString)

ChildrenFrom(h, x) == Chain(h, x, "next")
\* The child x, whatever it is, and the elements behind it.
TagsFrom(h, x) == IF x = NULL THEN <<>> ELSE <<x>> \o TagsOf(h, Chain(h, h[x].next, "next"))

\* The bits of a feature or a mechanism, as a set of names.
iks_sasl_mechanisms(h, x) ==
    {NodeCData(h, Child(h, y)) : y \in ToSet(TagsFrom(h, x))} \cap {"DIGEST-MD5", "PLAIN"}

Feature(h, x) ==
    CASE NodeName(h, x) \in {"starttls", "bind", "session"} -> {NodeName(h, x)}
      [] NodeName(h, x) = "mechanisms" -> iks_sasl_mechanisms(h, Child(h, x))
      [] OTHER -> {}
iks_stream_features(h) ==
    IF NodeName(h, 1) # "stream:features" THEN {}
    ELSE UNION {Feature(h, y) : y \in ToSet(TagsFrom(h, Child(h, 1)))}
-----------------------------------------------------------------------------
(* What a stanza says and what is read from it.                            *)

\* The ways a packet arrives: the sender set it out with a space, the server told
\* who it is from.
SetOut(h) ==
    IF h[1].first = NULL THEN InsertedText(h, 1, " ")
    ELSE LinkBefore(Append(h, TextNode(" ")), h[1].first, Made(h))
Stamped(h)  == InsertedAttrib(InsertedAttrib(h, 1, "from", "who"), 1, "id", "which")
Arrivals(h) == {h, SetOut(h), Stamped(h), Stamped(SetOut(h))}

ReadAs(h, type, subtype) ==
    \A g \in Arrivals(h) :
        LET pak == iks_packet(g)
        IN  /\ pak.type = type /\ pak.subtype = subtype
            /\ pak.from # NoString <=> pak.id # NoString
            /\ pak.type # "iq" => pak.query = NULL

\* The child of an iq's query, and its text.
Asked(h, ns, child) ==
    LET pak == iks_packet(h)
    IN  IF pak.ns # ns THEN "no " \o ns
        ELSE IF Find(h, pak.query, child) = NULL THEN "no " \o child
        ELSE FindCData(h, pak.query, child)

\* A packet one client makes is the packet another one is told about.
PacketIsAsMade(to, text) ==
    /\ \A type \in {"chat", "groupchat", "headline", NoString} :
         ReadAs(iks_make_msg(type, to, text), "message", type)
    /\ \A type \in Asks : ReadAs(iks_make_s10n(type, to, text), "s10n", type)
    /\ ReadAs(iks_make_s10n("probe", to, text), "presence", "probe")
    /\ \A show \in Shows \cup {"available", "unavailable"} :
         /\ ReadAs(iks_make_pres(show, text), "presence",
                   IF show = "unavailable" THEN show ELSE "available")
         /\ \A g \in Arrivals(iks_make_pres(show, text)) : iks_packet(g).show = show
    /\ \A type \in {"get", "set", "result", "error"} :
         /\ ReadAs(iks_make_iq(type, "roster"), "iq", type)
         /\ \A g \in Arrivals(iks_make_iq(type, "roster")) : iks_packet(g).ns = "roster"

\* A server finds in a login what the client gave it: never the password where there
\* is a digest, and a resource to bind only where one was asked for.
LoginIsAsMade(to, text) ==
    LET auth == iks_make_auth("user", to, "secret", text)
    IN  \A g \in Arrivals(auth), b \in Arrivals(iks_make_resource_bind(to)), i \in Arrivals(iks_make_session) :
          /\ Asked(g, "jabber:iq:auth", "username") = "user"
          /\ Asked(g, "jabber:iq:auth", "resource") = to
          /\ Asked(g, "jabber:iq:auth", "password") = IF text = NoString THEN "secret" ELSE "no password"
          /\ Asked(g, "jabber:iq:auth", "digest") = IF text = NoString THEN "no digest" ELSE Digest(text, "secret")
          /\ Asked(b, "xmpp-bind", "resource") = IF to \in {NoString, ""} THEN "no resource" ELSE to
          /\ iks_packet(i).ns = "xmpp-session"

\* What a server sends: items are texts, elements and the list of mechanisms, each of
\* them a text or, when it is empty, an element without one.
ItemInserted(h, item) ==
    CASE item.kind = "text" -> InsertedText(h, 1, item.text)
      [] item.kind = "tag"  -> InsertedTag(h, 1, item.name)
      [] OTHER -> LET x == Made(h)
                  IN  FoldLeft(LAMBDA g, t : IF t = " " THEN InsertedText(g, x, t)
                                             ELSE WithChildIf(InsertedTag(g, x, "more"), x, "mechanism", t),
                               InsertedTag(h, 1, "mechanisms"), item.list)
StreamFeatures(items) == FoldLeft(ItemInserted, Element("stream:features"), items)

OfferedBy(item) ==
    CASE item.kind = "text" -> {}
      [] item.kind = "tag"  -> {item.name} \cap {"starttls", "bind", "session"}
      [] OTHER -> ToSet(item.list) \cap {"DIGEST-MD5", "PLAIN"}

\* The features read are those offered, whatever text stands between them; only a
\* text ahead of all elements that is the name of a feature passes for one.
FeaturesAreThoseOffered(items) ==
    LET ahead == IF items # <<>> /\ items[1].kind = "text" THEN {items[1].text} ELSE {}
    IN  iks_stream_features(StreamFeatures(items))
          = UNION {OfferedBy(items[k]) : k \in DOMAIN items} \cup (ahead \cap {"starttls", "bind", "session"})
=============================================================================
