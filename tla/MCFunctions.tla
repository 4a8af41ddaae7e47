----------------------------- MODULE MCFunctions -----------------------------
(***************************************************************************)
(* The pure functions of the library, each over its own bounded inputs.    *)
(* The UTF-8 validator of sax_core is fed a byte at a time: a code point   *)
(* is written with some number of bytes, shortest or not, and read back.   *)
(***************************************************************************)
EXTENDS Utf8, Base64, Escape, Jabber, Digest

CONSTANT CodePoints, Inputs

P == INSTANCE Packets
L == INSTANCE Lint WITH TagSize <- 2, Buckets <- 2

VARIABLES input, todo, u, verdict
vars == <<input, todo, u, verdict>>

\* The code point as a sequence of k bytes.
Fits(p, k) == IF k = 1 THEN p < 128 ELSE p \div 64^(k - 1) < 2^(7 - k)
Written8(p, k) ==
    IF k = 1 THEN <<p>>
    ELSE [i \in 1 .. k |-> IF i = 1 THEN 256 - 2^(8 - k) + (p \div 64^(k - 1))
                           ELSE 128 + ((p \div 64^(k - i)) % 64)]
IsShortest(p, k) == k = 1 \/ ~Fits(p, k - 1)

Init ==
    /\ u = UniInit
    /\ \/ \E p \in CodePoints, k \in 1 .. 6 :
            /\ Fits(p, k) /\ input = [kind |-> "utf8", cp |-> p, size |-> k]
            /\ todo = Written8(p, k) /\ verdict = "reading"
       \/ input \in Inputs /\ todo = <<>> /\ verdict = "none"

Feed ==
    /\ verdict = "reading" /\ todo # <<>>
    /\ IF UniBad(u, Head(todo))
       THEN verdict' = "bad" /\ u' = UniAfterBad(u, Head(todo))
       ELSE /\ u' = UniStep(u, Head(todo))
            /\ verdict' = IF InSequence(u') THEN "reading" ELSE "accepted"
    /\ todo' = Tail(todo) /\ UNCHANGED input

Spec == Init /\ [][Feed]_vars

-----------------------------------------------------------------------------
\* "Security check: avoid overlong sequences" (sax.c): every shortest encoding passes
\* the validator and takes exactly its bytes; no longer one passes, but for the last
\* code point of each length from two bytes on, in one byte too many: the code's
\* limits are compared with < where <= would keep the promise.
LastOfLength(p, k) == k >= 2 /\ Fits(p, k) /\ ~Fits(p + 1, k)
ShortestIsAccepted ==
    input.kind = "utf8" =>
        IF IsShortest(input.cp, input.size)
        THEN verdict # "bad" /\ (verdict = "accepted" <=> todo = <<>>)
        ELSE verdict = "accepted" => LastOfLength(input.cp, input.size - 1)

\* A string of 7-bit bytes is what iks_base64_decode makes of its encoding, and the
\* encoding, its padding and its NUL fit the block allocated for them.
Base64RoundTrip == input.kind = "base64" => RoundTrip(input.text) /\ FitsBlock(input.text)

\* iks_unescape undoes iks_escape, whose first pass measures the block its second
\* pass fills.
UnescapeUndoesEscape == input.kind = "escape" => EscapeRoundTrip(input.text) /\ EscapeFits(input.text)

\* iks_id_new finds the parts an identifier was made of, so iks_id_cmp tells whether
\* two identifiers have the same text.
IdsAgreeWithTexts == input.kind = "jid" => PartsOfText(input.p) /\ CompareTellsTexts(input.p, input.q)

\* iks_packet recognises what the iks_make functions make, on its way through a
\* server, and iks_stream_features reads what the server offers.
StanzasRead ==
    /\ input.kind = "packet" => P!PacketIsAsMade(input.to, input.text) /\ P!LoginIsAsMade(input.to, input.text)
    /\ input.kind = "features" => P!FeaturesAreThoseOffered(input.items)

\* ikslint passes what is well-formed and tells about it.
LintJudges == input.kind = "lint" => L!JudgesDocuments(input.files)

\* SHA-1 and MD5 get the padded blocks of the message, however it is cut.
DigestBlocks == input.kind = "digest" => ShaPads(input.calls) /\ Md5Pads(input.calls, input.long)

-----------------------------------------------------------------------------
(* Inputs.                                                                 *)

\* The code points next to every change of length.
Boundaries == {127, 128, 1000, 2046, 2047, 2048, 4095, 4096, 40000, 65534, 65535, 65536,
               1114111, 2097150, 2097151, 2097152, 60000000,
               67108862, 67108863, 67108864} \cup 1 .. 3

Strings(bytes, n) == UNION {[1 .. k -> bytes] : k \in 0 .. n}

SevenBit == Strings({1, 62, 127}, 4) \cup {[k \in 1 .. n |-> 11 * k + 5] : n \in 0 .. 10}
AnyByte  == Strings({200}, 1)
Ascii    == {[kind |-> "base64", text |-> s] : s \in SevenBit}
Latin    == {[kind |-> "base64", text |-> s] : s \in AnyByte}

Texts == {[kind |-> "escape", text |-> s] : s \in Strings({"&", "<", "'", "l", "t", ";"}, 4)}

Users     == {NoString, <<"a">>, <<"A">>, <<"b", "a">>}
Servers   == {<<"a">>, <<"b">>}
Resources == {NoString, <<>>, <<"a">>, <<"@", "/", "a">>}
Parts     == [user : Users, server : Servers, resource : Resources]
Jids      == {[kind |-> "jid", p |-> p, q |-> q] : p \in Parts, q \in Parts}

Packets == {[kind |-> "packet", to |-> to, text |-> text] : to \in {P!NoString, "", "to"}, text \in {P!NoString, "text"}}

\* Texts apart from each other, as a parser makes them.
Item(kind, field, x) == (field :> x) @@ [kind |-> kind]
Items == {Item("text", "text", t) : t \in {" ", "bind", "mechanisms"}}
           \cup {Item("tag", "name", n) : n \in {"starttls", "bind", "session", "compression"}}
           \cup {Item("mechanisms", "list", l) :
                    l \in {<<>>, <<"PLAIN">>, <<" ", "DIGEST-MD5">>, <<"PLAIN", " ", P!NoString>>,
                           <<P!NoString, "SCRAM", "DIGEST-MD5", "PLAIN">>}}
Offers == {[kind |-> "features", items |-> s] :
             s \in {s \in Strings(Items, 3) : \A k \in 1 .. Len(s) - 1 : {s[k].kind, s[k + 1].kind} # {"text"}}}

\* Documents of events on two names in one bucket and one in another.
Event(type, name, len) == [type |-> type, name |-> name, len |-> len]
OnTags  == {Event(type, name, 0) : type \in {"OPEN", "CLOSE"}, name \in {<<1>>, <<1, 2>>}}
OnOther == {Event("SINGLE", <<2>>, 0), Event("CDATA", <<>>, 2), Event("BADXML", <<>>, 0)}
\* Three tags inside each other, repeated ones, and whatever follows.
Nested == {<<Event("OPEN", <<1>>, 0), Event("OPEN", <<1, 2>>, 0), Event("OPEN", <<1>>, 0)>> \o s : s \in Strings(OnTags, 3)}
Documents == {<<d>> : d \in Nested \cup Strings(OnTags \cup OnOther, 4)}
               \cup {<<d, e>> : d \in Strings(OnTags \cup OnOther, 2), e \in Strings(OnTags, 2)}
Lints == {[kind |-> "lint", files |-> d] : d \in Documents}

\* Calls with any number of bytes, each byte a number of its own.
Piece(from, n) == [k \in 1 .. n |-> from + k]
Messages == {[kind |-> "digest", calls |-> <<Piece(0, i), Piece(i, j), Piece(i + j, k)>>, long |-> long] :
               i \in {0, 1, 5, 7, 8}, j \in 0 .. 9, k \in 0 .. 9, long \in {Word, Word * Word}}

SomeInputs == Ascii \cup Texts \cup Jids \cup Packets \cup Offers \cup Lints \cup Messages
=============================================================================
