------------------------------- MODULE Jabber -------------------------------
(***************************************************************************)
(* src/src/jabber.c: Jabber identifiers, as sequences of characters.       *)
(***************************************************************************)
EXTENDS Integers, Sequences, SequencesExt

NoString == <<"NULL">>

-----------------------------------------------------------------------------
Scheme == "jabber:"       \* the prefix, as one character

\* iks_stack_strdup: a length of zero stands for all of the string.
Dup(src, len) == IF len = 0 THEN src ELSE SubSeq(src, 1, len)

After(src, i) == SubSeq(src, i + 1, Len(src))

\* strchr, 0 for NULL.
Place(src, c) == SelectInSeq(src, LAMBDA x : x = c)

iks_id_new(jid) ==
    LET full    == IF jid # <<>> /\ jid[1] = Scheme THEN Tail(jid) ELSE jid
        slash   == Place(full, "/")
        partial == IF slash = 0 THEN full ELSE Dup(full, slash - 1)
        at      == Place(partial, "@")
    IN  [full     |-> full,
         partial  |-> partial,
         resource |-> IF slash = 0 THEN NoString ELSE After(full, slash),
         user     |-> IF at = 0 THEN NoString ELSE Dup(partial, at - 1),
         server   |-> IF at = 0 THEN partial ELSE After(partial, at)]

\* tolower, of strcasecmp.
Lower(c) == CASE c = "A" -> "a" [] c = "B" -> "b" [] OTHER -> c
LowerCase(s) == [k \in 1 .. Len(s) |-> Lower(s[k])]

\* iks_strcmp and iks_strcasecmp find a difference when either string is NULL.
Differ(x, y)     == x = NoString \/ y = NoString \/ x # y
CaseDiffer(x, y) == x = NoString \/ y = NoString \/ LowerCase(x) # LowerCase(y)
BothMissing(x, y) == x = NoString /\ y = NoString

ID_USER == 1
ID_SERVER == 2
ID_RESOURCE == 4

iks_id_cmp_nulls(a, b, parts) ==
    (IF ID_RESOURCE \in parts /\ Differ(a.resource, b.resource) THEN ID_RESOURCE ELSE 0)
    + (IF ID_USER \in parts /\ CaseDiffer(a.user, b.user) THEN ID_USER ELSE 0)
    + (IF ID_SERVER \in parts /\ Differ(a.server, b.server) THEN ID_SERVER ELSE 0)
\* parts is the set of the bits asked for.
iks_id_cmp(a, b, parts) ==
    (IF ID_RESOURCE \in parts /\ ~BothMissing(a.resource, b.resource) /\ Differ(a.resource, b.resource)
     THEN ID_RESOURCE ELSE 0)
    + (IF ID_USER \in parts /\ ~BothMissing(a.user, b.user) /\ CaseDiffer(a.user, b.user)
       THEN ID_USER ELSE 0)
    + (IF ID_SERVER \in parts /\ ~BothMissing(a.server, b.server) /\ Differ(a.server, b.server)
       THEN ID_SERVER ELSE 0)

\* The text of an identifier, from parts of which user and resource may be missing.
Text(p) == (IF p.user = NoString THEN <<>> ELSE p.user \o <<"@">>) \o p.server
           \o (IF p.resource = NoString THEN <<>> ELSE <<"/">> \o p.resource)
Bare(p) == [p EXCEPT !.resource = NoString]

\* The parts of an identifier are the ones its text was made of, with or without
\* the scheme, and whatever signs the resource contains.
PartsOfText(p) ==
    \A jid \in {Text(p), <<Scheme>> \o Text(p)} :
        iks_id_new(jid) = [full |-> Text(p), partial |-> Text(Bare(p)), user |-> p.user,
                           server |-> p.server, resource |-> p.resource]

\* Two identifiers compare as equal when their texts are, but for the case of the
\* user's name; without their resources, when the texts without them are.
CompareTellsTexts(p, q) ==
    LET diff(parts) == iks_id_cmp(iks_id_new(Text(p)), iks_id_new(Text(q)), parts)
        Fold(x)     == Text([x EXCEPT !.user = LowerCase(@)])
    IN  /\ diff({ID_USER, ID_SERVER, ID_RESOURCE}) = 0 <=> Fold(p) = Fold(q)
        /\ diff({ID_USER, ID_SERVER}) = 0 <=> Fold(Bare(p)) = Fold(Bare(q))

=============================================================================
