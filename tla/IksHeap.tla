------------------------------ MODULE IksHeap ------------------------------
(***************************************************************************)
(* The nodes of src/src/iks.c, as functions of the heap h that holds them  *)
(* in the order they were made: records with the links of iks_struct,      *)
(* iks_tag, iks_cdata and iks_attrib.  A pointer is a place in the heap.   *)
(* iks_string and iks_copy_within go a round of their loops at a time.     *)
(***************************************************************************)
EXTENDS Links, SequencesExt

-----------------------------------------------------------------------------
(* Nodes and links.                                                        *)

\* Zeroed, but for its type, name or text; broken: a string of it is NULL.
Node(type, name, text) ==
    [type |-> type, name |-> name, text |-> text, broken |-> FALSE,
     next |-> NULL, prev |-> NULL, parent |-> NULL,
     first |-> NULL, last |-> NULL, attribs |-> NULL, lastAttrib |-> NULL]

TagNode(name)    == Node("TAG", name, <<>>)
TextNode(text)   == Node("CDATA", <<>>, text)
AttribNode(name) == Node("ATTRIBUTE", name, <<>>)

IsTag(h, x)  == h[x].type = "TAG"
IsText(h, x) == h[x].type = "CDATA"

\* y becomes the last child of x (iks_insert, iks_insert_node).
LinkLast(h, x, y) ==
    LET g == IF h[x].last = NULL THEN h
             ELSE [h EXCEPT ![h[x].last].next = y, ![y].prev = h[x].last]
    IN  [g EXCEPT ![y].parent = x, ![x].last = y,
                  ![x].first = IF @ = NULL THEN y ELSE @]

LinkLastAttrib(h, x, y) ==
    LET g == IF h[x].lastAttrib = NULL THEN h
             ELSE [h EXCEPT ![h[x].lastAttrib].next = y, ![y].prev = h[x].lastAttrib]
    IN  [g EXCEPT ![y].parent = x, ![x].lastAttrib = y,
                  ![x].attribs = IF @ = NULL THEN y ELSE @]

\* iks_append and iks_append_cdata.
LinkBehind(h, x, y) ==
    LET g == IF h[x].next # NULL THEN [h EXCEPT ![h[x].next].prev = y]
             ELSE [h EXCEPT ![h[x].parent].last = y]
    IN  [g EXCEPT ![y].next = h[x].next, ![x].next = y, ![y].parent = h[x].parent, ![y].prev = x]

\* iks_prepend and iks_prepend_cdata.
LinkBeforeFirst(h, x, y) ==
    LET g == [h EXCEPT ![h[x].parent].first = y]
    IN  [g EXCEPT ![y].prev = h[x].prev, ![x].prev = y, ![y].parent = h[x].parent, ![y].next = x]
LinkBefore(h, x, y) ==
    LET g == IF h[x].prev # NULL THEN [h EXCEPT ![h[x].prev].next = y]
             ELSE [h EXCEPT ![h[x].parent].first = y]
    IN  [g EXCEPT ![y].prev = h[x].prev, ![x].prev = y, ![y].parent = h[x].parent, ![y].next = x]

HiddenFromFirst(h, x) ==
    IF h[x].parent = NULL THEN Bypassed(h, x)
    ELSE [Bypassed(h, x) EXCEPT ![h[x].parent].first = IF @ = x THEN h[x].next ELSE @]
HiddenUnlinked(h, x) ==
    IF h[x].parent = NULL THEN [Bypassed(h, x) EXCEPT ![x].next = NULL, ![x].prev = NULL]
    ELSE [Bypassed(h, x) EXCEPT ![h[x].parent].first = IF @ = x THEN h[x].next ELSE @,
                                ![h[x].parent].last  = IF @ = x THEN h[x].prev ELSE @,
                                ![x].next = NULL, ![x].prev = NULL]
Hidden(h, x) ==
    IF h[x].parent = NULL THEN Bypassed(h, x)
    ELSE [Bypassed(h, x) EXCEPT ![h[x].parent].first = IF @ = x THEN h[x].next ELSE @,
                                ![h[x].parent].last  = IF @ = x THEN h[x].prev ELSE @]

-----------------------------------------------------------------------------
(* Inserting, as functions of the heap; the new node is the last one.      *)

Made(h) == Len(h) + 1

InsertedTag(h, x, name) == LinkLast(Append(h, TagNode(name)), x, Made(h))

\* iks_insert_cdata: text behind text is appended to it.
EndsWithText(h, x) == h[x].last # NULL /\ IsText(h, h[x].last)
InsertedText(h, x, t) ==
    IF EndsWithText(h, x) THEN [h EXCEPT ![h[x].last].text = @ \o t]
    ELSE LinkLast(Append(h, TextNode(t)), x, Made(h))

\* The first of s that is one of them; a node that is not there is NULL.
FirstIn(s, some) ==
    LET fits == {i \in 1 .. Len(s) : s[i] \in some}
    IN  IF fits = {} THEN NULL ELSE s[Min(fits)]

AttribNamed(h, x, name) ==
    FirstIn(Chain(h, h[x].attribs, "next"), {y \in 1 .. Len(h) : h[y].name = name})

\* The attribute with that name, made if there is none.
WithAttrib(h, x, name) ==
    IF AttribNamed(h, x, name) # NULL THEN h
    ELSE LinkLastAttrib(Append(h, AttribNode(name)), x, Made(h))

InsertedAttrib(h, x, name, value) ==
    LET g == WithAttrib(h, x, name)
    IN  [g EXCEPT ![AttribNamed(g, x, name)].text = value, ![AttribNamed(g, x, name)].broken = FALSE]

\* No value: the attribute is taken out of the list.
RemovedAttrib(h, x, name) ==
    LET y == AttribNamed(h, x, name)
    IN  IF y = NULL THEN h
        ELSE [Bypassed(h, y) EXCEPT ![x].attribs    = IF @ = y THEN h[y].next ELSE @,
                                    ![x].lastAttrib = IF @ = y THEN h[y].prev ELSE @]

-----------------------------------------------------------------------------
(* Looking around.                                                         *)

FirstOr(s, none) == IF s = <<>> THEN none ELSE s[1]
TagsOf(h, s) == SelectSeq(s, LAMBDA y : IsTag(h, y))

TagsIn(h)        == {y \in 1 .. Len(h) : IsTag(h, y)}
NamedIn(h, name) == {y \in TagsIn(h) : h[y].name = name}

NextTag(h, x)  == FirstIn(Chain(h, h[x].next, "next"), TagsIn(h))
PrevTag(h, x)  == FirstIn(Chain(h, h[x].prev, "prev"), TagsIn(h))
Root(h, x)     == LET up == Chain(h, x, "parent") IN up[Len(up)]
Child(h, x)    == IF IsTag(h, x) THEN h[x].first ELSE NULL
FirstTag(h, x) == FirstIn(Chain(h, h[x].first, "next"), TagsIn(h))
Find(h, x, name) == FirstIn(Chain(h, h[x].first, "next"), NamedIn(h, name))

\* A string that is not there, and the bytes of a node taken for one.
NoString == "NULL"
NoBytes  == "iks_tag"

FindAttrib(h, x, name) ==
    LET y == AttribNamed(h, x, name) IN IF y = NULL THEN NoString ELSE h[y].text
FindCData(h, x, name) ==
    LET y == Find(h, x, name)
    IN  IF y # NULL /\ h[y].first # NULL /\ IsText(h, h[y].first) THEN h[h[y].first].text
        ELSE NoString

\* A node that is no element has the layout of an attribute, whose name is where a
\* text has its characters; a node that is no text, too, whose value is where an
\* element has its last child.
NodeName(h, x) == IF IsText(h, x) THEN h[x].text ELSE h[x].name
NodeCData(h, x) ==
    CASE x = NULL -> NoString
      [] x # NULL /\ IsTag(h, x) -> IF h[x].last = NULL THEN NoString ELSE NoBytes
      [] OTHER -> h[x].text

-----------------------------------------------------------------------------
(* iks_string: one pass over the tree for the size, one that writes.       *)

Special == {"&", "<", ">", "'", "\""}
SizeOfShortNames(c) == CASE c = "&" -> 5 [] c \in Special \ {"&"} -> 4 [] OTHER -> 1
SizeOfChar(c) == CASE c = "&"          -> 5
                   [] c \in {"'", "\""} -> 6
                   [] c \in {"<", ">"}  -> 4
                   [] OTHER             -> 1

EscapeSize(t) == FoldLeft(LAMBDA n, c : n + SizeOfChar(c), 0, t)

Entity(c) == CASE c = "&"  -> <<"&", "a", "m", "p", ";">>
               [] c = "'"  -> <<"&", "a", "p", "o", "s", ";">>
               [] c = "\"" -> <<"&", "q", "u", "o", "t", ";">>
               [] c = "<"  -> <<"&", "l", "t", ";">>
               [] c = ">"  -> <<"&", "g", "t", ";">>

\* escape: runs of other characters (from j on) are copied at once.
EscapeText(t) ==
    LET Round(a, i) == IF t[i] \in Special
                       THEN [out |-> a.out \o SubSeq(t, a.j + 1, i - 1) \o Entity(t[i]), j |-> i]
                       ELSE a
        end == FoldLeft(Round, [out |-> <<>>, j |-> 0], [i \in 1 .. Len(t) |-> i])
    IN  end.out \o SubSeq(t, end.j + 1, Len(t))

Attribs(h, x) == Chain(h, h[x].attribs, "next")
HasChildren(h, x) == IsTag(h, x) /\ h[x].first # NULL

SizeOfStart(h, x) ==
    IF IsText(h, x) THEN EscapeSize(h[x].text)
    ELSE FoldLeft(LAMBDA n, y : n + 4 + Len(h[y].name) + EscapeSize(h[y].text),
                  1 + Len(h[x].name), Attribs(h, x))
         + (IF HasChildren(h, x) THEN 1 ELSE 2)

StartOf(h, x) ==
    IF IsText(h, x) THEN EscapeText(h[x].text)
    ELSE FoldLeft(LAMBDA t, y : t \o <<" ">> \o h[y].name \o <<"=", "'">>
                                  \o EscapeText(h[y].text) \o <<"'">>,
                  <<"<">> \o h[x].name, Attribs(h, x))
         \o (IF HasChildren(h, x) THEN <<">">> ELSE <<"/", ">">>)

Walk(x) == [at |-> x, level |-> 0, back |-> FALSE, done |-> FALSE, size |-> 0, out |-> <<>>]

\* Where both passes go: down, to the next node, or back to the parent.
Descends(h, w) == ~w.back /\ HasChildren(h, w.at)
Tour(h, w) ==
    LET x == w.at
    IN  CASE Descends(h, w) -> [w EXCEPT !.at = h[x].first, !.level = @ + 1]
          [] ~Descends(h, w) /\ h[x].next # NULL ->
                IF w.level = 0 THEN [w EXCEPT !.done = TRUE]
                ELSE [w EXCEPT !.at = h[x].next, !.back = FALSE]
          [] OTHER -> [w EXCEPT !.at = h[x].parent, !.level = @ - 1, !.back = TRUE,
                                !.done = w.level < 2]

\* The element whose end tag the round passes.
Ended(h, w) ==
    CASE Descends(h, w) -> NULL
      [] ~Descends(h, w) /\ h[w.at].next # NULL ->
            IF w.level = 0 /\ HasChildren(h, w.at) THEN w.at ELSE NULL
      [] OTHER -> IF w.level >= 1 THEN h[w.at].parent ELSE NULL

SizeRound(h, w) ==
    LET z == Ended(h, w)
    IN  [Tour(h, w) EXCEPT
            !.size = @ + (IF w.back THEN 0 ELSE SizeOfStart(h, w.at))
                       + (IF z = NULL THEN 0 ELSE 3 + Len(h[z].name))]

WriteRound(h, w) ==
    LET z == Ended(h, w)
    IN  [Tour(h, w) EXCEPT
            !.out = @ \o (IF w.back THEN <<>> ELSE StartOf(h, w.at))
                      \o (IF z = NULL THEN <<>> ELSE <<"<", "/">> \o h[z].name \o <<">">>)]

\* Rounds until done; every node is met at most twice.
Loop(Round(_), start, nodes) ==
    LET after[n \in 0 .. 2 * nodes + 1] ==
            IF n = 0 THEN start
            ELSE LET w == after[n - 1] IN IF w.done THEN w ELSE Round(w)
    IN  after[2 * nodes + 1]

\* A text is returned as it is.
Size(h, x)   == IF IsText(h, x) THEN Len(h[x].text)
                ELSE Loop(LAMBDA w : SizeRound(h, w), Walk(x), Len(h)).size
String(h, x) == IF IsText(h, x) THEN h[x].text
                ELSE Loop(LAMBDA w : WriteRound(h, w), Walk(x), Len(h)).out

-----------------------------------------------------------------------------
(* iks_copy_within, while there is memory.  A text by itself has no copy.  *)

CopyAttribs(h, y, x) ==
    FoldLeft(LAMBDA g, a : InsertedAttrib(g, y, h[a].name, h[a].text), h, Attribs(h, x))

\* A text that is NULL is not inserted.
CopiedText(h, y, t) == IF t = <<>> THEN h ELSE InsertedText(h, y, t)

CopyStartStays(w) ==
    LET x == w.at
        y == Made(w.h)
        g == IF w.copy = NULL THEN Append(w.h, TagNode(w.h[x].name))
             ELSE InsertedTag(w.h, w.cur, w.h[x].name)
    IN  IF IsText(w.h, x) THEN [w EXCEPT !.h = CopiedText(@, w.cur, w.h[x].text)]
        ELSE [w EXCEPT !.h = CopyAttribs(g, y, x), !.copy = IF @ = NULL THEN y ELSE @, !.cur = y]
CopyStart(w) ==
    LET x == w.at
        y == Made(w.h)
        g == IF w.copy = NULL THEN Append(w.h, TagNode(w.h[x].name))
             ELSE InsertedTag(w.h, w.cur, w.h[x].name)
        full == CopyAttribs(g, y, x)
    IN  IF IsText(w.h, x) THEN [w EXCEPT !.h = CopiedText(@, w.cur, w.h[x].text)]
        ELSE [w EXCEPT !.h = full, !.copy = IF @ = NULL THEN y ELSE @,
                       !.cur = IF HasChildren(w.h, x) THEN y ELSE full[y].parent]

CopyRound(w) ==
    LET x == w.at
        v == IF w.back THEN w ELSE CopyStart(w)
    IN  CASE Descends(w.h, w) -> [v EXCEPT !.at = v.h[x].first, !.level = @ + 1]
          [] ~Descends(w.h, w) /\ w.h[x].next # NULL ->
                IF w.level = 0 THEN [v EXCEPT !.done = TRUE]
                ELSE [v EXCEPT !.at = w.h[x].next, !.back = FALSE]
          [] OTHER ->
                IF w.level < 2 THEN [v EXCEPT !.done = TRUE]
                ELSE [v EXCEPT !.level = @ - 1, !.at = w.h[x].parent,
                               !.cur = v.h[v.cur].parent, !.back = TRUE]

Copied(h, x) ==
    Loop(CopyRound, [h |-> h, at |-> x, level |-> 0, back |-> FALSE, done |-> FALSE,
                     copy |-> NULL, cur |-> NULL], Len(h))
=============================================================================
