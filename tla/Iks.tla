-------------------------------- MODULE Iks --------------------------------
(***************************************************************************)
(* The trees of src/src/iks.c under an application that builds and changes *)
(* them.  One action is one call; iks_string and iks_copy_within change    *)
(* nothing that exists and are functions of the heap (IksHeap).            *)
(***************************************************************************)
EXTENDS IksHeap

CONSTANTS
    Names, AttribNames, Texts,    \* sequences of characters
    AllocMayFail,    \* strings that may not be allocated: "text", "append", "value"
    MoveHidden,      \* the application inserts hidden nodes elsewhere
    MaxCalls         \* bound: number of calls

ASSUME IksAssumption ==
    /\ Names \cup AttribNames \subseteq Seq(STRING) /\ Texts \subseteq Seq(STRING)
    /\ AllocMayFail \subseteq {"text", "append", "value"}
    /\ MoveHidden \in BOOLEAN /\ MaxCalls \in Nat

VARIABLES
    heap,
    hidden,   \* nodes that iks_hide was called for
    calls     \* calls so far

vars == <<heap, hidden, calls>>

-----------------------------------------------------------------------------
(* The calls.  The careful application looks at hidden nodes only, adds     *)
(* nothing beside a root, and inserts roots of other trees.  A call that    *)
(* finds no memory for its node changes nothing.                            *)

ElementsOf(h) == {x \in 1 .. Len(h) : h[x].type # "ATTRIBUTE"}
Elements == ElementsOf(heap)
Tags == {x \in Elements : IsTag(heap, x)}

Call == calls < MaxCalls /\ calls' = calls + 1

New(name) == Call /\ heap' = Append(heap, TagNode(name)) /\ UNCHANGED hidden

Insert(x, name) == Call /\ heap' = InsertedTag(heap, x, name) /\ UNCHANGED hidden

\* The node is linked before its text is allocated.
InsertCData(x, t) ==
    /\ Call /\ UNCHANGED hidden
    /\ \/ heap' = InsertedText(heap, x, t)
       \/ /\ "text" \in AllocMayFail /\ ~EndsWithText(heap, x)
          /\ heap' = InsertedText(heap, x, <<>>)
       \/ /\ "append" \in AllocMayFail /\ EndsWithText(heap, x)
          /\ heap' = [heap EXCEPT ![heap[x].last].broken = TRUE]

InsertAttrib(x, name, value) ==
    /\ Call /\ UNCHANGED hidden
    /\ \/ heap' = InsertedAttrib(heap, x, name, value)
       \/ /\ "value" \in AllocMayFail
          /\ LET g == WithAttrib(heap, x, name)
             IN  heap' = [g EXCEPT ![AttribNamed(g, x, name)].broken = TRUE]

RemoveAttrib(x, name) ==
    /\ Call /\ UNCHANGED hidden
    /\ heap' = RemovedAttrib(heap, x, name)

MayBeMoved(y) == heap[y].parent = NULL \/ (MoveHidden /\ y \in hidden)
InsertNode(x, y) ==
    /\ Call /\ UNCHANGED hidden
    /\ MayBeMoved(y) /\ y \notin ToSet(Chain(heap, x, "parent"))
    /\ heap' = LinkLast(heap, x, y)

HasPlace(x) == heap[x].parent # NULL /\ x \notin hidden

AppendNode(x, new) ==
    /\ Call /\ UNCHANGED hidden /\ HasPlace(x)
    /\ heap' = LinkBehind(Append(heap, new), x, Made(heap))

PrependNode(x, new) ==
    /\ Call /\ UNCHANGED hidden /\ HasPlace(x)
    /\ heap' = LinkBefore(Append(heap, new), x, Made(heap))

Hide(x) ==
    /\ Call /\ x \notin hidden
    /\ heap' = Hidden(heap, x) /\ hidden' = hidden \cup {x}

Init == heap = <<>> /\ hidden = {} /\ calls = 0

NewNodes == {TagNode(n) : n \in Names} \cup {TextNode(t) : t \in Texts}

Next ==
    \/ \E name \in Names : New(name)
    \/ \E x \in Tags, name \in Names : Insert(x, name)
    \/ \E x \in Tags, name \in AttribNames :
        \/ RemoveAttrib(x, name)
        \/ \E t \in Texts \cup {<<>>} : InsertAttrib(x, name, t)
    \/ \E x \in Tags, t \in Texts : InsertCData(x, t)
    \/ \E x \in Tags, y \in Tags : InsertNode(x, y)
    \/ \E x \in Elements, new \in NewNodes : AppendNode(x, new) \/ PrependNode(x, new)
    \/ \E x \in Elements : Hide(x)

Spec == Init /\ [][Next]_vars

-----------------------------------------------------------------------------
(* Properties.                                                             *)

\* What an application sees of the nodes, which is all but the links.
Label(h) == [x \in ElementsOf(h) |-> [type |-> h[x].type, name |-> h[x].name, text |-> h[x].text]]

Kids(h) == [x \in ElementsOf(h) |-> IF IsTag(h, x) THEN Chain(h, h[x].first, "next") ELSE <<>>]

Pairs(h, s) == [i \in 1 .. Len(s) |-> [name |-> h[s[i]].name, value |-> h[s[i]].text]]
Attrs(h) == [x \in ElementsOf(h) |-> IF IsTag(h, x) THEN Pairs(h, Attribs(h, x)) ELSE <<>>]

Forest == INSTANCE OrderedTree WITH
    Nodes <- 1 .. MaxCalls,
    Texts <- Texts \cup {<<>>},
    label <- Label(heap), kids <- Kids(heap), attrs <- Attrs(heap)

TypeOK ==
    /\ \A x \in 1 .. Len(heap) :
        /\ heap[x].type \in {"TAG", "CDATA", "ATTRIBUTE"}
        /\ {heap[x].next, heap[x].prev, heap[x].parent, heap[x].first, heap[x].last,
            heap[x].attribs, heap[x].lastAttrib} \subseteq 0 .. Len(heap)
    /\ hidden \subseteq Elements /\ calls \in 0 .. MaxCalls

\* A call changes the tree in the place it is asked for and nowhere else, for
\* every sequence of calls (iks_insert, iks_append, iks_hide and the others).
ImplementsTree == Forest!Spec

\* Read from either end, the children and the attributes of a tag are the same,
\* have it as their parent and occur once: the ends of both lists and prev are
\* kept by every call (iks_next, iks_prev, last_child, last_attrib).
BothWays(h, first, last, x) ==
    LET s == Chain(h, first, "next")
    IN  /\ Len(s) <= Len(h) /\ s = Reverse(Chain(h, last, "prev"))
        /\ \A i \in 1 .. Len(s) : h[s[i]].parent = x
LinksOf(h) ==
    \A x \in 1 .. Len(h) : h[x].type = "TAG" =>
        BothWays(h, h[x].first, h[x].last, x) /\ BothWays(h, h[x].attribs, h[x].lastAttrib, x)
LinksAgree == LinksOf(heap)

\* iks_string gives the document of the tree, of any node in any tree, and has
\* asked for exactly the memory it writes.
StringIsDocument ==
    \A x \in Tags : String(heap, x) = Forest!Document[x] /\ Size(heap, x) = Len(String(heap, x))

\* iks_copy_within makes another tree, well linked, out of new nodes only, with the
\* same document unless a text is missing: the copy has no node for it.
TextsThere == \A x \in Elements : IsText(heap, x) => heap[x].text # <<>>
CopyIsEqual ==
    \A x \in Tags :
        LET c == Copied(heap, x)
        IN  /\ c.done /\ LinksOf(c.h) /\ SubSeq(c.h, 1, Len(heap)) = heap
            /\ c.h[c.copy].parent = NULL
            /\ TextsThere => String(c.h, c.copy) = String(heap, x)

\* No string of a node is missing.
NothingBroken == \A x \in 1 .. Len(heap) : ~heap[x].broken
=============================================================================
