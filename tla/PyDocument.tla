----------------------------- MODULE PyDocument -----------------------------
(***************************************************************************)
(* The Document objects of src/python/document.c and their iterators, over *)
(* the trees of iks.c.  A Document shows one node, an Iter knows the node  *)
(* it yields next.  One action is one call of a Python program, with what  *)
(* it does to the ownership of the tree (PyReference).                     *)
(***************************************************************************)
EXTENDS PyReference, IksHeap

CONSTANTS
    Sources,       \* trees a Document is made of: heaps whose first node is the root
    Names,         \* names of tags
    MaxChanges     \* bound: calls that change a tree

ASSUME SourcesAssumption == \A h \in Sources : h # <<>> /\ h[1].parent = NULL

VARIABLES
    heap,     \* the nodes of every tree
    at,       \* the node a Document shows
    iter,     \* the iterators, each with what it has yielded
    hidden,   \* nodes of every tree that were deleted
    changes   \* calls that changed a tree

vars == <<own, heap, at, iter, hidden, changes>>

NoName == <<>>                           \* no name, or no value, given

\* got and due: what was yielded, and what was there to be yielded at the start.
NoIter == [doc |-> NULL, tags |-> FALSE, name |-> NoName, of |-> NULL, got |-> <<>>, due |-> {}]

Change == changes < MaxChanges /\ changes' = changes + 1

Here(d)     == heap[ref[d]]              \* the tree a Document belongs to
IsTagDoc(d) == InUse(d) /\ IsTag(Here(d), at[d])

\* Appending, prepending and deleting use the links of the node.
MayChange(d) == InUse(d) /\ ("deleted" \in Careless \/ at[d] \notin hidden[ref[d]])

-----------------------------------------------------------------------------
(* Documents of the program, and of on_stream.                             *)

Shows(d, t, h) ==
    /\ heap' = [heap EXCEPT ![t] = h] /\ at' = [at EXCEPT ![d] = 1]
    /\ UNCHANGED <<iter, hidden, changes>>

Document(d, t, h) == Create(d, t) /\ Shows(d, t, h)

OnStanza(d, t, h) == Stanza(d, t) /\ Shows(d, t, h)

TreesStay == UNCHANGED <<heap, at, iter, hidden, changes>>

DocumentFails    == CreateFails /\ TreesStay
OnStanzaReturns  == StanzaEnd /\ TreesStay
OnStanzaRaises   == StanzaRaises /\ TreesStay

Forget(d) ==
    /\ Drop(d) /\ at' = [at EXCEPT ![d] = NULL]
    /\ UNCHANGED <<heap, iter, hidden, changes>>

ForgetIter(i) ==
    /\ DropIter(i) /\ iter' = [iter EXCEPT ![i] = NoIter]
    /\ UNCHANGED <<heap, at, hidden, changes>>

\* name, text, get, attributes and the others that only read.
Read(d) == Look(d) /\ TreesStay

-----------------------------------------------------------------------------
(* Moving: the other node as a new Document e, None if there is none.      *)

Targets(h, x) ==
    {Child(h, x), h[x].parent, Root(h, x), h[x].next, h[x].prev, NextTag(h, x), PrevTag(h, x)}
    \cup {FirstIn(Chain(h, h[x].next, "next"), NamedIn(h, n)) : n \in Names}
    \cup {FirstIn(Chain(h, h[x].prev, "prev"), NamedIn(h, n)) : n \in Names}
    \cup (IF IsTag(h, x) THEN {Find(h, x, n) : n \in Names} ELSE {})

Go(d, e) ==
    /\ Move(d, e)
    /\ \E y \in Targets(Here(d), at[d]) \ {NULL} : at' = [at EXCEPT ![e] = y]
    /\ UNCHANGED <<heap, iter, hidden, changes>>

-----------------------------------------------------------------------------
(* Changing the tree.  What was inserted is shown by the new Document e.   *)

Inserts(d, e, h, y) ==
    /\ Change /\ Move(d, e)
    /\ heap' = [heap EXCEPT ![ref[d]] = h] /\ at' = [at EXCEPT ![e] = y]
    /\ UNCHANGED <<iter, hidden>>

Insert(d, e, name) ==
    LET h == InsertedTag(Here(d), at[d], name)
    IN  IsTagDoc(d) /\ Inserts(d, e, h, Len(h))

\* Text behind text is appended to the node that is there.
InsertText(d, e, t) ==
    LET h == InsertedText(Here(d), at[d], t)
    IN  IsTagDoc(d) /\ Inserts(d, e, h, h[at[d]].last)

Beside(d) == MayChange(d) /\ Here(d)[at[d]].parent # NULL

AppendBeside(d, e, new) ==
    /\ Beside(d)
    /\ Inserts(d, e, LinkBehind(Append(Here(d), new), at[d], Made(Here(d))), Made(Here(d)))

Prepend(d, e, new) ==
    /\ Beside(d)
    /\ Inserts(d, e, LinkBefore(Append(Here(d), new), at[d], Made(Here(d))), Made(Here(d)))

Set(d, name, value) ==
    /\ Change /\ IsTagDoc(d) /\ Look(d)
    /\ heap' = [heap EXCEPT ![ref[d]] = IF value = NoName THEN RemovedAttrib(@, at[d], name)
                                        ELSE InsertedAttrib(@, at[d], name, value)]
    /\ UNCHANGED <<at, iter, hidden>>

Delete(d) ==
    /\ Change /\ MayChange(d) /\ Look(d)
    /\ heap' = [heap EXCEPT ![ref[d]] = Hidden(@, at[d])]
    /\ hidden' = [hidden EXCEPT ![ref[d]] = @ \cup {at[d]}]
    /\ UNCHANGED <<at, iter>>

-----------------------------------------------------------------------------
(* Iterators.                                                              *)

Wanted(h, tags, name) ==
    IF name # NoName THEN NamedIn(h, name) ELSE IF tags THEN TagsIn(h) ELSE 1 .. Len(h)

Iter(i, d, tags, name) ==
    LET h == Here(d)
        s == Chain(h, h[at[d]].first, "next")
        some == Wanted(h, tags, name)
    IN  /\ IsTagDoc(d) /\ Iterate(i, d)
        /\ iter' = [iter EXCEPT ![i] = [doc |-> FirstIn(s, some), tags |-> tags, name |-> name,
                                        of |-> at[d], got |-> <<>>,
                                        due |-> ToSet(s) \cap some]]
        /\ UNCHANGED <<heap, at, hidden, changes>>

Iter_next(i, e) ==
    LET x == iter[i].doc
        h == heap[iref[i]]
        y == FirstIn(Chain(h, h[x].next, "next"), Wanted(h, iter[i].tags, iter[i].name))
    IN  /\ x # NULL /\ Yield(i, e)
        /\ at' = [at EXCEPT ![e] = x]
        /\ iter' = [iter EXCEPT ![i].doc = y, ![i].got = Append(@, x)]
        /\ UNCHANGED <<heap, hidden, changes>>

DocInit ==
    /\ Init /\ changes = 0
    /\ heap = [t \in Trees |-> <<>>] /\ hidden = [t \in Trees |-> {}]
    /\ at = [d \in Docs |-> NULL] /\ iter = [i \in Iters |-> NoIter]

NewNodes == {TagNode(n) : n \in Names} \cup {TextNode(n) : n \in Names}

DocNext ==
    /\ Alive
    /\ \/ DocumentFails \/ OnStanzaReturns \/ OnStanzaRaises
       \/ \E d \in Docs :
           \/ Read(d) \/ Forget(d) \/ Delete(d)
           \/ \E t \in Trees, h \in Sources : Document(d, t, h) \/ OnStanza(d, t, h)
           \/ \E n \in Names : \E value \in {n, NoName} : Set(d, n, value)
           \/ \E e \in Docs : \/ Go(d, e)
                              \/ \E n \in Names : Insert(d, e, n) \/ InsertText(d, e, n)
                              \/ \E new \in NewNodes : AppendBeside(d, e, new) \/ Prepend(d, e, new)
           \/ \E i \in Iters : \/ Iter(i, d, FALSE, NoName)
                               \/ \E n \in Names \cup {NoName} : Iter(i, d, TRUE, n)
                               \/ Iter_next(i, d)
       \/ \E i \in Iters : ForgetIter(i)

Spec == DocInit /\ [][DocNext]_vars

-----------------------------------------------------------------------------
(* Properties.                                                             *)

\* Neither the node nor one above it was deleted.
Visible(t, x) == ToSet(Chain(heap[t], x, "parent")) \cap hidden[t] = {}

\* A deleted node, which the Documents and iterators that know it still show, is
\* not met again on any way through the rest of the tree (Document_delete).
DeletedStaysDeleted ==
    \A t \in Trees : \A x \in 1 .. Len(heap[t]) :
        heap[t][x].type # "ATTRIBUTE" /\ Visible(t, x) =>
            \A link \in {"next", "prev", "first", "last"} :
                heap[t][x][link] # NULL => Visible(t, heap[t][x][link])

\* An iterator yields children in the order of the document and none twice, and when
\* it ends it has yielded every child that was there all the time, whatever was
\* deleted and inserted meanwhile, the node it stands on included (Iter_next).
IterationInOrder ==
    \A i \in Iters : iref[i] # None =>
        LET t    == iref[i]
            got  == iter[i].got
            now  == Chain(heap[t], heap[t][iter[i].of].first, "next")
        IN  /\ IsInjective(got)
            /\ ToSet(got) \ hidden[t] = ToSet(got) \cap ToSet(now)
            /\ \A a, b \in 1 .. Len(got), j, k \in 1 .. Len(now) :
                   got[a] = now[j] /\ got[b] = now[k] /\ a <= b => j <= k
            /\ iter[i].doc = NULL => iter[i].due \subseteq ToSet(got) \cup hidden[t]
=============================================================================
