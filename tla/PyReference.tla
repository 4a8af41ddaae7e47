----------------------------- MODULE PyReference -----------------------------
(***************************************************************************)
(* Who owns a tree in the Python binding (src/python): the Document        *)
(* objects that show nodes of a tree share one Reference object, whose     *)
(* ob_refcnt is the number of them, and Document_dealloc deletes the tree  *)
(* with the last one.  Iterators and on_stream do not count.  Nodes do not *)
(* occur here: all nodes of a tree live in one object stack.               *)
(***************************************************************************)
EXTENDS Integers, FiniteSets

CONSTANTS
    Docs, Iters, Trees,   \* objects there may be at a time, trees there may ever be
    None,
    Careless              \* what the program does although the binding does not bear it

\* "text": makes a Document of a text that is not XML; "orphan": iterates over
\* a Document it does not keep; "stanza": keeps a Document from on_stanza;
\* "raise": raises in on_stanza; "deleted": changes the tree beside a deleted node.
Habits == {"text", "orphan", "stanza", "raise", "deleted"}

ASSUME PyAssumption ==
    /\ IsFiniteSet(Docs) /\ None \notin Trees
    /\ Careless \subseteq Habits

VARIABLES
    tree,     \* of every tree: "none" so far, "live", or "freed"
    count,    \* ob_refcnt of its Reference (0: there is none, or it was freed)
    ref,      \* the tree whose Reference a Document holds; None: no such object
    iref,     \* the tree whose Reference an Iter points to; None: no such object
    leaked,   \* Documents that on_stream made and never gives back
    stanza,   \* the tree that an on_stanza hook is called with
    ub        \* kinds of undefined behaviour met

own == <<tree, count, ref, iref, leaked, stanza, ub>>

Holders(t) == {d \in Docs : ref[d] = t}

\* The program gets at a leaked Document while the hook runs.
InUse(d) == ref[d] # None /\ (d \in leaked => ref[d] = stanza \/ "stanza" \in Careless)

\* Giving back NULL (Py_DECREF) ends the process where it happens.
Alive == "null" \notin ub

TreeFault(t) == IF tree[t] = "live" THEN {} ELSE {"tree"}
RefFault(t)  == IF count[t] > 0 THEN {} ELSE {"reference"}

Init ==
    /\ tree = [t \in Trees |-> "none"] /\ count = [t \in Trees |-> 0]
    /\ ref = [d \in Docs |-> None] /\ iref = [i \in Iters |-> None]
    /\ leaked = {} /\ stanza = None /\ ub = {}

-----------------------------------------------------------------------------
(* What a new Document does to the counts: with a Reference of its own, or *)
(* sharing one (Document_from_iks).                                        *)

Own(d, t) ==
    /\ ref[d] = None /\ tree[t] = "none"
    /\ tree' = [tree EXCEPT ![t] = "live"]
    /\ count' = [count EXCEPT ![t] = 1]
    /\ ref' = [ref EXCEPT ![d] = t]

ShareUncounted(d, t) ==
    /\ ref[d] = None
    /\ ref' = [ref EXCEPT ![d] = t]
    /\ ub' = ub \cup TreeFault(t) \cup RefFault(t)
    /\ UNCHANGED <<tree, count, iref, leaked, stanza>>
Share(d, t) ==
    /\ ref[d] = None
    /\ ref' = [ref EXCEPT ![d] = t]
    /\ count' = [count EXCEPT ![t] = @ + 1]
    /\ ub' = ub \cup TreeFault(t) \cup RefFault(t)
    /\ UNCHANGED <<tree, iref, leaked, stanza>>

-----------------------------------------------------------------------------
(* The calls of the program.                                               *)

\* Document(text) for a name or a document.
Create(d, t) == Own(d, t) /\ UNCHANGED <<iref, leaked, stanza, ub>>

\* Document(text) fails before there is a Reference, and Document_dealloc
\* gives back NULL.
CreateFails == "text" \in Careless /\ ub' = ub \cup {"null"}
               /\ UNCHANGED <<tree, count, ref, iref, leaked, stanza>>

\* A method that returns no Document.
Look(d) ==
    /\ InUse(d) /\ ub' = ub \cup TreeFault(ref[d])
    /\ UNCHANGED <<tree, count, ref, iref, leaked, stanza>>

\* A method that returns the Document e of the same tree.
Move(d, e) == InUse(d) /\ Share(e, ref[d])

\* Document_iter and Document_tags.
Iterate(i, d) ==
    /\ InUse(d) /\ iref[i] = None
    /\ iref' = [iref EXCEPT ![i] = ref[d]]
    /\ ub' = ub \cup TreeFault(ref[d])
    /\ UNCHANGED <<tree, count, ref, leaked, stanza>>

\* Iter_next, when there is a node left.
Yield(i, e) == iref[i] # None /\ Share(e, iref[i])

\* An Iter goes: it has no tp_dealloc of its own.
DropIter(i) ==
    /\ iref[i] # None /\ iref' = [iref EXCEPT ![i] = None]
    /\ UNCHANGED <<tree, count, ref, leaked, stanza, ub>>

KeptFor(i, d) == \E e \in Docs \ {d} : ref[e] = iref[i] /\ InUse(e)
MayDrop(d) == "orphan" \in Careless \/ \A i \in Iters : iref[i] = ref[d] => KeptFor(i, d)

\* The program has no more use for d: Document_dealloc.
DropTooLate(d) ==
    LET t == ref[d]
    IN  /\ t # None /\ d \notin leaked /\ MayDrop(d)
        /\ tree' = IF count[t] = 0 THEN [tree EXCEPT ![t] = "freed"] ELSE tree
        /\ count' = [count EXCEPT ![t] = IF @ > 0 THEN @ - 1 ELSE @]
        /\ ref' = [ref EXCEPT ![d] = None]
        /\ ub' = ub \cup RefFault(t) \cup (IF count[t] = 0 THEN TreeFault(t) ELSE {})
        /\ UNCHANGED <<iref, leaked, stanza>>
Drop(d) ==
    LET t == ref[d]
    IN  /\ t # None /\ d \notin leaked /\ MayDrop(d)
        /\ tree' = IF count[t] = 1 THEN [tree EXCEPT ![t] = "freed"] ELSE tree
        /\ count' = [count EXCEPT ![t] = IF @ > 0 THEN @ - 1 ELSE @]
        /\ ref' = [ref EXCEPT ![d] = None]
        /\ ub' = ub \cup RefFault(t) \cup (IF count[t] = 1 THEN TreeFault(t) ELSE {})
        /\ UNCHANGED <<iref, leaked, stanza>>

-----------------------------------------------------------------------------
(* on_stream of python/stream.c: the stanza becomes a Document with a      *)
(* Reference of its own, the hook runs, the stanza is deleted.  The        *)
(* Document is not given back.                                             *)

Stanza(d, t) ==
    /\ stanza = None /\ Own(d, t)
    /\ stanza' = t /\ leaked' = leaked \cup {d}
    /\ UNCHANGED <<iref, ub>>

NothingKept ==
    "stanza" \in Careless \/ (Holders(stanza) \subseteq leaked /\ \A i \in Iters : iref[i] # stanza)

StanzaEnd ==
    /\ stanza # None /\ NothingKept
    /\ tree' = [tree EXCEPT ![stanza] = "freed"]
    /\ ub' = ub \cup TreeFault(stanza)
    /\ stanza' = None
    /\ UNCHANGED <<count, ref, iref, leaked>>

\* The hook returned NULL, which is given back.
StanzaRaises ==
    /\ stanza # None /\ "raise" \in Careless
    /\ ub' = ub \cup {"null"}
    /\ UNCHANGED <<tree, count, ref, iref, leaked, stanza>>

OwnNext ==
    /\ Alive
    /\ \/ CreateFails \/ StanzaEnd \/ StanzaRaises
       \/ \E d \in Docs :
           \/ Look(d) \/ Drop(d)
           \/ \E t \in Trees : Create(d, t) \/ Stanza(d, t)
           \/ \E e \in Docs : Move(d, e)
           \/ \E i \in Iters : Iterate(i, d) \/ Yield(i, d)
       \/ \E i \in Iters : DropIter(i)

OwnSpec == Init /\ [][OwnNext]_own

-----------------------------------------------------------------------------
(* Properties.                                                             *)

OwnTypeOK ==
    /\ tree \in [Trees -> {"none", "live", "freed"}] /\ count \in [Trees -> Nat]
    /\ ref \in [Docs -> Trees \cup {None}] /\ iref \in [Iters -> Trees \cup {None}]
    /\ leaked \subseteq Docs /\ stanza \in Trees \cup {None}
    /\ ub \subseteq {"tree", "reference", "null"}

\* No node of a deleted tree is read, no freed Reference is counted, nothing is
\* deleted twice, whatever the program holds and drops (Document_from_iks,
\* Document_dealloc, Iter_next, on_stream).
NoUseOfFreed == ub \subseteq {"null"}

\* "prevent XML tree from deletion as long as new object exists": a tree is there
\* exactly as long as the program has a Document that shows a node of it.
TreeLivesWithDocuments ==
    \A t \in Trees : tree[t] = "live" <=> \E d \in Holders(t) : InUse(d)
=============================================================================
