---------------------------- MODULE OrderedTree ----------------------------
(***************************************************************************)
(* What the trees of iksemel promise: every node has an ordered list of    *)
(* children and of attributes, and a call changes one place and nothing    *)
(* else.  There are no links.                                              *)
(***************************************************************************)
EXTENDS Integers, Sequences, SequencesExt

CONSTANTS Nodes, Names, AttribNames, Texts

VARIABLES
    label,   \* of every node that exists: Tag(name) or Text(text)
    kids,    \* its children in order
    attrs    \* its attributes in order, each with a name and a value

tree == <<label, kids, attrs>>

Tag(name)  == [type |-> "TAG", name |-> name, text |-> <<>>]
Text(text) == [type |-> "CDATA", name |-> <<>>, text |-> text]
Labels == {Tag(n) : n \in Names} \cup {Text(t) : t \in Texts}

Existing == DOMAIN label
Tags == {x \in Existing : label[x].type = "TAG"}

With(f, y, v) == [x \in DOMAIN f \cup {y} |-> IF x = y THEN v ELSE f[x]]

Position(s, y) == CHOOSE i \in 1 .. Len(s) : s[i] = y

\* A node that did not exist, among the children of x if x is a node.
Create(y, l) ==
    /\ label' = With(label, y, l)
    /\ attrs' = With(attrs, y, <<>>)

NewRoot(y, l) == Create(y, l) /\ kids' = With(kids, y, <<>>)

Insert(x, y, l) ==
    Create(y, l) /\ kids' = With([kids EXCEPT ![x] = Append(@, y)], y, <<>>)

\* Text behind text is one text.
EndsWithText(x) == kids[x] # <<>> /\ label[kids[x][Len(kids[x])]].type = "CDATA"

InsertText(x, y, t) ==
    IF EndsWithText(x)
    THEN /\ label' = [label EXCEPT ![kids[x][Len(kids[x])]].text = @ \o t]
         /\ UNCHANGED <<kids, attrs>>
    ELSE Insert(x, y, Text(t))

\* Beside a child z of x: before it (k = 0) or behind it (k = 1).
Beside(x, z, y, l, k) ==
    /\ Create(y, l)
    /\ kids' = With([kids EXCEPT ![x] = InsertAt(@, Position(@, z) + k, y)], y, <<>>)

\* A root becomes a child, and a child leaves its parent.
Attach(x, y) ==
    /\ \A z \in Tags : y \notin ToSet(kids[z])
    /\ kids' = [kids EXCEPT ![x] = Append(@, y)] /\ UNCHANGED <<label, attrs>>

Detach(x, y) ==
    /\ y \in ToSet(kids[x])
    /\ kids' = [kids EXCEPT ![x] = RemoveAt(@, Position(@, y))] /\ UNCHANGED <<label, attrs>>

\* A value in its old place, or behind the others if the name is new: so a name
\* occurs once.  Without a value the attribute goes.
SetAttrib(x, name, value) ==
    /\ \/ \E i \in 1 .. Len(attrs[x]) :
              attrs[x][i].name = name /\ attrs' = [attrs EXCEPT ![x][i].value = value]
       \/ /\ \A i \in 1 .. Len(attrs[x]) : attrs[x][i].name # name
          /\ attrs' = [attrs EXCEPT ![x] = Append(@, [name |-> name, value |-> value])]
    /\ UNCHANGED <<label, kids>>

DropAttrib(x, name) ==
    /\ \E i \in 1 .. Len(attrs[x]) :
          attrs[x][i].name = name /\ attrs' = [attrs EXCEPT ![x] = RemoveAt(@, i)]
    /\ UNCHANGED <<label, kids>>

Init == label = <<>> /\ kids = <<>> /\ attrs = <<>>

Next ==
    \/ \E y \in Nodes \ Existing, l \in Labels :
        \/ NewRoot(y, l)
        \/ \E x \in Tags : \/ Insert(x, y, l) /\ l.type = "TAG"
                           \/ \E z \in ToSet(kids[x]), k \in 0 .. 1 : Beside(x, z, y, l, k)
    \/ \E x \in Tags, y \in Nodes \ Existing, t \in Texts : InsertText(x, y, t)
    \/ \E x \in Tags, y \in Existing : Attach(x, y) \/ Detach(x, y)
    \/ \E x \in Tags, n \in AttribNames : DropAttrib(x, n) \/ \E v \in Texts : SetAttrib(x, n, v)

Spec == Init /\ [][Next]_tree

-----------------------------------------------------------------------------
(* The document of a tree.                                                 *)

Escape(c) == CASE c = "&"  -> <<"&", "a", "m", "p", ";">>
               [] c = "'"  -> <<"&", "a", "p", "o", "s", ";">>
               [] c = "\"" -> <<"&", "q", "u", "o", "t", ";">>
               [] c = "<"  -> <<"&", "l", "t", ";">>
               [] c = ">"  -> <<"&", "g", "t", ";">>
               [] OTHER    -> <<c>>

Escaped(t) == FlattenSeq([i \in 1 .. Len(t) |-> Escape(t[i])])

AttribText(a) == <<" ">> \o a.name \o <<"=", "'">> \o Escaped(a.value) \o <<"'">>

Document ==
    LET doc[x \in Existing] ==
            LET l     == label[x]
                start == <<"<">> \o l.name \o
                         FlattenSeq([i \in 1 .. Len(attrs[x]) |-> AttribText(attrs[x][i])])
                inner == FlattenSeq([i \in 1 .. Len(kids[x]) |-> doc[kids[x][i]]])
            IN  CASE l.type = "CDATA"  -> Escaped(l.text)
                  [] kids[x] = <<>>    -> start \o <<"/", ">">>
                  [] OTHER -> start \o <<">">> \o inner \o <<"<", "/">> \o l.name \o <<">">>
    IN  doc
=============================================================================
