----------------------------- MODULE Iks_proofs -----------------------------
(***************************************************************************)
(* The lists of children and of attributes stay whole, for every sequence  *)
(* of calls and trees of every size, and what an application sees of them  *)
(* is an OrderedTree.                                                      *)
(***************************************************************************)
EXTENDS Iks, Heap_proofs

-----------------------------------------------------------------------------
(* What the application sees of a change.                                  *)

\* The list operations by the names that OrderedTree has for them.
LEMMA ListOperations ==
    ASSUME NEW T, NEW s \in Seq(T), NEW y \in T
    PROVE  /\ With(s, Len(s) + 1, y) = Append(s, y)
           /\ \A k \in 1 .. Len(s) + 1 : InsertAt(s, k, y) = With(s, k, y)
           /\ \A k \in 1 .. Len(s) : RemoveAt(s, k) = Without(s, k)
<1>1. PICK L \in Nat : L = Len(s) /\ DOMAIN s = 1 .. L /\ \A i \in 1 .. L : s[i] \in T  OBVIOUS
<1>2. With(s, Len(s) + 1, y) = Append(s, y)
  <2>1. PICK t : t = Append(s, y)  OBVIOUS
  <2>2. t = [i \in 1 .. L + 1 |-> t[i]]
    <3>1. t \in Seq(T) /\ Len(t) = L + 1  BY <1>1, <2>1
    <3> QED BY ONLY <3>1
  <2>3. \A i \in 1 .. L + 1 : t[i] = IF i < L + 1 THEN s[i] ELSE y  BY <1>1, <2>1
  <2>4. With(s, L + 1, y) = [i \in 1 .. L + 1 + 0 |-> IF i < L + 1 THEN s[i] ELSE IF i = L + 1 THEN y ELSE s[i - 1]]
    BY <1>1 DEF With
  <2>5. \A i \in 1 .. L + 1 : i < L + 1 \/ i = L + 1  OBVIOUS
  <2> QED BY <1>1, <2>1, <2>2, <2>3, <2>4, <2>5
<1>3. ASSUME NEW k \in 1 .. L + 1 PROVE InsertAt(s, k, y) = With(s, k, y)
  <2>1. PICK u : u = SubSeq(s, 1, k - 1)  OBVIOUS
  <2>2. PICK v : v = SubSeq(s, k, L)  OBVIOUS
  <2>3. u \in Seq(T) /\ Len(u) = k - 1 /\ \A i \in 1 .. k - 1 : u[i] = s[i]  BY <1>1, <2>1
  <2>4. v \in Seq(T) /\ Len(v) = L - k + 1 /\ \A i \in 1 .. L - k + 1 : v[i] = s[k + i - 1]
    BY <1>1, <2>2
  <2>5. PICK t : t = (u \o <<y>>) \o v  OBVIOUS
  <2>6. t \in Seq(T) /\ Len(t) = L + 1
    <3>1. <<y>> \in Seq(T) /\ Len(<<y>>) = 1  OBVIOUS
    <3>2. PICK w : w = u \o <<y>>  OBVIOUS
    <3>3. w \in Seq(T) /\ Len(w) = Len(u) + 1  BY ONLY <2>3, <3>1, <3>2
    <3>4. t = w \o v  BY <2>5, <3>2
    <3>5. t \in Seq(T) /\ Len(t) = Len(w) + Len(v)  BY <2>4, <3>3, <3>4, ConcatProperties
    <3>6. (k - 1) + 1 + (L - k + 1) = L + 1  OBVIOUS
    <3> QED BY <2>3, <2>4, <3>3, <3>5, <3>6
  <2>7. ASSUME NEW i \in 1 .. L + 1
        PROVE  t[i] = IF i < k THEN s[i] ELSE IF i = k THEN y ELSE s[i - 1]
    <3>0. <<y>> \in Seq(T) /\ Len(<<y>>) = 1 /\ <<y>>[1] = y  OBVIOUS
    <3>5. PICK w : w = u \o <<y>>  OBVIOUS
    <3>1. w \in Seq(T) /\ w = u \o <<y>>  BY ONLY <2>3, <3>0, <3>5
    <3>2. Len(w) = k /\ w[k] = y /\ \A j \in 1 .. k - 1 : w[j] = s[j]  BY <2>3, <3>1
    <3>3. t[i] = IF i <= k THEN w[i] ELSE v[i - k]  BY <2>4, <2>5, <3>1, <3>2
    <3>4. i > k => i - k \in 1 .. L - k + 1 /\ k + (i - k) - 1 = i - 1  OBVIOUS
    <3> QED BY <2>4, <3>2, <3>3, <3>4
  <2>8. t = [i \in 1 .. L + 1 |-> IF i < k THEN s[i] ELSE IF i = k THEN y ELSE s[i - 1]]
    BY <2>6, <2>7
  <2> QED BY <1>1, <2>1, <2>2, <2>5, <2>8 DEF InsertAt, With
<1>4. ASSUME NEW k \in 1 .. L PROVE RemoveAt(s, k) = Without(s, k)
  <2>1. PICK u : u = SubSeq(s, 1, k - 1)  OBVIOUS
  <2>2. PICK v : v = SubSeq(s, k + 1, L)  OBVIOUS
  <2>3. u \in Seq(T) /\ Len(u) = k - 1 /\ \A i \in 1 .. k - 1 : u[i] = s[i]  BY <1>1, <2>1
  <2>4. v \in Seq(T) /\ Len(v) = L - k /\ \A i \in 1 .. L - k : v[i] = s[k + i]  BY <1>1, <2>2
  <2>5. PICK t : t = u \o v  OBVIOUS
  <2>6. t \in Seq(T) /\ Len(t) = L - 1
    <3>1. t \in Seq(T) /\ Len(t) = Len(u) + Len(v)  BY <2>3, <2>4, <2>5, ConcatProperties
    <3>2. (k - 1) + (L - k) = L - 1  OBVIOUS
    <3> QED BY <2>3, <2>4, <3>1, <3>2
  <2>7. ASSUME NEW i \in 1 .. L - 1 PROVE t[i] = IF i < k THEN s[i] ELSE s[i + 1]
    <3>1. t[i] = IF i <= k - 1 THEN u[i] ELSE v[i - (k - 1)]  BY <2>3, <2>4, <2>5
    <3>2. i >= k => i - (k - 1) \in 1 .. L - k /\ k + (i - (k - 1)) = i + 1  OBVIOUS
    <3> QED BY <2>3, <2>4, <3>1, <3>2, SMTT(30)
  <2>8. t = [i \in 1 .. L - 1 |-> IF i < k THEN s[i] ELSE s[i + 1]]  BY <2>6, <2>7
  <2> QED BY <1>1, <2>1, <2>2, <2>5, <2>8 DEF RemoveAt, Without
<1> QED BY <1>1, <1>2, <1>3, <1>4

LEMMA WalkIsList ==
    ASSUME NEW h, NEW out, Whole(h, out), NEW x \in 1 .. Len(h), IsTag(h, x), NEW r \in Roles
    PROVE  ListOf(h, x, r, ListAt(h, x, r)) /\ Complete(h, x, r, out, ListAt(h, x, r))
<1>1. Len(h) \in Nat  BY DEF Whole
<1>2. PICK s : ListOf(h, x, r, s) /\ Complete(h, x, r, out, s)  BY DEF Whole, HasList
<1> QED BY <1>1, <1>2, WalkOfList

\* What is seen, by its parts.
LEMMA Seen ==
    ASSUME NEW h
    PROVE  /\ Label(h) = [x \in ElementsOf(h) |->
                            [type |-> h[x].type, name |-> h[x].name, text |-> h[x].text]]
           /\ Kids(h) = [x \in ElementsOf(h) |-> IF IsTag(h, x) THEN ListAt(h, x, "kids") ELSE <<>>]
           /\ Attrs(h) = [x \in ElementsOf(h) |->
                            IF IsTag(h, x) THEN Pairs(h, ListAt(h, x, "attribs")) ELSE <<>>]
BY DEF Label, Kids, Attrs, ListAt, FirstOf, Attribs

LEMMA PairsSame ==
    ASSUME NEW h, NEW g, SameContent(h, g), Len(h) \in Nat, NEW s \in Seq(1 .. Len(h))
    PROVE  Pairs(g, s) = Pairs(h, s)
<1>1. ASSUME NEW i \in 1 .. Len(s) PROVE g[s[i]].name = h[s[i]].name /\ g[s[i]].text = h[s[i]].text
  <2>1. s[i] \in 1 .. Len(h)  OBVIOUS
  <2> QED BY <2>1 DEF SameContent
<1> QED BY <1>1 DEF Pairs

LEMMA ContentSeen ==
    ASSUME NEW h, NEW g, SameContent(h, g), Len(g) = Len(h)
    PROVE  /\ ElementsOf(g) = ElementsOf(h) /\ Label(g) = Label(h)
           /\ \A x \in 1 .. Len(h) : IsTag(g, x) <=> IsTag(h, x)
<1>1. ElementsOf(g) = ElementsOf(h)  BY DEF ElementsOf, SameContent
<1>2. \A x \in ElementsOf(h) : [type |-> g[x].type, name |-> g[x].name, text |-> g[x].text]
                             = [type |-> h[x].type, name |-> h[x].name, text |-> h[x].text]
  BY DEF ElementsOf, SameContent
<1> QED BY <1>1, <1>2 DEF Label, IsTag, SameContent

LEMMA KidsSeen ==
    ASSUME NEW h, NEW out, Whole(h, out), NEW g, Len(g) = Len(h), SameContent(h, g),
           NEW p \in 1 .. Len(h), IsTag(h, p), NEW s, ListChanged(h, g, p, "kids", s)
    PROVE  /\ Label(g) = Label(h) /\ Attrs(g) = Attrs(h)
           /\ Kids(g) = [Kids(h) EXCEPT ![p] = s]
<1>1. /\ ElementsOf(g) = ElementsOf(h) /\ Label(g) = Label(h)
      /\ \A x \in 1 .. Len(h) : IsTag(g, x) <=> IsTag(h, x)
  BY ContentSeen
<1>2. /\ ListAt(g, p, "kids") = s
      /\ \A x \in 1 .. Len(h), r \in Roles : IsTag(h, x) /\ (x = p => r # "kids") =>
            ListAt(g, x, r) = ListAt(h, x, r)
  BY DEF ListChanged, OthersSame
<1>3. ElementsOf(h) \subseteq 1 .. Len(h) /\ p \in ElementsOf(h)  BY DEF ElementsOf, IsTag
<1>4. Len(h) \in Nat  BY DEF Whole
<1>5. "kids" \in Roles /\ "attribs" \in Roles /\ "kids" # "attribs"  BY DEF Roles
<1>6. ASSUME NEW x \in ElementsOf(h), IsTag(h, x)
      PROVE  Pairs(g, ListAt(g, x, "attribs")) = Pairs(h, ListAt(h, x, "attribs"))
  <2>1. ListAt(g, x, "attribs") = ListAt(h, x, "attribs")  BY <1>2, <1>3, <1>5, <1>6
  <2>2. ListOf(h, x, "attribs", ListAt(h, x, "attribs"))  BY <1>3, <1>5, <1>6, WalkIsList
  <2>3. ListAt(h, x, "attribs") \in Seq(1 .. Len(h))  BY <2>2 DEF ListOf, IsList
  <2> QED BY <1>4, <2>1, <2>3, PairsSame
<1>7. ASSUME NEW x \in ElementsOf(h)
      PROVE  (IF IsTag(g, x) THEN Pairs(g, ListAt(g, x, "attribs")) ELSE <<>>)
               = IF IsTag(h, x) THEN Pairs(h, ListAt(h, x, "attribs")) ELSE <<>>
  BY <1>1, <1>3, <1>6
<1>8. Attrs(g) = Attrs(h)  BY <1>1, <1>7, Seen
<1>9. ASSUME NEW x \in ElementsOf(h)
      PROVE  (IF IsTag(g, x) THEN ListAt(g, x, "kids") ELSE <<>>)
               = IF x = p THEN s ELSE IF IsTag(h, x) THEN ListAt(h, x, "kids") ELSE <<>>
  BY <1>1, <1>2, <1>3, <1>5
<1>10. Kids(g) = [x \in ElementsOf(h) |->
                    IF x = p THEN s ELSE IF IsTag(h, x) THEN ListAt(h, x, "kids") ELSE <<>>]
  BY <1>1, <1>9, Seen
<1>11. Kids(h) = [x \in ElementsOf(h) |-> IF IsTag(h, x) THEN ListAt(h, x, "kids") ELSE <<>>]
  BY Seen
<1>12. Kids(g) = [Kids(h) EXCEPT ![p] = s]  BY ONLY <1>10, <1>11
<1> QED BY <1>1, <1>8, <1>12

LEMMA AttribsSeen ==
    ASSUME NEW h, NEW out, Whole(h, out), NEW g, Len(g) = Len(h), SameContent(h, g),
           NEW p \in 1 .. Len(h), IsTag(h, p), NEW s \in Seq(1 .. Len(h)),
           ListChanged(h, g, p, "attribs", s)
    PROVE  /\ Label(g) = Label(h) /\ Kids(g) = Kids(h)
           /\ Attrs(g) = [Attrs(h) EXCEPT ![p] = Pairs(h, s)]
<1>1. /\ ElementsOf(g) = ElementsOf(h) /\ Label(g) = Label(h)
      /\ \A x \in 1 .. Len(h) : IsTag(g, x) <=> IsTag(h, x)
  BY ContentSeen
<1>2. /\ ListAt(g, p, "attribs") = s
      /\ \A x \in 1 .. Len(h), r \in Roles : IsTag(h, x) /\ (x = p => r # "attribs") =>
            ListAt(g, x, r) = ListAt(h, x, r)
  BY DEF ListChanged, OthersSame
<1>3. ElementsOf(h) \subseteq 1 .. Len(h) /\ p \in ElementsOf(h)  BY DEF ElementsOf, IsTag
<1>4. Len(h) \in Nat  BY DEF Whole
<1>5. "kids" \in Roles /\ "attribs" \in Roles /\ "kids" # "attribs"  BY DEF Roles
<1>6. ASSUME NEW x \in ElementsOf(h), IsTag(h, x)
      PROVE  Pairs(g, ListAt(g, x, "attribs"))
               = IF x = p THEN Pairs(h, s) ELSE Pairs(h, ListAt(h, x, "attribs"))
  <2>1. CASE x = p  BY <1>2, <1>4, <2>1, PairsSame
  <2>2. CASE x # p
    <3>1. ListAt(g, x, "attribs") = ListAt(h, x, "attribs")  BY <1>2, <1>3, <1>5, <1>6, <2>2
    <3>2. ListOf(h, x, "attribs", ListAt(h, x, "attribs"))  BY <1>3, <1>5, <1>6, WalkIsList
    <3>3. ListAt(h, x, "attribs") \in Seq(1 .. Len(h))  BY <3>2 DEF ListOf, IsList
    <3> QED BY <1>4, <2>2, <3>1, <3>3, PairsSame
  <2> QED BY <2>1, <2>2
<1>7. ASSUME NEW x \in ElementsOf(h)
      PROVE  (IF IsTag(g, x) THEN Pairs(g, ListAt(g, x, "attribs")) ELSE <<>>)
               = IF x = p THEN Pairs(h, s)
                 ELSE IF IsTag(h, x) THEN Pairs(h, ListAt(h, x, "attribs")) ELSE <<>>
  BY <1>1, <1>3, <1>6
<1>8. Attrs(g) = [x \in ElementsOf(h) |->
                    IF x = p THEN Pairs(h, s)
                    ELSE IF IsTag(h, x) THEN Pairs(h, ListAt(h, x, "attribs")) ELSE <<>>]
  BY <1>1, <1>7, Seen
<1>9. Attrs(h) = [x \in ElementsOf(h) |->
                    IF IsTag(h, x) THEN Pairs(h, ListAt(h, x, "attribs")) ELSE <<>>]
  BY Seen
<1>10. Attrs(g) = [Attrs(h) EXCEPT ![p] = Pairs(h, s)]  BY ONLY <1>8, <1>9
<1>11. ASSUME NEW x \in ElementsOf(h)
       PROVE  (IF IsTag(g, x) THEN ListAt(g, x, "kids") ELSE <<>>)
                = IF IsTag(h, x) THEN ListAt(h, x, "kids") ELSE <<>>
  BY <1>1, <1>2, <1>3, <1>5
<1>12. Kids(g) = Kids(h)  BY <1>1, <1>11, Seen
<1> QED BY <1>1, <1>10, <1>12

LEMMA WithMade ==
    ASSUME NEW f, NEW g, NEW y, DOMAIN g = DOMAIN f \cup {y}, g = [x \in DOMAIN g |-> g[x]],
           y \notin DOMAIN f, \A x \in DOMAIN f : g[x] = f[x]
    PROVE  g = Forest!With(f, y, g[y])
BY DEF Forest!With

\* A new node y is a tree of its own, and the others are what they were.
OthersKeptBy(h, g) ==
    /\ \A x \in 1 .. Len(h) : g[x] = h[x]
    /\ \A x \in 1 .. Len(h), r \in Roles : IsTag(h, x) => ListAt(g, x, r) = ListAt(h, x, r)
SeenSame(h, g) == Label(g) = Label(h) /\ Kids(g) = Kids(h) /\ Attrs(g) = Attrs(h)
LabelOf(n) == [type |-> n.type, name |-> n.name, text |-> n.text]
SeenWith(h, g, y, n) ==
    /\ Label(g) = Forest!With(Label(h), y, LabelOf(n))
    /\ Kids(g) = Forest!With(Kids(h), y, <<>>)
    /\ Attrs(g) = Forest!With(Attrs(h), y, <<>>)

LEMMA AppendedSeen ==
    ASSUME NEW h, NEW out, Whole(h, out), NEW n \in NodeRec({NULL}), NEW g, g = Append(h, n),
           NEW y, y = Made(h)
    PROVE  /\ OthersKeptBy(h, g)
           /\ n.type = "ATTRIBUTE" => SeenSame(h, g)
           /\ n.type # "ATTRIBUTE" => SeenWith(h, g, y, n)
<1>1. PICK L \in Nat : L = Len(h) /\ h \in Seq(NodeRec(0 .. L))  BY DEF Whole
<1>2. y = L + 1 /\ y \notin 1 .. L  BY <1>1 DEF Made
<1>3. Whole(g, out) /\ Len(g) = L + 1 /\ g[y] = n  BY <1>1, <1>2, WholeAppended
<1>4. \A x \in 1 .. L : g[x] = h[x]  BY <1>1
<1>5. \A x \in 1 .. L : IsTag(g, x) <=> IsTag(h, x)  BY <1>4 DEF IsTag
<1>6. ASSUME NEW x \in 1 .. L, NEW r \in Roles, IsTag(h, x)
      PROVE  ListAt(g, x, r) = ListAt(h, x, r) /\ ListAt(h, x, r) \in Seq(1 .. L)
  <2>1. ListOf(h, x, r, ListAt(h, x, r))  BY <1>1, <1>6, WalkIsList
  <2>2. FirstOf(g, x, r) = FirstOf(h, x, r) /\ LastOf(g, x, r) = LastOf(h, x, r)
    BY <1>4 DEF FirstOf, LastOf
  <2>3. Len(h) \in Nat /\ Len(g) \in Nat /\ Len(h) <= Len(g)  BY <1>1, <1>3
  <2>4. \A j \in 1 .. Len(h) : h[j].parent = x /\ Role(h, j) = r =>
            /\ g[j].next = h[j].next /\ g[j].prev = h[j].prev
            /\ g[j].parent = h[j].parent /\ g[j].type = h[j].type
    BY <1>1, <1>4
  <2>5. ListOf(g, x, r, ListAt(h, x, r))  BY ONLY <2>1, <2>2, <2>3, <2>4, ListOfKept
  <2>6. ListAt(h, x, r) \in Seq(1 .. L)  BY <1>1, <2>1 DEF ListOf, IsList
  <2> QED BY <2>3, <2>5, <2>6, WalkOfList
<1>7. \A r \in Roles : ListAt(g, y, r) = <<>>
  <2>1. n.first = NULL /\ n.attribs = NULL  BY DEF NodeRec
  <2> QED BY <1>3, <2>1 DEF ListAt, FirstOf, Chain
<1>8. "kids" \in Roles /\ "attribs" \in Roles  BY DEF Roles
<1>9. ASSUME NEW x \in 1 .. L, IsTag(h, x)
      PROVE  Pairs(g, ListAt(g, x, "attribs")) = Pairs(h, ListAt(h, x, "attribs"))
  <2>1. SameContent(h, g)  BY <1>1, <1>4 DEF SameContent
  <2>2. Pairs(g, ListAt(h, x, "attribs")) = Pairs(h, ListAt(h, x, "attribs"))
    BY <1>1, <1>6, <1>8, <1>9, <2>1, PairsSame
  <2> QED BY <1>6, <1>8, <1>9, <2>2
<1>10. ASSUME n.type = "ATTRIBUTE"
       PROVE  Label(g) = Label(h) /\ Kids(g) = Kids(h) /\ Attrs(g) = Attrs(h)
  <2>1. ElementsOf(g) = ElementsOf(h)
    <3>1. \A x \in 1 .. L + 1 : x = y \/ x \in 1 .. L  BY <1>2
    <3> QED BY <1>1, <1>2, <1>3, <1>4, <1>10, <3>1 DEF ElementsOf
  <2>2. ElementsOf(h) \subseteq 1 .. L  BY <1>1 DEF ElementsOf
  <2>3. Label(g) = Label(h)
    <3>1. \A x \in ElementsOf(h) : g[x] = h[x]  BY <1>4, <2>2
    <3> QED BY <2>1, <3>1 DEF Label
  <2>4. Kids(g) = Kids(h)
    <3>1. \A x \in ElementsOf(h) : (IF IsTag(g, x) THEN ListAt(g, x, "kids") ELSE <<>>)
                                 = IF IsTag(h, x) THEN ListAt(h, x, "kids") ELSE <<>>
      BY <1>5, <1>6, <1>8, <2>2
    <3> QED BY <2>1, <3>1, Seen
  <2>5. Attrs(g) = Attrs(h)
    <3>1. \A x \in ElementsOf(h) :
              (IF IsTag(g, x) THEN Pairs(g, ListAt(g, x, "attribs")) ELSE <<>>)
                = IF IsTag(h, x) THEN Pairs(h, ListAt(h, x, "attribs")) ELSE <<>>
      BY <1>5, <1>9, <2>2
    <3> QED BY <2>1, <3>1, Seen
  <2> QED BY <2>3, <2>4, <2>5
<1>11. ASSUME n.type # "ATTRIBUTE"
       PROVE  /\ Label(g) = Forest!With(Label(h), y, [type |-> n.type, name |-> n.name, text |-> n.text])
              /\ Kids(g) = Forest!With(Kids(h), y, <<>>)
              /\ Attrs(g) = Forest!With(Attrs(h), y, <<>>)
  <2>1. ElementsOf(g) = ElementsOf(h) \cup {y}
    <3>1. \A x : x \in 1 .. L + 1 <=> x = y \/ x \in 1 .. L  BY <1>2
    <3> QED BY <1>1, <1>2, <1>3, <1>4, <1>11, <3>1 DEF ElementsOf
  <2>2. ElementsOf(h) \subseteq 1 .. L /\ y \notin ElementsOf(h)  BY <1>1, <1>2 DEF ElementsOf
  <2>3. Label(g) = Forest!With(Label(h), y, [type |-> n.type, name |-> n.name, text |-> n.text])
    <3>1. \A x \in ElementsOf(h) : g[x] = h[x]  BY <1>4, <2>2
    <3> QED BY <1>3, <2>1, <2>2, <3>1 DEF Label, Forest!With
  <2>4. Kids(g) = Forest!With(Kids(h), y, <<>>)
    <3>1. \A x \in ElementsOf(h) : (IF IsTag(g, x) THEN ListAt(g, x, "kids") ELSE <<>>)
                                 = IF IsTag(h, x) THEN ListAt(h, x, "kids") ELSE <<>>
      BY <1>5, <1>6, <1>8, <2>2
    <3>2. (IF IsTag(g, y) THEN ListAt(g, y, "kids") ELSE <<>>) = <<>>  BY <1>7, <1>8
    <3>4. Kids(g) = [x \in ElementsOf(g) |-> IF IsTag(g, x) THEN ListAt(g, x, "kids") ELSE <<>>]
      BY Seen
    <3>5. Kids(h) = [x \in ElementsOf(h) |-> IF IsTag(h, x) THEN ListAt(h, x, "kids") ELSE <<>>]
      BY Seen
    <3>6. DOMAIN Kids(g) = DOMAIN Kids(h) \cup {y} /\ Kids(g) = [x \in DOMAIN Kids(g) |-> Kids(g)[x]]
      BY ONLY <2>1, <3>4, <3>5
    <3>7. \A x \in DOMAIN Kids(h) : Kids(g)[x] = Kids(h)[x]  BY ONLY <2>1, <3>1, <3>4, <3>5
    <3>8. Kids(g)[y] = <<>> /\ y \notin DOMAIN Kids(h)  BY ONLY <2>1, <2>2, <3>2, <3>4, <3>5
    <3> QED BY ONLY <3>6, <3>7, <3>8, WithMade
  <2>5. Attrs(g) = Forest!With(Attrs(h), y, <<>>)
    <3>1. \A x \in ElementsOf(h) :
              (IF IsTag(g, x) THEN Pairs(g, ListAt(g, x, "attribs")) ELSE <<>>)
                = IF IsTag(h, x) THEN Pairs(h, ListAt(h, x, "attribs")) ELSE <<>>
      BY <1>5, <1>9, <2>2
    <3>2. Pairs(g, <<>>) = <<>>  BY DEF Pairs
    <3>3. (IF IsTag(g, y) THEN Pairs(g, ListAt(g, y, "attribs")) ELSE <<>>) = <<>>
      BY <1>7, <1>8, <3>2
    <3>4. Attrs(g) = [x \in ElementsOf(g) |-> IF IsTag(g, x) THEN Pairs(g, ListAt(g, x, "attribs")) ELSE <<>>]
      BY Seen
    <3>5. Attrs(h) = [x \in ElementsOf(h) |-> IF IsTag(h, x) THEN Pairs(h, ListAt(h, x, "attribs")) ELSE <<>>]
      BY Seen
    <3>6. DOMAIN Attrs(g) = DOMAIN Attrs(h) \cup {y} /\ Attrs(g) = [x \in DOMAIN Attrs(g) |-> Attrs(g)[x]]
      BY ONLY <2>1, <3>4, <3>5
    <3>7. \A x \in DOMAIN Attrs(h) : Attrs(g)[x] = Attrs(h)[x]  BY ONLY <2>1, <3>1, <3>4, <3>5
    <3>8. Attrs(g)[y] = <<>> /\ y \notin DOMAIN Attrs(h)  BY ONLY <2>1, <2>2, <3>3, <3>4, <3>5
    <3> QED BY ONLY <3>6, <3>7, <3>8, WithMade
  <2> QED BY <2>3, <2>4, <2>5
<1>12. OthersKeptBy(h, g)  BY <1>1, <1>4, <1>6 DEF OthersKeptBy
<1> QED BY <1>10, <1>11, <1>12 DEF SeenSame, SeenWith, LabelOf

LEMMA WithOther ==
    ASSUME NEW f, NEW x \in DOMAIN f, NEW y, x # y, NEW v, NEW w
    PROVE  [Forest!With(f, y, w) EXCEPT ![x] = v] = Forest!With([f EXCEPT ![x] = v], y, w)
BY DEF Forest!With

\* iks_insert, and iks_insert_cdata where it makes a node.
InsertedAs(h, g, x, y, n) ==
    /\ Label(g) = Forest!With(Label(h), y, LabelOf(n))
    /\ Kids(g) = Forest!With([Kids(h) EXCEPT ![x] = Append(@, y)], y, <<>>)
    /\ Attrs(g) = Forest!With(Attrs(h), y, <<>>)

LEMMA InsertedSeen ==
    ASSUME NEW h, NEW out, Whole(h, out), NEW x \in 1 .. Len(h), IsTag(h, x),
           NEW n \in NodeRec({NULL}), n.type # "ATTRIBUTE", NEW y, y = Made(h),
           NEW g, g = LinkLast(Append(h, n), x, y)
    PROVE  InsertedAs(h, g, x, y, n)
<1>1. PICK L \in Nat : L = Len(h) /\ h \in Seq(NodeRec(0 .. L))  BY DEF Whole
<1>2. PICK k : k = Append(h, n)  OBVIOUS
<1>3. y = L + 1  BY <1>1 DEF Made
<1>4. Whole(k, out) /\ Len(k) = L + 1 /\ k[y] = n  BY <1>1, <1>2, <1>3, WholeAppended
<1>5. /\ \A z \in 1 .. L : k[z] = h[z]
      /\ ListAt(k, x, "kids") = ListAt(h, x, "kids")
      /\ Label(k) = Forest!With(Label(h), y, LabelOf(n))
      /\ Kids(k) = Forest!With(Kids(h), y, <<>>)
      /\ Attrs(k) = Forest!With(Attrs(h), y, <<>>)
  <2>1. "kids" \in Roles  BY DEF Roles
  <2>2. OthersKeptBy(h, k) /\ SeenWith(h, k, y, n)  BY <1>2, AppendedSeen
  <2> QED BY <1>1, <2>1, <2>2 DEF OthersKeptBy, SeenWith
<1>6. IsTag(k, x) /\ x \in 1 .. Len(k) /\ y \in 1 .. Len(k) /\ x # y
  BY <1>1, <1>3, <1>4, <1>5 DEF IsTag
<1>7. k[y].parent = NULL /\ Role(k, y) = "kids"  BY <1>4 DEF NodeRec, Role
<1>8. PICK s : s = ListAt(k, x, "kids")  OBVIOUS
<1>9. /\ SameContent(k, g) /\ Len(g) = Len(k)
      /\ ListChanged(k, g, x, "kids", With(s, Len(s) + 1, y))
  BY <1>2, <1>4, <1>6, <1>7, <1>8, WholeLast
<1>10. s \in Seq(1 .. Len(k))
  <2>1. ListOf(k, x, "kids", s)  BY <1>4, <1>6, <1>8, WalkIsList DEF Roles
  <2> QED BY <2>1 DEF ListOf, IsList
<1>11. With(s, Len(s) + 1, y) = Append(s, y)  BY <1>6, <1>10, ListOperations
<1>12. /\ Label(g) = Label(k) /\ Attrs(g) = Attrs(k)
       /\ Kids(g) = [Kids(k) EXCEPT ![x] = Append(s, y)]
  BY <1>4, <1>6, <1>9, <1>11, KidsSeen
<1>13. x \in DOMAIN Kids(h) /\ Kids(h)[x] = s
  <2>1. x \in ElementsOf(h)  BY DEF ElementsOf, IsTag
  <2> QED BY <1>5, <1>8, <2>1, Seen
<1>14. Kids(g) = Forest!With([Kids(h) EXCEPT ![x] = Append(s, y)], y, <<>>)
  <2>1. PICK v : v = Append(s, y)  OBVIOUS
  <2>2. Kids(g) = [Kids(k) EXCEPT ![x] = v]  BY <1>12, <2>1
  <2>3. Kids(g) = Forest!With([Kids(h) EXCEPT ![x] = v], y, <<>>)
    BY <1>5, <1>6, <1>13, <2>2, WithOther
  <2> QED BY <2>1, <2>3
<1>15. [Kids(h) EXCEPT ![x] = Append(s, y)] = [Kids(h) EXCEPT ![x] = Append(@, y)]  BY <1>13
<1> QED BY <1>5, <1>12, <1>14, <1>15 DEF InsertedAs

LEMMA PositionFound ==
    ASSUME NEW T, NEW s \in Seq(T), IsInjective(s), NEW k \in 1 .. Len(s)
    PROVE  Forest!Position(s, s[k]) = k /\ s[k] \in ToSet(s)
<1>1. \A i \in 1 .. Len(s) : s[i] = s[k] => i = k  BY DEF IsInjective
<1> QED BY <1>1 DEF Forest!Position, ToSet

\* iks_append and iks_prepend, and the same for texts.
BesideAs(h, g, x, z, y, n, b) ==
    /\ x \in 1 .. Len(h) /\ IsTag(h, x) /\ z \in ToSet(Kids(h)[x])
    /\ Label(g) = Forest!With(Label(h), y, LabelOf(n))
    /\ Kids(g) = Forest!With([Kids(h) EXCEPT ![x] = InsertAt(@, Forest!Position(@, z) + b, y)], y, <<>>)
    /\ Attrs(g) = Forest!With(Attrs(h), y, <<>>)

LEMMA BesideSeen ==
    ASSUME NEW h, NEW out, Whole(h, out), NEW z \in (1 .. Len(h)) \ out,
           h[z].parent # NULL, h[z].type # "ATTRIBUTE",
           NEW n \in NodeRec({NULL}), n.type # "ATTRIBUTE", NEW y, y = Made(h), NEW x, x = h[z].parent,
           NEW b \in 0 .. 1,
           NEW g, g = IF b = 1 THEN LinkBehind(Append(h, n), z, y) ELSE LinkBefore(Append(h, n), z, y)
    PROVE  BesideAs(h, g, x, z, y, n, b)
<1>1. PICK L \in Nat : L = Len(h) /\ h \in Seq(NodeRec(0 .. L))  BY DEF Whole
<1>2. PICK k : k = Append(h, n)  OBVIOUS
<1>3. y = L + 1  BY <1>1 DEF Made
<1>4. Whole(k, out) /\ Len(k) = L + 1 /\ k[y] = n  BY <1>1, <1>2, <1>3, WholeAppended
<1>5. x \in 1 .. L /\ IsTag(h, x)
  <2>1. h[z].parent \in 0 .. Len(h)  BY LinksTyped
  <2>2. IsTag(h, h[z].parent)  BY DEF Whole
  <2> QED BY <1>1, <2>1, <2>2 DEF NULL
<1>6. /\ \A j \in 1 .. L : k[j] = h[j]
      /\ ListAt(k, x, "kids") = ListAt(h, x, "kids")
      /\ Label(k) = Forest!With(Label(h), y, LabelOf(n))
      /\ Kids(k) = Forest!With(Kids(h), y, <<>>)
      /\ Attrs(k) = Forest!With(Attrs(h), y, <<>>)
  <2>1. "kids" \in Roles  BY DEF Roles
  <2>2. OthersKeptBy(h, k) /\ SeenWith(h, k, y, n)  BY <1>2, AppendedSeen
  <2> QED BY <1>1, <1>5, <2>1, <2>2 DEF OthersKeptBy, SeenWith
<1>7. /\ IsTag(k, x) /\ x \in 1 .. Len(k) /\ y \in 1 .. Len(k) /\ x # y
      /\ z \in (1 .. Len(k)) \ out /\ k[z].parent = x /\ x # NULL /\ Role(k, z) = "kids"
  BY <1>1, <1>3, <1>4, <1>5, <1>6 DEF IsTag, Role
<1>8. k[y].parent = NULL /\ Role(k, y) = "kids"  BY <1>4 DEF NodeRec, Role
<1>9. PICK s : s = ListAt(k, x, "kids")  OBVIOUS
<1>10. PICK i \in 1 .. Len(s) : /\ s[i] = z /\ SameContent(k, g) /\ Len(g) = Len(k)
                               /\ ListChanged(k, g, x, "kids", With(s, i + b, y))
  <2>1. CASE b = 1
    <3>1. g = LinkBehind(k, z, y)  BY <1>2, <2>1
    <3>2. PICK i \in 1 .. Len(s) : /\ s[i] = z /\ SameContent(k, g) /\ Len(g) = Len(k)
                                   /\ ListChanged(k, g, x, "kids", With(s, i + 1, y))
      <4>1. LET u == ListAt(k, k[z].parent, "kids")
            IN  \E j \in 1 .. Len(u) :
                u[j] = z /\ ListChanged(k, LinkBehind(k, z, y), k[z].parent, "kids", With(u, j + 1, y))
        BY <1>4, <1>7, <1>8, WholeBehind
      <4>2. /\ SameContent(k, LinkBehind(k, z, y)) /\ Len(LinkBehind(k, z, y)) = Len(k)
        BY <1>4, <1>7, <1>8, WholeBehind
      <4> QED BY <1>7, <1>9, <3>1, <4>1, <4>2
    <3> QED BY <2>1, <3>2
  <2>2. CASE b = 0
    <3>1. g = LinkBefore(k, z, y)  BY <1>2, <2>2
    <3>2. \A i \in 1 .. Len(s) : i + b = i
      <4>1. s \in Seq(1 .. Len(k))
        <5>1. ListOf(k, x, "kids", s)  BY <1>4, <1>7, <1>9, WalkIsList DEF Roles
        <5> QED BY <5>1 DEF ListOf, IsList
      <4> QED BY <2>2, <4>1
    <3> QED BY <1>4, <1>7, <1>8, <1>9, <3>1, <3>2, WholeBefore, SMTT(30)
  <2> QED BY <2>1, <2>2
<1>11. s \in Seq(1 .. Len(k)) /\ IsInjective(s)
  <2>1. ListOf(k, x, "kids", s)  BY <1>4, <1>7, <1>9, WalkIsList DEF Roles
  <2> QED BY <2>1 DEF ListOf, IsList
<1>12. With(s, i + b, y) = InsertAt(s, i + b, y)
  <2>1. i + b \in 1 .. Len(s) + 1  BY <1>11
  <2> QED BY <1>7, <1>11, <2>1, ListOperations
<1>13. Forest!Position(s, z) = i /\ z \in ToSet(s)  BY <1>10, <1>11, PositionFound
<1>14. PICK v : v = InsertAt(s, Forest!Position(s, z) + b, y)  OBVIOUS
<1>15. /\ Label(g) = Label(k) /\ Attrs(g) = Attrs(k) /\ Kids(g) = [Kids(k) EXCEPT ![x] = v]
  <2>1. ListChanged(k, g, x, "kids", v)  BY <1>10, <1>12, <1>13, <1>14
  <2> QED BY <1>4, <1>7, <1>10, <2>1, KidsSeen, SMTT(30)
<1>16. x \in DOMAIN Kids(h) /\ Kids(h)[x] = s
  <2>1. x \in ElementsOf(h)  BY <1>1, <1>5 DEF ElementsOf, IsTag
  <2> QED BY <1>5, <1>6, <1>9, <2>1, Seen
<1>17. Kids(g) = Forest!With([Kids(h) EXCEPT ![x] = v], y, <<>>)
  BY <1>6, <1>7, <1>15, <1>16, WithOther
<1>18. [Kids(h) EXCEPT ![x] = v] = [Kids(h) EXCEPT ![x] = InsertAt(@, Forest!Position(@, z) + b, y)]
  BY <1>14, <1>16
<1> QED BY <1>1, <1>5, <1>6, <1>13, <1>15, <1>16, <1>17, <1>18 DEF BesideAs

\* iks_hide of a child.
TakenOut(h, g, x, z) ==
    /\ x \in 1 .. Len(h) /\ IsTag(h, x) /\ z \in ToSet(Kids(h)[x])
    /\ Label(g) = Label(h) /\ Attrs(g) = Attrs(h)
    /\ Kids(g) = [Kids(h) EXCEPT ![x] = RemoveAt(@, Forest!Position(@, z))]

LEMMA HiddenSeen ==
    ASSUME NEW h, NEW out, Whole(h, out), NEW z \in (1 .. Len(h)) \ out,
           h[z].parent # NULL, h[z].type # "ATTRIBUTE", NEW x, x = h[z].parent, NEW g, g = Hidden(h, z)
    PROVE  TakenOut(h, g, x, z)
<1>1. PICK L \in Nat : L = Len(h) /\ h \in Seq(NodeRec(0 .. L))  BY DEF Whole
<1>2. x \in 1 .. L /\ IsTag(h, x)
  <2>1. h[z].parent \in 0 .. Len(h)  BY LinksTyped
  <2>2. IsTag(h, h[z].parent)  BY DEF Whole
  <2> QED BY <1>1, <2>1, <2>2 DEF NULL
<1>3. PICK s : s = ListAt(h, x, "kids")  OBVIOUS
<1>4. Role(h, z) = "kids"  BY DEF Role
<1>5. PICK i \in 1 .. Len(s) : /\ s[i] = z /\ SameContent(h, g) /\ Len(g) = Len(h)
                              /\ ListChanged(h, g, x, "kids", Without(s, i))
  BY <1>3, <1>4, WholeHidden
<1>6. s \in Seq(1 .. L) /\ IsInjective(s)
  <2>1. ListOf(h, x, "kids", s)  BY <1>1, <1>2, <1>3, WalkIsList DEF Roles
  <2> QED BY <1>1, <2>1 DEF ListOf, IsList
<1>7. Forest!Position(s, z) = i /\ z \in ToSet(s)  BY <1>5, <1>6, PositionFound
<1>8. Without(s, i) = RemoveAt(s, Forest!Position(s, z))
  BY <1>2, <1>6, <1>7, ListOperations
<1>9. x \in DOMAIN Kids(h) /\ Kids(h)[x] = s
  <2>1. x \in ElementsOf(h)  BY <1>1, <1>2 DEF ElementsOf, IsTag
  <2> QED BY <1>2, <1>3, <2>1, Seen
<1>10. /\ Label(g) = Label(h) /\ Attrs(g) = Attrs(h) /\ Kids(g) = [Kids(h) EXCEPT ![x] = Without(s, i)]
  BY <1>1, <1>2, <1>5, KidsSeen
<1> QED BY <1>1, <1>2, <1>7, <1>8, <1>9, <1>10 DEF TakenOut

\* Where no link changes, no list does.
NoLinkChanged(h, g) ==
    Len(g) = Len(h) /\ \A j \in 1 .. Len(h), e \in LinkFields \cup {"type"} : g[j][e] = h[j][e]
NoListChanged(h, g) ==
    \A x \in 1 .. Len(h), r \in Roles : IsTag(h, x) => ListAt(g, x, r) = ListAt(h, x, r)

LEMMA ListsSame ==
    ASSUME NEW h, NEW out, Whole(h, out), NEW g, NoLinkChanged(h, g)
    PROVE  NoListChanged(h, g)
<1>1. \A j \in 1 .. Len(h) :
          /\ g[j].next = h[j].next /\ g[j].prev = h[j].prev /\ g[j].parent = h[j].parent
          /\ g[j].first = h[j].first /\ g[j].last = h[j].last
          /\ g[j].attribs = h[j].attribs /\ g[j].lastAttrib = h[j].lastAttrib
          /\ g[j].type = h[j].type
  BY DEF LinkFields, NoLinkChanged
<1>4. Len(g) = Len(h)  BY DEF NoLinkChanged
<1>2. LinksSame(h, g, NULL, "kids")  BY <1>1, <1>4 DEF LinksSame, FirstOf, LastOf
<1>3. OthersSame(h, g, NULL, "kids")  BY <1>2, <1>4, OthersKept
<1> QED BY <1>3 DEF OthersSame, NULL, NoListChanged

LEMMA BrokenSeen ==
    ASSUME NEW h, NEW out, Whole(h, out), NEW z, NEW b \in BOOLEAN,
           NEW g, g = [h EXCEPT ![z].broken = b]
    PROVE  SeenSame(h, g) /\ Len(g) = Len(h)
<1>1. PICK L \in Nat : L = Len(h) /\ h \in Seq(NodeRec(0 .. L))  BY DEF Whole
<1>2. Len(g) = L  BY <1>1
<1>3. \A j \in 1 .. L : h[j] \in NodeRec(0 .. L)  BY <1>1
<1>4. ASSUME NEW j \in 1 .. L, NEW e \in Fields \ {"broken"} PROVE g[j][e] = h[j][e]
  <2>1. g[j] = IF j = z THEN [h[j] EXCEPT !.broken = b] ELSE h[j]  BY <1>1
  <2> QED BY <1>3, <2>1 DEF NodeRec, Fields, LinkFields, Content
<1>5. LinkFields \cup {"type", "name", "text"} \subseteq Fields \ {"broken"}
  BY DEF Fields, LinkFields, Content
<1>6. \A x \in 1 .. Len(h), r \in Roles : IsTag(h, x) => ListAt(g, x, r) = ListAt(h, x, r)
  <2>1. NoLinkChanged(h, g)  BY <1>1, <1>2, <1>4, <1>5 DEF NoLinkChanged
  <2>2. NoListChanged(h, g)  BY <2>1, ListsSame
  <2> QED BY <2>2 DEF NoListChanged
<1>7. SameContent(h, g)  BY <1>1, <1>4, <1>5 DEF SameContent
<1>8. /\ ElementsOf(g) = ElementsOf(h) /\ Label(g) = Label(h)
      /\ \A x \in 1 .. Len(h) : IsTag(g, x) <=> IsTag(h, x)
  BY <1>1, <1>2, <1>7, ContentSeen
<1>9. ElementsOf(h) \subseteq 1 .. Len(h) /\ "kids" \in Roles /\ "attribs" \in Roles
  BY DEF ElementsOf, Roles
<1>10. \A x \in ElementsOf(h) : (IF IsTag(g, x) THEN ListAt(g, x, "kids") ELSE <<>>)
                              = IF IsTag(h, x) THEN ListAt(h, x, "kids") ELSE <<>>
  BY <1>6, <1>8, <1>9
<1>11. ASSUME NEW x \in ElementsOf(h)
       PROVE  (IF IsTag(g, x) THEN Pairs(g, ListAt(g, x, "attribs")) ELSE <<>>)
                = IF IsTag(h, x) THEN Pairs(h, ListAt(h, x, "attribs")) ELSE <<>>
  <2>1. CASE IsTag(h, x)
    <3>1. ListOf(h, x, "attribs", ListAt(h, x, "attribs"))  BY <1>9, <2>1, WalkIsList
    <3>2. ListAt(h, x, "attribs") \in Seq(1 .. Len(h))  BY <3>1 DEF ListOf, IsList
    <3>3. Pairs(g, ListAt(h, x, "attribs")) = Pairs(h, ListAt(h, x, "attribs"))
      BY <1>1, <1>7, <3>2, PairsSame
    <3> QED BY <1>6, <1>8, <1>9, <2>1, <3>3
  <2>2. CASE ~IsTag(h, x)  BY <1>8, <1>9, <2>2
  <2> QED BY <2>1, <2>2
<1>12. Kids(g) = Kids(h)
  <2>1. Kids(g) = [x \in ElementsOf(g) |-> IF IsTag(g, x) THEN ListAt(g, x, "kids") ELSE <<>>]
    BY ONLY Seen
  <2>2. Kids(h) = [x \in ElementsOf(h) |-> IF IsTag(h, x) THEN ListAt(h, x, "kids") ELSE <<>>]
    BY Seen
  <2> QED BY ONLY <1>8, <1>10, <2>1, <2>2
<1>13. Attrs(g) = Attrs(h)
  <2>1. Attrs(g) = [x \in ElementsOf(g) |->
                      IF IsTag(g, x) THEN Pairs(g, ListAt(g, x, "attribs")) ELSE <<>>]
    BY ONLY Seen
  <2>2. Attrs(h) = [x \in ElementsOf(h) |->
                      IF IsTag(h, x) THEN Pairs(h, ListAt(h, x, "attribs")) ELSE <<>>]
    BY Seen
  <2> QED BY ONLY <1>8, <1>11, <2>1, <2>2
<1> QED BY <1>1, <1>2, <1>8, <1>12, <1>13 DEF SeenSame

\* The place k of y among the attributes of x, and another value there.
PlaceOf(h, x, k, y) == LET s == ListAt(h, x, "attribs") IN k \in 1 .. Len(s) /\ s[k] = y

SetIn(h, g, x, k, v) ==
    Label(g) = Label(h) /\ Kids(g) = Kids(h) /\ Attrs(g) = [Attrs(h) EXCEPT ![x][k].value = v]

TextSet(h, g, z, v) ==
    Label(g) = [Label(h) EXCEPT ![z].text = v] /\ Kids(g) = Kids(h) /\ Attrs(g) = Attrs(h)

\* Another text of an element or another value of an attribute.
LEMMA EditedSeen ==
    ASSUME NEW h, NEW out, Whole(h, out), NEW z \in 1 .. Len(h), NEW v,
           NEW g, g = [h EXCEPT ![z].text = v]
    PROVE  /\ h[z].type # "ATTRIBUTE" => TextSet(h, g, z, v)
           /\ \A x \in 1 .. Len(h) : \A k : IsTag(h, x) /\ PlaceOf(h, x, k, z) => SetIn(h, g, x, k, v)
<1>1. PICK L \in Nat : L = Len(h) /\ h \in Seq(NodeRec(0 .. L))  BY DEF Whole
<1>2. Len(g) = L  BY <1>1
<1>3. \A j \in 1 .. L : h[j] \in NodeRec(0 .. L)  BY <1>1
<1>4. ASSUME NEW j \in 1 .. L, NEW e \in Fields PROVE g[j][e] = IF j = z /\ e = "text" THEN v ELSE h[j][e]
  <2>1. g[j] = IF j = z THEN [h[j] EXCEPT !.text = v] ELSE h[j]  BY <1>1
  <2> QED BY <1>3, <2>1 DEF NodeRec, Fields, LinkFields, Content
<1>5. LinkFields \cup {"type", "name"} \subseteq Fields \ {"text"} /\ "text" \in Fields
  BY DEF Fields, LinkFields, Content
<1>6. \A x \in 1 .. Len(h), r \in Roles : IsTag(h, x) => ListAt(g, x, r) = ListAt(h, x, r)
  <2>1. NoLinkChanged(h, g)  BY <1>1, <1>2, <1>4, <1>5 DEF NoLinkChanged
  <2>2. NoListChanged(h, g)  BY <2>1, ListsSame
  <2> QED BY <2>2 DEF NoListChanged
<1>7. \A j \in 1 .. L : /\ g[j].type = h[j].type /\ g[j].name = h[j].name
                       /\ g[j].text = IF j = z THEN v ELSE h[j].text
  BY <1>4, <1>5
<1>8. /\ ElementsOf(g) = ElementsOf(h) /\ ElementsOf(h) \subseteq 1 .. L
      /\ \A x \in 1 .. L : IsTag(g, x) <=> IsTag(h, x)
  BY <1>1, <1>2, <1>7 DEF ElementsOf, IsTag
<1>9. "kids" \in Roles /\ "attribs" \in Roles  BY DEF Roles
<1>10. Kids(g) = Kids(h)
  <2>1. \A x \in ElementsOf(h) : (IF IsTag(g, x) THEN ListAt(g, x, "kids") ELSE <<>>)
                               = IF IsTag(h, x) THEN ListAt(h, x, "kids") ELSE <<>>
    BY <1>1, <1>6, <1>8, <1>9
  <2>2. Kids(g) = [x \in ElementsOf(g) |-> IF IsTag(g, x) THEN ListAt(g, x, "kids") ELSE <<>>]
    BY ONLY Seen
  <2>3. Kids(h) = [x \in ElementsOf(h) |-> IF IsTag(h, x) THEN ListAt(h, x, "kids") ELSE <<>>]
    BY Seen
  <2> QED BY ONLY <1>8, <2>1, <2>2, <2>3
<1>11. ASSUME NEW x \in 1 .. L, IsTag(h, x), NEW s, s = ListAt(h, x, "attribs")
       PROVE  /\ s \in Seq(1 .. L) /\ IsInjective(s)
              /\ \A i \in 1 .. Len(s) : h[s[i]].parent = x /\ h[s[i]].type = "ATTRIBUTE"
  <2>1. ListOf(h, x, "attribs", s)  BY <1>1, <1>9, <1>11, WalkIsList
  <2> QED BY <1>1, <2>1 DEF ListOf, IsList, Role
<1>12. ASSUME NEW x \in 1 .. L, IsTag(h, x), NEW s, s = ListAt(h, x, "attribs"),
              \A i \in 1 .. Len(s) : s[i] # z
       PROVE  Pairs(g, s) = Pairs(h, s)
  <2>1. ASSUME NEW i \in 1 .. Len(s) PROVE g[s[i]].name = h[s[i]].name /\ g[s[i]].text = h[s[i]].text
    <3>1. s \in Seq(1 .. L)  BY <1>11, <1>12
    <3>2. s[i] \in 1 .. L /\ s[i] # z  BY <1>12, <3>1
    <3> QED BY <1>7, <3>2
  <2> QED BY <2>1 DEF Pairs
<1>13. \A x \in ElementsOf(h) : IsTag(h, x) => ListAt(g, x, "attribs") = ListAt(h, x, "attribs")
  BY <1>1, <1>6, <1>8, <1>9
<1>14. ASSUME h[z].type # "ATTRIBUTE"
       PROVE  Label(g) = [Label(h) EXCEPT ![z].text = v] /\ Attrs(g) = Attrs(h)
  <2>1. z \in ElementsOf(h)  BY <1>14 DEF ElementsOf
  <2>2. \A x \in ElementsOf(h) :
            [type |-> g[x].type, name |-> g[x].name, text |-> g[x].text]
              = IF x = z THEN [[type |-> h[x].type, name |-> h[x].name, text |-> h[x].text] EXCEPT !.text = v]
                ELSE [type |-> h[x].type, name |-> h[x].name, text |-> h[x].text]
    BY <1>7, <1>8
  <2>3. Label(g) = [x \in ElementsOf(h) |-> [type |-> g[x].type, name |-> g[x].name, text |-> g[x].text]]
    BY <1>8 DEF Label
  <2>4. Label(h) = [x \in ElementsOf(h) |-> [type |-> h[x].type, name |-> h[x].name, text |-> h[x].text]]
    BY DEF Label
  <2>5. Label(g) = [Label(h) EXCEPT ![z].text = v]
    <3>1. PICK a : a = [x \in ElementsOf(h) |-> [Label(h)[x] EXCEPT !.text = v]]  OBVIOUS
    <3>2. \A x \in ElementsOf(h) : Label(g)[x] = IF x = z THEN a[z] ELSE Label(h)[x]
      BY <2>2, <2>3, <2>4, <3>1
    <3>3. Label(g) = [Label(h) EXCEPT ![z] = a[z]]  BY ONLY <2>3, <2>4, <3>2
    <3> QED BY <2>1, <3>1, <3>3
  <2>6. \A x \in ElementsOf(h) :
            (IF IsTag(g, x) THEN Pairs(g, ListAt(g, x, "attribs")) ELSE <<>>)
              = IF IsTag(h, x) THEN Pairs(h, ListAt(h, x, "attribs")) ELSE <<>>
    <3>1. ASSUME NEW x \in ElementsOf(h), IsTag(h, x)
          PROVE  Pairs(g, ListAt(h, x, "attribs")) = Pairs(h, ListAt(h, x, "attribs"))
      <4>1. PICK s : s = ListAt(h, x, "attribs")  OBVIOUS
      <4>2. \A i \in 1 .. Len(s) : s[i] # z  BY <1>8, <1>11, <1>14, <3>1, <4>1
      <4> QED BY <1>8, <1>12, <3>1, <4>1, <4>2
    <3> QED BY <1>8, <1>13, <3>1
  <2>7. Attrs(g) = Attrs(h)
    <3>1. Attrs(g) = [x \in ElementsOf(g) |->
                        IF IsTag(g, x) THEN Pairs(g, ListAt(g, x, "attribs")) ELSE <<>>]
      BY ONLY Seen
    <3>2. Attrs(h) = [x \in ElementsOf(h) |->
                        IF IsTag(h, x) THEN Pairs(h, ListAt(h, x, "attribs")) ELSE <<>>]
      BY Seen
    <3> QED BY ONLY <1>8, <2>6, <3>1, <3>2
  <2> QED BY <2>5, <2>7
<1>15. ASSUME NEW x \in 1 .. L, IsTag(h, x), NEW s, s = ListAt(h, x, "attribs"),
              NEW k \in 1 .. Len(s), s[k] = z
       PROVE  Label(g) = Label(h) /\ Attrs(g) = [Attrs(h) EXCEPT ![x][k].value = v]
  <2>1. /\ s \in Seq(1 .. L) /\ IsInjective(s)
        /\ \A i \in 1 .. Len(s) : h[s[i]].parent = x /\ h[s[i]].type = "ATTRIBUTE"
    BY <1>11, <1>15
  <2>2. h[z].parent = x /\ h[z].type = "ATTRIBUTE" /\ x \in ElementsOf(h)
    BY <1>1, <1>15, <2>1 DEF ElementsOf, IsTag
  <2>3. \A y \in ElementsOf(h) : [type |-> g[y].type, name |-> g[y].name, text |-> g[y].text]
                               = [type |-> h[y].type, name |-> h[y].name, text |-> h[y].text]
    BY <1>7, <1>8, <2>2 DEF ElementsOf
  <2>4. Label(g) = Label(h)  BY <1>8, <2>3 DEF Label
  <2>5. \A i \in 1 .. Len(s) : s[i] = z => i = k  BY <1>15, <2>1 DEF IsInjective
  <2>6. Pairs(g, s) = [Pairs(h, s) EXCEPT ![k].value = v]
    <3>1. \A i \in 1 .. Len(s) :
              [name |-> g[s[i]].name, value |-> g[s[i]].text]
                = IF i = k THEN [[name |-> h[s[i]].name, value |-> h[s[i]].text] EXCEPT !.value = v]
                  ELSE [name |-> h[s[i]].name, value |-> h[s[i]].text]
      <4> TAKE i \in 1 .. Len(s)
      <4>1. s[i] \in 1 .. L  BY <2>1
      <4>2. s[i] = z <=> i = k  BY <1>15, <2>5
      <4>3. g[s[i]].name = h[s[i]].name /\ g[s[i]].text = IF i = k THEN v ELSE h[s[i]].text
        BY <1>7, <4>1, <4>2
      <4> QED BY <4>3
    <3>2. Pairs(g, s) = [i \in 1 .. Len(s) |-> [name |-> g[s[i]].name, value |-> g[s[i]].text]]
      BY DEF Pairs
    <3>3. Pairs(h, s) = [i \in 1 .. Len(s) |-> [name |-> h[s[i]].name, value |-> h[s[i]].text]]
      BY DEF Pairs
    <3>4. PICK w : w = [Pairs(h, s)[k] EXCEPT !.value = v]  OBVIOUS
    <3>5. ASSUME NEW i \in 1 .. Len(s) PROVE Pairs(g, s)[i] = IF i = k THEN w ELSE Pairs(h, s)[i]
      <4>1. /\ Pairs(g, s)[i] = [name |-> g[s[i]].name, value |-> g[s[i]].text]
            /\ Pairs(h, s)[i] = [name |-> h[s[i]].name, value |-> h[s[i]].text]
        BY ONLY <3>2, <3>3
      <4>2. CASE i = k
        <5>1. w = [[name |-> h[s[i]].name, value |-> h[s[i]].text] EXCEPT !.value = v]
          BY ONLY <3>4, <4>1, <4>2
        <5>2. w = Pairs(g, s)[i]  BY <3>1, <4>1, <4>2, <5>1
        <5> QED BY ONLY <4>2, <5>2
      <4>3. CASE i # k  BY <3>1, <4>1, <4>3
      <4> QED BY <4>2, <4>3
    <3>6. Pairs(g, s) = [Pairs(h, s) EXCEPT ![k] = w]  BY ONLY <3>2, <3>3, <3>5
    <3> QED BY <3>4, <3>6
  <2>7. ASSUME NEW y \in ElementsOf(h)
        PROVE  (IF IsTag(g, y) THEN Pairs(g, ListAt(g, y, "attribs")) ELSE <<>>)
                 = IF y = x THEN [Pairs(h, s) EXCEPT ![k].value = v]
                   ELSE IF IsTag(h, y) THEN Pairs(h, ListAt(h, y, "attribs")) ELSE <<>>
    <3>1. CASE y = x  BY <1>8, <1>13, <1>15, <2>6, <2>7, <3>1
    <3>2. CASE y # x /\ IsTag(h, y)
      <4>1. PICK t : t = ListAt(h, y, "attribs")  OBVIOUS
      <4>2. \A i \in 1 .. Len(t) : t[i] # z  BY <1>8, <1>11, <2>2, <3>2, <4>1
      <4> QED BY <1>8, <1>12, <1>13, <3>2, <4>1, <4>2
    <3>3. CASE ~IsTag(h, y)  BY <1>8, <1>15, <3>3
    <3> QED BY <3>1, <3>2, <3>3
  <2>8. Attrs(g) = [y \in ElementsOf(h) |->
                      IF y = x THEN [Pairs(h, s) EXCEPT ![k].value = v]
                      ELSE IF IsTag(h, y) THEN Pairs(h, ListAt(h, y, "attribs")) ELSE <<>>]
    <3>1. Attrs(g) = [y \in ElementsOf(g) |->
                        IF IsTag(g, y) THEN Pairs(g, ListAt(g, y, "attribs")) ELSE <<>>]
      BY ONLY Seen
    <3> QED BY ONLY <1>8, <2>7, <3>1
  <2>9. Attrs(h) = [y \in ElementsOf(h) |->
                      IF IsTag(h, y) THEN Pairs(h, ListAt(h, y, "attribs")) ELSE <<>>]
    BY Seen
  <2>10. PICK w : w = [Pairs(h, s) EXCEPT ![k].value = v]  OBVIOUS
  <2>11. Attrs(g) = [Attrs(h) EXCEPT ![x] = w]  BY ONLY <2>8, <2>9, <2>10
  <2>12. Attrs(h)[x] = Pairs(h, s)  BY <1>15, <2>2, <2>9
  <2> QED BY <2>4, <2>10, <2>11, <2>12
<1>16. ASSUME NEW x \in 1 .. Len(h), NEW k, IsTag(h, x), PlaceOf(h, x, k, z)
       PROVE  SetIn(h, g, x, k, v)
  <2>1. PICK s : s = ListAt(h, x, "attribs")  OBVIOUS
  <2>2. x \in 1 .. L /\ k \in 1 .. Len(s) /\ s[k] = z  BY <1>1, <1>16, <2>1 DEF PlaceOf
  <2>3. Label(g) = Label(h) /\ Attrs(g) = [Attrs(h) EXCEPT ![x][k].value = v]
    BY ONLY <1>15, <1>16, <2>1, <2>2
  <2> QED BY <1>10, <2>3 DEF SetIn
<1> QED BY <1>10, <1>14, <1>16 DEF TextSet

PairSet == [name : Seq(STRING), value : Seq(STRING)]

LEMMA PairsTyped ==
    ASSUME NEW h, NEW out, Whole(h, out), NEW s \in Seq(1 .. Len(h))
    PROVE  /\ Pairs(h, s) \in Seq(PairSet) /\ Len(Pairs(h, s)) = Len(s)
           /\ Pairs(h, s) = [i \in 1 .. Len(s) |-> Pairs(h, s)[i]]
           /\ \A i \in 1 .. Len(s) : Pairs(h, s)[i] = [name |-> h[s[i]].name, value |-> h[s[i]].text]
<1>1. PICK L \in Nat : L = Len(s) /\ \A i \in 1 .. L : s[i] \in 1 .. Len(h)  OBVIOUS
<1>2. Pairs(h, s) = [i \in 1 .. L |-> [name |-> h[s[i]].name, value |-> h[s[i]].text]]
  BY <1>1 DEF Pairs
<1>3. ASSUME NEW i \in 1 .. L PROVE [name |-> h[s[i]].name, value |-> h[s[i]].text] \in PairSet
  <2>1. h[s[i]] \in NodeRec(0 .. Len(h))  BY <1>1, LinksTyped
  <2> QED BY <2>1 DEF NodeRec, PairSet
<1>4. Pairs(h, s) \in Seq(PairSet) /\ Len(Pairs(h, s)) = L  BY ONLY <1>1, <1>2, <1>3
<1> QED BY ONLY <1>1, <1>2, <1>4

LEMMA PairsAppended ==
    ASSUME NEW h, NEW out, Whole(h, out), NEW s \in Seq(1 .. Len(h)), NEW y \in 1 .. Len(h)
    PROVE  Pairs(h, Append(s, y)) = Append(Pairs(h, s), [name |-> h[y].name, value |-> h[y].text])
<1>1. PICK L \in Nat : L = Len(s)  OBVIOUS
<1>2. PICK t : t = Append(s, y)  OBVIOUS
<1>3. /\ t \in Seq(1 .. Len(h)) /\ Len(t) = L + 1 /\ t[L + 1] = y
      /\ \A i \in 1 .. L : t[i] = s[i]
  BY <1>1, <1>2
<1>4. PICK p : p = Pairs(h, s)  OBVIOUS
<1>5. PICK q : q = Pairs(h, t)  OBVIOUS
<1>6. PICK e : e = [name |-> h[y].name, value |-> h[y].text]  OBVIOUS
<1>7. /\ p \in Seq(PairSet) /\ Len(p) = L
      /\ \A i \in 1 .. L : p[i] = [name |-> h[s[i]].name, value |-> h[s[i]].text]
  BY <1>1, <1>4, PairsTyped
<1>8. /\ q \in Seq(PairSet) /\ Len(q) = L + 1
      /\ \A i \in 1 .. L + 1 : q[i] = [name |-> h[t[i]].name, value |-> h[t[i]].text]
  BY <1>3, <1>5, PairsTyped
<1>9. q[L + 1] = e /\ e \in PairSet
  <2>1. L + 1 \in 1 .. L + 1 /\ q[L + 1] \in PairSet  BY <1>1, <1>8
  <2>2. q[L + 1] = [name |-> h[t[L + 1]].name, value |-> h[t[L + 1]].text]  BY ONLY <1>8, <2>1
  <2> QED BY ONLY <1>3, <1>6, <2>1, <2>2
<1>10. ASSUME NEW i \in 1 .. L PROVE q[i] = p[i]
  <2>1. i \in 1 .. L + 1 /\ t[i] = s[i]  BY <1>1, <1>3
  <2> QED BY ONLY <1>7, <1>8, <1>10, <2>1
<1>11. q = Append(p, e)  BY ONLY <1>1, <1>7, <1>8, <1>9, <1>10
<1> QED BY <1>2, <1>4, <1>5, <1>6, <1>11

LEMMA PairsWithout ==
    ASSUME NEW h, NEW out, Whole(h, out), NEW s \in Seq(1 .. Len(h)), NEW k \in 1 .. Len(s)
    PROVE  Pairs(h, Without(s, k)) = RemoveAt(Pairs(h, s), k)
<1>1. PICK L \in Nat : L = Len(s)  OBVIOUS
<1>2. PICK t : t = Without(s, k)  OBVIOUS
<1>3. /\ t \in Seq(1 .. Len(h)) /\ Len(t) = L - 1
      /\ \A i \in 1 .. L - 1 : t[i] = IF i < k THEN s[i] ELSE s[i + 1]
  <2>1. t \in Seq(1 .. Len(h)) /\ Len(t) = Len(s) - 1  BY <1>2, WithoutProperties
  <2>2. t = [i \in 1 .. L - 1 |-> IF i < k THEN s[i] ELSE s[i + 1]]  BY <1>1, <1>2 DEF Without
  <2> QED BY ONLY <1>1, <2>1, <2>2
<1>4. PICK p : p = Pairs(h, s)  OBVIOUS
<1>5. PICK q : q = Pairs(h, t)  OBVIOUS
<1>7. /\ p \in Seq(PairSet) /\ Len(p) = L
      /\ \A i \in 1 .. L : p[i] = [name |-> h[s[i]].name, value |-> h[s[i]].text]
  BY <1>1, <1>4, PairsTyped
<1>8. /\ q = [i \in 1 .. L - 1 |-> q[i]]
      /\ \A i \in 1 .. L - 1 : q[i] = [name |-> h[t[i]].name, value |-> h[t[i]].text]
  BY <1>3, <1>5, PairsTyped
<1>9. ASSUME NEW i \in 1 .. L - 1 PROVE q[i] = IF i < k THEN p[i] ELSE p[i + 1]
  <2>1. i \in 1 .. L /\ i + 1 \in 1 .. L  BY <1>1
  <2>2. q[i] = [name |-> h[t[i]].name, value |-> h[t[i]].text]  BY <1>8
  <2>3. CASE i < k
    <3>1. t[i] = s[i]  BY <1>3, <2>3
    <3> QED BY ONLY <1>7, <2>1, <2>2, <2>3, <3>1
  <2>4. CASE ~(i < k)
    <3>1. t[i] = s[i + 1]  BY <1>3, <2>4
    <3> QED BY ONLY <1>7, <2>1, <2>2, <2>4, <3>1
  <2> QED BY <2>3, <2>4
<1>10. q = Without(p, k)
  <2>1. Without(p, k) = [i \in 1 .. L - 1 |-> IF i < k THEN p[i] ELSE p[i + 1]]
    BY <1>7 DEF Without
  <2> QED BY ONLY <1>8, <1>9, <2>1
<1>11. RemoveAt(p, k) = Without(p, k)
  <2>1. p \in Seq(PairSet) /\ k \in 1 .. Len(p) /\ p[k] \in PairSet  BY <1>1, <1>7
  <2> QED BY ONLY <2>1, ListOperations
<1> QED BY <1>2, <1>4, <1>5, <1>10, <1>11

\* What a look-up for an attribute gives: NULL, or the place of one with the name.
Found(h, s, name, y) ==
    IF y = NULL THEN \A i \in 1 .. Len(s) : h[s[i]].name # name
    ELSE y \in 1 .. Len(h) /\ h[y].name = name /\ \E k \in 1 .. Len(s) : s[k] = y

LEMMA NamedFound ==
    ASSUME NEW h, NEW out, Whole(h, out), NEW x \in 1 .. Len(h), IsTag(h, x), NEW name
    PROVE  Found(h, ListAt(h, x, "attribs"), name, AttribNamed(h, x, name))
<1>1. PICK s : s = ListAt(h, x, "attribs")  OBVIOUS
<1>2. s \in Seq(1 .. Len(h)) /\ Len(s) \in Nat /\ Chain(h, h[x].attribs, "next") = s
  <2>1. ListOf(h, x, "attribs", s)  BY <1>1, WalkIsList DEF Roles
  <2> QED BY <1>1, <2>1 DEF ListOf, IsList, ListAt, FirstOf
<1>3. PICK fits : fits = {i \in 1 .. Len(s) : s[i] \in {z \in 1 .. Len(h) : h[z].name = name}}
  OBVIOUS
<1>4. PICK y : y = AttribNamed(h, x, name)  OBVIOUS
<1>5. y = IF fits = {} THEN NULL ELSE s[Min(fits)]  BY <1>2, <1>3, <1>4 DEF AttribNamed, FirstIn
<1>6. CASE fits = {}
  <2>1. ASSUME NEW i \in 1 .. Len(s) PROVE h[s[i]].name # name
    <3>1. s[i] \in 1 .. Len(h) /\ i \notin fits  BY <1>2, <1>6
    <3> QED BY ONLY <1>3, <2>1, <3>1
  <2>2. y = NULL  BY ONLY <1>5, <1>6
  <2> QED BY <1>1, <1>4, <2>1, <2>2 DEF Found
<1>7. CASE fits # {}
  <2>1. fits \in SUBSET Nat /\ fits \subseteq 1 .. Len(s)  BY <1>3
  <2>2. \E m \in fits : \A k \in fits : m <= k  BY <1>7, <2>1, Least
  <2>3. Min(fits) \in fits  BY <2>2 DEF Min
  <2>4. y = s[Min(fits)] /\ y \in 1 .. Len(h) /\ h[y].name = name  BY <1>2, <1>3, <1>5, <1>7, <2>3
  <2>5. y # NULL  BY <2>4 DEF NULL
  <2>6. Min(fits) \in 1 .. Len(s)  BY <2>1, <2>3
  <2> QED BY <1>1, <1>4, <2>4, <2>5, <2>6 DEF Found
<1> QED BY <1>6, <1>7

LEMMA AttrsAt ==
    ASSUME NEW h, NEW out, Whole(h, out), NEW x \in 1 .. Len(h), IsTag(h, x),
           NEW s, s = ListAt(h, x, "attribs")
    PROVE  /\ x \in DOMAIN Attrs(h) /\ Attrs(h)[x] = Pairs(h, s)
           /\ s \in Seq(1 .. Len(h)) /\ Len(Pairs(h, s)) = Len(s)
           /\ \A i \in 1 .. Len(s) : Pairs(h, s)[i].name = h[s[i]].name
<1>1. ListOf(h, x, "attribs", s)  BY WalkIsList DEF Roles
<1>2. s \in Seq(1 .. Len(h))  BY <1>1 DEF ListOf, IsList
<1>3. x \in ElementsOf(h)  BY DEF ElementsOf, IsTag
<1>4. x \in DOMAIN Attrs(h) /\ Attrs(h)[x] = Pairs(h, s)
  <2>1. Attrs(h) = [z \in ElementsOf(h) |->
                      IF IsTag(h, z) THEN Pairs(h, ListAt(h, z, "attribs")) ELSE <<>>]
    BY ONLY Seen
  <2> QED BY <1>3, <2>1
<1>5. /\ Len(Pairs(h, s)) = Len(s)
      /\ \A i \in 1 .. Len(s) : Pairs(h, s)[i] = [name |-> h[s[i]].name, value |-> h[s[i]].text]
  BY <1>2, PairsTyped
<1>6. ASSUME NEW i \in 1 .. Len(s) PROVE Pairs(h, s)[i].name = h[s[i]].name
  <2>1. PICK n : n = h[s[i]]  OBVIOUS
  <2>2. PICK p : p = Pairs(h, s)[i]  OBVIOUS
  <2>3. p = [name |-> n.name, value |-> n.text]  BY <1>5, <2>1, <2>2
  <2> QED BY ONLY <2>1, <2>2, <2>3
<1> QED BY ONLY <1>2, <1>4, <1>5, <1>6

\* The attributes of x with one more.
AddedTo(h, g, x, name, v) ==
    /\ Label(g) = Label(h) /\ Kids(g) = Kids(h)
    /\ Attrs(g) = [Attrs(h) EXCEPT ![x] = Append(@, [name |-> name, value |-> v])]

IsNew(h, x, name)    == \A i \in 1 .. Len(Attrs(h)[x]) : Attrs(h)[x][i].name # name
IsAt(h, x, name, k) == k \in 1 .. Len(Attrs(h)[x]) /\ Attrs(h)[x][k].name = name

LEMMA NameSeen ==
    ASSUME NEW h, NEW out, Whole(h, out), NEW x \in 1 .. Len(h), IsTag(h, x), NEW name,
           NEW y, y = AttribNamed(h, x, name)
    PROVE  /\ y = NULL => IsNew(h, x, name)
           /\ y # NULL => y \in 1 .. Len(h) /\ \E k : PlaceOf(h, x, k, y) /\ IsAt(h, x, name, k)
<1>1. PICK s : s = ListAt(h, x, "attribs")  OBVIOUS
<1>2. Found(h, s, name, y)  BY <1>1, NamedFound
<1>3. /\ Attrs(h)[x] = Pairs(h, s) /\ Len(Pairs(h, s)) = Len(s)
      /\ \A i \in 1 .. Len(s) : Pairs(h, s)[i].name = h[s[i]].name
  BY <1>1, AttrsAt
<1>4. CASE y = NULL
  <2>1. \A i \in 1 .. Len(s) : h[s[i]].name # name  BY <1>2, <1>4 DEF Found
  <2> QED BY <1>3, <1>4, <2>1 DEF IsNew
<1>5. CASE y # NULL
  <2>1. PICK k \in 1 .. Len(s) : s[k] = y  BY <1>2, <1>5 DEF Found
  <2>2. y \in 1 .. Len(h) /\ h[y].name = name  BY <1>2, <1>5 DEF Found
  <2>3. PlaceOf(h, x, k, y)  BY <1>1, <2>1 DEF PlaceOf
  <2>4. IsAt(h, x, name, k)  BY <1>3, <2>1, <2>2 DEF IsAt
  <2> QED BY <1>5, <2>2, <2>3, <2>4
<1> QED BY <1>4, <1>5

LEMMA WithAttribSeen ==
    ASSUME NEW h, NEW out, Whole(h, out), NEW x \in 1 .. Len(h), IsTag(h, x),
           NEW name \in Seq(STRING), AttribNamed(h, x, name) = NULL,
           NEW g, g = WithAttrib(h, x, name)
    PROVE  /\ AddedTo(h, g, x, name, <<>>) /\ Whole(g, out) /\ x \in 1 .. Len(g) /\ IsTag(g, x)
           /\ Len(g) = Len(h) + 1 /\ AttribNamed(g, x, name) = Len(h) + 1
           /\ PlaceOf(g, x, Len(Attrs(h)[x]) + 1, Len(h) + 1)
<1>1. PICK L \in Nat : L = Len(h) /\ h \in Seq(NodeRec(0 .. L))  BY DEF Whole
<1>2. PICK n : n = AttribNode(name)  OBVIOUS
<1>3. n \in NodeRec({NULL}) /\ n.type = "ATTRIBUTE" /\ n.name = name /\ n.text = <<>>
  <2>1. <<>> \in Seq(STRING) /\ "ATTRIBUTE" \in {"TAG", "CDATA", "ATTRIBUTE"}  OBVIOUS
  <2> QED BY <1>2, <2>1, NodeTyped DEF AttribNode, Node
<1>4. PICK k : k = Append(h, n)  OBVIOUS
<1>5. PICK y : y = L + 1  OBVIOUS
<1>6. y = Made(h)  BY <1>1, <1>5 DEF Made
<1>7. Whole(k, out) /\ Len(k) = L + 1 /\ k[y] = n  BY <1>1, <1>3, <1>4, <1>5, WholeAppended
<1>8. \A j \in 1 .. L : k[j] = h[j]  BY <1>1, <1>4
<1>9. IsTag(k, x) /\ x \in 1 .. Len(k) /\ y \in 1 .. Len(k)  BY <1>1, <1>5, <1>7, <1>8 DEF IsTag
<1>10. k[y].parent = NULL /\ Role(k, y) = "attribs"  BY <1>3, <1>7 DEF NodeRec, Role
<1>11. g = LinkLastAttrib(k, x, y)  BY <1>2, <1>4, <1>6 DEF WithAttrib
<1>12. PICK s : s = ListAt(h, x, "attribs")  OBVIOUS
<1>13. SeenSame(h, k) /\ ListAt(k, x, "attribs") = s
  <2>1. OthersKeptBy(h, k) /\ SeenSame(h, k)  BY <1>3, <1>4, <1>6, AppendedSeen
  <2>2. "attribs" \in Roles  BY DEF Roles
  <2> QED BY <1>12, <2>1, <2>2 DEF OthersKeptBy
<1>14. /\ s \in Seq(1 .. Len(h)) /\ Attrs(h)[x] = Pairs(h, s) /\ Len(Pairs(h, s)) = Len(s)
       /\ x \in DOMAIN Attrs(h)
  BY <1>12, AttrsAt
<1>15. s \in Seq(1 .. Len(k)) /\ Attrs(k)[x] = Pairs(k, s) /\ x \in DOMAIN Attrs(k)
  BY <1>7, <1>9, <1>13, AttrsAt
<1>16. PICK t : t = Append(s, y)  OBVIOUS
<1>17. With(s, Len(s) + 1, y) = t  BY <1>9, <1>15, <1>16, ListOperations
<1>18. /\ t \in Seq(1 .. Len(k)) /\ Len(t) = Len(s) + 1 /\ t[Len(s) + 1] = y
       /\ \A i \in 1 .. Len(s) : t[i] = s[i]
  BY <1>9, <1>15, <1>16
<1>19. /\ Whole(g, out) /\ SameContent(k, g) /\ Len(g) = Len(k) /\ ListChanged(k, g, x, "attribs", t)
  BY <1>7, <1>9, <1>10, <1>11, <1>13, <1>17, WholeLastAttrib
<1>20. /\ Label(g) = Label(k) /\ Kids(g) = Kids(k)
       /\ Attrs(g) = [Attrs(k) EXCEPT ![x] = Pairs(k, t)]
  BY <1>7, <1>9, <1>18, <1>19, AttribsSeen
<1>21. Pairs(k, t) = Append(Pairs(k, s), [name |-> name, value |-> <<>>])
  BY <1>3, <1>7, <1>9, <1>15, <1>16, PairsAppended
<1>22. AddedTo(h, g, x, name, <<>>)
  <2>1. PICK p : p = Append(Pairs(k, s), [name |-> name, value |-> <<>>])  OBVIOUS
  <2>2. Attrs(g) = [Attrs(h) EXCEPT ![x] = p]  BY <1>13, <1>20, <1>21, <2>1 DEF SeenSame
  <2>3. p = Append(Attrs(h)[x], [name |-> name, value |-> <<>>])  BY <1>13, <1>15, <2>1 DEF SeenSame
  <2>4. Attrs(g) = [Attrs(h) EXCEPT ![x] = Append(@, [name |-> name, value |-> <<>>])]
    BY ONLY <2>2, <2>3
  <2> QED BY <1>13, <1>20, <2>4 DEF AddedTo, SeenSame
<1>23. IsTag(g, x) /\ x \in 1 .. Len(g)  BY <1>9, <1>19 DEF IsTag, SameContent
<1>24. ListAt(g, x, "attribs") = t  BY <1>19 DEF ListChanged
<1>25. AttribNamed(g, x, name) = y
  <2>1. Found(g, t, name, AttribNamed(g, x, name))  BY <1>19, <1>23, <1>24, NamedFound
  <2>2. Found(h, s, name, NULL)  BY <1>12, NamedFound
  <2>3. Len(s) \in Nat  BY <1>14
  <2>4. g[t[Len(s) + 1]].name = name
    <3>1. g[y].name = k[y].name  BY <1>9, <1>19 DEF SameContent
    <3> QED BY <1>3, <1>7, <1>18, <3>1
  <2>5. AttribNamed(g, x, name) # NULL
    <3>1. Len(s) + 1 \in 1 .. Len(t)  BY <1>18, <2>3
    <3> QED BY <2>1, <2>4, <3>1 DEF Found
  <2>6. PICK i \in 1 .. Len(t) : t[i] = AttribNamed(g, x, name) /\ g[t[i]].name = name
    BY <2>1, <2>5 DEF Found
  <2>7. ~(i \in 1 .. Len(s))
    <3> SUFFICES ASSUME i \in 1 .. Len(s) PROVE FALSE  OBVIOUS
    <3>1. t[i] = s[i] /\ s[i] \in 1 .. L  BY <1>1, <1>14, <1>18
    <3>2. g[s[i]].name = h[s[i]].name  BY <1>1, <1>7, <1>8, <1>19, <3>1 DEF SameContent
    <3>3. h[s[i]].name # name  BY <2>2 DEF Found
    <3> QED BY <2>6, <3>1, <3>2, <3>3
  <2>8. i = Len(s) + 1  BY <1>18, <2>3, <2>6, <2>7
  <2> QED BY <1>18, <2>6, <2>8
<1>26. PlaceOf(g, x, Len(s) + 1, y)
  <2>1. Len(s) + 1 \in 1 .. Len(t)  BY <1>14, <1>18
  <2> QED BY <1>18, <1>24, <2>1 DEF PlaceOf
<1> QED BY <1>1, <1>5, <1>7, <1>14, <1>19, <1>22, <1>23, <1>25, <1>26

LEMMA ValueSeen ==
    ASSUME NEW h, NEW out, Whole(h, out), NEW x \in 1 .. Len(h), IsTag(h, x), NEW k,
           NEW z \in 1 .. Len(h), PlaceOf(h, x, k, z), NEW v \in Seq(STRING), NEW b \in BOOLEAN,
           NEW g, g = [h EXCEPT ![z].text = v, ![z].broken = b]
    PROVE  SetIn(h, g, x, k, v)
<1>1. PICK a : a = [h EXCEPT ![z].text = v]  OBVIOUS
<1>2. Whole(a, out)  BY <1>1, WholeText
<1>3. SetIn(h, a, x, k, v)
  BY <1>1, EditedSeen
<1>4. g = [a EXCEPT ![z].broken = b]  BY ONLY <1>1, g = [h EXCEPT ![z].text = v, ![z].broken = b]
<1>5. SeenSame(a, g)  BY <1>2, <1>4, BrokenSeen
<1> QED BY <1>3, <1>5 DEF SetIn, SeenSame

LEMMA AddedThenSet ==
    ASSUME NEW h, NEW g, NEW f, NEW x \in DOMAIN Attrs(h), NEW name \in Seq(STRING), NEW v \in Seq(STRING),
           Attrs(h)[x] \in Seq(PairSet), AddedTo(h, g, x, name, <<>>),
           SetIn(g, f, x, Len(Attrs(h)[x]) + 1, v)
    PROVE  AddedTo(h, f, x, name, v)
<1>1. PICK p : p = Attrs(h)[x]  OBVIOUS
<1>2. PICK L \in Nat : L = Len(p) /\ p \in Seq(PairSet)  BY <1>1
<1>3. PICK e : e = [name |-> name, value |-> <<>>]  OBVIOUS
<1>4. PICK d : d = [name |-> name, value |-> v]  OBVIOUS
<1>5. e \in PairSet /\ d \in PairSet /\ d = [e EXCEPT !.value = v]
  <2>1. <<>> \in Seq(STRING)  OBVIOUS
  <2> QED BY <1>3, <1>4, <2>1 DEF PairSet
<1>6. PICK q : q = Append(p, e)  OBVIOUS
<1>7. q \in Seq(PairSet) /\ Len(q) = L + 1 /\ q[L + 1] = e /\ \A i \in 1 .. L : q[i] = p[i]
  BY <1>2, <1>5, <1>6
<1>8. PICK r : r = [q EXCEPT ![L + 1] = d]  OBVIOUS
<1>9. r \in Seq(PairSet) /\ Len(r) = L + 1 /\ r[L + 1] = d /\ \A i \in 1 .. L : r[i] = p[i]
  BY <1>5, <1>7, <1>8
<1>10. r = Append(p, d)  BY ONLY <1>2, <1>5, <1>9
<1>11. Attrs(g) = [Attrs(h) EXCEPT ![x] = q]
  <2>1. Attrs(g) = [Attrs(h) EXCEPT ![x] = Append(@, [name |-> name, value |-> <<>>])]  BY DEF AddedTo
  <2> QED BY ONLY <1>1, <1>3, <1>6, <2>1
<1>12. Attrs(g)[x] = q  BY <1>11
<1>13. Attrs(f) = [Attrs(g) EXCEPT ![x] = r]
  <2>1. Attrs(f) = [Attrs(g) EXCEPT ![x][L + 1].value = v]  BY <1>1, <1>2 DEF SetIn
  <2> QED BY ONLY <1>5, <1>7, <1>8, <1>12, <2>1
<1>14. Attrs(f) = [Attrs(h) EXCEPT ![x] = r]  BY ONLY <1>11, <1>13
<1>15. Attrs(f) = [Attrs(h) EXCEPT ![x] = Append(@, [name |-> name, value |-> v])]
  BY ONLY <1>1, <1>4, <1>10, <1>14
<1> QED BY <1>15 DEF AddedTo, SetIn

\* iks_insert_attrib: with a value, with a value there is no memory for, and without one.
LEMMA InsertedAttribSeen ==
    ASSUME NEW h, NEW out, Whole(h, out), NEW x \in 1 .. Len(h), IsTag(h, x),
           NEW name \in Seq(STRING), NEW v \in Seq(STRING), NEW g, g = InsertedAttrib(h, x, name, v)
    PROVE  \/ IsNew(h, x, name) /\ AddedTo(h, g, x, name, v)
           \/ \E k : IsAt(h, x, name, k) /\ SetIn(h, g, x, k, v)
<1>1. PICK y : y = AttribNamed(h, x, name)  OBVIOUS
<1>2. CASE y # NULL
  <2>1. WithAttrib(h, x, name) = h  BY <1>1, <1>2 DEF WithAttrib
  <2>2. g = [h EXCEPT ![y].text = v, ![y].broken = FALSE]  BY <1>1, <2>1 DEF InsertedAttrib
  <2>3. PICK k : y \in 1 .. Len(h) /\ PlaceOf(h, x, k, y) /\ IsAt(h, x, name, k)
    BY <1>1, <1>2, NameSeen
  <2>4. SetIn(h, g, x, k, v)  BY <2>2, <2>3, ValueSeen
  <2> QED BY <2>3, <2>4
<1>3. CASE y = NULL
  <2>1. PICK a : a = WithAttrib(h, x, name)  OBVIOUS
  <2>2. PICK z : z = Len(h) + 1  OBVIOUS
  <2>3. PICK k : k = Len(Attrs(h)[x]) + 1  OBVIOUS
  <2>4. /\ AddedTo(h, a, x, name, <<>>) /\ Whole(a, out) /\ x \in 1 .. Len(a) /\ IsTag(a, x)
        /\ Len(a) = z /\ AttribNamed(a, x, name) = z /\ PlaceOf(a, x, k, z)
    <3>1. AttribNamed(h, x, name) = NULL  BY ONLY <1>1, <1>3
    <3> QED BY <2>1, <2>2, <2>3, <3>1, WithAttribSeen
  <2>5. g = [a EXCEPT ![z].text = v, ![z].broken = FALSE]  BY <2>1, <2>4 DEF InsertedAttrib
  <2>6. z \in 1 .. Len(a)
    <3>1. Len(h) \in Nat  BY DEF Whole
    <3> QED BY <2>2, <2>4, <3>1
  <2>7. SetIn(a, g, x, k, v)  BY <2>4, <2>5, <2>6, ValueSeen
  <2>8. x \in DOMAIN Attrs(h) /\ Attrs(h)[x] \in Seq(PairSet)
    <3>1. PICK s : s = ListAt(h, x, "attribs")  OBVIOUS
    <3>2. x \in DOMAIN Attrs(h) /\ Attrs(h)[x] = Pairs(h, s) /\ s \in Seq(1 .. Len(h))
      BY <3>1, AttrsAt
    <3> QED BY <3>2, PairsTyped
  <2>9. AddedTo(h, g, x, name, v)  BY <2>3, <2>4, <2>7, <2>8, AddedThenSet
  <2> QED BY <1>1, <1>3, <2>9, NameSeen
<1> QED BY <1>2, <1>3

LEMMA FailedValueSeen ==
    ASSUME NEW h, NEW out, Whole(h, out), NEW x \in 1 .. Len(h), IsTag(h, x),
           NEW name \in Seq(STRING), NEW a, a = WithAttrib(h, x, name), NEW z,
           NEW g, g = [a EXCEPT ![z].broken = TRUE]
    PROVE  \/ SeenSame(h, g)
           \/ IsNew(h, x, name) /\ AddedTo(h, g, x, name, <<>>)
<1>1. Whole(a, out)  BY WholeWithAttrib
<1>2. SeenSame(a, g)  BY <1>1, BrokenSeen
<1>3. CASE AttribNamed(h, x, name) # NULL
  <2>1. a = h  BY <1>3 DEF WithAttrib
  <2>2. SeenSame(h, g)  BY <1>2, <2>1 DEF SeenSame
  <2> QED BY <2>2
<1>4. CASE AttribNamed(h, x, name) = NULL
  <2>1. AddedTo(h, a, x, name, <<>>)  BY <1>4, WithAttribSeen
  <2>2. IsNew(h, x, name)  BY <1>4, NameSeen
  <2> QED BY <1>2, <2>1, <2>2 DEF AddedTo, SeenSame
<1> QED BY <1>3, <1>4

LEMMA RemovedAttribSeen ==
    ASSUME NEW h, NEW out, Whole(h, out), NEW x \in 1 .. Len(h), IsTag(h, x),
           NEW name \in Seq(STRING), NEW g, g = RemovedAttrib(h, x, name)
    PROVE  \/ g = h
           \/ /\ Label(g) = Label(h) /\ Kids(g) = Kids(h)
              /\ \E k : IsAt(h, x, name, k) /\ Attrs(g) = [Attrs(h) EXCEPT ![x] = RemoveAt(@, k)]
<1>1. PICK y : y = AttribNamed(h, x, name)  OBVIOUS
<1>2. CASE y = NULL  BY <1>1, <1>2 DEF RemovedAttrib
<1>3. CASE y # NULL
  <2>1. g = AttribOut(h, y, x)  BY <1>1, <1>3 DEF RemovedAttrib, AttribOut
  <2>2. PICK s : s = ListAt(h, x, "attribs")  OBVIOUS
  <2>3. Found(h, s, name, y)  BY <1>1, <2>2, NamedFound
  <2>4. y \in 1 .. Len(h) /\ h[y].name = name /\ \E k \in 1 .. Len(s) : s[k] = y
    BY <1>3, <2>3 DEF Found
  <2>5. ListOf(h, x, "attribs", s)  BY <2>2, WalkIsList DEF Roles
  <2>6. /\ SameContent(h, g) /\ Len(g) = Len(h)
        /\ \E k \in 1 .. Len(s) : s[k] = y /\ ListChanged(h, g, x, "attribs", Without(s, k))
    BY <2>1, <2>4, <2>5, WholeAttribOut
  <2>7. PICK k \in 1 .. Len(s) : s[k] = y /\ ListChanged(h, g, x, "attribs", Without(s, k))
    BY <2>6
  <2>8. /\ x \in DOMAIN Attrs(h) /\ Attrs(h)[x] = Pairs(h, s)
        /\ s \in Seq(1 .. Len(h)) /\ Len(Pairs(h, s)) = Len(s)
        /\ \A i \in 1 .. Len(s) : Pairs(h, s)[i].name = h[s[i]].name
    BY <2>2, AttrsAt
  <2>9. PICK t : t = Without(s, k)  OBVIOUS
  <2>10. t \in Seq(1 .. Len(h))  BY <2>8, <2>9, WithoutProperties
  <2>11. /\ Label(g) = Label(h) /\ Kids(g) = Kids(h)
         /\ Attrs(g) = [Attrs(h) EXCEPT ![x] = Pairs(h, t)]
    BY <2>6, <2>7, <2>9, <2>10, AttribsSeen
  <2>12. Pairs(h, t) = RemoveAt(Attrs(h)[x], k)  BY <2>8, <2>9, PairsWithout
  <2>13. Attrs(g) = [Attrs(h) EXCEPT ![x] = RemoveAt(@, k)]  BY ONLY <2>11, <2>12
  <2>14. IsAt(h, x, name, k)  BY <2>4, <2>7, <2>8 DEF IsAt
  <2> QED BY <2>11, <2>13, <2>14
<1> QED BY <1>2, <1>3

-----------------------------------------------------------------------------
(* The application moves no hidden nodes.                                  *)

IInv == Whole(heap, hidden)

LEMMA IInvInit == ASSUME Init PROVE IInv
BY DEF Init, IInv, Whole

LEMMA IInvNext ==
    ASSUME ~MoveHidden, IInv, [Next]_vars
    PROVE  IInv'
<1>1. /\ \A name \in Names : name \in Seq(STRING)
      /\ \A name \in AttribNames : name \in Seq(STRING)
      /\ \A t \in Texts \cup {<<>>} : t \in Seq(STRING)
  <2>1. <<>> \in Seq(STRING)  OBVIOUS
  <2> QED BY <2>1, IksAssumption
<1>2. Whole(heap, hidden)  BY DEF IInv
<1>3. \A x \in Tags : x \in 1 .. Len(heap) /\ IsTag(heap, x)  BY DEF Tags, Elements, ElementsOf
<1>4. \A name \in Seq(STRING) : TagNode(name) \in NodeRec({NULL}) /\ TagNode(name).type = "TAG"
  <2> TAKE name \in Seq(STRING)
  <2>1. <<>> \in Seq(STRING) /\ "TAG" \in {"TAG", "CDATA", "ATTRIBUTE"}  OBVIOUS
  <2> QED BY <2>1, NodeTyped DEF TagNode
<1>5. \A t \in Seq(STRING) : TextNode(t) \in NodeRec({NULL}) /\ TextNode(t).type = "CDATA"
  <2> TAKE t \in Seq(STRING)
  <2>1. <<>> \in Seq(STRING) /\ "CDATA" \in {"TAG", "CDATA", "ATTRIBUTE"}  OBVIOUS
  <2> QED BY <2>1, NodeTyped DEF TextNode
<1>6. ASSUME NEW name \in Names, New(name) PROVE IInv'
  <2>1. TagNode(name) \in NodeRec({NULL})  BY <1>1, <1>4
  <2>2. Whole(Append(heap, TagNode(name)), hidden)  BY <1>2, <2>1, WholeAppended
  <2> QED BY <1>6, <2>2 DEF New, IInv
<1>7. ASSUME NEW x \in Tags, NEW name \in Names, Insert(x, name) PROVE IInv'
  <2>1. TagNode(name) \in NodeRec({NULL}) /\ TagNode(name).type # "ATTRIBUTE"  BY <1>1, <1>4
  <2>2. Whole(LinkLast(Append(heap, TagNode(name)), x, Made(heap)), hidden)
    BY <1>2, <1>3, <2>1, WholeInsertedNode
  <2> QED BY <1>7, <2>2 DEF Insert, InsertedTag, IInv
<1>8. ASSUME NEW x \in Tags, NEW name \in AttribNames, RemoveAttrib(x, name) PROVE IInv'
  <2>1. Whole(RemovedAttrib(heap, x, name), hidden)  BY <1>1, <1>2, <1>3, WholeAttribs
  <2> QED BY <1>8, <2>1 DEF RemoveAttrib, IInv
<1>9. ASSUME NEW x \in Tags, NEW name \in AttribNames, NEW t \in Texts \cup {<<>>},
             InsertAttrib(x, name, t)
      PROVE  IInv'
  <2>1. /\ Whole(InsertedAttrib(heap, x, name, t), hidden)
        /\ LET g == WithAttrib(heap, x, name)
           IN  Whole([g EXCEPT ![AttribNamed(g, x, name)].broken = TRUE], hidden)
    BY <1>1, <1>2, <1>3, WholeAttribs
  <2> QED BY <1>9, <2>1 DEF InsertAttrib, IInv
<1>10. ASSUME NEW x \in Tags, NEW t \in Texts, InsertCData(x, t) PROVE IInv'
  <2>1. ASSUME NEW u \in Seq(STRING) PROVE Whole(InsertedText(heap, x, u), hidden)
    <3>1. CASE EndsWithText(heap, x)
      <4>1. heap[x].last \in 1 .. Len(heap)
        <5>1. heap[x].last \in 0 .. Len(heap)  BY <1>2, <1>3, LinksTyped
        <5> QED BY <3>1, <5>1 DEF EndsWithText, NULL
      <4>2. Whole([heap EXCEPT ![heap[x].last].text = @ \o u], hidden)  BY <1>2, <4>1, WholeText
      <4> QED BY <3>1, <4>2 DEF InsertedText
    <3>2. CASE ~EndsWithText(heap, x)
      <4>1. TextNode(u) \in NodeRec({NULL}) /\ TextNode(u).type # "ATTRIBUTE"  BY <1>5
      <4>2. Whole(LinkLast(Append(heap, TextNode(u)), x, Made(heap)), hidden)
        BY <1>2, <1>3, <4>1, WholeInsertedNode
      <4> QED BY <3>2, <4>2 DEF InsertedText
    <3> QED BY <3>1, <3>2
  <2>2. t \in Seq(STRING) /\ <<>> \in Seq(STRING) /\ TRUE \in BOOLEAN  BY <1>1
  <2>3. Whole([heap EXCEPT ![heap[x].last].broken = TRUE], hidden)
    BY ONLY <1>2, <2>2, WholeText
  <2> QED BY <1>10, <2>1, <2>2, <2>3 DEF InsertCData, IInv
<1>11. ASSUME NEW x \in Tags, NEW y \in Tags, InsertNode(x, y) PROVE IInv'
  <2>1. heap[y].parent = NULL  BY <1>11 DEF InsertNode, MayBeMoved
  <2>2. Role(heap, y) = "kids"  BY <1>3 DEF IsTag, Role
  <2>3. Whole(LinkLast(heap, x, y), hidden)  BY <1>2, <1>3, <2>1, <2>2, WholeLast
  <2> QED BY <1>11, <2>3 DEF InsertNode, IInv
<1>12. ASSUME NEW x \in Elements, NEW new \in NewNodes, AppendNode(x, new) \/ PrependNode(x, new)
       PROVE  IInv'
  <2>1. new \in NodeRec({NULL}) /\ new.type # "ATTRIBUTE"  BY <1>1, <1>4, <1>5 DEF NewNodes
  <2>2. /\ x \in (1 .. Len(heap)) \ hidden /\ heap[x].parent # NULL /\ heap[x].type # "ATTRIBUTE"
        /\ hidden' = hidden
    BY <1>12 DEF AppendNode, PrependNode, HasPlace, Elements, ElementsOf
  <2>3. /\ Whole(LinkBehind(Append(heap, new), x, Made(heap)), hidden)
        /\ Whole(LinkBefore(Append(heap, new), x, Made(heap)), hidden)
    BY <1>2, <2>1, <2>2, WholeBeside
  <2> QED BY <1>12, <2>2, <2>3 DEF AppendNode, PrependNode, IInv
<1>13. ASSUME NEW x \in Elements, Hide(x) PROVE IInv'
  <2>1. x \in (1 .. Len(heap)) \ hidden /\ heap[x].type # "ATTRIBUTE"  BY <1>13 DEF Hide, Elements, ElementsOf
  <2>2. Whole(Hidden(heap, x), hidden \cup {x})  BY <1>2, <2>1, WholeWithout
  <2> QED BY <1>13, <2>2 DEF Hide, IInv
<1>14. CASE UNCHANGED vars  BY <1>14 DEF vars, IInv
<1> QED BY <1>6, <1>7, <1>8, <1>9, <1>10, <1>11, <1>12, <1>13, <1>14 DEF Next

\* A whole list is the same from either end.
LEMMA WholeAgrees ==
    ASSUME NEW h, NEW out, Whole(h, out) PROVE LinksOf(h)
<1>1. Len(h) \in Nat  BY DEF Whole
<1>2. ASSUME NEW x, NEW first, NEW last, NEW s, IsList(h, first, last, s),
             \A i \in 1 .. Len(s) : h[s[i]].parent = x
      PROVE  BothWays(h, first, last, x)
  <2>1. s \in Seq(1 .. Len(h)) /\ IsInjective(s)  BY <1>2 DEF IsList
  <2>2. Chain(h, first, "next") = s  BY <1>1, <1>2, ListForwards
  <2>3. Chain(h, last, "prev") = Reverse(s)  BY <1>1, <1>2, ListBackwards
  <2>4. Reverse(Reverse(s)) = s  BY <2>1 DEF Reverse
  <2>5. Len(s) <= Len(h)  BY <1>1, <2>1, NoLongerThan
  <2> QED BY <1>2, <2>2, <2>3, <2>4, <2>5 DEF BothWays
<1>3. ASSUME NEW x \in 1 .. Len(h), h[x].type = "TAG"
      PROVE  /\ BothWays(h, h[x].first, h[x].last, x)
             /\ BothWays(h, h[x].attribs, h[x].lastAttrib, x)
  <2>1. \A r \in Roles : HasList(h, out, x, r)  BY <1>3 DEF Whole, IsTag
  <2>2. PICK s : ListOf(h, x, "kids", s)  BY <2>1 DEF HasList, Roles
  <2>3. PICK t : ListOf(h, x, "attribs", t)  BY <2>1 DEF HasList, Roles
  <2>4. IsList(h, h[x].first, h[x].last, s)  BY <2>2 DEF ListOf, FirstOf, LastOf
  <2>5. IsList(h, h[x].attribs, h[x].lastAttrib, t)  BY <2>3 DEF ListOf, FirstOf, LastOf
  <2>6. BothWays(h, h[x].first, h[x].last, x)  BY <1>2, <2>2, <2>4 DEF ListOf
  <2>7. BothWays(h, h[x].attribs, h[x].lastAttrib, x)  BY <1>2, <2>3, <2>5 DEF ListOf
  <2> QED BY <2>6, <2>7
<1> QED BY <1>3 DEF LinksOf

\* However many calls of iks_insert, iks_append, iks_hide and the others an
\* application makes that moves no hidden node, and however large its trees: the
\* children and the attributes of every tag are the same from either end.
THEOREM LinksStayRight == ASSUME ~MoveHidden PROVE Spec => []LinksAgree
<1>1. Init => IInv  BY IInvInit
<1>2. IInv /\ [Next]_vars => IInv'  BY IInvNext
<1>3. IInv => LinksAgree  BY WholeAgrees DEF IInv, LinksAgree
<1> QED BY <1>1, <1>2, <1>3, PTL DEF Spec

-----------------------------------------------------------------------------
(* The calls are the operations of OrderedTree.                            *)

\* A call makes at most one node.
Sized == calls \in 0 .. MaxCalls /\ Len(heap) <= calls

LEMMA DomainsKept ==
    ASSUME NEW h, NEW x, NEW y
    PROVE  /\ DOMAIN LinkLast(h, x, y) = DOMAIN h /\ DOMAIN LinkLastAttrib(h, x, y) = DOMAIN h
           /\ DOMAIN LinkBehind(h, x, y) = DOMAIN h /\ DOMAIN LinkBefore(h, x, y) = DOMAIN h
           /\ DOMAIN Hidden(h, x) = DOMAIN h /\ DOMAIN RemovedAttrib(h, x, y) = DOMAIN h
<1>1. DOMAIN LinkLast(h, x, y) = DOMAIN h /\ DOMAIN LinkLastAttrib(h, x, y) = DOMAIN h
  BY DEF LinkLast, LinkLastAttrib
<1>2. DOMAIN LinkBehind(h, x, y) = DOMAIN h /\ DOMAIN LinkBefore(h, x, y) = DOMAIN h
  BY DEF LinkBehind, LinkBefore
<1>3. \A z : DOMAIN Bypassed(h, z) = DOMAIN h  BY DEF Bypassed
<1>4. DOMAIN Hidden(h, x) = DOMAIN h  BY <1>3 DEF Hidden
<1>5. DOMAIN RemovedAttrib(h, x, y) = DOMAIN h  BY <1>3 DEF RemovedAttrib
<1> QED BY <1>1, <1>2, <1>4, <1>5

LEMMA DomainsGrow ==
    ASSUME NEW h, NEW n, NEW x
    PROVE  /\ DOMAIN LinkLast(Append(h, n), x, Made(h)) = DOMAIN Append(h, n)
           /\ DOMAIN LinkLastAttrib(Append(h, n), x, Made(h)) = DOMAIN Append(h, n)
           /\ DOMAIN LinkBehind(Append(h, n), x, Made(h)) = DOMAIN Append(h, n)
           /\ DOMAIN LinkBefore(Append(h, n), x, Made(h)) = DOMAIN Append(h, n)
<1>1. PICK k : k = Append(h, n)  OBVIOUS
<1>2. PICK y : y = Made(h)  OBVIOUS
<1>3. /\ DOMAIN LinkLast(k, x, y) = DOMAIN k /\ DOMAIN LinkLastAttrib(k, x, y) = DOMAIN k
      /\ DOMAIN LinkBehind(k, x, y) = DOMAIN k /\ DOMAIN LinkBefore(k, x, y) = DOMAIN k
  BY DomainsKept
<1> QED BY ONLY <1>1, <1>2, <1>3

LEMMA Grows ==
    ASSUME IInv, IInv', Next
    PROVE  Len(heap') <= Len(heap) + 1
<1>1. PICK L \in Nat : L = Len(heap) /\ DOMAIN heap = 1 .. L /\ heap \in Seq(NodeRec(0 .. Len(heap)))
  BY DEF IInv, Whole
<1>2. PICK M \in Nat : M = Len(heap') /\ DOMAIN heap' = 1 .. M  BY DEF IInv, Whole
<1>3. ASSUME DOMAIN heap' = DOMAIN heap PROVE M <= L + 1
  <2>1. 1 .. M = 1 .. L  BY <1>1, <1>2, <1>3
  <2> QED BY <2>1
<1>4. \A n : DOMAIN Append(heap, n) = 1 .. L + 1  BY <1>1
<1>5. ASSUME NEW n, DOMAIN heap' = DOMAIN Append(heap, n) PROVE M <= L + 1
  <2>1. 1 .. M = 1 .. L + 1  BY <1>2, <1>4, <1>5
  <2> QED BY <2>1
<1>6. SUFFICES DOMAIN heap' = DOMAIN heap \/ \E n : DOMAIN heap' = DOMAIN Append(heap, n)
  BY <1>1, <1>2, <1>3, <1>5
<1>7. ASSUME NEW name \in Names, New(name) PROVE \E n : DOMAIN heap' = DOMAIN Append(heap, n)
  BY <1>7 DEF New
<1>8. ASSUME NEW x \in Tags, NEW name \in Names, Insert(x, name)
      PROVE  \E n : DOMAIN heap' = DOMAIN Append(heap, n)
  BY <1>8, DomainsGrow DEF Insert, InsertedTag
<1>9. ASSUME NEW x \in Tags, NEW name \in AttribNames, RemoveAttrib(x, name)
      PROVE  DOMAIN heap' = DOMAIN heap
  BY <1>9, DomainsKept DEF RemoveAttrib
<1>10. ASSUME NEW x \in Tags, NEW name \in AttribNames, NEW t \in Texts \cup {<<>>},
              InsertAttrib(x, name, t)
       PROVE  DOMAIN heap' = DOMAIN heap \/ \E n : DOMAIN heap' = DOMAIN Append(heap, n)
  <2>1. PICK g : g = WithAttrib(heap, x, name)  OBVIOUS
  <2>2. DOMAIN heap' = DOMAIN g
    <3>1. DOMAIN InsertedAttrib(heap, x, name, t) = DOMAIN g  BY <2>1 DEF InsertedAttrib
    <3>2. \A z : DOMAIN [g EXCEPT ![z].broken = TRUE] = DOMAIN g  OBVIOUS
    <3> QED BY <1>10, <2>1, <3>1, <3>2 DEF InsertAttrib
  <2>3. g = heap \/ \E n : DOMAIN g = DOMAIN Append(heap, n)
    BY <2>1, DomainsGrow DEF WithAttrib
  <2> QED BY <2>2, <2>3
<1>11. ASSUME NEW x \in Tags, NEW t \in Texts, InsertCData(x, t)
       PROVE  DOMAIN heap' = DOMAIN heap \/ \E n : DOMAIN heap' = DOMAIN Append(heap, n)
  <2>1. \A u : \/ DOMAIN InsertedText(heap, x, u) = DOMAIN heap
              \/ \E n : DOMAIN InsertedText(heap, x, u) = DOMAIN Append(heap, n)
    <3> TAKE u
    <3>1. CASE EndsWithText(heap, x)
      <4>1. InsertedText(heap, x, u) = [heap EXCEPT ![heap[x].last].text = @ \o u]
        BY <3>1 DEF InsertedText
      <4>2. DOMAIN InsertedText(heap, x, u) = DOMAIN heap  BY ONLY <4>1
      <4> QED BY <4>2
    <3>2. CASE ~EndsWithText(heap, x)
      <4>1. InsertedText(heap, x, u) = LinkLast(Append(heap, TextNode(u)), x, Made(heap))
        BY <3>2 DEF InsertedText
      <4>2. DOMAIN InsertedText(heap, x, u) = DOMAIN Append(heap, TextNode(u))
        BY <4>1, DomainsGrow
      <4> QED BY <4>2
    <3> QED BY <3>1, <3>2
  <2>2. \A z : DOMAIN [heap EXCEPT ![z].broken = TRUE] = DOMAIN heap  OBVIOUS
  <2> QED BY <1>11, <2>1, <2>2 DEF InsertCData
<1>12. ASSUME NEW x \in Tags, NEW y \in Tags, InsertNode(x, y) PROVE DOMAIN heap' = DOMAIN heap
  BY <1>12, DomainsKept DEF InsertNode
<1>13. ASSUME NEW x \in Elements, NEW new \in NewNodes, AppendNode(x, new) \/ PrependNode(x, new)
       PROVE  \E n : DOMAIN heap' = DOMAIN Append(heap, n)
  BY <1>13, DomainsGrow DEF AppendNode, PrependNode
<1>14. ASSUME NEW x \in Elements, Hide(x) PROVE DOMAIN heap' = DOMAIN heap
  BY <1>14, DomainsKept DEF Hide
<1> QED BY <1>7, <1>8, <1>9, <1>10, <1>11, <1>12, <1>13, <1>14 DEF Next

LEMMA SizedNext ==
    ASSUME IInv, IInv', Sized, [Next]_vars
    PROVE  Sized'
<1>1. MaxCalls \in Nat /\ Len(heap) \in Nat /\ Len(heap)' \in Nat
  BY IksAssumption DEF IInv, Whole
<1>2. CASE Next
  <2>1. calls < MaxCalls /\ calls' = calls + 1
    BY <1>2 DEF Next, New, Insert, RemoveAttrib, InsertAttrib, InsertCData, InsertNode,
                AppendNode, PrependNode, Hide, Call
  <2>2. Len(heap') <= Len(heap) + 1  BY <1>2, Grows
  <2> QED BY <1>1, <2>1, <2>2 DEF Sized
<1>3. CASE UNCHANGED vars  BY <1>3 DEF vars, Sized
<1> QED BY <1>2, <1>3

LEMMA TreeOf ==
    /\ Forest!Existing = Elements /\ Forest!Tags = Tags
    /\ \A name \in Names : LabelOf(TagNode(name)) \in Forest!Labels /\ LabelOf(TagNode(name)).type = "TAG"
    /\ \A t \in Texts \cup {<<>>} : LabelOf(TextNode(t)) = Forest!Text(t) /\ Forest!Text(t) \in Forest!Labels
<1>1. Forest!Existing = Elements  BY DEF Forest!Existing, Label, Elements
<1>2. \A x \in Elements : Label(heap)[x].type = heap[x].type  BY DEF Label, Elements
<1>3. Forest!Tags = Tags  BY <1>1, <1>2 DEF Forest!Tags, Tags, IsTag
<1>4. \A name \in Names : /\ LabelOf(TagNode(name)) = Forest!Tag(name)
                          /\ LabelOf(TagNode(name)).type = "TAG"
  BY DEF LabelOf, TagNode, Node, Forest!Tag
<1>5. \A t \in Texts \cup {<<>>} : LabelOf(TextNode(t)) = Forest!Text(t)
  BY DEF LabelOf, TextNode, Node, Forest!Text
<1>6. \A name \in Names : Forest!Tag(name) \in Forest!Labels  BY DEF Forest!Labels
<1>7. \A t \in Texts \cup {<<>>} : Forest!Text(t) \in Forest!Labels  BY DEF Forest!Labels
<1> QED BY <1>1, <1>3, <1>4, <1>5, <1>6, <1>7

\* The place of a node that is made is a new one.
LEMMA MadeIsNew ==
    ASSUME IInv, Sized, Call
    PROVE  Made(heap) \in (1 .. MaxCalls) \ Forest!Existing
<1>1. PICK L \in Nat : L = Len(heap)  BY DEF IInv, Whole
<1>2. Made(heap) = L + 1 /\ L + 1 \in 1 .. MaxCalls
  BY <1>1, IksAssumption DEF Made, Sized, Call
<1>3. L + 1 \notin Elements  BY <1>1 DEF Elements, ElementsOf
<1> QED BY <1>2, <1>3, TreeOf

LEMMA NewTyped ==
    /\ \A name \in Names : TagNode(name) \in NodeRec({NULL}) /\ TagNode(name).type # "ATTRIBUTE"
    /\ \A t \in Texts \cup {<<>>} : TextNode(t) \in NodeRec({NULL}) /\ TextNode(t).type # "ATTRIBUTE"
    /\ \A name \in AttribNames : name \in Seq(STRING)
    /\ \A t \in Texts \cup {<<>>} : t \in Seq(STRING)
<1>1. /\ \A name \in Names : name \in Seq(STRING)
      /\ \A name \in AttribNames : name \in Seq(STRING)
      /\ \A t \in Texts \cup {<<>>} : t \in Seq(STRING)
  <2>1. <<>> \in Seq(STRING)  OBVIOUS
  <2> QED BY <2>1, IksAssumption
<1>2. "TAG" \in {"TAG", "CDATA", "ATTRIBUTE"} /\ "CDATA" \in {"TAG", "CDATA", "ATTRIBUTE"}  OBVIOUS
<1>3. <<>> \in Seq(STRING)  OBVIOUS
<1>4. \A name \in Names : TagNode(name) \in NodeRec({NULL}) /\ TagNode(name).type # "ATTRIBUTE"
  BY <1>1, <1>2, <1>3, NodeTyped DEF TagNode
<1>5. \A t \in Texts \cup {<<>>} : TextNode(t) \in NodeRec({NULL}) /\ TextNode(t).type # "ATTRIBUTE"
  BY <1>1, <1>2, <1>3, NodeTyped DEF TextNode
<1> QED BY <1>1, <1>4, <1>5

LEMMA TagPlaces == IInv => \A x \in Tags : x \in 1 .. Len(heap) /\ IsTag(heap, x)
BY DEF Tags, Elements, ElementsOf

LEMMA InsertedIsInsert ==
    ASSUME IInv, NEW x \in Tags, NEW n \in NodeRec({NULL}), n.type # "ATTRIBUTE",
           NEW y, y = Made(heap), heap' = LinkLast(Append(heap, n), x, y)
    PROVE  Forest!Insert(x, y, LabelOf(n))
<1>1. x \in 1 .. Len(heap) /\ IsTag(heap, x) /\ Whole(heap, hidden)  BY TagPlaces DEF IInv
<1>2. InsertedAs(heap, heap', x, y, n)  BY <1>1, InsertedSeen
<1> QED BY <1>2 DEF InsertedAs, Forest!Insert, Forest!Create

TreeStep == Forest!Next \/ SeenSame(heap, heap')

LEMMA NewIsStep ==
    ASSUME IInv, Sized, NEW name \in Names, New(name)
    PROVE  TreeStep
<1>1. PICK n : n = TagNode(name)  OBVIOUS
<1>2. PICK y : y = Made(heap)  OBVIOUS
<1>3. n \in NodeRec({NULL}) /\ n.type # "ATTRIBUTE"  BY <1>1, NewTyped
<1>4. heap' = Append(heap, n) /\ Call  BY <1>1 DEF New
<1>5. SeenWith(heap, heap', y, n)  BY <1>2, <1>3, <1>4, AppendedSeen DEF IInv
<1>6. Forest!NewRoot(y, LabelOf(n))  BY <1>5 DEF SeenWith, Forest!NewRoot, Forest!Create
<1>7. y \in (1 .. MaxCalls) \ Forest!Existing /\ LabelOf(n) \in Forest!Labels
  BY <1>1, <1>2, <1>4, MadeIsNew, TreeOf
<1> QED BY <1>6, <1>7 DEF Forest!Next, TreeStep

LEMMA InsertIsStep ==
    ASSUME IInv, Sized, NEW x \in Tags, NEW name \in Names, Insert(x, name)
    PROVE  TreeStep
<1>1. PICK n : n = TagNode(name)  OBVIOUS
<1>2. PICK y : y = Made(heap)  OBVIOUS
<1>3. n \in NodeRec({NULL}) /\ n.type # "ATTRIBUTE"  BY <1>1, NewTyped
<1>4. heap' = LinkLast(Append(heap, n), x, y) /\ Call  BY <1>1, <1>2 DEF Insert, InsertedTag
<1>5. Forest!Insert(x, y, LabelOf(n))  BY <1>2, <1>3, <1>4, InsertedIsInsert
<1>6. y \in (1 .. MaxCalls) \ Forest!Existing /\ LabelOf(n) \in Forest!Labels /\ LabelOf(n).type = "TAG"
  BY <1>1, <1>2, <1>4, MadeIsNew, TreeOf
<1>7. x \in Forest!Tags  BY TreeOf
<1> QED BY <1>5, <1>6, <1>7 DEF Forest!Next, TreeStep

\* What the sequences of OrderedTree are worked on with.
LEMMA SameOperators ==
    /\ \A s, i : Forest!RemoveAt(s, i) = RemoveAt(s, i)
    /\ \A s, i, y : Forest!InsertAt(s, i, y) = InsertAt(s, i, y)
    /\ \A s : Forest!ToSet(s) = ToSet(s)
BY DEF Forest!RemoveAt, Forest!InsertAt, Forest!ToSet, RemoveAt, InsertAt, ToSet

LEMMA RemoveAttribIsStep ==
    ASSUME IInv, NEW x \in Tags, NEW name \in AttribNames, RemoveAttrib(x, name)
    PROVE  TreeStep
<1>1. x \in 1 .. Len(heap) /\ IsTag(heap, x) /\ Whole(heap, hidden)  BY TagPlaces DEF IInv
<1>2. name \in Seq(STRING) /\ heap' = RemovedAttrib(heap, x, name)  BY NewTyped DEF RemoveAttrib
<1>3. \/ heap' = heap
      \/ /\ Label(heap') = Label(heap) /\ Kids(heap') = Kids(heap)
         /\ \E k : /\ IsAt(heap, x, name, k)
                  /\ Attrs(heap') = [Attrs(heap) EXCEPT ![x] = RemoveAt(@, k)]
  BY <1>1, <1>2, RemovedAttribSeen
<1>4. CASE heap' = heap  BY <1>4 DEF TreeStep, SeenSame
<1>5. ASSUME /\ Label(heap') = Label(heap) /\ Kids(heap') = Kids(heap)
             /\ \E k : /\ IsAt(heap, x, name, k)
                      /\ Attrs(heap') = [Attrs(heap) EXCEPT ![x] = RemoveAt(@, k)]
      PROVE  TreeStep
  <2>1. Forest!DropAttrib(x, name)  BY <1>5, SameOperators DEF IsAt, Forest!DropAttrib
  <2>2. x \in Forest!Tags  BY TreeOf
  <2> QED BY <2>1, <2>2 DEF Forest!Next, TreeStep
<1> QED BY <1>3, <1>4, <1>5

LEMMA AttribIsStep ==
    ASSUME NEW x \in Tags, NEW name \in AttribNames, NEW t \in Texts \cup {<<>>},
           \/ IsNew(heap, x, name) /\ AddedTo(heap, heap', x, name, t)
           \/ \E k : IsAt(heap, x, name, k) /\ SetIn(heap, heap', x, k, t)
    PROVE  TreeStep
<1>1. x \in Forest!Tags  BY TreeOf
<1>2. CASE IsNew(heap, x, name) /\ AddedTo(heap, heap', x, name, t)
  <2>1. Forest!SetAttrib(x, name, t)  BY <1>2 DEF IsNew, AddedTo, Forest!SetAttrib
  <2> QED BY <1>1, <2>1 DEF Forest!Next, TreeStep
<1>3. ASSUME NEW k, IsAt(heap, x, name, k), SetIn(heap, heap', x, k, t) PROVE TreeStep
  <2>1. Forest!SetAttrib(x, name, t)  BY <1>3 DEF IsAt, SetIn, Forest!SetAttrib
  <2> QED BY <1>1, <2>1 DEF Forest!Next, TreeStep
<1> QED BY <1>2, <1>3

LEMMA InsertAttribIsStep ==
    ASSUME IInv, NEW x \in Tags, NEW name \in AttribNames, NEW t \in Texts \cup {<<>>},
           InsertAttrib(x, name, t)
    PROVE  TreeStep
<1>1. x \in 1 .. Len(heap) /\ IsTag(heap, x) /\ Whole(heap, hidden)  BY TagPlaces DEF IInv
<1>2. name \in Seq(STRING) /\ t \in Seq(STRING) /\ <<>> \in Texts \cup {<<>>}  BY NewTyped
<1>3. CASE heap' = InsertedAttrib(heap, x, name, t)
  <2>1. \/ IsNew(heap, x, name) /\ AddedTo(heap, heap', x, name, t)
        \/ \E k : IsAt(heap, x, name, k) /\ SetIn(heap, heap', x, k, t)
    BY <1>1, <1>2, <1>3, InsertedAttribSeen
  <2> QED BY <2>1, AttribIsStep
<1>4. ASSUME NEW a, a = WithAttrib(heap, x, name), NEW z, heap' = [a EXCEPT ![z].broken = TRUE]
      PROVE  TreeStep
  <2>1. \/ SeenSame(heap, heap')
        \/ IsNew(heap, x, name) /\ AddedTo(heap, heap', x, name, <<>>)
    BY <1>1, <1>2, <1>4, FailedValueSeen
  <2>2. CASE SeenSame(heap, heap')  BY <2>2 DEF TreeStep
  <2>3. CASE IsNew(heap, x, name) /\ AddedTo(heap, heap', x, name, <<>>)
    BY <1>2, <2>3, AttribIsStep
  <2> QED BY <2>1, <2>2, <2>3
<1> QED BY <1>3, <1>4 DEF InsertAttrib

\* The last child of a tag that ends with text is that text.
LEMMA LastSeen ==
    ASSUME NEW h, NEW out, Whole(h, out), NEW x \in 1 .. Len(h), IsTag(h, x), NEW s, s = Kids(h)[x]
    PROVE  /\ h[x].last = (IF s = <<>> THEN NULL ELSE s[Len(s)])
           /\ s # <<>> => s[Len(s)] \in ElementsOf(h)
<1>1. x \in ElementsOf(h)  BY DEF ElementsOf, IsTag
<1>2. s = ListAt(h, x, "kids")
  <2>1. Kids(h) = [z \in ElementsOf(h) |-> IF IsTag(h, z) THEN ListAt(h, z, "kids") ELSE <<>>]
    BY ONLY Seen
  <2> QED BY <1>1, <2>1
<1>3. ListOf(h, x, "kids", s)  BY <1>2, WalkIsList DEF Roles
<1>4. s \in Seq(1 .. Len(h)) /\ h[x].last = At(s, Len(s))  BY <1>3 DEF ListOf, IsList, LastOf
<1>5. s = <<>> => h[x].last = NULL  BY <1>4 DEF At
<1>6. ASSUME s # <<>> PROVE h[x].last = s[Len(s)] /\ s[Len(s)] \in ElementsOf(h)
  <2>1. Len(s) \in 1 .. Len(s)  BY <1>4, <1>6
  <2>2. s[Len(s)] \in 1 .. Len(h) /\ Role(h, s[Len(s)]) = "kids"  BY <1>3, <1>4, <2>1 DEF ListOf
  <2> QED BY <1>4, <2>1, <2>2 DEF At, Role, ElementsOf
<1> QED BY <1>5, <1>6

LEMMA InsertedTextIsStep ==
    ASSUME IInv, Sized, Call, NEW x \in Tags, NEW t \in Texts \cup {<<>>},
           heap' = InsertedText(heap, x, t)
    PROVE  TreeStep
<1>1. x \in 1 .. Len(heap) /\ IsTag(heap, x) /\ Whole(heap, hidden)  BY TagPlaces DEF IInv
<1>2. PICK s : s = Kids(heap)[x]  OBVIOUS
<1>3. PICK z : z = heap[x].last  OBVIOUS
<1>4. PICK y : y = Made(heap)  OBVIOUS
<1>5. /\ z = (IF s = <<>> THEN NULL ELSE s[Len(s)])
      /\ s # <<>> => s[Len(s)] \in Elements
  BY <1>1, <1>2, <1>3, LastSeen DEF Elements
<1>6. \A e \in Elements : e \in 1 .. Len(heap) /\ e # NULL /\ Label(heap)[e].type = heap[e].type
  BY DEF Elements, ElementsOf, Label, NULL
<1>7. Forest!EndsWithText(x) <=> EndsWithText(heap, x)
  BY <1>2, <1>3, <1>5, <1>6 DEF Forest!EndsWithText, EndsWithText, IsText
<1>8. Forest!InsertText(x, y, t)
  <2>1. CASE EndsWithText(heap, x)
    <3>1. z \in Elements /\ z = s[Len(s)]  BY <1>3, <1>5, <2>1 DEF EndsWithText
    <3>2. PICK v : v = heap[z].text \o t  OBVIOUS
    <3>3. heap' = [heap EXCEPT ![z].text = v]
      <4>1. heap' = [heap EXCEPT ![heap[x].last].text = @ \o t]  BY <2>1 DEF InsertedText
      <4> QED BY ONLY <1>3, <3>2, <4>1
    <3>4. heap[z].type # "ATTRIBUTE" /\ z \in 1 .. Len(heap)  BY <3>1 DEF Elements, ElementsOf
    <3>5. TextSet(heap, heap', z, v)  BY <1>1, <3>3, <3>4, EditedSeen
    <3>6. Label(heap)[z].text = heap[z].text  BY <3>1 DEF Label, Elements
    <3>7. Label(heap') = [Label(heap) EXCEPT ![z].text = @ \o t]  BY ONLY <3>2, <3>5, <3>6 DEF TextSet
    <3> QED BY <1>2, <1>7, <2>1, <3>1, <3>5, <3>7 DEF TextSet, Forest!InsertText
  <2>2. CASE ~EndsWithText(heap, x)
    <3>1. PICK n : n = TextNode(t)  OBVIOUS
    <3>2. heap' = LinkLast(Append(heap, n), x, y)  BY <1>4, <2>2, <3>1 DEF InsertedText
    <3>3. n \in NodeRec({NULL}) /\ n.type # "ATTRIBUTE" /\ LabelOf(n) = Forest!Text(t)
      BY <3>1, NewTyped, TreeOf
    <3>4. Forest!Insert(x, y, LabelOf(n))  BY <1>4, <3>2, <3>3, InsertedIsInsert
    <3> QED BY <1>7, <2>2, <3>3, <3>4 DEF Forest!InsertText
  <2> QED BY <2>1, <2>2
<1>9. x \in Forest!Tags /\ y \in (1 .. MaxCalls) \ Forest!Existing  BY <1>4, TreeOf, MadeIsNew
<1> QED BY <1>8, <1>9 DEF Forest!Next, TreeStep

LEMMA InsertCDataIsStep ==
    ASSUME IInv, Sized, NEW x \in Tags, NEW t \in Texts, InsertCData(x, t)
    PROVE  TreeStep
<1>1. CASE heap' = InsertedText(heap, x, t)  BY <1>1, InsertedTextIsStep DEF InsertCData
<1>2. CASE heap' = InsertedText(heap, x, <<>>)  BY <1>2, InsertedTextIsStep DEF InsertCData
<1>3. ASSUME NEW z, heap' = [heap EXCEPT ![z].broken = TRUE] PROVE TreeStep
  <2>1. SeenSame(heap, heap')  BY <1>3, BrokenSeen DEF IInv
  <2> QED BY <2>1 DEF TreeStep
<1> QED BY <1>1, <1>2, <1>3 DEF InsertCData

\* A root is among the children of no tag.
LEMMA RootIsNoChild ==
    ASSUME NEW h, NEW out, Whole(h, out), NEW y \in 1 .. Len(h), h[y].parent = NULL,
           NEW z \in 1 .. Len(h), IsTag(h, z)
    PROVE  y \notin ToSet(Kids(h)[z])
<1>1. PICK s : s = ListAt(h, z, "kids")  OBVIOUS
<1>2. Kids(h)[z] = s
  <2>1. z \in ElementsOf(h)  BY DEF ElementsOf, IsTag
  <2>2. Kids(h) = [x \in ElementsOf(h) |-> IF IsTag(h, x) THEN ListAt(h, x, "kids") ELSE <<>>]
    BY ONLY Seen
  <2> QED BY <1>1, <2>1, <2>2
<1>3. ListOf(h, z, "kids", s)  BY <1>1, WalkIsList DEF Roles
<1>4. \A i \in 1 .. Len(s) : s[i] # y
  <2> TAKE i \in 1 .. Len(s)
  <2>1. h[s[i]].parent = z  BY <1>3 DEF ListOf
  <2> QED BY <2>1 DEF NULL
<1>5. DOMAIN s = 1 .. Len(s)  BY <1>3 DEF ListOf, IsList
<1> QED BY <1>2, <1>4, <1>5 DEF ToSet

LEMMA InsertNodeIsStep ==
    ASSUME ~MoveHidden, IInv, NEW x \in Tags, NEW y \in Tags, InsertNode(x, y)
    PROVE  TreeStep
<1>1. /\ x \in 1 .. Len(heap) /\ IsTag(heap, x) /\ Whole(heap, hidden)
      /\ y \in 1 .. Len(heap) /\ IsTag(heap, y)
  BY TagPlaces DEF IInv
<1>2. heap[y].parent = NULL /\ heap' = LinkLast(heap, x, y)  BY DEF InsertNode, MayBeMoved
<1>3. Role(heap, y) = "kids"  BY <1>1 DEF IsTag, Role
<1>4. PICK s : s = ListAt(heap, x, "kids")  OBVIOUS
<1>5. /\ SameContent(heap, heap') /\ Len(heap') = Len(heap)
      /\ ListChanged(heap, heap', x, "kids", With(s, Len(s) + 1, y))
  BY <1>1, <1>2, <1>3, <1>4, WholeLast
<1>6. s \in Seq(1 .. Len(heap))
  <2>1. ListOf(heap, x, "kids", s)  BY <1>1, <1>4, WalkIsList DEF Roles
  <2> QED BY <2>1 DEF ListOf, IsList
<1>7. With(s, Len(s) + 1, y) = Append(s, y)  BY <1>1, <1>6, ListOperations
<1>8. /\ Label(heap') = Label(heap) /\ Attrs(heap') = Attrs(heap)
      /\ Kids(heap') = [Kids(heap) EXCEPT ![x] = Append(s, y)]
  BY <1>1, <1>5, <1>7, KidsSeen
<1>9. Kids(heap)[x] = s
  <2>1. Kids(heap) = [z \in ElementsOf(heap) |->
                        IF IsTag(heap, z) THEN ListAt(heap, z, "kids") ELSE <<>>]
    BY ONLY Seen
  <2>2. x \in ElementsOf(heap)  BY <1>1 DEF ElementsOf, IsTag
  <2> QED BY <1>1, <1>4, <2>1, <2>2
<1>10. \A z \in Forest!Tags : y \notin Forest!ToSet(Kids(heap)[z])
  <2> TAKE z \in Forest!Tags
  <2>1. z \in 1 .. Len(heap) /\ IsTag(heap, z)  BY TreeOf, TagPlaces
  <2>2. y \notin ToSet(Kids(heap)[z])  BY <1>1, <1>2, <2>1, RootIsNoChild
  <2> QED BY <2>2, SameOperators
<1>11. Kids(heap') = [Kids(heap) EXCEPT ![x] = Append(@, y)]  BY ONLY <1>8, <1>9
<1>12. Forest!Attach(x, y)  BY <1>8, <1>10, <1>11 DEF Forest!Attach
<1>13. x \in Forest!Tags /\ y \in Forest!Existing  BY TreeOf DEF Tags
<1> QED BY <1>12, <1>13 DEF Forest!Next, TreeStep

LEMMA BesideIsStep ==
    ASSUME IInv, Sized, NEW z \in Elements, NEW new \in NewNodes, NEW b \in 0 .. 1,
           IF b = 1 THEN AppendNode(z, new) ELSE PrependNode(z, new)
    PROVE  TreeStep
<1>1. /\ Call /\ z \in (1 .. Len(heap)) \ hidden /\ heap[z].parent # NULL /\ heap[z].type # "ATTRIBUTE"
      /\ Whole(heap, hidden)
  BY DEF AppendNode, PrependNode, HasPlace, Elements, ElementsOf, IInv
<1>2. PICK y : y = Made(heap)  OBVIOUS
<1>3. PICK x : x = heap[z].parent  OBVIOUS
<1>4. heap' = IF b = 1 THEN LinkBehind(Append(heap, new), z, y) ELSE LinkBefore(Append(heap, new), z, y)
  BY <1>2 DEF AppendNode, PrependNode
<1>5. new \in NodeRec({NULL}) /\ new.type # "ATTRIBUTE" /\ LabelOf(new) \in Forest!Labels
  BY NewTyped, TreeOf DEF NewNodes
<1>6. BesideAs(heap, heap', x, z, y, new, b)  BY <1>1, <1>2, <1>3, <1>4, <1>5, BesideSeen
<1>7. Forest!Beside(x, z, y, LabelOf(new), b)
  BY <1>6, SameOperators DEF BesideAs, Forest!Beside, Forest!Create
<1>8. x \in Forest!Tags /\ z \in Forest!ToSet(Kids(heap)[x])
  BY <1>6, SameOperators, TreeOf DEF BesideAs, Tags, Elements, ElementsOf, IsTag
<1>9. y \in (1 .. MaxCalls) \ Forest!Existing  BY <1>1, <1>2, MadeIsNew
<1> QED BY <1>5, <1>7, <1>8, <1>9 DEF Forest!Next, TreeStep

LEMMA HideIsStep ==
    ASSUME IInv, NEW z \in Elements, Hide(z)
    PROVE  TreeStep
<1>1. /\ z \in (1 .. Len(heap)) \ hidden /\ heap[z].type # "ATTRIBUTE"
      /\ Whole(heap, hidden) /\ heap' = Hidden(heap, z)
  BY DEF Hide, Elements, ElementsOf, IInv
<1>2. CASE heap[z].parent = NULL
  <2>1. heap[z].next = NULL /\ heap[z].prev = NULL  BY <1>1, <1>2 DEF Whole
  <2>2. heap' = heap  BY <1>1, <1>2, <2>1 DEF Hidden, Bypassed
  <2> QED BY <2>2 DEF TreeStep, SeenSame
<1>3. CASE heap[z].parent # NULL
  <2>1. PICK x : x = heap[z].parent  OBVIOUS
  <2>2. TakenOut(heap, heap', x, z)  BY <1>1, <1>3, <2>1, HiddenSeen
  <2>3. Forest!Detach(x, z)  BY <2>2, SameOperators DEF TakenOut, Forest!Detach
  <2>4. x \in Forest!Tags /\ z \in Forest!Existing
    BY <2>2, TreeOf DEF TakenOut, Tags, Elements, ElementsOf, IsTag
  <2> QED BY <2>3, <2>4 DEF Forest!Next, TreeStep
<1> QED BY <1>2, <1>3

LEMMA StepIsStep ==
    ASSUME ~MoveHidden, IInv, Sized, Next
    PROVE  TreeStep
<1>1. ASSUME NEW x \in Elements, NEW new \in NewNodes, AppendNode(x, new) PROVE TreeStep
  BY <1>1, BesideIsStep
<1>2. ASSUME NEW x \in Elements, NEW new \in NewNodes, PrependNode(x, new) PROVE TreeStep
  BY <1>2, BesideIsStep
<1> QED
  BY <1>1, <1>2, NewIsStep, InsertIsStep, RemoveAttribIsStep, InsertAttribIsStep, InsertCDataIsStep,
     InsertNodeIsStep, HideIsStep DEF Next

\* Every call of an application that moves no hidden node changes the tree in the
\* place it is asked for and nowhere else: the links that iks_insert, iks_append,
\* iks_hide and the others keep are an ordered tree, for trees of every size.
THEOREM KeepsTheTree == ASSUME ~MoveHidden PROVE Spec => ImplementsTree
<1>1. Init => IInv /\ Sized
  <2>1. Init => Sized  BY IksAssumption DEF Init, Sized
  <2> QED BY <2>1, IInvInit
<1>2. IInv /\ Sized /\ [Next]_vars => (IInv /\ Sized)'  BY IInvNext, SizedNext
<1>3. Init => Forest!Init
  <2> SUFFICES ASSUME Init PROVE Forest!Init  OBVIOUS
  <2>1. heap = <<>> /\ ElementsOf(heap) = {}  BY DEF Init, ElementsOf
  <2> QED BY <2>1 DEF Forest!Init, Label, Kids, Attrs
<1>4. ASSUME IInv, Sized, [Next]_vars PROVE [Forest!Next]_(Forest!tree)
  <2>1. CASE Next
    <3>1. TreeStep  BY <1>4, <2>1, StepIsStep
    <3>2. SeenSame(heap, heap') => UNCHANGED Forest!tree  BY DEF SeenSame, Forest!tree
    <3> QED BY <3>1, <3>2 DEF TreeStep
  <2>2. CASE UNCHANGED vars
    <3>1. heap' = heap  BY <2>2 DEF vars
    <3> QED BY <3>1 DEF Forest!tree
  <2> QED BY <1>4, <2>1, <2>2
<1> QED BY <1>1, <1>2, <1>3, <1>4, PTL DEF Spec, ImplementsTree, Forest!Spec

=============================================================================
