---------------------------- MODULE Heap_proofs ----------------------------
(***************************************************************************)
(* What walking along, inserting into and removing from a doubly linked    *)
(* list does, for lists and heaps of any length; and what the calls of     *)
(* iks.c make of the lists of children and attributes of every node.       *)
(***************************************************************************)
EXTENDS IksHeap, FiniteSetTheorems, SequenceTheorems, WellFoundedInduction, TLAPS

-----------------------------------------------------------------------------
(* Induction.                                                              *)

\* Every set of numbers that is not empty has a least one.  Induction on n: if a
\* claim fails, take the least n for which it does.
LEMMA Least ==
    ASSUME NEW S \in SUBSET Nat, S # {}
    PROVE  \E m \in S : \A k \in S : m <= k
<1>1. PICK R : R = {ss \in Nat \X Nat : ss[1] < ss[2]}  OBVIOUS
<1>2. IsWellFoundedOn(R, Nat)  BY <1>1, NatLessThanWellFounded DEF OpToRel
<1>3. PICK x \in S : \A y \in S : <<y, x>> \notin R  BY <1>2, WFMin
<1>4. ASSUME NEW y \in S PROVE x <= y
  <2>1. <<y, x>> \in Nat \X Nat  OBVIOUS
  <2>2. ~(y < x)  BY <1>1, <1>3, <2>1
  <2> QED BY <2>2
<1> QED BY <1>3, <1>4

-----------------------------------------------------------------------------
(* Walking.                                                                *)

\* One round of Chain, and the function its rounds define.
Round(h, link, s, n) ==
    LET y == h[s[Len(s)]][link] IN IF Len(s) < n \/ y = NULL THEN s ELSE Append(s, y)
Reaches(f, h, x, link) ==
    f = [n \in 0 .. Len(h) |-> IF n = 0 THEN <<x>> ELSE Round(h, link, f[n - 1], n)]

LEMMA ChainReaches ==
    ASSUME NEW h, NEW x, NEW link, x # NULL, NEW g, Reaches(g, h, x, link)
    PROVE  \E f : Reaches(f, h, x, link) /\ Chain(h, x, link) = f[Len(h)]
BY DEF Chain, Reaches, Round

LEMMA OneReaches ==
    ASSUME NEW h, Len(h) \in Nat, NEW x, NEW link,
           NEW f, Reaches(f, h, x, link), NEW g, Reaches(g, h, x, link)
    PROVE  f = g
<1> DEFINE D == {n \in 0 .. Len(h) : f[n] # g[n]}
<1>1. SUFFICES ASSUME D # {} PROVE FALSE  BY DEF Reaches
<1>2. PICK m \in D : \A k \in D : m <= k
  <2>1. D \in SUBSET Nat  OBVIOUS
  <2> QED BY <1>1, <2>1, Least
<1>3. m # 0  BY DEF Reaches
<1>4. m \in 0 .. Len(h) /\ m - 1 \in 0 .. Len(h) /\ m - 1 \notin D  BY <1>2, <1>3
<1>5. f[m - 1] = g[m - 1]  BY <1>4
<1>6. f[m] = Round(h, link, f[m - 1], m) /\ g[m] = Round(h, link, g[m - 1], m)
  BY <1>3, <1>4 DEF Reaches
<1> QED BY <1>5, <1>6

LEMMA NoLongerThan ==
    ASSUME NEW N \in Nat, NEW s \in Seq(1 .. N), IsInjective(s)
    PROVE  Len(s) <= N
<1>1. s \in Injection(1 .. Len(s), 1 .. N)  BY DEF IsInjective, Injection
<1> QED BY <1>1, FS_Injection, FS_Interval

\* The records of s, one behind the other from x to the end of the links.
Linked(h, x, link, s) ==
    /\ s \in Seq(1 .. Len(h)) /\ IsInjective(s)
    /\ x = IF s = <<>> THEN NULL ELSE s[1]
    /\ \A i \in 1 .. Len(s) : h[s[i]][link] = IF i = Len(s) THEN NULL ELSE s[i + 1]

\* A walk meets each of them once, in their order, and ends (iks_next, iks_prev).
LEMMA ChainOfLinked ==
    ASSUME NEW h, Len(h) \in Nat, NEW x, NEW link, NEW s, Linked(h, x, link, s)
    PROVE  Chain(h, x, link) = s
<1>1. CASE s = <<>>  BY <1>1 DEF Chain, Linked
<1>2. CASE s # <<>>
  <2>1. s \in Seq(1 .. Len(h)) /\ Len(s) \in 1 .. Len(h) /\ x = s[1] /\ x # NULL
    BY <1>2, NoLongerThan DEF Linked, NULL
  <2>2. PICK g : g = [n \in 0 .. Len(h) |-> SubSeq(s, 1, IF n < Len(s) THEN n + 1 ELSE Len(s))]
    OBVIOUS
  <2>3. ASSUME NEW n \in 0 .. Len(h), n # 0 PROVE g[n] = Round(h, link, g[n - 1], n)
    <3>1. n - 1 \in 0 .. Len(h)  BY <2>3
    <3>2. CASE n < Len(s)
      <4>1. g[n] = SubSeq(s, 1, n + 1) /\ g[n - 1] = SubSeq(s, 1, n)  BY <2>1, <2>2, <3>1, <3>2
      <4>2. Len(g[n - 1]) = n /\ g[n - 1][n] = s[n]  BY <2>1, <2>3, <4>1, <3>2
      <4>3. h[s[n]][link] = s[n + 1] /\ s[n + 1] # NULL  BY <2>1, <2>3, <3>2 DEF Linked, NULL
      <4>4. h[g[n - 1][Len(g[n - 1])]][link] = s[n + 1] /\ ~(Len(g[n - 1]) < n)
        BY <4>2, <4>3
      <4>5. Round(h, link, g[n - 1], n) = Append(g[n - 1], s[n + 1])  BY <4>3, <4>4 DEF Round
      <4>6. SubSeq(s, 1, n + 1) = Append(SubSeq(s, 1, n), s[n + 1])  BY <2>1, <2>3, <3>2
      <4> QED BY <4>1, <4>5, <4>6
    <3>3. CASE ~(n < Len(s))
      <4>1. g[n] = s /\ g[n - 1] = s  BY <2>1, <2>2, <2>3, <3>1, <3>3
      <4>2. h[s[Len(s)]][link] = NULL  BY <2>1 DEF Linked
      <4> QED BY <4>1, <4>2 DEF Round
    <3> QED BY <3>2, <3>3
  <2>4. g[0] = <<x>>
    <3>1. g[0] = SubSeq(s, 1, 1)  BY <2>1, <2>2
    <3>2. g[0] \in Seq(1 .. Len(h)) /\ Len(g[0]) = 1 /\ g[0][1] = x  BY <2>1, <3>1
    <3>3. PICK u : u = <<x>>  OBVIOUS
    <3>4. u \in Seq(1 .. Len(h)) /\ Len(u) = 1 /\ u[1] = x  BY <2>1, <3>3
    <3> QED BY <3>2, <3>3, <3>4, SeqEqual
  <2>5. Reaches(g, h, x, link)  BY <2>2, <2>3, <2>4 DEF Reaches
  <2>6. Chain(h, x, link) = g[Len(h)]  BY <2>1, <2>5, ChainReaches, OneReaches
  <2> QED BY <2>1, <2>2, <2>6
<1> QED BY <1>1, <1>2

-----------------------------------------------------------------------------
(* Lists that can be walked both ways.                                     *)

At(s, i) == IF i \in 1 .. Len(s) THEN s[i] ELSE NULL

IsList(h, first, last, s) ==
    /\ s \in Seq(1 .. Len(h)) /\ IsInjective(s)
    /\ first = At(s, 1) /\ last = At(s, Len(s))
    /\ \A i \in 1 .. Len(s) :
        /\ h[s[i]].next = IF i = Len(s) THEN NULL ELSE s[i + 1]
        /\ h[s[i]].prev = IF i = 1 THEN NULL ELSE s[i - 1]

LEMMA ListForwards ==
    ASSUME NEW h, Len(h) \in Nat, NEW first, NEW last, NEW s, IsList(h, first, last, s)
    PROVE  Chain(h, first, "next") = s
<1>1. Linked(h, first, "next", s)  BY SMTT(30) DEF Linked, IsList, At
<1> QED BY <1>1, ChainOfLinked

LEMMA ListBackwards ==
    ASSUME NEW h, Len(h) \in Nat, NEW first, NEW last, NEW s, IsList(h, first, last, s)
    PROVE  Chain(h, last, "prev") = Reverse(s)
<1>1. PICK L \in Nat : L = Len(s) /\ s \in Seq(1 .. Len(h)) /\ DOMAIN s = 1 .. L  BY DEF IsList
<1>2. PICK r : r = Reverse(s)  OBVIOUS
<1>3. r = [i \in 1 .. L |-> s[L - i + 1]]  BY <1>1, <1>2 DEF Reverse
<1>4. \A i \in 1 .. L : L - i + 1 \in 1 .. L /\ r[i] = s[L - i + 1]  BY <1>1, <1>3
<1>5. r \in Seq(1 .. Len(h)) /\ Len(r) = L /\ DOMAIN r = 1 .. L
  <2>1. \A i \in 1 .. L : r[i] \in 1 .. Len(h)  BY <1>1, <1>4
  <2> QED BY <1>1, <1>3, <2>1
<1>6. IsInjective(r)
  <2>1. ASSUME NEW a \in 1 .. L, NEW b \in 1 .. L, r[a] = r[b] PROVE a = b
    <3>1. s[L - a + 1] = s[L - b + 1]  BY <1>4, <2>1
    <3>2. L - a + 1 = L - b + 1  BY <1>1, <1>4, <3>1 DEF IsList, IsInjective
    <3> QED BY <1>1, <3>2
  <2> QED BY <1>5, <2>1 DEF IsInjective
<1>7. last = IF r = <<>> THEN NULL ELSE r[1]
  <2>1. CASE L = 0  BY <1>1, <1>5, <2>1 DEF IsList, At
  <2>2. CASE L # 0
    <3>1. r[1] = s[L] /\ r # <<>>  BY <1>1, <1>4, <1>5, <2>2
    <3> QED BY <1>1, <2>2, <3>1 DEF IsList, At
  <2> QED BY <2>1, <2>2
<1>8. ASSUME NEW i \in 1 .. L
      PROVE  h[r[i]]["prev"] = IF i = L THEN NULL ELSE r[i + 1]
  <2>1. PICK j \in 1 .. L : j = L - i + 1 /\ r[i] = s[j]  BY <1>4
  <2>2. h[s[j]].prev = IF j = 1 THEN NULL ELSE s[j - 1]  BY <1>1 DEF IsList
  <2>3. i = L <=> j = 1  BY <1>1, <2>1
  <2>4. ASSUME i # L PROVE r[i + 1] = s[j - 1]
    <3>1. i + 1 \in 1 .. L /\ L - (i + 1) + 1 = j - 1  BY <1>1, <2>1, <2>4
    <3> QED BY <1>4, <3>1
  <2> QED BY <2>1, <2>2, <2>3, <2>4
<1>9. Linked(h, last, "prev", r)  BY <1>5, <1>6, <1>7, <1>8 DEF Linked
<1> QED BY <1>2, <1>9, ChainOfLinked

-----------------------------------------------------------------------------
(* Changing a list.                                                        *)

\* A list whose records keep their links stays.
LEMMA ListKept ==
    ASSUME NEW h, NEW g, Len(h) \in Nat, Len(g) \in Nat, Len(h) <= Len(g),
           NEW first, NEW last, NEW s, IsList(h, first, last, s),
           \A i \in 1 .. Len(s) : g[s[i]].next = h[s[i]].next /\ g[s[i]].prev = h[s[i]].prev
    PROVE  IsList(g, first, last, s)
<1>1. s \in Seq(1 .. Len(g))  BY DEF IsList
<1> QED BY <1>1 DEF IsList

\* s with y in place k, and s without its element in place k.
With(s, k, y) ==
    [i \in 1 .. Len(s) + 1 |-> IF i < k THEN s[i] ELSE IF i = k THEN y ELSE s[i - 1]]
Without(s, k) == [i \in 1 .. Len(s) - 1 |-> IF i < k THEN s[i] ELSE s[i + 1]]

LEMMA WithProperties ==
    ASSUME NEW T, NEW s \in Seq(T), NEW k \in 1 .. Len(s) + 1, NEW y \in T
    PROVE  /\ With(s, k, y) \in Seq(T) /\ Len(With(s, k, y)) = Len(s) + 1
           /\ With(s, k, y)[k] = y
           /\ \A i \in 1 .. Len(s) : i < k => With(s, k, y)[i] = s[i]
           /\ \A i \in 1 .. Len(s) : i >= k => With(s, k, y)[i + 1] = s[i]
<1>1. PICK L \in Nat : L = Len(s) /\ DOMAIN s = 1 .. L  OBVIOUS
<1>2. PICK t : t = With(s, k, y)  OBVIOUS
<1>3. t = [i \in 1 .. L + 1 |-> IF i < k THEN s[i] ELSE IF i = k THEN y ELSE s[i - 1]]
  BY <1>1, <1>2 DEF With
<1>4. ASSUME NEW i \in 1 .. L + 1 PROVE t[i] \in T
  <2>1. CASE i < k
    <3>1. i \in 1 .. L  BY <1>1, <2>1
    <3> QED BY <1>1, <1>3, <2>1, <3>1
  <2>2. CASE i = k  BY <1>3, <2>2
  <2>3. CASE i > k
    <3>1. i - 1 \in 1 .. L  BY <1>1, <2>3
    <3>2. t[i] = s[i - 1]  BY <1>1, <1>3, <2>3
    <3> QED BY <1>1, <3>1, <3>2
  <2> QED BY <1>1, <2>1, <2>2, <2>3
<1>5. t \in Seq(T) /\ Len(t) = L + 1  BY <1>3, <1>4
<1>6. ASSUME NEW i \in 1 .. L, i >= k PROVE t[i + 1] = s[i]
  <2>1. i + 1 \in 1 .. L + 1 /\ i + 1 > k /\ i + 1 - 1 = i  BY <1>1, <1>6
  <2> QED BY <1>1, <1>3, <2>1
<1> QED BY <1>1, <1>2, <1>3, <1>5, <1>6

\* t has y and what s has, and nothing else.
HasToo(s, y, t) ==
    /\ \A i \in 1 .. Len(t) : t[i] = y \/ \E j \in 1 .. Len(s) : t[i] = s[j]
    /\ \E i \in 1 .. Len(t) : t[i] = y
    /\ \A j \in 1 .. Len(s) : \E i \in 1 .. Len(t) : t[i] = s[j]

LEMMA WithMembers ==
    ASSUME NEW S, NEW s \in Seq(S), NEW k \in 1 .. Len(s) + 1, NEW y
    PROVE  HasToo(s, y, With(s, k, y))
<1>0. PICK T : s \in Seq(T) /\ y \in T
  <2>1. s \in Seq(S \cup {y})  OBVIOUS
  <2> QED BY <2>1
<1>1. PICK L \in Nat : L = Len(s) /\ DOMAIN s = 1 .. L /\ k \in 1 .. L + 1  OBVIOUS
<1>2. PICK t : t = With(s, k, y)  OBVIOUS
<1>3. Len(t) = L + 1 /\ t[k] = y  BY <1>0, <1>1, <1>2, WithProperties
<1>6. ASSUME NEW j \in 1 .. L PROVE (j < k => t[j] = s[j]) /\ (j >= k => t[j + 1] = s[j])
  <2>1. j < k => t[j] = s[j]  BY <1>0, <1>1, <1>2, WithProperties
  <2>2. j >= k => t[j + 1] = s[j]  BY <1>0, <1>1, <1>2, WithProperties
  <2> QED BY <2>1, <2>2
<1>4. ASSUME NEW j \in 1 .. L PROVE \E i \in 1 .. L + 1 : t[i] = s[j]
  <2>1. j \in 1 .. L + 1 /\ j + 1 \in 1 .. L + 1  OBVIOUS
  <2> QED BY <1>1, <1>6, <2>1
<1>5. ASSUME NEW i \in 1 .. L + 1 PROVE t[i] = y \/ \E j \in 1 .. L : t[i] = s[j]
  <2>1. CASE i < k
    <3>1. i \in 1 .. L  BY <1>1, <2>1
    <3>2. t[i] = s[i]  BY <1>6, <2>1, <3>1
    <3> QED BY <3>1, <3>2
  <2>2. CASE i > k
    <3>0. i - 1 \in 1 .. L /\ i - 1 >= k /\ i - 1 + 1 = i  BY <1>1, <2>2
    <3>1. t[i - 1 + 1] = s[i - 1]  BY <1>6, <3>0
    <3> QED BY <3>0, <3>1
  <2> QED BY <1>1, <1>3, <2>1, <2>2
<1> QED BY <1>1, <1>2, <1>3, <1>4, <1>5 DEF HasToo

LEMMA WithoutProperties ==
    ASSUME NEW T, NEW s \in Seq(T), NEW k \in 1 .. Len(s)
    PROVE  /\ Without(s, k) \in Seq(T) /\ Len(Without(s, k)) = Len(s) - 1
           /\ \A i \in 1 .. Len(s) : i < k => Without(s, k)[i] = s[i]
           /\ \A i \in 1 .. Len(s) : i > k => Without(s, k)[i - 1] = s[i]
<1>1. PICK L \in Nat : L = Len(s) /\ DOMAIN s = 1 .. L /\ L >= 1  OBVIOUS
<1>2. PICK t : t = Without(s, k)  OBVIOUS
<1>3. t = [i \in 1 .. L - 1 |-> IF i < k THEN s[i] ELSE s[i + 1]]  BY <1>1, <1>2 DEF Without
<1>4. ASSUME NEW i \in 1 .. L - 1 PROVE t[i] \in T
  <2>1. i \in 1 .. L /\ i + 1 \in 1 .. L  BY <1>1
  <2> QED BY <1>1, <1>3, <2>1
<1>5. t \in Seq(T) /\ Len(t) = L - 1  BY <1>1, <1>3, <1>4
<1>6. ASSUME NEW i \in 1 .. L, i > k PROVE t[i - 1] = s[i]
  <2>1. i - 1 \in 1 .. L - 1 /\ ~(i - 1 < k) /\ i - 1 + 1 = i  BY <1>1, <1>6
  <2> QED BY <1>1, <1>3, <2>1
<1>7. \A i \in 1 .. L : i < k => t[i] = s[i]  BY <1>1, <1>3
<1> QED BY <1>1, <1>2, <1>5, <1>6, <1>7

LEMMA WithoutMembers ==
    ASSUME NEW T, NEW s \in Seq(T), NEW k \in 1 .. Len(s)
    PROVE  LET t == Without(s, k)
           IN  /\ \A i \in 1 .. Len(t) : \E j \in 1 .. Len(s) : j # k /\ t[i] = s[j]
               /\ \A j \in 1 .. Len(s) : j # k => \E i \in 1 .. Len(t) : t[i] = s[j]
<1>1. PICK L \in Nat : L = Len(s) /\ DOMAIN s = 1 .. L /\ k \in 1 .. L  OBVIOUS
<1>2. PICK t : t = Without(s, k)  OBVIOUS
<1>3. Len(t) = L - 1  BY <1>1, <1>2, WithoutProperties
<1>4. ASSUME NEW j \in 1 .. L, j # k PROVE \E i \in 1 .. L - 1 : t[i] = s[j]
  <2>1. CASE j < k
    <3>1. j \in 1 .. L - 1  BY <1>1, <2>1
    <3>2. t[j] = s[j]  BY <1>1, <1>2, <2>1, WithoutProperties
    <3> QED BY <3>1, <3>2
  <2>2. CASE j > k
    <3>1. j - 1 \in 1 .. L - 1  BY <1>1, <2>2
    <3>2. t[j - 1] = s[j]  BY <1>1, <1>2, <2>2, WithoutProperties
    <3> QED BY <3>1, <3>2
  <2> QED BY <1>1, <1>4, <2>1, <2>2
<1>5. ASSUME NEW i \in 1 .. L - 1 PROVE \E j \in 1 .. L : j # k /\ t[i] = s[j]
  <2>1. CASE i < k
    <3>1. i \in 1 .. L /\ i # k  BY <1>1, <2>1
    <3>2. t[i] = s[i]  BY <1>1, <1>2, <2>1, <3>1, WithoutProperties
    <3> QED BY <3>1, <3>2
  <2>2. CASE i >= k
    <3>1. PICK j \in 1 .. L : j = i + 1 /\ j > k /\ j - 1 = i  BY <1>1, <2>2
    <3>2. t[j - 1] = s[j]  BY <1>1, <1>2, <3>1, WithoutProperties
    <3>3. j # k  BY <1>1, <3>1
    <3> QED BY <3>1, <3>2, <3>3
  <2> QED BY <1>1, <2>1, <2>2
<1> QED BY <1>1, <1>2, <1>3, <1>4, <1>5

\* The record y between the neighbours of place k.
SplicedIn(h, g, s, k, y) ==
    /\ g[y].next = At(s, k) /\ g[y].prev = At(s, k - 1)
    /\ \A i \in 1 .. Len(s) :
        /\ s[i] # y
        /\ g[s[i]].next = IF i = k - 1 THEN y ELSE h[s[i]].next
        /\ g[s[i]].prev = IF i = k THEN y ELSE h[s[i]].prev

LEMMA ListInserted ==
    ASSUME NEW h, NEW g, Len(h) \in Nat, Len(g) \in Nat, Len(h) <= Len(g),
           NEW first, NEW last, NEW s, IsList(h, first, last, s),
           NEW k \in 1 .. Len(s) + 1, NEW y \in 1 .. Len(g), SplicedIn(h, g, s, k, y)
    PROVE  IsList(g, IF k = 1 THEN y ELSE first, IF k = Len(s) + 1 THEN y ELSE last, With(s, k, y))
<1>1. PICK L \in Nat : L = Len(s) /\ s \in Seq(1 .. Len(h)) /\ DOMAIN s = 1 .. L /\ k \in 1 .. L + 1
  BY DEF IsList
<1>2. s \in Seq(1 .. Len(g))  BY <1>1
<1>3. PICK t : t = With(s, k, y)  OBVIOUS
<1>4. /\ t \in Seq(1 .. Len(g)) /\ Len(t) = L + 1 /\ DOMAIN t = 1 .. L + 1 /\ t[k] = y
      /\ \A i \in 1 .. L : (i < k => t[i] = s[i]) /\ (i >= k => t[i + 1] = s[i])
  <2>1. PICK T : T = 1 .. Len(g) /\ s \in Seq(T) /\ y \in T  BY <1>2
  <2>0. s \in Seq(T) /\ y \in T  BY <2>1
  <2>2. With(s, k, y) \in Seq(T) /\ Len(With(s, k, y)) = Len(s) + 1 /\ With(s, k, y)[k] = y
    BY <2>1, WithProperties
  <2>3. \A i \in 1 .. Len(s) : i < k => With(s, k, y)[i] = s[i]
    BY ONLY k \in 1 .. Len(s) + 1, <2>0, WithProperties
  <2>4. \A i \in 1 .. Len(s) : i >= k => With(s, k, y)[i + 1] = s[i]
    BY ONLY k \in 1 .. Len(s) + 1, <2>0, WithProperties
  <2> QED BY <1>1, <1>3, <2>1, <2>2, <2>3, <2>4
<1>5. \A j \in 1 .. L + 1 : \/ j = k
                            \/ j < k /\ j \in 1 .. L /\ t[j] = s[j]
                            \/ j > k /\ j - 1 \in 1 .. L /\ t[j] = s[j - 1]
  <2> TAKE j \in 1 .. L + 1
  <2>1. CASE j < k
    <3>1. j \in 1 .. L  BY <1>1, <2>1
    <3> QED BY <1>4, <2>1, <3>1
  <2>2. CASE j > k
    <3>1. j - 1 \in 1 .. L /\ j - 1 >= k /\ j - 1 + 1 = j  BY <1>1, <2>2
    <3>2. t[j - 1 + 1] = s[j - 1]  BY <1>4, <3>1
    <3> QED BY <2>2, <3>1, <3>2
  <2> QED BY <1>1, <2>1, <2>2
<1>6. IsInjective(t)
  <2>1. ASSUME NEW a \in 1 .. L + 1, NEW b \in 1 .. L + 1, a < b PROVE t[a] # t[b]
    <3>1. \A i, j \in 1 .. L : s[i] = s[j] => i = j  BY <1>1 DEF IsList, IsInjective
    <3>2. \A i \in 1 .. L : s[i] # y  BY <1>1 DEF SplicedIn
    <3>3. CASE a = k
      <4>1. b - 1 \in 1 .. L /\ t[b] = s[b - 1]  BY <1>1, <1>5, <2>1, <3>3
      <4> QED BY <1>4, <3>2, <3>3, <4>1
    <3>4. CASE b = k
      <4>1. a \in 1 .. L /\ t[a] = s[a]  BY <1>1, <1>5, <2>1, <3>4
      <4> QED BY <1>4, <3>2, <3>4, <4>1
    <3>5. CASE a # k /\ b # k
      <4>1. PICK i \in 1 .. L : t[a] = s[i] /\ ((a < k /\ i = a) \/ (a > k /\ i = a - 1))
        BY <1>5, <3>5
      <4>2. PICK j \in 1 .. L : t[b] = s[j] /\ ((b < k /\ j = b) \/ (b > k /\ j = b - 1))
        BY <1>5, <3>5
      <4>3. i # j  BY <1>1, <2>1, <4>1, <4>2
      <4> QED BY <3>1, <4>1, <4>2, <4>3
    <3> QED BY <3>3, <3>4, <3>5
  <2> QED BY <1>4, <2>1 DEF IsInjective
<1>7. /\ At(t, 1) = IF k = 1 THEN y ELSE first
      /\ At(t, Len(t)) = IF k = L + 1 THEN y ELSE last
  <2>1. At(t, 1) = t[1] /\ At(t, Len(t)) = t[L + 1]  BY <1>1, <1>4 DEF At
  <2>2. first = At(s, 1) /\ last = At(s, L)  BY <1>1 DEF IsList
  <2>3. ASSUME k # 1 PROVE t[1] = first
    <3>1. 1 \in 1 .. L /\ 1 < k  BY <1>1, <2>3
    <3> QED BY <1>1, <1>4, <2>2, <3>1 DEF At
  <2>4. ASSUME k # L + 1 PROVE t[L + 1] = last
    <3>0. L >= k  BY <1>1, <2>4
    <3>1. L \in 1 .. L  BY <1>1, <3>0
    <3> QED BY <1>1, <1>4, <2>2, <3>0, <3>1 DEF At
  <2> QED BY <1>4, <2>1, <2>3, <2>4
<1>8. ASSUME NEW i \in 1 .. L + 1
      PROVE  /\ g[t[i]].next = IF i = L + 1 THEN NULL ELSE t[i + 1]
             /\ g[t[i]].prev = IF i = 1 THEN NULL ELSE t[i - 1]
  <2>1. \A j \in 1 .. L : /\ h[s[j]].next = IF j = L THEN NULL ELSE s[j + 1]
                         /\ h[s[j]].prev = IF j = 1 THEN NULL ELSE s[j - 1]
    BY <1>1 DEF IsList
  <2>2. \A j \in 1 .. L : /\ g[s[j]].next = IF j = k - 1 THEN y ELSE h[s[j]].next
                         /\ g[s[j]].prev = IF j = k THEN y ELSE h[s[j]].prev
    BY <1>1 DEF SplicedIn
  <2>3. CASE i = k
    <3>1. ASSUME i # L + 1 PROVE At(s, k) = t[i + 1]
      <4>1. i \in 1 .. L /\ i >= k  BY <1>1, <2>3, <3>1
      <4>2. t[i + 1] = s[i]  BY <1>4, <4>1
      <4> QED BY <1>1, <2>3, <4>1, <4>2 DEF At
    <3>2. ASSUME i # 1 PROVE At(s, k - 1) = t[i - 1]
      <4>1. i - 1 \in 1 .. L /\ i - 1 < k  BY <1>1, <2>3, <3>2
      <4>2. t[i - 1] = s[i - 1]  BY <1>4, <4>1
      <4> QED BY <1>1, <2>3, <4>1, <4>2 DEF At
    <3>3. i = L + 1 => At(s, k) = NULL  BY <1>1, <2>3 DEF At
    <3>4. i = 1 => At(s, k - 1) = NULL  BY <1>1, <2>3 DEF At
    <3>5. t[i] = y  BY <1>4, <2>3
    <3> QED BY <3>1, <3>2, <3>3, <3>4, <3>5 DEF SplicedIn
  <2>4. CASE i < k
    <3>1. i \in 1 .. L /\ t[i] = s[i] /\ i # L + 1 /\ i # k  BY <1>1, <1>5, <2>4
    <3>2. CASE i = k - 1
      <4>1. i + 1 = k  BY <1>1, <3>2
      <4>4. g[s[i]].next = y /\ t[i + 1] = y  BY <1>4, <2>2, <3>1, <3>2, <4>1
      <4>2. g[s[i]].prev = IF i = 1 THEN NULL ELSE s[i - 1]  BY <2>1, <2>2, <3>1
      <4>3. i # 1 => i - 1 \in 1 .. L /\ i - 1 < k  BY <1>1, <2>4, <3>1
      <4> QED BY <1>4, <3>1, <4>2, <4>3, <4>4
    <3>3. CASE i # k - 1
      <4>1. i + 1 \in 1 .. L /\ i + 1 < k /\ i # L  BY <1>1, <2>4, <3>3
      <4>2. g[s[i]].next = s[i + 1]  BY <2>1, <2>2, <3>1, <3>3, <4>1
      <4>3. t[i + 1] = s[i + 1]  BY <1>4, <4>1
      <4>4. g[s[i]].prev = IF i = 1 THEN NULL ELSE s[i - 1]  BY <2>1, <2>2, <3>1
      <4>5. i # 1 => i - 1 \in 1 .. L /\ i - 1 < k  BY <1>1, <2>4, <3>1
      <4> QED BY <1>4, <3>1, <4>2, <4>3, <4>4, <4>5
    <3> QED BY <3>2, <3>3
  <2>5. CASE i > k
    <3>1. PICK j \in 1 .. L : j = i - 1 /\ t[i] = s[j]  BY <1>5, <2>5
    <3>2. g[s[j]].next = IF i = L + 1 THEN NULL ELSE s[i]
      <4>1. j # k - 1 /\ j + 1 = i /\ (j = L <=> i = L + 1)  BY <1>1, <2>5, <3>1
      <4> QED BY <2>1, <2>2, <4>1
    <3>3. ASSUME i # L + 1 PROVE t[i + 1] = s[i]
      <4>1. i >= k  BY <1>1, <2>5
      <4>2. i \in 1 .. L  BY <3>3
      <4> QED BY <1>4, <4>1, <4>2
    <3>4. g[s[j]].prev = t[i - 1]
      <4>1. CASE j = k  BY <1>4, <2>2, <3>1, <4>1
      <4>2. CASE j # k
        <5>0. j > k /\ j # 1 /\ j - 1 \in 1 .. L /\ j - 1 >= k  BY <1>1, <2>5, <3>1, <4>2
        <5>1. PICK m \in 1 .. L : m = j - 1 /\ m >= k /\ j # 1  BY <5>0
        <5>2. t[m + 1] = s[m]  BY <1>4, <5>1
        <5>4. m + 1 = i - 1  BY <3>1, <5>1
        <5>3. h[s[j]].prev = s[m]  BY <2>1, <5>1
        <5> QED BY <2>2, <4>2, <5>2, <5>3, <5>4
      <4> QED BY <4>1, <4>2
    <3>5. i # 1  BY <1>1, <2>5
    <3> QED BY <3>1, <3>2, <3>3, <3>4, <3>5
  <2> QED BY <1>1, <2>3, <2>4, <2>5
<1> QED BY <1>1, <1>3, <1>4, <1>6, <1>7, <1>8 DEF IsList

\* The record in place k taken out.
LEMMA ListRemoved ==
    ASSUME NEW h, NEW g, Len(h) \in Nat, Len(g) = Len(h),
           NEW first, NEW last, NEW s, IsList(h, first, last, s), NEW k \in 1 .. Len(s),
           \A i \in 1 .. Len(s) : i # k =>
               /\ g[s[i]].next = IF i = k - 1 THEN At(s, k + 1) ELSE h[s[i]].next
               /\ g[s[i]].prev = IF i = k + 1 THEN At(s, k - 1) ELSE h[s[i]].prev
    PROVE  IsList(g, IF k = 1 THEN At(s, 2) ELSE first,
                     IF k = Len(s) THEN At(s, k - 1) ELSE last, Without(s, k))
<1>1. PICK L \in Nat : /\ L = Len(s) /\ s \in Seq(1 .. Len(h)) /\ DOMAIN s = 1 .. L
                      /\ k \in 1 .. L /\ L >= 1
  <2>1. Len(s) \in Nat /\ s \in Seq(1 .. Len(h)) /\ DOMAIN s = 1 .. Len(s)  BY DEF IsList
  <2>2. PICK L \in Nat : L = Len(s)  BY <2>1
  <2>3. k \in 1 .. L  BY <2>2
  <2>4. L >= 1  BY <2>3
  <2> QED BY <2>1, <2>2, <2>3, <2>4
<1>2. PICK t : t = Without(s, k)  OBVIOUS
<1>3. /\ t \in Seq(1 .. Len(g)) /\ Len(t) = L - 1 /\ DOMAIN t = 1 .. L - 1
      /\ \A i \in 1 .. L : (i < k => t[i] = s[i]) /\ (i > k => t[i - 1] = s[i])
  <2>1. /\ t \in Seq(1 .. Len(h)) /\ Len(t) = Len(s) - 1
        /\ \A i \in 1 .. Len(s) : i < k => t[i] = s[i]
        /\ \A i \in 1 .. Len(s) : i > k => t[i - 1] = s[i]  BY <1>1, <1>2, WithoutProperties
  <2> QED BY <1>1, <2>1
<1>4. \A j \in 1 .. L - 1 : \E i \in 1 .. L : t[j] = s[i] /\ ((i = j /\ j < k) \/ (i = j + 1 /\ j >= k))
  <2> TAKE j \in 1 .. L - 1
  <2>1. CASE j < k
    <3>1. j \in 1 .. L  BY <1>1, <2>1
    <3> QED BY <1>3, <2>1, <3>1
  <2>2. CASE j >= k
    <3>1. j + 1 \in 1 .. L /\ j + 1 > k /\ j + 1 - 1 = j  BY <1>1, <2>2
    <3>2. t[j + 1 - 1] = s[j + 1]  BY <1>3, <3>1
    <3> QED BY <2>2, <3>1, <3>2
  <2> QED BY <1>1, <2>1, <2>2
<1>5. IsInjective(t)
  <2>1. ASSUME NEW a \in 1 .. L - 1, NEW b \in 1 .. L - 1, a < b PROVE t[a] # t[b]
    <3>1. \A i, j \in 1 .. L : s[i] = s[j] => i = j  BY <1>1 DEF IsList, IsInjective
    <3>2. PICK i \in 1 .. L : t[a] = s[i] /\ ((i = a /\ a < k) \/ (i = a + 1 /\ a >= k))  BY <1>4
    <3>3. PICK j \in 1 .. L : t[b] = s[j] /\ ((j = b /\ b < k) \/ (j = b + 1 /\ b >= k))  BY <1>4
    <3>4. i # j  BY <1>1, <2>1, <3>2, <3>3
    <3> QED BY <3>1, <3>2, <3>3, <3>4
  <2> QED BY <1>3, <2>1 DEF IsInjective
<1>6. /\ At(t, 1) = IF k = 1 THEN At(s, 2) ELSE first
      /\ At(t, Len(t)) = IF k = L THEN At(s, k - 1) ELSE last
  <2>1. first = At(s, 1) /\ last = At(s, L)  BY <1>1 DEF IsList
  <2>2. CASE L = 1  BY <1>1, <1>3, <2>1, <2>2 DEF At
  <2>3. CASE L # 1
    <3>1. 1 \in 1 .. L - 1 /\ L - 1 \in 1 .. L - 1 /\ {1, 2, L, L - 1} \subseteq 1 .. L  BY <1>1, <2>3
    <3>2. At(t, 1) = t[1] /\ At(t, Len(t)) = t[L - 1]  BY <1>1, <1>3, <3>1 DEF At
    <3>3. /\ At(s, 1) = s[1] /\ At(s, 2) = s[2] /\ At(s, L) = s[L]
          /\ (k = L => At(s, k - 1) = s[L - 1])  BY <1>1, <3>1 DEF At
    <3>4. t[1] = IF k = 1 THEN s[2] ELSE s[1]
      <4>1. k = 1 => t[2 - 1] = s[2]  BY <1>3, <3>1
      <4>2. k # 1 => t[1] = s[1]  BY <1>1, <1>3, <3>1
      <4> QED BY <4>1, <4>2
    <3>5. t[L - 1] = IF k = L THEN s[L - 1] ELSE s[L]
      <4>1. ASSUME k = L PROVE t[L - 1] = s[L - 1]
        <5>1. L - 1 \in 1 .. L /\ L - 1 < k  BY <1>1, <3>1, <4>1
        <5> QED BY <1>3, <5>1
      <4>2. k # L => t[L - 1] = s[L]  BY <1>1, <1>3, <3>1
      <4> QED BY <4>1, <4>2
    <3> QED BY <2>1, <3>2, <3>3, <3>4, <3>5
  <2> QED BY <2>2, <2>3
<1>7. ASSUME NEW j \in 1 .. L - 1
      PROVE  /\ g[t[j]].next = IF j = L - 1 THEN NULL ELSE t[j + 1]
             /\ g[t[j]].prev = IF j = 1 THEN NULL ELSE t[j - 1]
  <2>1. \A i \in 1 .. L : /\ h[s[i]].next = IF i = L THEN NULL ELSE s[i + 1]
                         /\ h[s[i]].prev = IF i = 1 THEN NULL ELSE s[i - 1]
    BY <1>1 DEF IsList
  <2>2. \A i \in 1 .. L : i # k => /\ g[s[i]].next = IF i = k - 1 THEN At(s, k + 1) ELSE h[s[i]].next
                                  /\ g[s[i]].prev = IF i = k + 1 THEN At(s, k - 1) ELSE h[s[i]].prev
    BY <1>1
  <2>3. PICK i \in 1 .. L : t[j] = s[i] /\ ((i = j /\ j < k) \/ (i = j + 1 /\ j >= k))  BY <1>4
  <2>4. i # k  BY <1>1, <2>3
  <2>5. g[s[i]].next = IF j = L - 1 THEN NULL ELSE t[j + 1]
    <3>1. CASE i = k - 1
      <4>1. g[s[i]].next = At(s, k + 1) /\ j + 1 = k  BY <1>1, <2>2, <2>3, <2>4, <3>1
      <4>2. CASE k = L  BY <1>1, <4>1, <4>2 DEF At
      <4>3. CASE k # L
        <5>1. k + 1 \in 1 .. L /\ k + 1 > k /\ k + 1 - 1 = k  BY <1>1, <4>3
        <5>2. t[k + 1 - 1] = s[k + 1]  BY <1>3, <5>1
        <5>3. At(s, k + 1) = s[k + 1] /\ j # L - 1  BY <1>1, <4>1, <4>3, <5>1 DEF At
        <5> QED BY <4>1, <5>1, <5>2, <5>3
      <4> QED BY <4>2, <4>3
    <3>2. CASE i # k - 1
      <4>1. g[s[i]].next = IF i = L THEN NULL ELSE s[i + 1]  BY <2>1, <2>2, <2>4, <3>2
      <4>2. CASE i = L
        <5>1. j = L - 1  BY <1>1, <2>3, <2>4, <3>2, <4>2
        <5> QED BY <4>1, <4>2, <5>1
      <4>3. CASE i # L
        <5>1. i + 1 \in 1 .. L  BY <1>1, <4>3
        <5>2. CASE i < k
          <6>1. i + 1 < k /\ i = j /\ j # L - 1  BY <1>1, <2>3, <3>2, <5>2
          <6> QED BY <1>3, <4>1, <4>3, <5>1, <6>1
        <5>3. CASE i > k
          <6>1. i + 1 > k /\ i + 1 - 1 = j + 1 /\ j # L - 1  BY <1>1, <2>3, <4>3, <5>3, SMTT(30)
          <6>2. t[i + 1 - 1] = s[i + 1]  BY <1>3, <5>1, <6>1
          <6> QED BY <4>1, <4>3, <6>1, <6>2
        <5> QED BY <1>1, <2>4, <5>2, <5>3
      <4> QED BY <4>2, <4>3
    <3> QED BY <3>1, <3>2
  <2>6. g[s[i]].prev = IF j = 1 THEN NULL ELSE t[j - 1]
    <3>1. CASE i = k + 1
      <4>1. g[s[i]].prev = At(s, k - 1) /\ j = k  BY <1>1, <2>2, <2>3, <2>4, <3>1
      <4>2. CASE k = 1  BY <1>1, <4>1, <4>2 DEF At
      <4>3. CASE k # 1
        <5>1. k - 1 \in 1 .. L /\ k - 1 < k  BY <1>1, <4>3
        <5>2. t[k - 1] = s[k - 1]  BY <1>3, <5>1
        <5>3. At(s, k - 1) = s[k - 1]  BY <1>1, <5>1 DEF At
        <5> QED BY <4>1, <4>3, <5>2, <5>3
      <4> QED BY <4>2, <4>3
    <3>2. CASE i # k + 1
      <4>1. g[s[i]].prev = IF i = 1 THEN NULL ELSE s[i - 1]  BY <2>1, <2>2, <2>4, <3>2
      <4>2. CASE i = 1
        <5>1. j = 1  BY <1>1, <2>3, <4>2
        <5> QED BY <4>1, <4>2, <5>1
      <4>3. CASE i # 1
        <5>1. i - 1 \in 1 .. L  BY <1>1, <4>3
        <5>2. CASE i < k
          <6>1. i - 1 < k /\ i = j  BY <1>1, <2>3, <5>2
          <6> QED BY <1>3, <4>1, <4>3, <5>1, <6>1
        <5>3. CASE i > k
          <6>1. i - 1 > k /\ i - 1 = j /\ j # 1  BY <1>1, <2>3, <3>2, <5>3
          <6>2. t[i - 1 - 1] = s[i - 1]  BY <1>3, <5>1, <6>1
          <6> QED BY <4>1, <4>3, <6>1, <6>2
        <5> QED BY <1>1, <2>4, <5>2, <5>3
      <4> QED BY <4>2, <4>3
    <3> QED BY <3>1, <3>2
  <2> QED BY <2>3, <2>5, <2>6
<1> QED BY <1>1, <1>2, <1>3, <1>5, <1>6, <1>7, SMTT(30) DEF IsList

-----------------------------------------------------------------------------
(* Nodes, with pointers from P.                                            *)

LinkFields == {"next", "prev", "parent", "first", "last", "attribs", "lastAttrib"}
Content    == {"type", "name", "text", "broken"}
Fields     == LinkFields \cup Content

NodeRec(P) ==
    [type : {"TAG", "CDATA", "ATTRIBUTE"}, name : Seq(STRING), text : Seq(STRING),
     broken : BOOLEAN, next : P, prev : P, parent : P, first : P, last : P,
     attribs : P, lastAttrib : P]

\* One assignment to a pointer.
LinkSet(P, h, g, a, f, v) ==
    /\ g \in Seq(NodeRec(P)) /\ Len(g) = Len(h)
    /\ \A j \in 1 .. Len(h), e \in Fields :
          g[j][e] = IF j = a /\ e = f THEN v ELSE h[j][e]

LEMMA SetLink ==
    ASSUME NEW P, NEW h \in Seq(NodeRec(P)), NEW a \in 1 .. Len(h),
           NEW f \in LinkFields, NEW v \in P, NEW g, g = [h EXCEPT ![a][f] = v]
    PROVE  LinkSet(P, h, g, a, f, v)
<1>1. PICK r : r = [h[a] EXCEPT ![f] = v]  OBVIOUS
<1>2. h[a] \in NodeRec(P)  OBVIOUS
<1>3. \A e \in Fields : r[e] = IF e = f THEN v ELSE h[a][e]
  BY <1>1, <1>2 DEF NodeRec, LinkFields, Content, Fields
<1>4. r \in NodeRec(P)
  <2>1. DOMAIN r = Fields  BY <1>1, <1>2 DEF NodeRec, LinkFields, Content, Fields
  <2>2. r = [e \in Fields |-> r[e]]  BY <1>1, <2>1
  <2> QED BY <1>2, <1>3, <2>1, <2>2 DEF NodeRec, LinkFields, Content, Fields
<1>5. g = [h EXCEPT ![a] = r]  BY <1>1
<1>6. g \in Seq(NodeRec(P)) /\ Len(g) = Len(h)  BY <1>4, <1>5
<1>7. ASSUME NEW j \in 1 .. Len(h), NEW e \in Fields
      PROVE  g[j][e] = IF j = a /\ e = f THEN v ELSE h[j][e]
  <2>1. CASE j = a
    <3>1. g[j] = r  BY <1>5, <2>1
    <3> QED BY <1>3, <2>1, <3>1
  <2>2. CASE j # a  BY <1>5, <2>2
  <2> QED BY <2>1, <2>2
<1> QED BY <1>6, <1>7 DEF LinkSet

LEMMA LinkLastEffect ==
    ASSUME NEW P, NEW h \in Seq(NodeRec(P)), NEW x \in 1 .. Len(h), NEW y \in 1 .. Len(h),
           x \in P, y \in P, h[x].last \in 0 .. Len(h), h[x].last \in P,
           NEW g, g = LinkLast(h, x, y)
    PROVE  /\ g \in Seq(NodeRec(P)) /\ Len(g) = Len(h)
           /\ \A j \in 1 .. Len(h) :
               /\ g[j].next = IF j = h[x].last THEN y ELSE h[j].next
               /\ g[j].prev = IF j = y /\ h[x].last # NULL THEN h[x].last ELSE h[j].prev
               /\ g[j].parent = IF j = y THEN x ELSE h[j].parent
               /\ g[j].first = IF j = x /\ h[x].first = NULL THEN y ELSE h[j].first
               /\ g[j].last = IF j = x THEN y ELSE h[j].last
           /\ \A j \in 1 .. Len(h), e \in {"type", "name", "text", "broken", "attribs", "lastAttrib"} : g[j][e] = h[j][e]
<1>0. {"next", "prev", "parent", "first", "last"} \subseteq LinkFields  BY DEF LinkFields
<1> DEFINE z == h[x].last
           k == IF z = NULL THEN h ELSE [h EXCEPT ![z].next = y, ![y].prev = z]
<1>1. g = [k EXCEPT ![y].parent = x, ![x].last = y, ![x].first = IF @ = NULL THEN y ELSE @]
  BY DEF LinkLast
<1>22. z \in 0 .. Len(h) /\ z \in P /\ z = h[x].last  OBVIOUS
<1> HIDE DEF k, z
<1>2. /\ k \in Seq(NodeRec(P)) /\ Len(k) = Len(h)
      /\ \A j \in 1 .. Len(h), e \in Fields :
            k[j][e] = IF j = z /\ e = "next" THEN y
                      ELSE IF j = y /\ z # NULL /\ e = "prev" THEN z ELSE h[j][e]
  <2>1. CASE z = NULL  BY <2>1 DEF k, NULL
  <2>2. CASE z # NULL
    <3>1. z \in 1 .. Len(h)  BY <1>22, <2>2 DEF NULL
    <3>2. PICK k1 : k1 = [h EXCEPT ![z]["next"] = y]  OBVIOUS
    <3>3. LinkSet(P, h, k1, z, "next", y)  BY <1>0, <1>22, <3>1, <3>2, SetLink
    <3>4. k = [k1 EXCEPT ![y]["prev"] = z]  BY <2>2, <3>1, <3>2 DEF k
    <3>5. k1 \in Seq(NodeRec(P)) /\ Len(k1) = Len(h)  BY <3>3 DEF LinkSet
    <3>6. LinkSet(P, k1, k, y, "prev", z)  BY <1>0, <1>22, <3>4, <3>5, SetLink
    <3> QED BY <2>2, <3>3, <3>6 DEF LinkSet
  <2> QED BY <2>1, <2>2
<1>3. PICK k1 : k1 = [k EXCEPT ![y]["parent"] = x]  OBVIOUS
<1>4. PICK k2 : k2 = [k1 EXCEPT ![x]["last"] = y]  OBVIOUS
<1>5. LinkSet(P, k, k1, y, "parent", x)  BY <1>0, <1>2, <1>3, SetLink
<1>6. k1 \in Seq(NodeRec(P)) /\ Len(k1) = Len(h)  BY <1>2, <1>5 DEF LinkSet
<1>7. LinkSet(P, k1, k2, x, "last", y)  BY <1>0, <1>4, <1>6, SetLink
<1>8. k2 \in Seq(NodeRec(P)) /\ Len(k2) = Len(h)  BY <1>6, <1>7 DEF LinkSet
<1>9. PICK v \in P : v = IF k2[x].first = NULL THEN y ELSE k2[x].first
  <2>1. k2[x] \in NodeRec(P)  BY <1>8
  <2>2. k2[x].first \in P  BY <2>1 DEF NodeRec
  <2> QED BY <2>2
<1>10. LinkSet(P, k2, g, x, "first", v)
  <2>1. k \in Seq(NodeRec(P)) /\ x \in 1 .. Len(k) /\ y \in 1 .. Len(k)  BY <1>2
  <2>2. g = [k2 EXCEPT ![x]["first"] = IF k2[x].first = NULL THEN y ELSE k2[x].first]
    BY ONLY <1>1, <1>3, <1>4, <2>1
  <2>3. g = [k2 EXCEPT ![x]["first"] = v]  BY <1>9, <2>2
  <2> QED BY <1>0, <1>8, <2>3, SetLink
<1>11. v = IF h[x].first = NULL THEN y ELSE h[x].first
  BY <1>2, <1>5, <1>6, <1>7, <1>9 DEF LinkSet, Fields, LinkFields
<1>12. ASSUME NEW j \in 1 .. Len(h)
       PROVE  /\ g[j].next = IF j = z THEN y ELSE h[j].next
              /\ g[j].prev = IF j = y /\ z # NULL THEN z ELSE h[j].prev
              /\ g[j].parent = IF j = y THEN x ELSE h[j].parent
              /\ g[j].first = IF j = x /\ h[x].first = NULL THEN y ELSE h[j].first
              /\ g[j].last = IF j = x THEN y ELSE h[j].last
  BY <1>2, <1>5, <1>6, <1>7, <1>8, <1>10, <1>11, <1>22 DEF LinkSet, Fields, LinkFields
<1>13. ASSUME NEW j \in 1 .. Len(h), NEW e \in {"type", "name", "text", "broken", "attribs", "lastAttrib"}
       PROVE  g[j][e] = h[j][e]
  BY <1>2, <1>5, <1>6, <1>7, <1>8, <1>10 DEF LinkSet, Fields, LinkFields, Content
<1>14. g \in Seq(NodeRec(P)) /\ Len(g) = Len(h)  BY <1>8, <1>10 DEF LinkSet
<1> QED BY <1>12, <1>13, <1>14 DEF z

LEMMA LinkLastAttribEffect ==
    ASSUME NEW P, NEW h \in Seq(NodeRec(P)), NEW x \in 1 .. Len(h), NEW y \in 1 .. Len(h),
           x \in P, y \in P, h[x].lastAttrib \in 0 .. Len(h), h[x].lastAttrib \in P,
           NEW g, g = LinkLastAttrib(h, x, y)
    PROVE  /\ g \in Seq(NodeRec(P)) /\ Len(g) = Len(h)
           /\ \A j \in 1 .. Len(h) :
               /\ g[j].next = IF j = h[x].lastAttrib THEN y ELSE h[j].next
               /\ g[j].prev = IF j = y /\ h[x].lastAttrib # NULL THEN h[x].lastAttrib ELSE h[j].prev
               /\ g[j].parent = IF j = y THEN x ELSE h[j].parent
               /\ g[j].attribs = IF j = x /\ h[x].attribs = NULL THEN y ELSE h[j].attribs
               /\ g[j].lastAttrib = IF j = x THEN y ELSE h[j].lastAttrib
           /\ \A j \in 1 .. Len(h), e \in {"type", "name", "text", "broken", "first", "last"} : g[j][e] = h[j][e]
<1>0. {"next", "prev", "parent", "attribs", "lastAttrib"} \subseteq LinkFields  BY DEF LinkFields
<1> DEFINE z == h[x].lastAttrib
           k == IF z = NULL THEN h ELSE [h EXCEPT ![z].next = y, ![y].prev = z]
<1>1. g = [k EXCEPT ![y].parent = x, ![x].lastAttrib = y, ![x].attribs = IF @ = NULL THEN y ELSE @]
  BY DEF LinkLastAttrib
<1>22. z \in 0 .. Len(h) /\ z \in P /\ z = h[x].lastAttrib  OBVIOUS
<1> HIDE DEF k, z
<1>2. /\ k \in Seq(NodeRec(P)) /\ Len(k) = Len(h)
      /\ \A j \in 1 .. Len(h), e \in Fields :
            k[j][e] = IF j = z /\ e = "next" THEN y
                      ELSE IF j = y /\ z # NULL /\ e = "prev" THEN z ELSE h[j][e]
  <2>1. CASE z = NULL  BY <2>1 DEF k, NULL
  <2>2. CASE z # NULL
    <3>1. z \in 1 .. Len(h)  BY <1>22, <2>2 DEF NULL
    <3>2. PICK k1 : k1 = [h EXCEPT ![z]["next"] = y]  OBVIOUS
    <3>3. LinkSet(P, h, k1, z, "next", y)  BY <1>0, <1>22, <3>1, <3>2, SetLink
    <3>4. k = [k1 EXCEPT ![y]["prev"] = z]  BY <2>2, <3>1, <3>2 DEF k
    <3>5. k1 \in Seq(NodeRec(P)) /\ Len(k1) = Len(h)  BY <3>3 DEF LinkSet
    <3>6. LinkSet(P, k1, k, y, "prev", z)  BY <1>0, <1>22, <3>4, <3>5, SetLink
    <3> QED BY <2>2, <3>3, <3>6 DEF LinkSet
  <2> QED BY <2>1, <2>2
<1>3. PICK k1 : k1 = [k EXCEPT ![y]["parent"] = x]  OBVIOUS
<1>4. PICK k2 : k2 = [k1 EXCEPT ![x]["lastAttrib"] = y]  OBVIOUS
<1>5. LinkSet(P, k, k1, y, "parent", x)  BY <1>0, <1>2, <1>3, SetLink
<1>6. k1 \in Seq(NodeRec(P)) /\ Len(k1) = Len(h)  BY <1>2, <1>5 DEF LinkSet
<1>7. LinkSet(P, k1, k2, x, "lastAttrib", y)  BY <1>0, <1>4, <1>6, SetLink
<1>8. k2 \in Seq(NodeRec(P)) /\ Len(k2) = Len(h)  BY <1>6, <1>7 DEF LinkSet
<1>9. PICK v \in P : v = IF k2[x].attribs = NULL THEN y ELSE k2[x].attribs
  <2>1. k2[x] \in NodeRec(P)  BY <1>8
  <2>2. k2[x].attribs \in P  BY <2>1 DEF NodeRec
  <2> QED BY <2>2
<1>10. LinkSet(P, k2, g, x, "attribs", v)
  <2>1. k \in Seq(NodeRec(P)) /\ x \in 1 .. Len(k) /\ y \in 1 .. Len(k)  BY <1>2
  <2>2. g = [k2 EXCEPT ![x]["attribs"] = IF k2[x].attribs = NULL THEN y ELSE k2[x].attribs]
    BY ONLY <1>1, <1>3, <1>4, <2>1
  <2>3. g = [k2 EXCEPT ![x]["attribs"] = v]  BY <1>9, <2>2
  <2> QED BY <1>0, <1>8, <2>3, SetLink
<1>11. v = IF h[x].attribs = NULL THEN y ELSE h[x].attribs
  BY <1>2, <1>5, <1>6, <1>7, <1>9 DEF LinkSet, Fields, LinkFields
<1>12. ASSUME NEW j \in 1 .. Len(h)
       PROVE  /\ g[j].next = IF j = z THEN y ELSE h[j].next
              /\ g[j].prev = IF j = y /\ z # NULL THEN z ELSE h[j].prev
              /\ g[j].parent = IF j = y THEN x ELSE h[j].parent
              /\ g[j].attribs = IF j = x /\ h[x].attribs = NULL THEN y ELSE h[j].attribs
              /\ g[j].lastAttrib = IF j = x THEN y ELSE h[j].lastAttrib
  BY <1>2, <1>5, <1>6, <1>7, <1>8, <1>10, <1>11, <1>22 DEF LinkSet, Fields, LinkFields
<1>13. ASSUME NEW j \in 1 .. Len(h), NEW e \in {"type", "name", "text", "broken", "first", "last"}
       PROVE  g[j][e] = h[j][e]
  BY <1>2, <1>5, <1>6, <1>7, <1>8, <1>10 DEF LinkSet, Fields, LinkFields, Content
<1>14. g \in Seq(NodeRec(P)) /\ Len(g) = Len(h)  BY <1>8, <1>10 DEF LinkSet
<1> QED BY <1>12, <1>13, <1>14 DEF z

LEMMA LinkBehindEffect ==
    ASSUME NEW P, NEW h \in Seq(NodeRec(P)), NEW x \in 1 .. Len(h), NEW y \in 1 .. Len(h),
           x \in P, y \in P, x # y, h[x].next \in 0 .. Len(h), h[x].next \in P,
           h[x].parent \in 1 .. Len(h), h[x].parent \in P,
           NEW g, g = LinkBehind(h, x, y)
    PROVE  /\ g \in Seq(NodeRec(P)) /\ Len(g) = Len(h)
           /\ \A j \in 1 .. Len(h) :
               /\ g[j].next = IF j = x THEN y ELSE IF j = y THEN h[x].next ELSE h[j].next
               /\ g[j].prev = IF j = y THEN x ELSE IF j = h[x].next THEN y ELSE h[j].prev
               /\ g[j].parent = IF j = y THEN h[x].parent ELSE h[j].parent
               /\ g[j].last = IF j = h[x].parent /\ h[x].next = NULL THEN y ELSE h[j].last
           /\ \A j \in 1 .. Len(h), e \in {"type", "name", "text", "broken", "first", "attribs", "lastAttrib"} : g[j][e] = h[j][e]
<1>0. {"next", "prev", "parent", "last"} \subseteq LinkFields  BY DEF LinkFields
<1> DEFINE z == h[x].next
           p == h[x].parent
           k == IF z # NULL THEN [h EXCEPT ![z].prev = y] ELSE [h EXCEPT ![p].last = y]
<1>1. g = [k EXCEPT ![y].next = z, ![x].next = y, ![y].parent = p, ![y].prev = x]
  BY DEF LinkBehind
<1>2. z \in 0 .. Len(h) /\ z \in P /\ z = h[x].next  OBVIOUS
<1>3. p \in 1 .. Len(h) /\ p \in P /\ p = h[x].parent  OBVIOUS
<1> HIDE DEF k, z, p
<1>4. /\ k \in Seq(NodeRec(P)) /\ Len(k) = Len(h)
      /\ \A j \in 1 .. Len(h), e \in Fields :
            k[j][e] = IF j = z /\ e = "prev" THEN y
                      ELSE IF j = p /\ z = NULL /\ e = "last" THEN y ELSE h[j][e]
  <2>1. CASE z = NULL
    <3>1. k = [h EXCEPT ![p]["last"] = y]  BY <2>1 DEF k
    <3>2. LinkSet(P, h, k, p, "last", y)  BY <1>0, <1>3, <3>1, SetLink
    <3> QED BY <2>1, <3>2 DEF LinkSet, NULL
  <2>2. CASE z # NULL
    <3>1. z \in 1 .. Len(h)  BY <1>2, <2>2 DEF NULL
    <3>2. k = [h EXCEPT ![z]["prev"] = y]  BY <2>2 DEF k
    <3>3. LinkSet(P, h, k, z, "prev", y)  BY <1>0, <3>1, <3>2, SetLink
    <3> QED BY <2>2, <3>3 DEF LinkSet
  <2> QED BY <2>1, <2>2
<1>5. PICK k1 : k1 = [k EXCEPT ![y]["next"] = z]  OBVIOUS
<1>6. PICK k2 : k2 = [k1 EXCEPT ![x]["next"] = y]  OBVIOUS
<1>7. PICK k3 : k3 = [k2 EXCEPT ![y]["parent"] = p]  OBVIOUS
<1>8. g = [k3 EXCEPT ![y]["prev"] = x]
  <2>1. k \in Seq(NodeRec(P)) /\ x \in 1 .. Len(k) /\ y \in 1 .. Len(k)  BY <1>4
  <2> QED BY ONLY <1>1, <1>5, <1>6, <1>7, <2>1
<1>9. LinkSet(P, k, k1, y, "next", z)  BY <1>0, <1>2, <1>4, <1>5, SetLink
<1>10. k1 \in Seq(NodeRec(P)) /\ Len(k1) = Len(h)  BY <1>4, <1>9 DEF LinkSet
<1>11. LinkSet(P, k1, k2, x, "next", y)  BY <1>0, <1>6, <1>10, SetLink
<1>12. k2 \in Seq(NodeRec(P)) /\ Len(k2) = Len(h)  BY <1>10, <1>11 DEF LinkSet
<1>13. LinkSet(P, k2, k3, y, "parent", p)  BY <1>0, <1>3, <1>7, <1>12, SetLink
<1>14. k3 \in Seq(NodeRec(P)) /\ Len(k3) = Len(h)  BY <1>12, <1>13 DEF LinkSet
<1>15. LinkSet(P, k3, g, y, "prev", x)  BY <1>0, <1>8, <1>14, SetLink
<1>16. ASSUME NEW j \in 1 .. Len(h)
       PROVE  /\ g[j].next = IF j = x THEN y ELSE IF j = y THEN h[x].next ELSE h[j].next
              /\ g[j].prev = IF j = y THEN x ELSE IF j = h[x].next THEN y ELSE h[j].prev
              /\ g[j].parent = IF j = y THEN h[x].parent ELSE h[j].parent
              /\ g[j].last = IF j = h[x].parent /\ h[x].next = NULL THEN y ELSE h[j].last
  BY <1>2, <1>3, <1>4, <1>9, <1>10, <1>11, <1>12, <1>13, <1>14, <1>15 DEF LinkSet, Fields, LinkFields
<1>17. ASSUME NEW j \in 1 .. Len(h), NEW e \in {"type", "name", "text", "broken", "first", "attribs", "lastAttrib"}
       PROVE  g[j][e] = h[j][e]
  <2>1. e \in Fields \ {"next", "prev", "parent", "last"}  BY DEF Fields, LinkFields, Content
  <2>2. k[j][e] = h[j][e]  BY <1>4, <2>1
  <2>3. k1[j][e] = k[j][e]  BY <1>4, <1>9, <2>1 DEF LinkSet
  <2>4. k2[j][e] = k1[j][e]  BY <1>10, <1>11, <2>1 DEF LinkSet
  <2>5. k3[j][e] = k2[j][e]  BY <1>12, <1>13, <2>1 DEF LinkSet
  <2>6. g[j][e] = k3[j][e]  BY <1>14, <1>15, <2>1 DEF LinkSet
  <2> QED BY <2>2, <2>3, <2>4, <2>5, <2>6
<1>18. g \in Seq(NodeRec(P)) /\ Len(g) = Len(h)  BY <1>14, <1>15 DEF LinkSet
<1> QED BY <1>16, <1>17, <1>18

LEMMA LinkBeforeEffect ==
    ASSUME NEW P, NEW h \in Seq(NodeRec(P)), NEW x \in 1 .. Len(h), NEW y \in 1 .. Len(h),
           x \in P, y \in P, x # y, h[x].prev \in 0 .. Len(h), h[x].prev \in P,
           h[x].parent \in 1 .. Len(h), h[x].parent \in P,
           NEW g, g = LinkBefore(h, x, y)
    PROVE  /\ g \in Seq(NodeRec(P)) /\ Len(g) = Len(h)
           /\ \A j \in 1 .. Len(h) :
               /\ g[j].prev = IF j = x THEN y ELSE IF j = y THEN h[x].prev ELSE h[j].prev
               /\ g[j].next = IF j = y THEN x ELSE IF j = h[x].prev THEN y ELSE h[j].next
               /\ g[j].parent = IF j = y THEN h[x].parent ELSE h[j].parent
               /\ g[j].first = IF j = h[x].parent /\ h[x].prev = NULL THEN y ELSE h[j].first
           /\ \A j \in 1 .. Len(h), e \in {"type", "name", "text", "broken", "last", "attribs", "lastAttrib"} : g[j][e] = h[j][e]
<1>0. {"next", "prev", "parent", "first"} \subseteq LinkFields  BY DEF LinkFields
<1> DEFINE z == h[x].prev
           p == h[x].parent
           k == IF z # NULL THEN [h EXCEPT ![z].next = y] ELSE [h EXCEPT ![p].first = y]
<1>1. g = [k EXCEPT ![y].prev = z, ![x].prev = y, ![y].parent = p, ![y].next = x]
  BY DEF LinkBefore
<1>2. z \in 0 .. Len(h) /\ z \in P /\ z = h[x].prev  OBVIOUS
<1>3. p \in 1 .. Len(h) /\ p \in P /\ p = h[x].parent  OBVIOUS
<1> HIDE DEF k, z, p
<1>4. /\ k \in Seq(NodeRec(P)) /\ Len(k) = Len(h)
      /\ \A j \in 1 .. Len(h), e \in Fields :
            k[j][e] = IF j = z /\ e = "next" THEN y
                      ELSE IF j = p /\ z = NULL /\ e = "first" THEN y ELSE h[j][e]
  <2>1. CASE z = NULL
    <3>1. k = [h EXCEPT ![p]["first"] = y]  BY <2>1 DEF k
    <3>2. LinkSet(P, h, k, p, "first", y)  BY <1>0, <1>3, <3>1, SetLink
    <3> QED BY <2>1, <3>2 DEF LinkSet, NULL
  <2>2. CASE z # NULL
    <3>1. z \in 1 .. Len(h)  BY <1>2, <2>2 DEF NULL
    <3>2. k = [h EXCEPT ![z]["next"] = y]  BY <2>2 DEF k
    <3>3. LinkSet(P, h, k, z, "next", y)  BY <1>0, <3>1, <3>2, SetLink
    <3> QED BY <2>2, <3>3 DEF LinkSet
  <2> QED BY <2>1, <2>2
<1>5. PICK k1 : k1 = [k EXCEPT ![y]["prev"] = z]  OBVIOUS
<1>6. PICK k2 : k2 = [k1 EXCEPT ![x]["prev"] = y]  OBVIOUS
<1>7. PICK k3 : k3 = [k2 EXCEPT ![y]["parent"] = p]  OBVIOUS
<1>8. g = [k3 EXCEPT ![y]["next"] = x]
  <2>1. k \in Seq(NodeRec(P)) /\ x \in 1 .. Len(k) /\ y \in 1 .. Len(k)  BY <1>4
  <2> QED BY ONLY <1>1, <1>5, <1>6, <1>7, <2>1
<1>9. LinkSet(P, k, k1, y, "prev", z)  BY <1>0, <1>2, <1>4, <1>5, SetLink
<1>10. k1 \in Seq(NodeRec(P)) /\ Len(k1) = Len(h)  BY <1>4, <1>9 DEF LinkSet
<1>11. LinkSet(P, k1, k2, x, "prev", y)  BY <1>0, <1>6, <1>10, SetLink
<1>12. k2 \in Seq(NodeRec(P)) /\ Len(k2) = Len(h)  BY <1>10, <1>11 DEF LinkSet
<1>13. LinkSet(P, k2, k3, y, "parent", p)  BY <1>0, <1>3, <1>7, <1>12, SetLink
<1>14. k3 \in Seq(NodeRec(P)) /\ Len(k3) = Len(h)  BY <1>12, <1>13 DEF LinkSet
<1>15. LinkSet(P, k3, g, y, "next", x)  BY <1>0, <1>8, <1>14, SetLink
<1>16. ASSUME NEW j \in 1 .. Len(h)
       PROVE  /\ g[j].prev = IF j = x THEN y ELSE IF j = y THEN h[x].prev ELSE h[j].prev
              /\ g[j].next = IF j = y THEN x ELSE IF j = h[x].prev THEN y ELSE h[j].next
              /\ g[j].parent = IF j = y THEN h[x].parent ELSE h[j].parent
              /\ g[j].first = IF j = h[x].parent /\ h[x].prev = NULL THEN y ELSE h[j].first
  BY <1>2, <1>3, <1>4, <1>9, <1>10, <1>11, <1>12, <1>13, <1>14, <1>15 DEF LinkSet, Fields, LinkFields
<1>17. ASSUME NEW j \in 1 .. Len(h), NEW e \in {"type", "name", "text", "broken", "last", "attribs", "lastAttrib"}
       PROVE  g[j][e] = h[j][e]
  <2>1. e \in Fields \ {"next", "prev", "parent", "first"}  BY DEF Fields, LinkFields, Content
  <2>2. k[j][e] = h[j][e]  BY <1>4, <2>1
  <2>3. k1[j][e] = k[j][e]  BY <1>4, <1>9, <2>1 DEF LinkSet
  <2>4. k2[j][e] = k1[j][e]  BY <1>10, <1>11, <2>1 DEF LinkSet
  <2>5. k3[j][e] = k2[j][e]  BY <1>12, <1>13, <2>1 DEF LinkSet
  <2>6. g[j][e] = k3[j][e]  BY <1>14, <1>15, <2>1 DEF LinkSet
  <2> QED BY <2>2, <2>3, <2>4, <2>5, <2>6
<1>18. g \in Seq(NodeRec(P)) /\ Len(g) = Len(h)  BY <1>14, <1>15 DEF LinkSet
<1> QED BY <1>16, <1>17, <1>18

LEMMA BypassedEffect ==
    ASSUME NEW P, NEW h \in Seq(NodeRec(P)), NEW x \in 1 .. Len(h),
           {h[x].next, h[x].prev} \subseteq 0 .. Len(h), {h[x].next, h[x].prev} \subseteq P,
           NEW g, g = Bypassed(h, x)
    PROVE  /\ g \in Seq(NodeRec(P)) /\ Len(g) = Len(h)
           /\ \A j \in 1 .. Len(h) :
               /\ g[j].next = IF j = h[x].prev THEN h[x].next ELSE h[j].next
               /\ g[j].prev = IF j = h[x].next THEN h[x].prev ELSE h[j].prev
           /\ \A j \in 1 .. Len(h), e \in Fields \ {"next", "prev"} : g[j][e] = h[j][e]
<1>0. {"next", "prev"} \subseteq LinkFields  BY DEF LinkFields
<1> DEFINE a == h[x].prev
           b == h[x].next
           k == IF a = NULL THEN h ELSE [h EXCEPT ![a].next = b]
<1>1. g = IF b = NULL THEN k ELSE [k EXCEPT ![b].prev = a]  BY DEF Bypassed
<1>2. /\ {a, b} \subseteq 0 .. Len(h) /\ {a, b} \subseteq P
      /\ a = h[x].prev /\ b = h[x].next  OBVIOUS
<1> HIDE DEF k, a, b
<1>3. /\ k \in Seq(NodeRec(P)) /\ Len(k) = Len(h)
      /\ \A j \in 1 .. Len(h), e \in Fields :
            k[j][e] = IF j = a /\ e = "next" THEN b ELSE h[j][e]
  <2>1. CASE a = NULL  BY <2>1 DEF k, NULL
  <2>2. CASE a # NULL
    <3>1. a \in 1 .. Len(h)  BY <1>2, <2>2 DEF NULL
    <3>2. k = [h EXCEPT ![a]["next"] = b]  BY <2>2 DEF k
    <3>3. LinkSet(P, h, k, a, "next", b)  BY <1>0, <1>2, <3>1, <3>2, SetLink
    <3> QED BY <3>3 DEF LinkSet
  <2> QED BY <2>1, <2>2
<1>4. /\ g \in Seq(NodeRec(P)) /\ Len(g) = Len(h)
      /\ \A j \in 1 .. Len(h), e \in Fields :
            g[j][e] = IF j = b /\ e = "prev" THEN a ELSE k[j][e]
  <2>1. CASE b = NULL  BY <1>1, <1>3, <2>1 DEF NULL
  <2>2. CASE b # NULL
    <3>1. b \in 1 .. Len(k)  BY <1>2, <1>3, <2>2 DEF NULL
    <3>2. g = [k EXCEPT ![b]["prev"] = a]  BY <1>1, <2>2
    <3>3. LinkSet(P, k, g, b, "prev", a)  BY <1>0, <1>2, <1>3, <3>1, <3>2, SetLink
    <3> QED BY <1>3, <3>3 DEF LinkSet
  <2> QED BY <2>1, <2>2
<1>5. ASSUME NEW j \in 1 .. Len(h)
      PROVE  /\ g[j].next = IF j = h[x].prev THEN h[x].next ELSE h[j].next
             /\ g[j].prev = IF j = h[x].next THEN h[x].prev ELSE h[j].prev
  BY <1>2, <1>3, <1>4 DEF Fields, LinkFields
<1>6. ASSUME NEW j \in 1 .. Len(h), NEW e \in Fields \ {"next", "prev"}
      PROVE  g[j][e] = h[j][e]
  BY <1>3, <1>4
<1> QED BY <1>4, <1>5, <1>6

\* The end e of a list, of the record p, that has x at its end: v is the new one.
EndSet(P, h, g, p, e1, x, v) ==
    /\ g \in Seq(NodeRec(P)) /\ Len(g) = Len(h)
    /\ \A j \in 1 .. Len(h), e \in Fields :
          g[j][e] = IF j = p /\ e = e1 /\ h[p][e1] = x THEN v ELSE h[j][e]

LEMMA EndMoved ==
    ASSUME NEW P, NEW h \in Seq(NodeRec(P)), NEW p \in 1 .. Len(h), NEW e1 \in LinkFields,
           NEW x, NEW v \in P, NEW g, g = [h EXCEPT ![p][e1] = IF @ = x THEN v ELSE @]
    PROVE  EndSet(P, h, g, p, e1, x, v)
<1>1. h[p] \in NodeRec(P)  OBVIOUS
<1>2. h[p][e1] \in P  BY <1>1 DEF NodeRec, LinkFields
<1>3. PICK w \in P : w = IF h[p][e1] = x THEN v ELSE h[p][e1]  BY <1>2
<1>4. g = [h EXCEPT ![p][e1] = w]  BY <1>3
<1>5. LinkSet(P, h, g, p, e1, w)  BY <1>3, <1>4, SetLink
<1> QED BY <1>3, <1>5 DEF LinkSet, EndSet

LEMMA HiddenEffect ==
    ASSUME NEW P, NEW h \in Seq(NodeRec(P)), NEW x \in 1 .. Len(h), NEW p \in 1 .. Len(h),
           {h[x].next, h[x].prev} \subseteq 0 .. Len(h), {h[x].next, h[x].prev} \subseteq P,
           p = h[x].parent, p # NULL, NEW g, g = Hidden(h, x)
    PROVE  /\ g \in Seq(NodeRec(P)) /\ Len(g) = Len(h)
           /\ \A j \in 1 .. Len(h) :
               /\ g[j].next = IF j = h[x].prev THEN h[x].next ELSE h[j].next
               /\ g[j].prev = IF j = h[x].next THEN h[x].prev ELSE h[j].prev
               /\ g[j].first = IF j = p /\ h[p].first = x THEN h[x].next ELSE h[j].first
               /\ g[j].last = IF j = p /\ h[p].last = x THEN h[x].prev ELSE h[j].last
           /\ \A j \in 1 .. Len(h), e \in Fields \ {"next", "prev", "first", "last"} : g[j][e] = h[j][e]
<1> DEFINE a == h[x].prev
           b == h[x].next
           k == Bypassed(h, x)
<1>1. g = [k EXCEPT ![p].first = IF @ = x THEN b ELSE @, ![p].last = IF @ = x THEN a ELSE @]
  BY DEF Hidden
<1>2. a \in P /\ b \in P /\ a = h[x].prev /\ b = h[x].next  OBVIOUS
<1>3. /\ k \in Seq(NodeRec(P)) /\ Len(k) = Len(h)
      /\ \A j \in 1 .. Len(h) :
               /\ k[j].next = IF j = a THEN b ELSE h[j].next
               /\ k[j].prev = IF j = b THEN a ELSE h[j].prev
      /\ \A j \in 1 .. Len(h), e \in Fields \ {"next", "prev"} : k[j][e] = h[j][e]
  BY BypassedEffect
<1> HIDE DEF k, a, b
<1>4. PICK k1 : k1 = [k EXCEPT ![p]["first"] = IF @ = x THEN b ELSE @]  OBVIOUS
<1>5. g = [k1 EXCEPT ![p]["last"] = IF @ = x THEN a ELSE @]
  <2>1. k \in Seq(NodeRec(P)) /\ p \in 1 .. Len(k)  BY <1>3
  <2> QED BY ONLY <1>1, <1>4, <2>1
<1>0. "first" \in LinkFields /\ "last" \in LinkFields  BY DEF LinkFields
<1>11. p \in 1 .. Len(k)  BY <1>3
<1>12. EndSet(P, k, k1, p, "first", x, b)  BY <1>0, <1>2, <1>3, <1>4, <1>11, EndMoved
<1>6. /\ k1 \in Seq(NodeRec(P)) /\ Len(k1) = Len(h)
      /\ \A j \in 1 .. Len(h), e \in Fields :
            k1[j][e] = IF j = p /\ e = "first" /\ k[p]["first"] = x THEN b ELSE k[j][e]
  BY <1>3, <1>12 DEF EndSet
<1>13. p \in 1 .. Len(k1)  BY <1>6
<1>14. EndSet(P, k1, g, p, "last", x, a)  BY <1>0, <1>2, <1>5, <1>6, <1>13, EndMoved
<1>7. /\ g \in Seq(NodeRec(P)) /\ Len(g) = Len(h)
      /\ \A j \in 1 .. Len(h), e \in Fields :
            g[j][e] = IF j = p /\ e = "last" /\ k1[p]["last"] = x THEN a ELSE k1[j][e]
  BY <1>6, <1>14 DEF EndSet
<1>8. ASSUME NEW j \in 1 .. Len(h)
      PROVE  /\ g[j].next = IF j = h[x].prev THEN h[x].next ELSE h[j].next
             /\ g[j].prev = IF j = h[x].next THEN h[x].prev ELSE h[j].prev
  <2>1. {"next", "prev"} \subseteq Fields  BY DEF Fields, LinkFields
  <2>2. k1[j].next = k[j].next /\ k1[j].prev = k[j].prev  BY <1>6, <2>1
  <2>3. g[j].next = k1[j].next /\ g[j].prev = k1[j].prev  BY <1>7, <2>1
  <2> QED BY <1>2, <1>3, <2>2, <2>3
<1>9. ASSUME NEW j \in 1 .. Len(h)
      PROVE  /\ g[j].first = IF j = p /\ h[p].first = x THEN h[x].next ELSE h[j].first
             /\ g[j].last = IF j = p /\ h[p].last = x THEN h[x].prev ELSE h[j].last
  <2>1. {"first", "last"} \subseteq Fields \ {"next", "prev"}  BY DEF Fields, LinkFields
  <2>2. /\ k[j].first = h[j].first /\ k[p].first = h[p].first
        /\ k[j].last = h[j].last /\ k[p].last = h[p].last  BY <1>3, <2>1
  <2>3. k1[j].first = IF j = p /\ k[p].first = x THEN b ELSE k[j].first  BY <1>6, <2>1
  <2>4. k1[j].last = k[j].last /\ k1[p].last = k[p].last  BY <1>6, <2>1
  <2>5. g[j].first = k1[j].first  BY <1>7, <2>1
  <2>6. g[j].last = IF j = p /\ k1[p].last = x THEN a ELSE k1[j].last  BY <1>7, <2>1
  <2> QED BY <1>2, <2>2, <2>3, <2>4, <2>5, <2>6
<1>10. ASSUME NEW j \in 1 .. Len(h), NEW e \in Fields \ {"next", "prev", "first", "last"}
       PROVE  g[j][e] = h[j][e]
  <2>1. k[j][e] = h[j][e]  BY <1>3
  <2>2. k1[j][e] = k[j][e]  BY <1>6
  <2>3. g[j][e] = k1[j][e]  BY <1>7
  <2> QED BY <2>1, <2>2, <2>3
<1> QED BY <1>7, <1>8, <1>9, <1>10

\* An attribute x taken out of the list of p (iks_insert_attrib without a value).
AttribOut(h, x, p) ==
    [Bypassed(h, x) EXCEPT ![p].attribs    = IF @ = x THEN h[x].next ELSE @,
                           ![p].lastAttrib = IF @ = x THEN h[x].prev ELSE @]

LEMMA AttribOutEffect ==
    ASSUME NEW P, NEW h \in Seq(NodeRec(P)), NEW x \in 1 .. Len(h), NEW p \in 1 .. Len(h),
           {h[x].next, h[x].prev} \subseteq 0 .. Len(h), {h[x].next, h[x].prev} \subseteq P,
           NEW g, g = AttribOut(h, x, p)
    PROVE  /\ g \in Seq(NodeRec(P)) /\ Len(g) = Len(h)
           /\ \A j \in 1 .. Len(h) :
               /\ g[j].next = IF j = h[x].prev THEN h[x].next ELSE h[j].next
               /\ g[j].prev = IF j = h[x].next THEN h[x].prev ELSE h[j].prev
               /\ g[j].attribs = IF j = p /\ h[p].attribs = x THEN h[x].next ELSE h[j].attribs
               /\ g[j].lastAttrib = IF j = p /\ h[p].lastAttrib = x THEN h[x].prev ELSE h[j].lastAttrib
           /\ \A j \in 1 .. Len(h), e \in Fields \ {"next", "prev", "attribs", "lastAttrib"} : g[j][e] = h[j][e]
<1> DEFINE a == h[x].prev
           b == h[x].next
           k == Bypassed(h, x)
<1>1. g = [k EXCEPT ![p].attribs = IF @ = x THEN b ELSE @, ![p].lastAttrib = IF @ = x THEN a ELSE @]
  BY DEF AttribOut
<1>2. a \in P /\ b \in P /\ a = h[x].prev /\ b = h[x].next  OBVIOUS
<1>3. /\ k \in Seq(NodeRec(P)) /\ Len(k) = Len(h)
      /\ \A j \in 1 .. Len(h) :
               /\ k[j].next = IF j = a THEN b ELSE h[j].next
               /\ k[j].prev = IF j = b THEN a ELSE h[j].prev
      /\ \A j \in 1 .. Len(h), e \in Fields \ {"next", "prev"} : k[j][e] = h[j][e]
  BY BypassedEffect
<1> HIDE DEF k, a, b
<1>4. PICK k1 : k1 = [k EXCEPT ![p]["attribs"] = IF @ = x THEN b ELSE @]  OBVIOUS
<1>5. g = [k1 EXCEPT ![p]["lastAttrib"] = IF @ = x THEN a ELSE @]
  <2>1. k \in Seq(NodeRec(P)) /\ p \in 1 .. Len(k)  BY <1>3
  <2> QED BY ONLY <1>1, <1>4, <2>1
<1>0. "attribs" \in LinkFields /\ "lastAttrib" \in LinkFields  BY DEF LinkFields
<1>11. p \in 1 .. Len(k)  BY <1>3
<1>12. EndSet(P, k, k1, p, "attribs", x, b)  BY <1>0, <1>2, <1>3, <1>4, <1>11, EndMoved
<1>6. /\ k1 \in Seq(NodeRec(P)) /\ Len(k1) = Len(h)
      /\ \A j \in 1 .. Len(h), e \in Fields :
            k1[j][e] = IF j = p /\ e = "attribs" /\ k[p]["attribs"] = x THEN b ELSE k[j][e]
  BY <1>3, <1>12 DEF EndSet
<1>13. p \in 1 .. Len(k1)  BY <1>6
<1>14. EndSet(P, k1, g, p, "lastAttrib", x, a)  BY <1>0, <1>2, <1>5, <1>6, <1>13, EndMoved
<1>7. /\ g \in Seq(NodeRec(P)) /\ Len(g) = Len(h)
      /\ \A j \in 1 .. Len(h), e \in Fields :
            g[j][e] = IF j = p /\ e = "lastAttrib" /\ k1[p]["lastAttrib"] = x THEN a ELSE k1[j][e]
  BY <1>6, <1>14 DEF EndSet
<1>8. ASSUME NEW j \in 1 .. Len(h)
      PROVE  /\ g[j].next = IF j = h[x].prev THEN h[x].next ELSE h[j].next
             /\ g[j].prev = IF j = h[x].next THEN h[x].prev ELSE h[j].prev
  <2>1. {"next", "prev"} \subseteq Fields  BY DEF Fields, LinkFields
  <2>2. k1[j].next = k[j].next /\ k1[j].prev = k[j].prev  BY <1>6, <2>1
  <2>3. g[j].next = k1[j].next /\ g[j].prev = k1[j].prev  BY <1>7, <2>1
  <2> QED BY <1>2, <1>3, <2>2, <2>3
<1>9. ASSUME NEW j \in 1 .. Len(h)
      PROVE  /\ g[j].attribs = IF j = p /\ h[p].attribs = x THEN h[x].next ELSE h[j].attribs
             /\ g[j].lastAttrib = IF j = p /\ h[p].lastAttrib = x THEN h[x].prev ELSE h[j].lastAttrib
  <2>1. {"attribs", "lastAttrib"} \subseteq Fields \ {"next", "prev"}  BY DEF Fields, LinkFields
  <2>2. /\ k[j].attribs = h[j].attribs /\ k[p].attribs = h[p].attribs
        /\ k[j].lastAttrib = h[j].lastAttrib /\ k[p].lastAttrib = h[p].lastAttrib  BY <1>3, <2>1
  <2>3. k1[j].attribs = IF j = p /\ k[p].attribs = x THEN b ELSE k[j].attribs  BY <1>6, <2>1
  <2>4. k1[j].lastAttrib = k[j].lastAttrib /\ k1[p].lastAttrib = k[p].lastAttrib  BY <1>6, <2>1
  <2>5. g[j].attribs = k1[j].attribs  BY <1>7, <2>1
  <2>6. g[j].lastAttrib = IF j = p /\ k1[p].lastAttrib = x THEN a ELSE k1[j].lastAttrib  BY <1>7, <2>1
  <2> QED BY <1>2, <2>2, <2>3, <2>4, <2>5, <2>6
<1>10. ASSUME NEW j \in 1 .. Len(h), NEW e \in Fields \ {"next", "prev", "attribs", "lastAttrib"}
       PROVE  g[j][e] = h[j][e]
  <2>1. k[j][e] = h[j][e]  BY <1>3
  <2>2. k1[j][e] = k[j][e]  BY <1>6
  <2>3. g[j][e] = k1[j][e]  BY <1>7
  <2> QED BY <2>1, <2>2, <2>3
<1> QED BY <1>7, <1>8, <1>9, <1>10

-----------------------------------------------------------------------------
(* The lists of a tag: its children and its attributes.                    *)

Roles == {"kids", "attribs"}
Role(h, y) == IF h[y].type = "ATTRIBUTE" THEN "attribs" ELSE "kids"

FirstOf(h, x, role) == IF role = "kids" THEN h[x].first ELSE h[x].attribs
LastOf(h, x, role)  == IF role = "kids" THEN h[x].last ELSE h[x].lastAttrib

ListOf(h, x, role, s) ==
    /\ IsList(h, FirstOf(h, x, role), LastOf(h, x, role), s)
    /\ \A i \in 1 .. Len(s) : h[s[i]].parent = x /\ Role(h, s[i]) = role

\* The nodes of the list that are not in out are all in s.
Complete(h, x, role, out, s) ==
    role = "kids" =>
        \A y \in (1 .. Len(h)) \ out :
            h[y].parent = x /\ Role(h, y) = role => \E i \in 1 .. Len(s) : s[i] = y

HasList(h, out, x, role) == \E s : ListOf(h, x, role, s) /\ Complete(h, x, role, out, s)

Whole(h, out) ==
    /\ h \in Seq(NodeRec(0 .. Len(h)))
    /\ \A y \in 1 .. Len(h) : IF h[y].parent = NULL THEN h[y].next = NULL /\ h[y].prev = NULL
                              ELSE IsTag(h, h[y].parent)
    /\ \A x \in 1 .. Len(h), role \in Roles : IsTag(h, x) => HasList(h, out, x, role)

\* The nodes from the first to the last, as a walk meets them.
ListAt(h, x, role) == Chain(h, FirstOf(h, x, role), "next")

\* Two heaps agree on the lists other than that of p.
LinksSame(h, g, p, role) ==
    /\ \A j \in 1 .. Len(h) : h[j].parent # NULL /\ (h[j].parent = p => Role(h, j) # role) =>
        /\ g[j].next = h[j].next /\ g[j].prev = h[j].prev
        /\ g[j].parent = h[j].parent /\ g[j].type = h[j].type
    /\ \A j \in 1 .. Len(h), r \in Roles : (j = p => r # role) =>
        FirstOf(g, j, r) = FirstOf(h, j, r) /\ LastOf(g, j, r) = LastOf(h, j, r)
OthersSame(h, g, p, role) ==
    \A x \in 1 .. Len(h), r \in Roles : IsTag(h, x) /\ (x = p => r # role) =>
        ListAt(g, x, r) = ListAt(h, x, r)

\* The list of p is s now, and every other list is what it was.
ListChanged(h, g, p, role, s) ==
    /\ ListAt(g, p, role) = s
    /\ OthersSame(h, g, p, role)

SameContent(h, g) ==
    \A j \in 1 .. Len(h) :
        g[j].type = h[j].type /\ g[j].name = h[j].name /\ g[j].text = h[j].text

LEMMA WalkOfList ==
    ASSUME NEW h, Len(h) \in Nat, NEW x, NEW role, NEW s, ListOf(h, x, role, s)
    PROVE  ListAt(h, x, role) = s
<1>1. IsList(h, FirstOf(h, x, role), LastOf(h, x, role), s)  BY DEF ListOf
<1> QED BY <1>1, ListForwards DEF ListAt

\* A list with ends and records that keep their links.
LEMMA ListOfKept ==
    ASSUME NEW h, NEW g, Len(h) \in Nat, Len(g) \in Nat, Len(h) <= Len(g), NEW x, NEW role, NEW s,
           ListOf(h, x, role, s),
           FirstOf(g, x, role) = FirstOf(h, x, role), LastOf(g, x, role) = LastOf(h, x, role),
           \A j \in 1 .. Len(h) : h[j].parent = x /\ Role(h, j) = role =>
               /\ g[j].next = h[j].next /\ g[j].prev = h[j].prev
               /\ g[j].parent = h[j].parent /\ g[j].type = h[j].type
    PROVE  ListOf(g, x, role, s)
<1>1. s \in Seq(1 .. Len(h)) /\ Len(s) \in Nat /\ \A i \in 1 .. Len(s) : s[i] \in 1 .. Len(h)
  BY DEF ListOf, IsList
<1>2. \A i \in 1 .. Len(s) : h[s[i]].parent = x /\ Role(h, s[i]) = role  BY DEF ListOf
<1>3. ASSUME NEW i \in 1 .. Len(s)
      PROVE  /\ g[s[i]].next = h[s[i]].next /\ g[s[i]].prev = h[s[i]].prev
             /\ g[s[i]].parent = x /\ Role(g, s[i]) = role
  <2>1. s[i] \in 1 .. Len(h) /\ h[s[i]].parent = x /\ Role(h, s[i]) = role  BY <1>1, <1>2
  <2> QED BY <2>1 DEF Role
<1>4. IsList(h, FirstOf(h, x, role), LastOf(h, x, role), s)  BY DEF ListOf
<1>5. IsList(g, FirstOf(h, x, role), LastOf(h, x, role), s)  BY <1>3, <1>4, ListKept
<1> QED BY <1>3, <1>5 DEF ListOf

LEMMA OthersKept ==
    ASSUME NEW h, NEW out, Whole(h, out), NEW g, Len(g) = Len(h), NEW p, NEW role,
           LinksSame(h, g, p, role)
    PROVE  OthersSame(h, g, p, role)
<1>1. Len(h) \in Nat /\ Len(g) \in Nat /\ Len(h) <= Len(g)  BY DEF Whole
<1>2. ASSUME NEW x \in 1 .. Len(h), NEW r \in Roles, IsTag(h, x), x = p => r # role
      PROVE  ListAt(g, x, r) = ListAt(h, x, r)
  <2>1. PICK s : ListOf(h, x, r, s)  BY <1>2 DEF Whole, HasList
  <2>2. ASSUME NEW j \in 1 .. Len(h), h[j].parent = x, Role(h, j) = r
        PROVE  /\ g[j].next = h[j].next /\ g[j].prev = h[j].prev
               /\ g[j].parent = h[j].parent /\ g[j].type = h[j].type
    <3>1. h[j].parent # NULL /\ (h[j].parent = p => Role(h, j) # role)
      BY <1>1, <1>2, <2>2 DEF NULL
    <3> QED BY <3>1 DEF LinksSame
  <2>3. FirstOf(g, x, r) = FirstOf(h, x, r) /\ LastOf(g, x, r) = LastOf(h, x, r)
    BY <1>2 DEF LinksSame
  <2>4. ListOf(g, x, r, s)  BY ONLY <1>1, <2>1, <2>2, <2>3, ListOfKept
  <2> QED BY <1>1, <2>1, <2>4, WalkOfList
<1> QED BY <1>2 DEF OthersSame

\* One list is changed, that of p in a role; nodes without a parent may join it.
LEMMA Relinked ==
    ASSUME NEW h, NEW out, Whole(h, out), NEW out2, out \subseteq out2,
           NEW g \in Seq(NodeRec(0 .. Len(h))), Len(g) = Len(h),
           NEW p \in 1 .. Len(h), NEW role \in Roles, HasList(g, out2, p, role), IsTag(h, p),
           \A j \in 1 .. Len(h) : g[j].type = h[j].type,
           \A j \in 1 .. Len(h) :
               IF h[j].parent = NULL
               THEN \/ g[j].parent = p /\ Role(h, j) = role
                    \/ g[j].parent = NULL /\ g[j].next = NULL /\ g[j].prev = NULL
               ELSE g[j].parent = h[j].parent,
           \A j \in 1 .. Len(h) :
               h[j].parent # NULL /\ (h[j].parent = p => Role(h, j) # role) =>
                   g[j].next = h[j].next /\ g[j].prev = h[j].prev,
           \A j \in 1 .. Len(h), r \in Roles : (j = p => r # role) =>
               FirstOf(g, j, r) = FirstOf(h, j, r) /\ LastOf(g, j, r) = LastOf(h, j, r)
    PROVE  Whole(g, out2)
<1>1. h \in Seq(NodeRec(0 .. Len(h))) /\ Len(h) \in Nat  BY DEF Whole
<1>2. g \in Seq(NodeRec(0 .. Len(g)))  BY <1>1
<1>3. \A j \in 1 .. Len(h) : h[j].parent \in 0 .. Len(h)
  <2> TAKE j \in 1 .. Len(h)
  <2>1. h[j] \in NodeRec(0 .. Len(h))  BY <1>1
  <2> QED BY <2>1 DEF NodeRec
<1>4. ASSUME NEW y \in 1 .. Len(g)
      PROVE  IF g[y].parent = NULL THEN g[y].next = NULL /\ g[y].prev = NULL
             ELSE IsTag(g, g[y].parent)
  <2>1. CASE h[y].parent = NULL  BY <1>1, <2>1 DEF IsTag, NULL
  <2>2. CASE h[y].parent # NULL
    <3>1. g[y].parent = h[y].parent /\ IsTag(h, h[y].parent)  BY <1>1, <2>2 DEF Whole
    <3>2. h[y].parent \in 1 .. Len(h)  BY <1>1, <1>3, <2>2 DEF NULL
    <3> QED BY <2>2, <3>1, <3>2 DEF IsTag
  <2> QED BY <2>1, <2>2
<1>6. Len(h) \in Nat /\ Len(g) \in Nat /\ Len(h) <= Len(g)  BY <1>1
<1>5. ASSUME NEW x \in 1 .. Len(g), NEW r \in Roles, IsTag(g, x)
      PROVE  HasList(g, out2, x, r)
  <2>1. CASE x = p /\ r = role  BY <2>1
  <2>2. CASE ~(x = p /\ r = role)
    <3>1. IsTag(h, x)  BY <1>1, <1>5 DEF IsTag
    <3>2. PICK s : ListOf(h, x, r, s) /\ Complete(h, x, r, out, s)
      BY <1>1, <3>1 DEF Whole, HasList
    <3>3. FirstOf(g, x, r) = FirstOf(h, x, r) /\ LastOf(g, x, r) = LastOf(h, x, r)  BY <2>2
    <3>4. ASSUME NEW j \in 1 .. Len(h), h[j].parent = x, Role(h, j) = r
          PROVE  /\ g[j].next = h[j].next /\ g[j].prev = h[j].prev
                 /\ g[j].parent = h[j].parent /\ g[j].type = h[j].type
      <4>1. h[j].parent # NULL  BY <1>1, <3>4 DEF NULL
      <4>2. h[j].parent = p => Role(h, j) # role  BY <2>2, <3>4
      <4> QED BY <4>1, <4>2
    <3>5. ListOf(g, x, r, s)  
      BY ONLY <1>6, <3>2, <3>3, <3>4, ListOfKept
    <3>6. ASSUME r = "kids", NEW y \in (1 .. Len(g)) \ out2, g[y].parent = x, Role(g, y) = r
          PROVE  \E i \in 1 .. Len(s) : s[i] = y
      <4>1. Role(h, y) = r  BY <3>6 DEF Role
      <4>2. h[y].parent = x
        <5>1. CASE h[y].parent = NULL  BY <1>1, <2>2, <3>6, <4>1, <5>1 DEF NULL
        <5>2. CASE h[y].parent # NULL  BY <3>6, <5>2
        <5> QED BY <5>1, <5>2
      <4> QED BY <3>2, <3>6, <4>1, <4>2 DEF Complete
    <3>7. Complete(g, x, r, out2, s)  BY <3>6 DEF Complete
    <3> QED BY <3>5, <3>7 DEF HasList
  <2> QED BY <2>1, <2>2
<1> QED BY <1>2, <1>4, <1>5 DEF Whole

\* No link is changed.
LEMMA NothingRelinked ==
    ASSUME NEW h, NEW out, Whole(h, out), NEW out2, out \subseteq out2,
           NEW g \in Seq(NodeRec(0 .. Len(h))), Len(g) = Len(h),
           \A j \in 1 .. Len(h), e \in LinkFields : g[j][e] = h[j][e],
           \A j \in 1 .. Len(h) : g[j].type = h[j].type
    PROVE  Whole(g, out2)
<1>1. h \in Seq(NodeRec(0 .. Len(h))) /\ Len(h) \in Nat  BY DEF Whole
<1>2. \A j \in 1 .. Len(h) :
          /\ g[j].next = h[j].next /\ g[j].prev = h[j].prev /\ g[j].parent = h[j].parent
          /\ g[j].first = h[j].first /\ g[j].last = h[j].last
          /\ g[j].attribs = h[j].attribs /\ g[j].lastAttrib = h[j].lastAttrib
          /\ g[j].type = h[j].type
  BY DEF LinkFields
<1>3. g \in Seq(NodeRec(0 .. Len(g)))  BY <1>1
<1>4. ASSUME NEW y \in 1 .. Len(g)
      PROVE  IF g[y].parent = NULL THEN g[y].next = NULL /\ g[y].prev = NULL
             ELSE IsTag(g, g[y].parent)
  <2>1. h[y] \in NodeRec(0 .. Len(h))  BY <1>1
  <2>2. h[y].parent \in 0 .. Len(h)  BY <2>1 DEF NodeRec
  <2>3. h[y].parent # NULL => h[y].parent \in 1 .. Len(h)  BY <1>1, <2>2 DEF NULL
  <2> QED BY <1>2, <2>3 DEF Whole, IsTag
<1>6. Len(h) \in Nat /\ Len(g) \in Nat /\ Len(h) <= Len(g)  BY <1>1
<1>5. ASSUME NEW x \in 1 .. Len(g), NEW r \in Roles, IsTag(g, x)
      PROVE  HasList(g, out2, x, r)
  <2>1. IsTag(h, x)  BY <1>2, <1>5 DEF IsTag
  <2>2. PICK s : ListOf(h, x, r, s) /\ Complete(h, x, r, out, s)  BY <2>1 DEF Whole, HasList
  <2>3. FirstOf(g, x, r) = FirstOf(h, x, r) /\ LastOf(g, x, r) = LastOf(h, x, r)
    BY <1>2 DEF FirstOf, LastOf
  <2>4. ListOf(g, x, r, s)  BY ONLY <1>2, <1>6, <2>2, <2>3, ListOfKept
  <2>5. Complete(g, x, r, out2, s)  BY <1>2, <2>2 DEF Complete, Role
  <2> QED BY <2>4, <2>5 DEF HasList
<1> QED BY <1>3, <1>4, <1>5 DEF Whole

\* A node without a parent comes to place k of the list s of p.
InsertsAt(h, g, p, role, s, k, y) ==
    /\ g[y].next = At(s, k) /\ g[y].prev = At(s, k - 1)
    /\ \A i \in 1 .. Len(s) :
        /\ g[s[i]].next = IF i = k - 1 THEN y ELSE h[s[i]].next
        /\ g[s[i]].prev = IF i = k THEN y ELSE h[s[i]].prev
    /\ \A j \in 1 .. Len(h) : j # y /\ (\A i \in 1 .. Len(s) : s[i] # j) =>
        g[j].next = h[j].next /\ g[j].prev = h[j].prev
    /\ \A j \in 1 .. Len(h) : /\ g[j].type = h[j].type
                             /\ g[j].parent = IF j = y THEN p ELSE h[j].parent
    /\ FirstOf(g, p, role) = IF k = 1 THEN y ELSE FirstOf(h, p, role)
    /\ LastOf(g, p, role) = IF k = Len(s) + 1 THEN y ELSE LastOf(h, p, role)
    /\ \A j \in 1 .. Len(h), r \in Roles : (j = p => r # role) =>
        FirstOf(g, j, r) = FirstOf(h, j, r) /\ LastOf(g, j, r) = LastOf(h, j, r)

LEMMA WholeInserted ==
    ASSUME NEW h, NEW out, Whole(h, out), NEW p \in 1 .. Len(h), NEW role \in Roles, IsTag(h, p),
           NEW s, ListOf(h, p, role, s), Complete(h, p, role, out, s), NEW k \in 1 .. Len(s) + 1,
           NEW y \in 1 .. Len(h), h[y].parent = NULL, Role(h, y) = role,
           NEW g \in Seq(NodeRec(0 .. Len(h))), Len(g) = Len(h),
           InsertsAt(h, g, p, role, s, k, y)
    PROVE  Whole(g, out) /\ ListChanged(h, g, p, role, With(s, k, y))
<1>1. /\ Len(h) \in Nat /\ Len(g) \in Nat /\ Len(h) <= Len(g) /\ y \in 1 .. Len(g)
      /\ s \in Seq(1 .. Len(g)) /\ \A i \in 1 .. Len(s) : s[i] \in 1 .. Len(h)
  BY DEF Whole, ListOf, IsList
<1>2. \A i \in 1 .. Len(s) : h[s[i]].parent = p /\ Role(h, s[i]) = role  BY DEF ListOf
<1>3. \A i \in 1 .. Len(s) : s[i] # y  BY <1>1, <1>2 DEF NULL
<1>4. IsList(h, FirstOf(h, p, role), LastOf(h, p, role), s)  BY DEF ListOf
<1>5. PICK t : t = With(s, k, y)  OBVIOUS
<1>6. IsList(g, FirstOf(g, p, role), LastOf(g, p, role), t)
  <2>1. IsList(g, IF k = 1 THEN y ELSE FirstOf(h, p, role),
                  IF k = Len(s) + 1 THEN y ELSE LastOf(h, p, role), t)
    <3>1. SplicedIn(h, g, s, k, y)  BY <1>3 DEF SplicedIn, InsertsAt
    <3> QED BY <1>1, <1>4, <1>5, <3>1, ListInserted
  <2> QED BY <2>1 DEF InsertsAt
<1>7. /\ \A i \in 1 .. Len(t) : t[i] = y \/ \E j \in 1 .. Len(s) : t[i] = s[j]
      /\ \E i \in 1 .. Len(t) : t[i] = y
      /\ \A j \in 1 .. Len(s) : \E i \in 1 .. Len(t) : t[i] = s[j]
  <2>1. HasToo(s, y, t)  BY <1>1, <1>5, WithMembers
  <2> QED BY <2>1 DEF HasToo
<1>8. ASSUME NEW i \in 1 .. Len(t) PROVE g[t[i]].parent = p /\ Role(g, t[i]) = role
  <2>1. CASE t[i] = y  BY <2>1 DEF Role, InsertsAt
  <2>2. CASE \E j \in 1 .. Len(s) : t[i] = s[j]
    <3>1. PICK j \in 1 .. Len(s) : t[i] = s[j]  BY <2>2
    <3>2. s[j] \in 1 .. Len(h) /\ s[j] # y /\ h[s[j]].parent = p /\ Role(h, s[j]) = role
      BY <1>1, <1>2, <1>3
    <3> QED BY <3>1, <3>2 DEF Role, InsertsAt
  <2> QED BY <1>7, <2>1, <2>2
<1>9. Complete(g, p, role, out, t)
  <2>1. ASSUME role = "kids", NEW z \in (1 .. Len(g)) \ out, g[z].parent = p, Role(g, z) = role
        PROVE  \E i \in 1 .. Len(t) : t[i] = z
    <3>1. CASE z = y  BY <1>7, <3>1
    <3>2. CASE z # y
      <4>1. h[z].parent = p /\ Role(h, z) = role  BY <2>1, <3>2 DEF Role, InsertsAt
      <4>2. PICK j \in 1 .. Len(s) : s[j] = z  BY <2>1, <4>1 DEF Complete
      <4> QED BY <1>7, <4>2
    <3> QED BY <3>1, <3>2
  <2> QED BY <2>1 DEF Complete
<1>10. HasList(g, out, p, role)  BY <1>6, <1>8, <1>9 DEF HasList, ListOf
<1>11. \A j \in 1 .. Len(h) :
               IF h[j].parent = NULL
               THEN \/ g[j].parent = p /\ Role(h, j) = role
                    \/ g[j].parent = NULL /\ g[j].next = NULL /\ g[j].prev = NULL
               ELSE g[j].parent = h[j].parent
  <2> TAKE j \in 1 .. Len(h)
  <2>1. CASE j = y  BY <2>1 DEF InsertsAt
  <2>2. CASE j # y /\ h[j].parent = NULL
    <3>1. \A i \in 1 .. Len(s) : s[i] # j  BY <1>2, <2>2 DEF NULL
    <3>2. g[j].next = h[j].next /\ g[j].prev = h[j].prev /\ g[j].parent = h[j].parent  BY <2>2, <3>1 DEF InsertsAt
    <3>3. h[j].next = NULL /\ h[j].prev = NULL  BY <2>2 DEF Whole
    <3> QED BY <2>2, <3>2, <3>3
  <2>3. CASE j # y /\ h[j].parent # NULL  BY <2>3 DEF InsertsAt
  <2> QED BY <2>1, <2>2, <2>3
<1>12. \A j \in 1 .. Len(h) :
               h[j].parent # NULL /\ (h[j].parent = p => Role(h, j) # role) =>
                   g[j].next = h[j].next /\ g[j].prev = h[j].prev
  <2> TAKE j \in 1 .. Len(h)
  <2>1. ASSUME h[j].parent # NULL, h[j].parent = p => Role(h, j) # role
        PROVE  j # y /\ \A i \in 1 .. Len(s) : s[i] # j  BY <1>2, <2>1
  <2> QED BY <2>1 DEF InsertsAt
<1>13. \A j \in 1 .. Len(h) : g[j].type = h[j].type  BY DEF InsertsAt
<1>14. \A j \in 1 .. Len(h), r \in Roles : (j = p => r # role) =>
           FirstOf(g, j, r) = FirstOf(h, j, r) /\ LastOf(g, j, r) = LastOf(h, j, r)
  BY DEF InsertsAt
<1>15. Whole(g, out)  BY <1>10, <1>11, <1>12, <1>13, <1>14, Relinked
<1>16. ListAt(g, p, role) = t
  <2>1. ListOf(g, p, role, t)  BY <1>6, <1>8 DEF ListOf
  <2> QED BY <1>1, <2>1, WalkOfList
<1>17. OthersSame(h, g, p, role)
  <2>1. LinksSame(h, g, p, role)  BY <1>11, <1>12, <1>13, <1>14 DEF LinksSame
  <2> QED BY <2>1, OthersKept
<1> QED BY <1>5, <1>15, <1>16, <1>17 DEF ListChanged

\* The node in place k of the list s of p is taken out; it keeps its own links.
RemovesAt(h, g, p, role, s, k) ==
    /\ \A i \in 1 .. Len(s) : i # k =>
        /\ g[s[i]].next = IF i = k - 1 THEN At(s, k + 1) ELSE h[s[i]].next
        /\ g[s[i]].prev = IF i = k + 1 THEN At(s, k - 1) ELSE h[s[i]].prev
    /\ \A j \in 1 .. Len(h) : (\A i \in 1 .. Len(s) : s[i] # j) =>
        g[j].next = h[j].next /\ g[j].prev = h[j].prev
    /\ \A j \in 1 .. Len(h) : g[j].type = h[j].type /\ g[j].parent = h[j].parent
    /\ FirstOf(g, p, role) = IF k = 1 THEN At(s, 2) ELSE FirstOf(h, p, role)
    /\ LastOf(g, p, role) = IF k = Len(s) THEN At(s, k - 1) ELSE LastOf(h, p, role)
    /\ \A j \in 1 .. Len(h), r \in Roles : (j = p => r # role) =>
        FirstOf(g, j, r) = FirstOf(h, j, r) /\ LastOf(g, j, r) = LastOf(h, j, r)

LEMMA WholeRemoved ==
    ASSUME NEW h, NEW out, Whole(h, out), NEW p \in 1 .. Len(h), NEW role \in Roles, IsTag(h, p),
           NEW s, ListOf(h, p, role, s), Complete(h, p, role, out, s), NEW k \in 1 .. Len(s),
           NEW out2, out \subseteq out2, role = "kids" => s[k] \in out2,
           NEW g \in Seq(NodeRec(0 .. Len(h))), Len(g) = Len(h),
           RemovesAt(h, g, p, role, s, k)
    PROVE  Whole(g, out2) /\ ListChanged(h, g, p, role, Without(s, k))
<1>1. /\ Len(h) \in Nat /\ s \in Seq(1 .. Len(h)) /\ Len(s) \in Nat
      /\ \A i \in 1 .. Len(s) : s[i] \in 1 .. Len(h)
  BY DEF Whole, ListOf, IsList
<1>2. \A i \in 1 .. Len(s) : h[s[i]].parent = p /\ Role(h, s[i]) = role  BY DEF ListOf
<1>3. IsList(h, FirstOf(h, p, role), LastOf(h, p, role), s)  BY DEF ListOf
<1>4. PICK t : t = Without(s, k)  OBVIOUS
<1>5. IsList(g, FirstOf(g, p, role), LastOf(g, p, role), t)
  <2>1. IsList(g, IF k = 1 THEN At(s, 2) ELSE FirstOf(h, p, role),
                  IF k = Len(s) THEN At(s, k - 1) ELSE LastOf(h, p, role), t)
    BY <1>1, <1>3, <1>4, ListRemoved, SMTT(30) DEF RemovesAt
  <2> QED BY <2>1 DEF RemovesAt
<1>6. /\ \A i \in 1 .. Len(t) : \E j \in 1 .. Len(s) : j # k /\ t[i] = s[j]
      /\ \A j \in 1 .. Len(s) : j # k => \E i \in 1 .. Len(t) : t[i] = s[j]
  BY <1>1, <1>4, WithoutMembers
<1>7. ASSUME NEW i \in 1 .. Len(t) PROVE g[t[i]].parent = p /\ Role(g, t[i]) = role
  <2>1. PICK j \in 1 .. Len(s) : t[i] = s[j]  BY <1>6
  <2>2. s[j] \in 1 .. Len(h) /\ h[s[j]].parent = p /\ Role(h, s[j]) = role  BY <1>1, <1>2
  <2> QED BY <2>1, <2>2 DEF Role, RemovesAt
<1>8. Complete(g, p, role, out2, t)
  <2>1. ASSUME role = "kids", NEW z \in (1 .. Len(g)) \ out2, g[z].parent = p, Role(g, z) = role
        PROVE  \E i \in 1 .. Len(t) : t[i] = z
    <3>1. h[z].parent = p /\ Role(h, z) = role /\ z \notin out  BY <2>1 DEF Role, RemovesAt
    <3>2. PICK j \in 1 .. Len(s) : s[j] = z  BY <2>1, <3>1 DEF Complete
    <3>3. j # k  BY <2>1, <3>2
    <3> QED BY <1>6, <3>2, <3>3
  <2> QED BY <2>1 DEF Complete
<1>9. HasList(g, out2, p, role)  BY <1>5, <1>7, <1>8 DEF HasList, ListOf
<1>10. \A j \in 1 .. Len(h) :
               IF h[j].parent = NULL
               THEN \/ g[j].parent = p /\ Role(h, j) = role
                    \/ g[j].parent = NULL /\ g[j].next = NULL /\ g[j].prev = NULL
               ELSE g[j].parent = h[j].parent
  <2> TAKE j \in 1 .. Len(h)
  <2>1. CASE h[j].parent = NULL
    <3>1. \A i \in 1 .. Len(s) : s[i] # j  BY <1>2, <2>1 DEF NULL
    <3>2. g[j].next = h[j].next /\ g[j].prev = h[j].prev /\ g[j].parent = h[j].parent  BY <3>1 DEF RemovesAt
    <3>3. h[j].next = NULL /\ h[j].prev = NULL  BY <2>1 DEF Whole
    <3> QED BY <2>1, <3>2, <3>3
  <2>2. CASE h[j].parent # NULL  BY <2>2 DEF RemovesAt
  <2> QED BY <2>1, <2>2
<1>11. \A j \in 1 .. Len(h) :
               h[j].parent # NULL /\ (h[j].parent = p => Role(h, j) # role) =>
                   g[j].next = h[j].next /\ g[j].prev = h[j].prev
  <2> TAKE j \in 1 .. Len(h)
  <2>1. ASSUME h[j].parent # NULL, h[j].parent = p => Role(h, j) # role
        PROVE  \A i \in 1 .. Len(s) : s[i] # j  BY <1>2, <2>1
  <2> QED BY <2>1 DEF RemovesAt
<1>12. \A j \in 1 .. Len(h) : g[j].type = h[j].type  BY DEF RemovesAt
<1>13. \A j \in 1 .. Len(h), r \in Roles : (j = p => r # role) =>
           FirstOf(g, j, r) = FirstOf(h, j, r) /\ LastOf(g, j, r) = LastOf(h, j, r)
  BY DEF RemovesAt
<1>14. Whole(g, out2)  BY <1>9, <1>10, <1>11, <1>12, <1>13, Relinked
<1>15. ListAt(g, p, role) = t
  <2>1. ListOf(g, p, role, t)  BY <1>5, <1>7 DEF ListOf
  <2> QED BY <1>1, <2>1, WalkOfList
<1>16. OthersSame(h, g, p, role)
  <2>1. LinksSame(h, g, p, role)  BY <1>10, <1>11, <1>12, <1>13 DEF LinksSame
  <2> QED BY <2>1, OthersKept
<1> QED BY <1>4, <1>14, <1>15, <1>16 DEF ListChanged

LEMMA LinksTyped ==
    ASSUME NEW h, NEW out, Whole(h, out), NEW j \in 1 .. Len(h)
    PROVE  /\ h[j] \in NodeRec(0 .. Len(h))
           /\ {h[j].next, h[j].prev, h[j].parent, h[j].first, h[j].last,
               h[j].attribs, h[j].lastAttrib} \subseteq 0 .. Len(h)
<1>1. h[j] \in NodeRec(0 .. Len(h))  BY DEF Whole
<1> QED BY <1>1 DEF NodeRec

LEMMA WholeLast ==
    ASSUME NEW h, NEW out, Whole(h, out), NEW x \in 1 .. Len(h), IsTag(h, x),
           NEW y \in 1 .. Len(h), h[y].parent = NULL, Role(h, y) = "kids"
    PROVE  /\ Whole(LinkLast(h, x, y), out) /\ SameContent(h, LinkLast(h, x, y))
           /\ Len(LinkLast(h, x, y)) = Len(h)
           /\ LET s == ListAt(h, x, "kids")
              IN  ListChanged(h, LinkLast(h, x, y), x, "kids", With(s, Len(s) + 1, y))
<1>1. Len(h) \in Nat /\ h \in Seq(NodeRec(0 .. Len(h)))  BY DEF Whole
<1>2. PICK s : ListOf(h, x, "kids", s) /\ Complete(h, x, "kids", out, s)
  BY DEF Whole, HasList, Roles
<1>3. PICK L \in Nat : /\ L = Len(s) /\ s \in Seq(1 .. Len(h)) /\ DOMAIN s = 1 .. L
                      /\ h[x].first = At(s, 1) /\ h[x].last = At(s, L)
  BY <1>2 DEF ListOf, IsList, FirstOf, LastOf
<1>4. \A i \in 1 .. L : s[i] \in 1 .. Len(h) /\ s[i] # y
  BY <1>1, <1>2, <1>3 DEF ListOf, NULL
<1>5. h[y].next = NULL /\ h[y].prev = NULL  BY DEF Whole
<1>6. PICK k : k = L + 1  OBVIOUS
<1>7. PICK g : g = LinkLast(h, x, y)  OBVIOUS
<1>8. h[x].last \in 0 .. Len(h)  BY <1>1, LinksTyped
<1>9. /\ g \in Seq(NodeRec(0 .. Len(h))) /\ Len(g) = Len(h)
      /\ \A j \in 1 .. Len(h) :
          /\ g[j].next = IF j = h[x].last THEN y ELSE h[j].next
          /\ g[j].prev = IF j = y /\ h[x].last # NULL THEN h[x].last ELSE h[j].prev
          /\ g[j].parent = IF j = y THEN x ELSE h[j].parent
          /\ g[j].first = IF j = x /\ h[x].first = NULL THEN y ELSE h[j].first
          /\ g[j].last = IF j = x THEN y ELSE h[j].last
      /\ \A j \in 1 .. Len(h), e \in {"type", "name", "text", "broken", "attribs", "lastAttrib"} : g[j][e] = h[j][e]
  BY <1>1, <1>7, <1>8, LinkLastEffect
<1>10. h[x].last = IF L = 0 THEN NULL ELSE s[L]  BY <1>3 DEF At
<1>11. h[x].first = NULL <=> L = 0
  <2>1. L # 0 => 1 \in 1 .. L  BY <1>3
  <2> QED BY <1>3, <1>4, <2>1 DEF At, NULL
<1>12. L # 0 => L \in 1 .. L  OBVIOUS
<1>13. ASSUME NEW i \in 1 .. L
       PROVE  /\ g[s[i]].next = IF i = k - 1 THEN y ELSE h[s[i]].next
              /\ g[s[i]].prev = IF i = k THEN y ELSE h[s[i]].prev
  <2>1. s[i] = h[x].last <=> i = L
    <3>1. s[i] = s[L] => i = L
      <4>1. IsInjective(s)  BY <1>2 DEF ListOf, IsList
      <4> QED BY <1>3, <1>12, <4>1 DEF IsInjective
    <3> QED BY <1>10, <1>12, <3>1
  <2>2. i # k /\ k - 1 = L  BY <1>6
  <2> QED BY <1>4, <1>9, <2>1, <2>2
<1>14. g[y].next = At(s, k) /\ g[y].prev = At(s, k - 1)
  <2>1. y # h[x].last  BY <1>4, <1>10, <1>12 DEF NULL
  <2>2. At(s, k) = NULL /\ k - 1 = L  BY <1>3, <1>6 DEF At
  <2> QED BY <1>3, <1>5, <1>9, <2>1, <2>2
<1>15. ASSUME NEW j \in 1 .. Len(h), j # y, \A i \in 1 .. L : s[i] # j
       PROVE  g[j].next = h[j].next /\ g[j].prev = h[j].prev
  <2>1. j # h[x].last  BY <1>10, <1>12, <1>15 DEF NULL
  <2> QED BY <1>9, <1>15, <2>1
<1>16. \A j \in 1 .. Len(h) : g[j].type = h[j].type /\ g[j].parent = IF j = y THEN x ELSE h[j].parent
  BY <1>9
<1>17. /\ FirstOf(g, x, "kids") = IF k = 1 THEN y ELSE FirstOf(h, x, "kids")
       /\ LastOf(g, x, "kids") = IF k = L + 1 THEN y ELSE LastOf(h, x, "kids")
  <2>1. k = 1 <=> L = 0  BY <1>6
  <2> QED BY <1>6, <1>9, <1>11, <2>1 DEF FirstOf, LastOf
<1>18. \A j \in 1 .. Len(h), r \in Roles : (j = x => r # "kids") =>
           FirstOf(g, j, r) = FirstOf(h, j, r) /\ LastOf(g, j, r) = LastOf(h, j, r)
  BY <1>9 DEF FirstOf, LastOf, Roles
<1>19. k \in 1 .. Len(s) + 1 /\ "kids" \in Roles  BY <1>3, <1>6 DEF Roles
<1>21. InsertsAt(h, g, x, "kids", s, k, y)
  BY <1>3, <1>13, <1>14, <1>15, <1>16, <1>17, <1>18 DEF InsertsAt
<1>20. Whole(g, out) /\ ListChanged(h, g, x, "kids", With(s, k, y))
  BY <1>2, <1>9, <1>19, <1>21, WholeInserted
<1>22. SameContent(h, g)  BY <1>9 DEF SameContent
<1>23. ListAt(h, x, "kids") = s  BY <1>1, <1>2, WalkOfList
<1>24. k = Len(s) + 1  BY <1>3, <1>6
<1> QED BY <1>7, <1>9, <1>20, <1>22, <1>23, <1>24

LEMMA WholeLastAttrib ==
    ASSUME NEW h, NEW out, Whole(h, out), NEW x \in 1 .. Len(h), IsTag(h, x),
           NEW y \in 1 .. Len(h), h[y].parent = NULL, Role(h, y) = "attribs"
    PROVE  /\ Whole(LinkLastAttrib(h, x, y), out) /\ SameContent(h, LinkLastAttrib(h, x, y))
           /\ Len(LinkLastAttrib(h, x, y)) = Len(h)
           /\ LET s == ListAt(h, x, "attribs")
              IN  ListChanged(h, LinkLastAttrib(h, x, y), x, "attribs", With(s, Len(s) + 1, y))
<1>1. Len(h) \in Nat /\ h \in Seq(NodeRec(0 .. Len(h)))  BY DEF Whole
<1>2. PICK s : ListOf(h, x, "attribs", s) /\ Complete(h, x, "attribs", out, s)
  BY DEF Whole, HasList, Roles
<1>3. PICK L \in Nat : /\ L = Len(s) /\ s \in Seq(1 .. Len(h)) /\ DOMAIN s = 1 .. L
                      /\ h[x].attribs = At(s, 1) /\ h[x].lastAttrib = At(s, L)
  BY <1>2 DEF ListOf, IsList, FirstOf, LastOf
<1>4. \A i \in 1 .. L : s[i] \in 1 .. Len(h) /\ s[i] # y
  BY <1>1, <1>2, <1>3 DEF ListOf, NULL
<1>5. h[y].next = NULL /\ h[y].prev = NULL  BY DEF Whole
<1>6. PICK k : k = L + 1  OBVIOUS
<1>7. PICK g : g = LinkLastAttrib(h, x, y)  OBVIOUS
<1>8. h[x].lastAttrib \in 0 .. Len(h)  BY <1>1, LinksTyped
<1>9. /\ g \in Seq(NodeRec(0 .. Len(h))) /\ Len(g) = Len(h)
      /\ \A j \in 1 .. Len(h) :
          /\ g[j].next = IF j = h[x].lastAttrib THEN y ELSE h[j].next
          /\ g[j].prev = IF j = y /\ h[x].lastAttrib # NULL THEN h[x].lastAttrib ELSE h[j].prev
          /\ g[j].parent = IF j = y THEN x ELSE h[j].parent
          /\ g[j].attribs = IF j = x /\ h[x].attribs = NULL THEN y ELSE h[j].attribs
          /\ g[j].lastAttrib = IF j = x THEN y ELSE h[j].lastAttrib
      /\ \A j \in 1 .. Len(h), e \in {"type", "name", "text", "broken", "first", "last"} : g[j][e] = h[j][e]
  BY <1>1, <1>7, <1>8, LinkLastAttribEffect
<1>10. h[x].lastAttrib = IF L = 0 THEN NULL ELSE s[L]  BY <1>3 DEF At
<1>11. h[x].attribs = NULL <=> L = 0
  <2>1. L # 0 => 1 \in 1 .. L  BY <1>3
  <2> QED BY <1>3, <1>4, <2>1 DEF At, NULL
<1>12. L # 0 => L \in 1 .. L  OBVIOUS
<1>13. ASSUME NEW i \in 1 .. L
       PROVE  /\ g[s[i]].next = IF i = k - 1 THEN y ELSE h[s[i]].next
              /\ g[s[i]].prev = IF i = k THEN y ELSE h[s[i]].prev
  <2>1. s[i] = h[x].lastAttrib <=> i = L
    <3>1. s[i] = s[L] => i = L
      <4>1. IsInjective(s)  BY <1>2 DEF ListOf, IsList
      <4> QED BY <1>3, <1>12, <4>1 DEF IsInjective
    <3> QED BY <1>10, <1>12, <3>1
  <2>2. i # k /\ k - 1 = L  BY <1>6
  <2> QED BY <1>4, <1>9, <2>1, <2>2
<1>14. g[y].next = At(s, k) /\ g[y].prev = At(s, k - 1)
  <2>1. y # h[x].lastAttrib  BY <1>4, <1>10, <1>12 DEF NULL
  <2>2. At(s, k) = NULL /\ k - 1 = L  BY <1>3, <1>6 DEF At
  <2> QED BY <1>3, <1>5, <1>9, <2>1, <2>2
<1>15. ASSUME NEW j \in 1 .. Len(h), j # y, \A i \in 1 .. L : s[i] # j
       PROVE  g[j].next = h[j].next /\ g[j].prev = h[j].prev
  <2>1. j # h[x].lastAttrib  BY <1>10, <1>12, <1>15 DEF NULL
  <2> QED BY <1>9, <1>15, <2>1
<1>16. \A j \in 1 .. Len(h) : g[j].type = h[j].type /\ g[j].parent = IF j = y THEN x ELSE h[j].parent
  BY <1>9
<1>17. /\ FirstOf(g, x, "attribs") = IF k = 1 THEN y ELSE FirstOf(h, x, "attribs")
       /\ LastOf(g, x, "attribs") = IF k = L + 1 THEN y ELSE LastOf(h, x, "attribs")
  <2>1. k = 1 <=> L = 0  BY <1>6
  <2> QED BY <1>6, <1>9, <1>11, <2>1 DEF FirstOf, LastOf
<1>18. \A j \in 1 .. Len(h), r \in Roles : (j = x => r # "attribs") =>
           FirstOf(g, j, r) = FirstOf(h, j, r) /\ LastOf(g, j, r) = LastOf(h, j, r)
  BY <1>9 DEF FirstOf, LastOf, Roles
<1>19. k \in 1 .. Len(s) + 1 /\ "attribs" \in Roles  BY <1>3, <1>6 DEF Roles
<1>21. InsertsAt(h, g, x, "attribs", s, k, y)
  BY <1>3, <1>13, <1>14, <1>15, <1>16, <1>17, <1>18 DEF InsertsAt
<1>20. Whole(g, out) /\ ListChanged(h, g, x, "attribs", With(s, k, y))
  BY <1>2, <1>9, <1>19, <1>21, WholeInserted
<1>22. SameContent(h, g)  BY <1>9 DEF SameContent
<1>23. ListAt(h, x, "attribs") = s  BY <1>1, <1>2, WalkOfList
<1>24. k = Len(s) + 1  BY <1>3, <1>6
<1> QED BY <1>7, <1>9, <1>20, <1>22, <1>23, <1>24

LEMMA WholeBehind ==
    ASSUME NEW h, NEW out, Whole(h, out), NEW x \in (1 .. Len(h)) \ out,
           h[x].parent # NULL, Role(h, x) = "kids",
           NEW y \in 1 .. Len(h), h[y].parent = NULL, Role(h, y) = "kids"
    PROVE  /\ Whole(LinkBehind(h, x, y), out) /\ SameContent(h, LinkBehind(h, x, y))
           /\ Len(LinkBehind(h, x, y)) = Len(h)
           /\ LET s == ListAt(h, h[x].parent, "kids")
              IN  \E k \in 1 .. Len(s) :
                  /\ s[k] = x
                  /\ ListChanged(h, LinkBehind(h, x, y), h[x].parent, "kids", With(s, k + 1, y))
<1>1. Len(h) \in Nat /\ h \in Seq(NodeRec(0 .. Len(h)))  BY DEF Whole
<1>2. h[x].parent \in 1 .. Len(h) /\ IsTag(h, h[x].parent)
  <2>1. h[x].parent \in 0 .. Len(h)  BY LinksTyped
  <2> QED BY <1>1, <2>1 DEF Whole, NULL
<1>3. PICK p \in 1 .. Len(h) : p = h[x].parent  BY <1>2
<1>4. PICK s : ListOf(h, p, "kids", s) /\ Complete(h, p, "kids", out, s)
  BY <1>2, <1>3 DEF Whole, HasList, Roles
<1>5. PICK L \in Nat : /\ L = Len(s) /\ s \in Seq(1 .. Len(h)) /\ DOMAIN s = 1 .. L
                      /\ h[p].first = At(s, 1) /\ h[p].last = At(s, L)
  BY <1>4 DEF ListOf, IsList, FirstOf, LastOf
<1>6. PICK n \in 1 .. L : s[n] = x  BY <1>3, <1>4, <1>5 DEF Complete
<1>7. \A i \in 1 .. L : s[i] \in 1 .. Len(h) /\ s[i] # y  BY <1>1, <1>4, <1>5, SMTT(30) DEF ListOf, NULL
<1>8. \A i, j \in 1 .. L : s[i] = s[j] => i = j  BY <1>4, <1>5 DEF ListOf, IsList, IsInjective
<1>9. PICK g : g = LinkBehind(h, x, y)  OBVIOUS
<1>10. /\ h[x].next \in 0 .. Len(h) /\ h[x].parent \in 0 .. Len(h) /\ x # y
       /\ x \in 1 .. Len(h) /\ x \in 0 .. Len(h) /\ y \in 0 .. Len(h)
  BY <1>6, <1>7, LinksTyped
<1>11. /\ g \in Seq(NodeRec(0 .. Len(h))) /\ Len(g) = Len(h)
       /\ \A j \in 1 .. Len(h) :
           /\ g[j].next = IF j = x THEN y ELSE IF j = y THEN h[x].next ELSE h[j].next
           /\ g[j].prev = IF j = y THEN x ELSE IF j = h[x].next THEN y ELSE h[j].prev
           /\ g[j].parent = IF j = y THEN h[x].parent ELSE h[j].parent
           /\ g[j].last = IF j = h[x].parent /\ h[x].next = NULL THEN y ELSE h[j].last
       /\ \A j \in 1 .. Len(h), e \in {"type", "name", "text", "broken", "first", "attribs", "lastAttrib"} : g[j][e] = h[j][e]
  <2>1. PICK P : P = 0 .. Len(h)  OBVIOUS
  <2>2. /\ h \in Seq(NodeRec(P)) /\ x \in P /\ y \in P /\ h[x].next \in P
        /\ h[x].parent \in 1 .. Len(h) /\ h[x].parent \in P
    BY <1>1, <1>2, <1>10, <2>1
  <2>3. /\ g \in Seq(NodeRec(P)) /\ Len(g) = Len(h)
        /\ \A j \in 1 .. Len(h) :
            /\ g[j].next = IF j = x THEN y ELSE IF j = y THEN h[x].next ELSE h[j].next
            /\ g[j].prev = IF j = y THEN x ELSE IF j = h[x].next THEN y ELSE h[j].prev
            /\ g[j].parent = IF j = y THEN h[x].parent ELSE h[j].parent
            /\ g[j].last = IF j = h[x].parent /\ h[x].next = NULL THEN y ELSE h[j].last
        /\ \A j \in 1 .. Len(h), e \in {"type", "name", "text", "broken", "first", "attribs", "lastAttrib"} : g[j][e] = h[j][e]
    BY ONLY y \in 1 .. Len(h), <1>9, <1>10, <2>2, LinkBehindEffect
  <2> QED BY ONLY <2>1, <2>3
<1>12. PICK k \in 1 .. L + 1 : k = n + 1  OBVIOUS
<1>13. h[x].next = IF n = L THEN NULL ELSE s[n + 1]  BY <1>4, <1>5, <1>6 DEF ListOf, IsList
<1>14. n # L => n + 1 \in 1 .. L  OBVIOUS
<1>15. h[x].next = At(s, n + 1)  BY <1>5, <1>13, <1>14 DEF At
<1>16. ASSUME NEW i \in 1 .. L
       PROVE  /\ g[s[i]].next = IF i = k - 1 THEN y ELSE h[s[i]].next
              /\ g[s[i]].prev = IF i = k THEN y ELSE h[s[i]].prev
  <2>1. s[i] = x <=> i = n  BY <1>6, <1>8
  <2>2. s[i] = h[x].next <=> i = n + 1
    <3>1. CASE n = L  BY <1>7, <1>13, <3>1 DEF NULL
    <3>2. CASE n # L  BY <1>8, <1>13, <1>14, <3>2
    <3> QED BY <3>1, <3>2
  <2>3. s[i] \in 1 .. Len(h) /\ s[i] # y  BY <1>7
  <2>4. g[s[i]].next = IF i = n THEN y ELSE h[s[i]].next  BY <1>11, <2>1, <2>3
  <2>5. g[s[i]].prev = IF i = n + 1 THEN y ELSE h[s[i]].prev  BY <1>11, <2>2, <2>3
  <2>6. (i = k - 1 <=> i = n) /\ (i = k <=> i = n + 1)  BY <1>12
  <2> QED BY <2>4, <2>5, <2>6
<1>17. g[y].next = At(s, k) /\ g[y].prev = At(s, k - 1)
  <2>1. At(s, n) = x  BY <1>5, <1>6 DEF At
  <2>2. g[y].next = At(s, n + 1) /\ g[y].prev = At(s, n)  BY <1>10, <1>11, <1>15, <2>1
  <2>3. k = n + 1 /\ k - 1 = n  BY <1>12
  <2> QED BY <2>2, <2>3
<1>18. ASSUME NEW j \in 1 .. Len(h), j # y, \A i \in 1 .. L : s[i] # j
       PROVE  g[j].next = h[j].next /\ g[j].prev = h[j].prev
  <2>1. j # x /\ j # h[x].next  BY <1>6, <1>13, <1>14, <1>18 DEF NULL
  <2> QED BY <1>11, <1>18, <2>1
<1>19. \A j \in 1 .. Len(h) : g[j].type = h[j].type /\ g[j].parent = IF j = y THEN p ELSE h[j].parent
  BY <1>3, <1>11
<1>20. h[x].next = NULL <=> n = L  BY <1>7, <1>13, <1>14 DEF NULL
<1>21. /\ FirstOf(g, p, "kids") = IF k = 1 THEN y ELSE FirstOf(h, p, "kids")
       /\ LastOf(g, p, "kids") = IF k = L + 1 THEN y ELSE LastOf(h, p, "kids")
  <2>1. k # 1 /\ (k = L + 1 <=> n = L)  BY <1>12
  <2> QED BY <1>3, <1>11, <1>20, <2>1 DEF FirstOf, LastOf
<1>22. \A j \in 1 .. Len(h), r \in Roles : (j = p => r # "kids") =>
           FirstOf(g, j, r) = FirstOf(h, j, r) /\ LastOf(g, j, r) = LastOf(h, j, r)
  BY <1>3, <1>11 DEF FirstOf, LastOf, Roles
<1>23. k \in 1 .. Len(s) + 1 /\ "kids" \in Roles /\ IsTag(h, p)  BY <1>2, <1>3, <1>5 DEF Roles
<1>25. InsertsAt(h, g, p, "kids", s, k, y)
  BY <1>5, <1>16, <1>17, <1>18, <1>19, <1>21, <1>22 DEF InsertsAt
<1>24. Whole(g, out) /\ ListChanged(h, g, p, "kids", With(s, k, y))
  BY <1>4, <1>11, <1>23, <1>25, WholeInserted
<1>26. SameContent(h, g)  BY <1>11 DEF SameContent
<1>27. ListAt(h, p, "kids") = s  BY <1>1, <1>4, WalkOfList
<1> QED BY <1>3, <1>5, <1>6, <1>9, <1>11, <1>12, <1>24, <1>26, <1>27

LEMMA WholeBefore ==
    ASSUME NEW h, NEW out, Whole(h, out), NEW x \in (1 .. Len(h)) \ out,
           h[x].parent # NULL, Role(h, x) = "kids",
           NEW y \in 1 .. Len(h), h[y].parent = NULL, Role(h, y) = "kids"
    PROVE  /\ Whole(LinkBefore(h, x, y), out) /\ SameContent(h, LinkBefore(h, x, y))
           /\ Len(LinkBefore(h, x, y)) = Len(h)
           /\ LET s == ListAt(h, h[x].parent, "kids")
              IN  \E k \in 1 .. Len(s) :
                  /\ s[k] = x
                  /\ ListChanged(h, LinkBefore(h, x, y), h[x].parent, "kids", With(s, k, y))
<1>1. Len(h) \in Nat /\ h \in Seq(NodeRec(0 .. Len(h)))  BY DEF Whole
<1>2. h[x].parent \in 1 .. Len(h) /\ IsTag(h, h[x].parent)
  <2>1. h[x].parent \in 0 .. Len(h)  BY LinksTyped
  <2> QED BY <1>1, <2>1 DEF Whole, NULL
<1>3. PICK p \in 1 .. Len(h) : p = h[x].parent  BY <1>2
<1>4. PICK s : ListOf(h, p, "kids", s) /\ Complete(h, p, "kids", out, s)
  BY <1>2, <1>3 DEF Whole, HasList, Roles
<1>5. PICK L \in Nat : /\ L = Len(s) /\ s \in Seq(1 .. Len(h)) /\ DOMAIN s = 1 .. L
                      /\ h[p].first = At(s, 1) /\ h[p].last = At(s, L)
  BY <1>4 DEF ListOf, IsList, FirstOf, LastOf
<1>6. PICK n \in 1 .. L : s[n] = x  BY <1>3, <1>4, <1>5 DEF Complete
<1>7. \A i \in 1 .. L : s[i] \in 1 .. Len(h) /\ s[i] # y  BY <1>1, <1>4, <1>5, SMTT(30) DEF ListOf, NULL
<1>8. \A i, j \in 1 .. L : s[i] = s[j] => i = j  BY <1>4, <1>5 DEF ListOf, IsList, IsInjective
<1>9. PICK g : g = LinkBefore(h, x, y)  OBVIOUS
<1>10. /\ h[x].prev \in 0 .. Len(h) /\ h[x].parent \in 0 .. Len(h) /\ x # y
       /\ x \in 1 .. Len(h) /\ x \in 0 .. Len(h) /\ y \in 0 .. Len(h)
  BY <1>6, <1>7, LinksTyped
<1>11. /\ g \in Seq(NodeRec(0 .. Len(h))) /\ Len(g) = Len(h)
       /\ \A j \in 1 .. Len(h) :
           /\ g[j].prev = IF j = x THEN y ELSE IF j = y THEN h[x].prev ELSE h[j].prev
           /\ g[j].next = IF j = y THEN x ELSE IF j = h[x].prev THEN y ELSE h[j].next
           /\ g[j].parent = IF j = y THEN h[x].parent ELSE h[j].parent
           /\ g[j].first = IF j = h[x].parent /\ h[x].prev = NULL THEN y ELSE h[j].first
       /\ \A j \in 1 .. Len(h), e \in {"type", "name", "text", "broken", "last", "attribs", "lastAttrib"} : g[j][e] = h[j][e]
  BY <1>1, <1>2, <1>9, <1>10, LinkBeforeEffect, SMTT(30)
<1>12. PICK k \in 1 .. L + 1 : k = n  OBVIOUS
<1>13. h[x].prev = IF n = 1 THEN NULL ELSE s[n - 1]  BY <1>4, <1>5, <1>6 DEF ListOf, IsList
<1>14. n # 1 => n - 1 \in 1 .. L  OBVIOUS
<1>15. h[x].prev = At(s, n - 1)  BY <1>5, <1>13, <1>14 DEF At
<1>16. ASSUME NEW i \in 1 .. L
       PROVE  /\ g[s[i]].next = IF i = k - 1 THEN y ELSE h[s[i]].next
              /\ g[s[i]].prev = IF i = k THEN y ELSE h[s[i]].prev
  <2>1. s[i] = x <=> i = n  BY <1>6, <1>8
  <2>2. s[i] = h[x].prev <=> i = n - 1
    <3>1. CASE n = 1  BY <1>7, <1>13, <3>1 DEF NULL
    <3>2. CASE n # 1  BY <1>8, <1>13, <1>14, <3>2
    <3> QED BY <3>1, <3>2
  <2>3. s[i] \in 1 .. Len(h) /\ s[i] # y  BY <1>7
  <2>4. g[s[i]].prev = IF i = n THEN y ELSE h[s[i]].prev  BY <1>11, <2>1, <2>3
  <2>5. g[s[i]].next = IF i = n - 1 THEN y ELSE h[s[i]].next  BY <1>11, <2>2, <2>3
  <2>6. (i = k - 1 <=> i = n - 1) /\ (i = k <=> i = n)  BY <1>12
  <2> QED BY <2>4, <2>5, <2>6
<1>17. g[y].next = At(s, k) /\ g[y].prev = At(s, k - 1)
  <2>1. At(s, n) = x  BY <1>5, <1>6 DEF At
  <2>2. g[y].prev = At(s, n - 1) /\ g[y].next = At(s, n)  BY <1>10, <1>11, <1>15, <2>1
  <2>3. k = n /\ k - 1 = n - 1  BY <1>12
  <2> QED BY <2>2, <2>3
<1>18. ASSUME NEW j \in 1 .. Len(h), j # y, \A i \in 1 .. L : s[i] # j
       PROVE  g[j].next = h[j].next /\ g[j].prev = h[j].prev
  <2>1. j # x /\ j # h[x].prev  BY <1>6, <1>13, <1>14, <1>18 DEF NULL
  <2> QED BY <1>11, <1>18, <2>1
<1>19. \A j \in 1 .. Len(h) : g[j].type = h[j].type /\ g[j].parent = IF j = y THEN p ELSE h[j].parent
  BY <1>3, <1>11
<1>20. h[x].prev = NULL <=> n = 1  BY <1>7, <1>13, <1>14 DEF NULL
<1>21. /\ FirstOf(g, p, "kids") = IF k = 1 THEN y ELSE FirstOf(h, p, "kids")
       /\ LastOf(g, p, "kids") = IF k = L + 1 THEN y ELSE LastOf(h, p, "kids")
  <2>1. (k = 1 <=> n = 1) /\ k # L + 1  BY <1>12
  <2> QED BY <1>3, <1>11, <1>20, <2>1 DEF FirstOf, LastOf
<1>22. \A j \in 1 .. Len(h), r \in Roles : (j = p => r # "kids") =>
           FirstOf(g, j, r) = FirstOf(h, j, r) /\ LastOf(g, j, r) = LastOf(h, j, r)
  BY <1>3, <1>11 DEF FirstOf, LastOf, Roles
<1>23. k \in 1 .. Len(s) + 1 /\ "kids" \in Roles /\ IsTag(h, p)  BY <1>2, <1>3, <1>5 DEF Roles
<1>25. InsertsAt(h, g, p, "kids", s, k, y)
  BY <1>5, <1>16, <1>17, <1>18, <1>19, <1>21, <1>22 DEF InsertsAt
<1>24. Whole(g, out) /\ ListChanged(h, g, p, "kids", With(s, k, y))
  BY <1>4, <1>11, <1>23, <1>25, WholeInserted
<1>26. SameContent(h, g)  BY <1>11 DEF SameContent
<1>27. ListAt(h, p, "kids") = s  BY <1>1, <1>4, WalkOfList
<1> QED BY <1>3, <1>5, <1>6, <1>9, <1>11, <1>12, <1>24, <1>26, <1>27

LEMMA WholeHidden ==
    ASSUME NEW h, NEW out, Whole(h, out), NEW x \in (1 .. Len(h)) \ out,
           h[x].parent # NULL, Role(h, x) = "kids"
    PROVE  /\ Whole(Hidden(h, x), out \cup {x}) /\ SameContent(h, Hidden(h, x))
           /\ Len(Hidden(h, x)) = Len(h)
           /\ LET s == ListAt(h, h[x].parent, "kids")
              IN  \E k \in 1 .. Len(s) :
                  s[k] = x /\ ListChanged(h, Hidden(h, x), h[x].parent, "kids", Without(s, k))
<1>1. Len(h) \in Nat /\ h \in Seq(NodeRec(0 .. Len(h)))  BY DEF Whole
<1>2. h[x].parent \in 1 .. Len(h) /\ IsTag(h, h[x].parent)
  <2>1. h[x].parent \in 0 .. Len(h)  BY LinksTyped
  <2> QED BY <1>1, <2>1 DEF Whole, NULL
<1>3. PICK p \in 1 .. Len(h) : p = h[x].parent /\ p # NULL  BY <1>2 DEF NULL
<1>4. PICK s : ListOf(h, p, "kids", s) /\ Complete(h, p, "kids", out, s)
  BY <1>2, <1>3 DEF Whole, HasList, Roles
<1>9. PICK g : g = Hidden(h, x)  OBVIOUS
<1>5. PICK L \in Nat : /\ L = Len(s) /\ s \in Seq(1 .. Len(h)) /\ DOMAIN s = 1 .. L
                      /\ h[p].first = At(s, 1) /\ h[p].last = At(s, L)
  BY ONLY <1>4 DEF ListOf, IsList, FirstOf, LastOf
<1>6. PICK k \in 1 .. L : s[k] = x  BY <1>3, <1>4, <1>5 DEF Complete
<1>7. \A i \in 1 .. L : s[i] \in 1 .. Len(h)  BY <1>5
<1>8. \A i, j \in 1 .. L : s[i] = s[j] => i = j  BY <1>4, <1>5 DEF ListOf, IsList, IsInjective
<1>10. {h[x].next, h[x].prev} \subseteq 0 .. Len(h) /\ x \in 1 .. Len(h)  BY LinksTyped
<1>11. /\ g \in Seq(NodeRec(0 .. Len(h))) /\ Len(g) = Len(h)
       /\ \A j \in 1 .. Len(h) :
           /\ g[j].next = IF j = h[x].prev THEN h[x].next ELSE h[j].next
           /\ g[j].prev = IF j = h[x].next THEN h[x].prev ELSE h[j].prev
           /\ g[j].first = IF j = p /\ h[p].first = x THEN h[x].next ELSE h[j].first
           /\ g[j].last = IF j = p /\ h[p].last = x THEN h[x].prev ELSE h[j].last
       /\ \A j \in 1 .. Len(h), e \in Fields \ {"next", "prev", "first", "last"} : g[j][e] = h[j][e]
  <2>1. PICK P : P = 0 .. Len(h)  OBVIOUS
  <2>2. h \in Seq(NodeRec(P)) /\ {h[x].next, h[x].prev} \subseteq P  BY <1>1, <1>10, <2>1
  <2> QED BY ONLY <1>3, <1>9, <1>10, <2>1, <2>2, HiddenEffect
<1>12. /\ h[x].next = IF k = L THEN NULL ELSE s[k + 1]
       /\ h[x].prev = IF k = 1 THEN NULL ELSE s[k - 1]  BY <1>4, <1>5, <1>6 DEF ListOf, IsList
<1>13. (k # L => k + 1 \in 1 .. L) /\ (k # 1 => k - 1 \in 1 .. L)  OBVIOUS
<1>14. h[x].next = At(s, k + 1) /\ h[x].prev = At(s, k - 1)  BY <1>5, <1>12, <1>13 DEF At
<1>15. ASSUME NEW i \in 1 .. L
       PROVE  /\ g[s[i]].next = IF i = k - 1 THEN At(s, k + 1) ELSE h[s[i]].next
              /\ g[s[i]].prev = IF i = k + 1 THEN At(s, k - 1) ELSE h[s[i]].prev
  <2>1. s[i] \in 1 .. Len(h)  BY <1>7
  <2>2. s[i] = h[x].prev <=> i = k - 1
    <3>1. CASE k = 1  BY <1>12, <2>1, <3>1 DEF NULL
    <3>2. CASE k # 1  BY <1>8, <1>12, <1>13, <3>2
    <3> QED BY <3>1, <3>2
  <2>3. s[i] = h[x].next <=> i = k + 1
    <3>1. CASE k = L  BY <1>12, <2>1, <3>1 DEF NULL
    <3>2. CASE k # L  BY <1>8, <1>12, <1>13, <3>2
    <3> QED BY <3>1, <3>2
  <2>4. g[s[i]].next = IF i = k - 1 THEN At(s, k + 1) ELSE h[s[i]].next  BY <1>11, <1>14, <2>1, <2>2
  <2>5. g[s[i]].prev = IF i = k + 1 THEN At(s, k - 1) ELSE h[s[i]].prev  BY <1>11, <1>14, <2>1, <2>3
  <2> QED BY <2>4, <2>5
<1>16. ASSUME NEW j \in 1 .. Len(h), \A i \in 1 .. L : s[i] # j
       PROVE  g[j].next = h[j].next /\ g[j].prev = h[j].prev
  <2>1. j # h[x].next /\ j # h[x].prev  BY <1>12, <1>13, <1>16 DEF NULL
  <2> QED BY <1>11, <2>1
<1>17. {"type", "parent"} \cup ({"first", "last", "attribs", "lastAttrib"} \ {"first", "last"})
          \subseteq Fields \ {"next", "prev", "first", "last"}
  BY DEF Fields, LinkFields, Content
<1>18. \A j \in 1 .. Len(h) : g[j].type = h[j].type /\ g[j].parent = h[j].parent  BY <1>11, <1>17
<1>19. /\ FirstOf(g, p, "kids") = IF k = 1 THEN At(s, 2) ELSE FirstOf(h, p, "kids")
       /\ LastOf(g, p, "kids") = IF k = L THEN At(s, k - 1) ELSE LastOf(h, p, "kids")
  <2>1. h[p].first = s[1] /\ h[p].last = s[L] /\ 1 \in 1 .. L /\ L \in 1 .. L  BY <1>5 DEF At
  <2>2. (h[p].first = x <=> k = 1) /\ (h[p].last = x <=> k = L)  BY <1>6, <1>8, <2>1
  <2>3. g[p].first = IF k = 1 THEN h[x].next ELSE h[p].first  BY <1>11, <2>2
  <2>4. g[p].last = IF k = L THEN h[x].prev ELSE h[p].last  BY <1>11, <2>2
  <2>5. k = 1 => k + 1 = 2  OBVIOUS
  <2> QED BY <1>14, <2>3, <2>4, <2>5 DEF FirstOf, LastOf
<1>20. \A j \in 1 .. Len(h), r \in Roles : (j = p => r # "kids") =>
           FirstOf(g, j, r) = FirstOf(h, j, r) /\ LastOf(g, j, r) = LastOf(h, j, r)
  <2> TAKE j \in 1 .. Len(h), r \in Roles
  <2>1. CASE r = "kids"  BY <1>11, <2>1 DEF FirstOf, LastOf
  <2>2. CASE r # "kids"  BY <1>11, <1>17, <2>2 DEF FirstOf, LastOf, Roles
  <2> QED BY <2>1, <2>2
<1>21. k \in 1 .. Len(s) /\ "kids" \in Roles /\ IsTag(h, p)  BY <1>2, <1>3, <1>5 DEF Roles
<1>22. out \subseteq (out \cup {x}) /\ ("kids" = "kids" => s[k] \in (out \cup {x}))  BY <1>6
<1>24. RemovesAt(h, g, p, "kids", s, k)
  BY <1>5, <1>15, <1>16, <1>18, <1>19, <1>20 DEF RemovesAt
<1>23. Whole(g, (out \cup {x})) /\ ListChanged(h, g, p, "kids", Without(s, k))
  BY <1>4, <1>11, <1>21, <1>22, <1>24, WholeRemoved
<1>25. SameContent(h, g)
  <2>1. {"type", "name", "text"} \subseteq Fields \ {"next", "prev", "first", "last"}
    BY DEF Fields, LinkFields, Content
  <2> QED BY <1>11, <2>1 DEF SameContent
<1>26. ListAt(h, p, "kids") = s  BY <1>1, <1>4, WalkOfList
<1> QED BY <1>3, <1>5, <1>6, <1>9, <1>11, <1>23, <1>25, <1>26

LEMMA WholeAttribOut ==
    ASSUME NEW h, NEW out, Whole(h, out), NEW p \in 1 .. Len(h), IsTag(h, p), NEW s,
           ListOf(h, p, "attribs", s), NEW x \in 1 .. Len(h), \E k \in 1 .. Len(s) : s[k] = x
    PROVE  /\ Whole(AttribOut(h, x, p), out) /\ SameContent(h, AttribOut(h, x, p))
           /\ Len(AttribOut(h, x, p)) = Len(h)
           /\ \E k \in 1 .. Len(s) :
               s[k] = x /\ ListChanged(h, AttribOut(h, x, p), p, "attribs", Without(s, k))
<1>1. Len(h) \in Nat /\ h \in Seq(NodeRec(0 .. Len(h)))  BY DEF Whole
<1>2. IsTag(h, p)  OBVIOUS
<1>3. TRUE  OBVIOUS
<1>4. /\ ListOf(h, p, "attribs", s) /\ Complete(h, p, "attribs", out, s)
      /\ \E k \in 1 .. Len(s) : s[k] = x  BY DEF Complete
<1>9. PICK g : g = AttribOut(h, x, p)  OBVIOUS
<1>5. PICK L \in Nat : /\ L = Len(s) /\ s \in Seq(1 .. Len(h)) /\ DOMAIN s = 1 .. L
                      /\ h[p].attribs = At(s, 1) /\ h[p].lastAttrib = At(s, L)
  BY <1>4 DEF ListOf, IsList, FirstOf, LastOf
<1>6. PICK k \in 1 .. L : s[k] = x  BY <1>4, <1>5
<1>7. \A i \in 1 .. L : s[i] \in 1 .. Len(h)  BY <1>5
<1>8. \A i, j \in 1 .. L : s[i] = s[j] => i = j  BY <1>4, <1>5 DEF ListOf, IsList, IsInjective
<1>10. {h[x].next, h[x].prev} \subseteq 0 .. Len(h) /\ x \in 1 .. Len(h)  BY LinksTyped
<1>11. /\ g \in Seq(NodeRec(0 .. Len(h))) /\ Len(g) = Len(h)
       /\ \A j \in 1 .. Len(h) :
           /\ g[j].next = IF j = h[x].prev THEN h[x].next ELSE h[j].next
           /\ g[j].prev = IF j = h[x].next THEN h[x].prev ELSE h[j].prev
           /\ g[j].attribs = IF j = p /\ h[p].attribs = x THEN h[x].next ELSE h[j].attribs
           /\ g[j].lastAttrib = IF j = p /\ h[p].lastAttrib = x THEN h[x].prev ELSE h[j].lastAttrib
       /\ \A j \in 1 .. Len(h), e \in Fields \ {"next", "prev", "attribs", "lastAttrib"} : g[j][e] = h[j][e]
  <2>1. h \in Seq(NodeRec(0 .. Len(h))) /\ x \in 1 .. Len(h) /\ p \in 1 .. Len(h)  BY <1>1
  <2> QED BY ONLY <1>9, <1>10, <2>1, AttribOutEffect, SMTT(30)
<1>12. /\ h[x].next = IF k = L THEN NULL ELSE s[k + 1]
       /\ h[x].prev = IF k = 1 THEN NULL ELSE s[k - 1]  BY <1>4, <1>5, <1>6 DEF ListOf, IsList
<1>13. (k # L => k + 1 \in 1 .. L) /\ (k # 1 => k - 1 \in 1 .. L)  OBVIOUS
<1>14. h[x].next = At(s, k + 1) /\ h[x].prev = At(s, k - 1)  BY <1>5, <1>12, <1>13, SMTT(30) DEF At
<1>15. ASSUME NEW i \in 1 .. L
       PROVE  /\ g[s[i]].next = IF i = k - 1 THEN At(s, k + 1) ELSE h[s[i]].next
              /\ g[s[i]].prev = IF i = k + 1 THEN At(s, k - 1) ELSE h[s[i]].prev
  <2>1. s[i] \in 1 .. Len(h)  BY <1>7
  <2>2. s[i] = h[x].prev <=> i = k - 1
    <3>1. CASE k = 1  BY <1>12, <2>1, <3>1 DEF NULL
    <3>2. CASE k # 1  BY <1>8, <1>12, <1>13, <3>2
    <3> QED BY <3>1, <3>2
  <2>3. s[i] = h[x].next <=> i = k + 1
    <3>1. CASE k = L  BY <1>12, <2>1, <3>1 DEF NULL
    <3>2. CASE k # L  BY <1>8, <1>12, <1>13, <3>2
    <3> QED BY <3>1, <3>2
  <2>4. g[s[i]].next = IF i = k - 1 THEN At(s, k + 1) ELSE h[s[i]].next  BY <1>11, <1>14, <2>1, <2>2
  <2>5. g[s[i]].prev = IF i = k + 1 THEN At(s, k - 1) ELSE h[s[i]].prev  BY <1>11, <1>14, <2>1, <2>3
  <2> QED BY <2>4, <2>5
<1>16. ASSUME NEW j \in 1 .. Len(h), \A i \in 1 .. L : s[i] # j
       PROVE  g[j].next = h[j].next /\ g[j].prev = h[j].prev
  <2>1. j # h[x].next /\ j # h[x].prev  BY <1>12, <1>13, <1>16 DEF NULL
  <2> QED BY <1>11, <2>1
<1>17. {"type", "parent"} \cup ({"first", "last", "attribs", "lastAttrib"} \ {"attribs", "lastAttrib"})
          \subseteq Fields \ {"next", "prev", "attribs", "lastAttrib"}
  BY DEF Fields, LinkFields, Content
<1>18. \A j \in 1 .. Len(h) : g[j].type = h[j].type /\ g[j].parent = h[j].parent  BY <1>11, <1>17
<1>19. /\ FirstOf(g, p, "attribs") = IF k = 1 THEN At(s, 2) ELSE FirstOf(h, p, "attribs")
       /\ LastOf(g, p, "attribs") = IF k = L THEN At(s, k - 1) ELSE LastOf(h, p, "attribs")
  <2>1. h[p].attribs = s[1] /\ h[p].lastAttrib = s[L] /\ 1 \in 1 .. L /\ L \in 1 .. L  BY <1>5 DEF At
  <2>2. (h[p].attribs = x <=> k = 1) /\ (h[p].lastAttrib = x <=> k = L)  BY <1>6, <1>8, <2>1
  <2>3. g[p].attribs = IF k = 1 THEN h[x].next ELSE h[p].attribs  BY <1>11, <2>2
  <2>4. g[p].lastAttrib = IF k = L THEN h[x].prev ELSE h[p].lastAttrib  BY <1>11, <2>2
  <2>5. k = 1 => k + 1 = 2  OBVIOUS
  <2> QED BY <1>14, <2>3, <2>4, <2>5 DEF FirstOf, LastOf
<1>20. \A j \in 1 .. Len(h), r \in Roles : (j = p => r # "attribs") =>
           FirstOf(g, j, r) = FirstOf(h, j, r) /\ LastOf(g, j, r) = LastOf(h, j, r)
  <2> TAKE j \in 1 .. Len(h), r \in Roles
  <2>1. CASE r = "attribs"  BY <1>11, <2>1 DEF FirstOf, LastOf
  <2>2. CASE r # "attribs"  BY <1>11, <1>17, <2>2, SMTT(30) DEF FirstOf, LastOf, Roles
  <2> QED BY <2>1, <2>2
<1>21. k \in 1 .. Len(s) /\ "attribs" \in Roles /\ IsTag(h, p)  BY <1>2, <1>3, <1>5 DEF Roles
<1>22. out \subseteq out /\ ("attribs" = "kids" => s[k] \in out)  BY <1>6
<1>24. RemovesAt(h, g, p, "attribs", s, k)
  BY <1>5, <1>15, <1>16, <1>18, <1>19, <1>20 DEF RemovesAt
<1>23. Whole(g, out) /\ ListChanged(h, g, p, "attribs", Without(s, k))
  BY <1>4, <1>11, <1>21, <1>22, <1>24, WholeRemoved
<1>25. SameContent(h, g)
  <2>1. {"type", "name", "text"} \subseteq Fields \ {"next", "prev", "attribs", "lastAttrib"}
    BY DEF Fields, LinkFields, Content
  <2> QED BY <1>11, <2>1 DEF SameContent
<1> QED BY <1>5, <1>6, <1>9, <1>11, <1>23, <1>25

-----------------------------------------------------------------------------
(* The calls.                                                              *)

LEMMA NodeTyped ==
    ASSUME NEW type \in {"TAG", "CDATA", "ATTRIBUTE"}, NEW name \in Seq(STRING),
           NEW text \in Seq(STRING)
    PROVE  /\ Node(type, name, text) \in NodeRec({NULL})
           /\ Node(type, name, text).type = type
BY DEF Node, NodeRec

LEMMA NodesTyped ==
    ASSUME NEW P, NEW Q, P \subseteq Q
    PROVE  NodeRec(P) \subseteq NodeRec(Q)
BY DEF NodeRec

\* A new node is by itself: no list has it, and a tag has empty lists.
LEMMA WholeAppended ==
    ASSUME NEW h, NEW out, Whole(h, out), NEW n \in NodeRec({NULL})
    PROVE  /\ Whole(Append(h, n), out)
           /\ Len(Append(h, n)) = Len(h) + 1 /\ Append(h, n)[Len(h) + 1] = n
<1>1. PICK L \in Nat : L = Len(h) /\ h \in Seq(NodeRec(0 .. L))  BY DEF Whole
<1>2. PICK g : g = Append(h, n)  OBVIOUS
<1>3. /\ g \in Seq(NodeRec(0 .. (L + 1))) /\ Len(g) = L + 1 /\ g[L + 1] = n
      /\ \A j \in 1 .. L : g[j] = h[j] /\ j \in 1 .. Len(g)
  <2>1. NodeRec({NULL}) \subseteq NodeRec(0 .. (L + 1))  BY NodesTyped DEF NULL
  <2>2. NodeRec(0 .. L) \subseteq NodeRec(0 .. (L + 1))  BY NodesTyped
  <2>3. h \in Seq(NodeRec(0 .. (L + 1)))  BY <1>1, <2>2
  <2>4. n \in NodeRec(0 .. (L + 1))  BY <2>1
  <2>5. PICK S : S = NodeRec(0 .. (L + 1))  OBVIOUS
  <2>6. /\ g \in Seq(S) /\ Len(g) = L + 1 /\ g[L + 1] = n
        /\ \A j \in 1 .. L : g[j] = h[j]
    BY ONLY <1>1, <1>2, <2>3, <2>4, <2>5
  <2> QED BY <2>5, <2>6
<1>4. /\ n.next = NULL /\ n.prev = NULL /\ n.parent = NULL /\ n.first = NULL /\ n.last = NULL
      /\ n.attribs = NULL /\ n.lastAttrib = NULL
  BY DEF NodeRec
<1>5. \A j \in 1 .. L : h[j].parent \in 0 .. L  BY <1>1, LinksTyped
<1>6. ASSUME NEW y \in 1 .. Len(g)
      PROVE  IF g[y].parent = NULL THEN g[y].next = NULL /\ g[y].prev = NULL
             ELSE IsTag(g, g[y].parent)
  <2>1. CASE y = L + 1  BY <1>3, <1>4, <2>1
  <2>2. CASE y # L + 1
    <3>1. y \in 1 .. L /\ g[y] = h[y]  BY <1>3, <2>2
    <3>2. CASE h[y].parent = NULL  BY <1>1, <3>1, <3>2 DEF Whole
    <3>3. CASE h[y].parent # NULL
      <4>1. IsTag(h, h[y].parent)  BY <1>1, <3>1, <3>3 DEF Whole
      <4>2. h[y].parent \in 1 .. L  BY <1>5, <3>1, <3>3 DEF NULL
      <4> QED BY <1>3, <3>1, <3>3, <4>1, <4>2 DEF IsTag
    <3> QED BY <3>2, <3>3
  <2> QED BY <2>1, <2>2
<1>7. ASSUME NEW x \in 1 .. Len(g), NEW r \in Roles, IsTag(g, x)
      PROVE  HasList(g, out, x, r)
  <2>1. CASE x = L + 1
    <3>1. FirstOf(g, x, r) = NULL /\ LastOf(g, x, r) = NULL  BY <1>3, <1>4, <2>1 DEF FirstOf, LastOf
    <3>2. IsList(g, NULL, NULL, <<>>)  BY DEF IsList, IsInjective, At
    <3>3. ListOf(g, x, r, <<>>)  BY <3>1, <3>2 DEF ListOf
    <3>4. Complete(g, x, r, out, <<>>)
      <4>1. \A y \in 1 .. Len(g) : g[y].parent # x
        <5> TAKE y \in 1 .. Len(g)
        <5>1. CASE y = L + 1  BY <1>3, <1>4, <2>1, <5>1 DEF NULL
        <5>2. CASE y # L + 1
          <6>1. y \in 1 .. L  BY <1>3, <5>2
          <6> QED BY <1>3, <1>5, <2>1, <6>1
        <5> QED BY <5>1, <5>2
      <4> QED BY <4>1 DEF Complete
    <3> QED BY <3>3, <3>4 DEF HasList
  <2>2. CASE x # L + 1
    <3>1. x \in 1 .. L /\ g[x] = h[x]  BY <1>3, <2>2
    <3>2. IsTag(h, x)  BY <1>7, <3>1 DEF IsTag
    <3>3. PICK s : ListOf(h, x, r, s) /\ Complete(h, x, r, out, s)  BY <1>1, <3>1, <3>2 DEF Whole, HasList
    <3>4. FirstOf(g, x, r) = FirstOf(h, x, r) /\ LastOf(g, x, r) = LastOf(h, x, r)
      BY <3>1 DEF FirstOf, LastOf
    <3>5. Len(h) \in Nat /\ Len(g) \in Nat /\ Len(h) <= Len(g)  BY <1>1, <1>3
    <3>6. \A j \in 1 .. Len(h) : h[j].parent = x /\ Role(h, j) = r =>
               /\ g[j].next = h[j].next /\ g[j].prev = h[j].prev
               /\ g[j].parent = h[j].parent /\ g[j].type = h[j].type
      BY <1>1, <1>3
    <3>7. ListOf(g, x, r, s)  BY ONLY <3>3, <3>4, <3>5, <3>6, ListOfKept
    <3>8. Complete(g, x, r, out, s)
      <4>1. ASSUME r = "kids", NEW y \in (1 .. Len(g)) \ out, g[y].parent = x, Role(g, y) = r
            PROVE  \E i \in 1 .. Len(s) : s[i] = y
        <5>1. y # L + 1  BY <1>3, <1>4, <3>1, <4>1 DEF NULL
        <5>2. y \in (1 .. L) \ out /\ g[y] = h[y]  BY <1>3, <4>1, <5>1
        <5>3. h[y].parent = x /\ Role(h, y) = r  BY <4>1, <5>2 DEF Role
        <5> QED BY <1>1, <3>3, <4>1, <5>2, <5>3 DEF Complete
      <4> QED BY <4>1 DEF Complete
    <3> QED BY <3>7, <3>8 DEF HasList
  <2> QED BY <2>1, <2>2
<1>8. g \in Seq(NodeRec(0 .. Len(g)))  BY <1>3
<1>9. Whole(g, out)  BY <1>6, <1>7, <1>8 DEF Whole
<1> QED BY <1>1, <1>2, <1>3, <1>9

\* Another name, text or mark of a node: no list is different.
LEMMA WholeEdited ==
    ASSUME NEW h, NEW out, Whole(h, out), NEW x \in 1 .. Len(h), NEW r \in NodeRec(0 .. Len(h)),
           \A e \in LinkFields \cup {"type"} : r[e] = h[x][e],
           NEW g, g = [h EXCEPT ![x] = r]
    PROVE  Whole(g, out)
<1>1. h \in Seq(NodeRec(0 .. Len(h))) /\ Len(h) \in Nat  BY DEF Whole
<1>2. g \in Seq(NodeRec(0 .. Len(h))) /\ Len(g) = Len(h)  BY <1>1
<1>3. \A j \in 1 .. Len(h) : g[j] = IF j = x THEN r ELSE h[j]  BY <1>1
<1>4. \A j \in 1 .. Len(h), e \in LinkFields : g[j][e] = h[j][e]  BY <1>3
<1>5. \A j \in 1 .. Len(h) : g[j].type = h[j].type  BY <1>3
<1>6. out \subseteq out  OBVIOUS
<1> QED BY ONLY Whole(h, out), <1>2, <1>4, <1>5, <1>6, NothingRelinked

LEMMA WholeText ==
    ASSUME NEW h, NEW out, Whole(h, out), NEW x, NEW v \in Seq(STRING),
           NEW b \in BOOLEAN
    PROVE  /\ x \in 1 .. Len(h) => Whole([h EXCEPT ![x].text = @ \o v], out)
           /\ Whole([h EXCEPT ![x].text = v], out)
           /\ Whole([h EXCEPT ![x].broken = b], out)
<1>1. h \in Seq(NodeRec(0 .. Len(h))) /\ Len(h) \in Nat /\ DOMAIN h = 1 .. Len(h)  BY DEF Whole
<1>2. ASSUME NEW f \in {"text", "broken"}, NEW w, x \in 1 .. Len(h),
             w \in IF f = "text" THEN Seq(STRING) ELSE BOOLEAN
      PROVE  Whole([h EXCEPT ![x][f] = w], out)
  <2>1. PICK r : r = [h[x] EXCEPT ![f] = w]  OBVIOUS
  <2>2. h[x] \in NodeRec(0 .. Len(h))  BY <1>1, <1>2
  <2>3. r \in NodeRec(0 .. Len(h))
    <3>1. CASE f = "text"  BY <1>2, <2>1, <2>2, <3>1 DEF NodeRec
    <3>2. CASE f = "broken"  BY <1>2, <2>1, <2>2, <3>2 DEF NodeRec
    <3> QED BY <1>2, <3>1, <3>2
  <2>4. \A e \in LinkFields \cup {"type"} : r[e] = h[x][e]
    BY <1>2, <2>1, <2>2 DEF NodeRec, LinkFields
  <2>5. [h EXCEPT ![x][f] = w] = [h EXCEPT ![x] = r]  BY <2>1
  <2> QED BY <1>2, <2>3, <2>4, <2>5, WholeEdited
<1>3. x \notin 1 .. Len(h) => /\ [h EXCEPT ![x].text = v] = h
                             /\ [h EXCEPT ![x].broken = b] = h
  BY <1>1
<1>4. x \in 1 .. Len(h) => /\ Whole([h EXCEPT ![x].text = v], out)
                           /\ Whole([h EXCEPT ![x].broken = b], out)
  BY <1>2
<1>5. ASSUME x \in 1 .. Len(h) PROVE Whole([h EXCEPT ![x].text = @ \o v], out)
  <2>1. h[x] \in NodeRec(0 .. Len(h))  BY <1>1, <1>5
  <2>2. h[x].text \o v \in Seq(STRING)
    <3>1. h[x].text \in Seq(STRING)  BY <2>1 DEF NodeRec
    <3> QED BY <3>1
  <2>3. Whole([h EXCEPT ![x].text = h[x].text \o v], out)  BY <1>2, <1>5, <2>2
  <2> QED BY <2>3
<1> QED BY <1>3, <1>4, <1>5

\* iks_insert, and the node that iks_insert_cdata makes.
LEMMA WholeInsertedNode ==
    ASSUME NEW h, NEW out, Whole(h, out), NEW x \in 1 .. Len(h), IsTag(h, x),
           NEW n \in NodeRec({NULL}), n.type # "ATTRIBUTE"
    PROVE  Whole(LinkLast(Append(h, n), x, Made(h)), out)
<1>1. PICK L \in Nat : L = Len(h)  BY DEF Whole
<1>2. PICK g : g = Append(h, n)  OBVIOUS
<1>3. Whole(g, out) /\ Len(g) = L + 1 /\ g[L + 1] = n  BY <1>1, <1>2, WholeAppended
<1>4. h \in Seq(NodeRec(0 .. L))  BY <1>1 DEF Whole
<1>5. IsTag(g, x)  BY <1>1, <1>2, <1>4 DEF IsTag
<1>6. g[L + 1].parent = NULL /\ Role(g, L + 1) = "kids"  BY <1>3 DEF NodeRec, Role
<1>7. x \in 1 .. Len(g) /\ L + 1 \in 1 .. Len(g)  BY <1>1, <1>3
<1>8. Whole(LinkLast(g, x, L + 1), out)  BY ONLY <1>3, <1>5, <1>6, <1>7, WholeLast
<1> QED BY <1>1, <1>2, <1>8 DEF Made

\* iks_append, iks_prepend and the same for texts.
LEMMA WholeBeside ==
    ASSUME NEW h, NEW out, Whole(h, out), NEW x \in (1 .. Len(h)) \ out,
           h[x].parent # NULL, h[x].type # "ATTRIBUTE",
           NEW n \in NodeRec({NULL}), n.type # "ATTRIBUTE"
    PROVE  /\ Whole(LinkBehind(Append(h, n), x, Made(h)), out)
           /\ Whole(LinkBefore(Append(h, n), x, Made(h)), out)
<1>1. PICK L \in Nat : L = Len(h)  BY DEF Whole
<1>2. PICK g : g = Append(h, n)  OBVIOUS
<1>3. Whole(g, out) /\ Len(g) = L + 1 /\ g[L + 1] = n  BY <1>1, <1>2, WholeAppended
<1>4. h \in Seq(NodeRec(0 .. L))  BY <1>1 DEF Whole
<1>5. g[x] = h[x]  BY <1>1, <1>2, <1>4
<1>6. g[x].parent # NULL /\ Role(g, x) = "kids"  BY <1>5 DEF Role
<1>7. g[L + 1].parent = NULL /\ Role(g, L + 1) = "kids"  BY <1>3 DEF NodeRec, Role
<1>8. x \in (1 .. Len(g)) \ out /\ L + 1 \in 1 .. Len(g)  BY <1>1, <1>3
<1>9. Whole(LinkBehind(g, x, L + 1), out)  BY ONLY <1>3, <1>6, <1>7, <1>8, WholeBehind
<1>10. Whole(LinkBefore(g, x, L + 1), out)  BY ONLY <1>3, <1>6, <1>7, <1>8, WholeBefore
<1> QED BY <1>1, <1>2, <1>9, <1>10 DEF Made

\* What is found is an attribute of the list.
LEMMA AttribNamedInList ==
    ASSUME NEW h, NEW out, Whole(h, out), NEW x \in 1 .. Len(h), IsTag(h, x), NEW name,
           NEW y, y = AttribNamed(h, x, name), y # NULL
    PROVE  /\ y \in 1 .. Len(h)
           /\ \E s : ListOf(h, x, "attribs", s) /\ \E k \in 1 .. Len(s) : s[k] = y
<1>1. Len(h) \in Nat  BY DEF Whole
<1>2. PICK s : ListOf(h, x, "attribs", s)  BY DEF Whole, HasList, Roles
<1>3. IsList(h, h[x].attribs, h[x].lastAttrib, s)  BY <1>2 DEF ListOf, FirstOf, LastOf
<1>4. Chain(h, h[x].attribs, "next") = s  BY <1>1, <1>3, ListForwards
<1>5. s \in Seq(1 .. Len(h)) /\ Len(s) \in Nat  BY <1>3 DEF IsList
<1>6. PICK fits : fits = {i \in 1 .. Len(s) : s[i] \in {z \in 1 .. Len(h) : h[z].name = name}}
  OBVIOUS
<1>7. y = IF fits = {} THEN NULL ELSE s[Min(fits)]  BY <1>4, <1>6 DEF AttribNamed, FirstIn
<1>8. fits # {} /\ fits \in SUBSET Nat /\ fits \subseteq 1 .. Len(s)  BY <1>6, <1>7
<1>9. Min(fits) \in 1 .. Len(s)
  <2>1. \E m \in fits : \A k \in fits : m <= k  BY <1>8, Least
  <2>2. Min(fits) \in fits  BY <2>1 DEF Min
  <2> QED BY <1>8, <2>2
<1>10. y = s[Min(fits)]  BY <1>7, <1>8
<1> QED BY <1>2, <1>5, <1>9, <1>10

LEMMA WholeWithAttrib ==
    ASSUME NEW h, NEW out, Whole(h, out), NEW x \in 1 .. Len(h), IsTag(h, x),
           NEW name \in Seq(STRING)
    PROVE  Whole(WithAttrib(h, x, name), out)
<1>1. CASE AttribNamed(h, x, name) # NULL  BY <1>1 DEF WithAttrib
<1>2. CASE AttribNamed(h, x, name) = NULL
  <2>1. PICK L \in Nat : L = Len(h) /\ h \in Seq(NodeRec(0 .. L))  BY DEF Whole
  <2>2. PICK n : n = AttribNode(name)  OBVIOUS
  <2>3. n \in NodeRec({NULL}) /\ n.type = "ATTRIBUTE"
    <3>1. <<>> \in Seq(STRING) /\ "ATTRIBUTE" \in {"TAG", "CDATA", "ATTRIBUTE"}  OBVIOUS
    <3> QED BY <2>2, <3>1, NodeTyped DEF AttribNode
  <2>4. PICK g : g = Append(h, n)  OBVIOUS
  <2>5. Whole(g, out) /\ Len(g) = L + 1 /\ g[L + 1] = n  BY <2>1, <2>3, <2>4, WholeAppended
  <2>6. IsTag(g, x)  BY <2>1, <2>4 DEF IsTag
  <2>7. g[L + 1].parent = NULL /\ Role(g, L + 1) = "attribs"  BY <2>3, <2>5 DEF NodeRec, Role
  <2>8. x \in 1 .. Len(g) /\ L + 1 \in 1 .. Len(g)  BY <2>1, <2>5
  <2>9. Whole(LinkLastAttrib(g, x, L + 1), out)
    BY ONLY <2>5, <2>6, <2>7, <2>8, WholeLastAttrib
  <2> QED BY <1>2, <2>1, <2>2, <2>4, <2>9 DEF WithAttrib, Made
<1> QED BY <1>1, <1>2

\* iks_insert_attrib: with a value, without one, and without the memory for it.
LEMMA WholeAttribs ==
    ASSUME NEW h, NEW out, Whole(h, out), NEW x \in 1 .. Len(h), IsTag(h, x),
           NEW name \in Seq(STRING), NEW value \in Seq(STRING)
    PROVE  /\ Whole(InsertedAttrib(h, x, name, value), out)
           /\ LET g == WithAttrib(h, x, name)
              IN  Whole([g EXCEPT ![AttribNamed(g, x, name)].broken = TRUE], out)
           /\ Whole(RemovedAttrib(h, x, name), out)
<1>1. PICK g : g = WithAttrib(h, x, name)  OBVIOUS
<1>2. PICK y : y = AttribNamed(g, x, name)  OBVIOUS
<1>3. Whole(g, out)  BY <1>1, WholeWithAttrib
<1>4. PICK k : k = [g EXCEPT ![y].text = value]  OBVIOUS
<1>5. Whole(k, out)  BY <1>3, <1>4, WholeText
<1>6. Whole([k EXCEPT ![y].broken = FALSE], out)  BY <1>5, WholeText
<1>7. [g EXCEPT ![y].text = value, ![y].broken = FALSE] = [k EXCEPT ![y].broken = FALSE]
  BY ONLY <1>4
<1>8. Whole(InsertedAttrib(h, x, name, value), out)
  BY <1>1, <1>2, <1>6, <1>7 DEF InsertedAttrib
<1>9. Whole([g EXCEPT ![y].broken = TRUE], out)  BY <1>3, WholeText
<1>10. Whole(RemovedAttrib(h, x, name), out)
  <2>1. PICK z : z = AttribNamed(h, x, name)  OBVIOUS
  <2>2. CASE z = NULL  BY <2>1, <2>2 DEF RemovedAttrib
  <2>3. CASE z # NULL
    <3>1. z \in 1 .. Len(h)  BY <2>1, <2>3, AttribNamedInList
    <3>2. PICK s : ListOf(h, x, "attribs", s) /\ \E k2 \in 1 .. Len(s) : s[k2] = z
      BY <2>1, <2>3, AttribNamedInList
    <3>3. Whole(AttribOut(h, z, x), out)  BY <3>1, <3>2, WholeAttribOut
    <3>4. RemovedAttrib(h, x, name) = AttribOut(h, z, x)  BY <2>1, <2>3 DEF RemovedAttrib, AttribOut
    <3> QED BY <3>3, <3>4
  <2> QED BY <2>2, <2>3
<1> QED BY <1>1, <1>2, <1>8, <1>9, <1>10

\* iks_hide; a root has no list that it could be taken out of.
LEMMA WholeWithout ==
    ASSUME NEW h, NEW out, Whole(h, out), NEW x \in (1 .. Len(h)) \ out, h[x].type # "ATTRIBUTE"
    PROVE  Whole(Hidden(h, x), out \cup {x})
<1>1. CASE h[x].parent = NULL
  <2>1. h[x].next = NULL /\ h[x].prev = NULL  BY <1>1 DEF Whole
  <2>2. Hidden(h, x) = h  BY <1>1, <2>1 DEF Hidden, Bypassed
  <2>3. h \in Seq(NodeRec(0 .. Len(h)))  BY DEF Whole
  <2>4. out \subseteq out \cup {x}  OBVIOUS
  <2>5. Whole(h, out \cup {x})
    <3>1. PICK out2 : out2 = out \cup {x}  OBVIOUS
    <3>2. /\ \A j \in 1 .. Len(h), e \in LinkFields : h[j][e] = h[j][e]
          /\ \A j \in 1 .. Len(h) : h[j].type = h[j].type  OBVIOUS
    <3>3. Whole(h, out2)  BY <2>3, <2>4, <3>1, <3>2, NothingRelinked
    <3> QED BY <3>1, <3>3
  <2> QED BY <2>2, <2>5
<1>2. CASE h[x].parent # NULL
  <2>1. Role(h, x) = "kids"  BY DEF Role
  <2> QED BY <1>2, <2>1, WholeHidden
<1> QED BY <1>1, <1>2

-----------------------------------------------------------------------------
(* Walking along links of any shape: up to the root, for one.              *)

\* The rounds of a walk exist, whatever the links are.
LEMMA SomeReaches ==
    ASSUME NEW h, Len(h) \in Nat, NEW x, NEW link
    PROVE  \E f : Reaches(f, h, x, link)
<1> DEFINE Part(f, N) == f = [n \in 0 .. N |-> IF n = 0 THEN <<x>> ELSE Round(h, link, f[n - 1], n)]
           D == {n \in Nat : ~ \E f : Part(f, n)}
<1>1. SUFFICES D = {}  BY DEF Reaches
<1>2. SUFFICES ASSUME D # {} PROVE FALSE  OBVIOUS
<1>3. PICK m \in D : \A k \in D : m <= k
  <2>1. D \in SUBSET Nat  OBVIOUS
  <2> HIDE DEF D
  <2> QED BY <1>2, <2>1, Least
<1>4. m \in Nat /\ \A f : ~ Part(f, m)  BY <1>3
<1>5. CASE m = 0
  <2>1. PICK f : f = [n \in 0 .. 0 |-> <<x>>]  OBVIOUS
  <2>2. Part(f, 0)  BY <2>1
  <2> QED BY <1>4, <1>5, <2>2
<1>6. CASE m # 0
  <2>1. m - 1 \in Nat /\ m - 1 \notin D
    <3> HIDE DEF D
    <3> QED BY <1>3, <1>4, <1>6
  <2>2. PICK f : Part(f, m - 1)  BY <2>1
  <2>3. PICK g : g = [n \in 0 .. m |-> IF n = m THEN Round(h, link, f[m - 1], m) ELSE f[n]]  OBVIOUS
  <2>4. ASSUME NEW n \in 0 .. m
        PROVE  g[n] = IF n = 0 THEN <<x>> ELSE Round(h, link, g[n - 1], n)
    <3>1. CASE n = 0
      <4>1. f[0] = <<x>>  BY <2>1, <2>2
      <4> QED BY <1>4, <1>6, <2>3, <3>1, <4>1
    <3>2. CASE n = m
      <4>1. m - 1 \in 0 .. m /\ m - 1 # m  BY <1>4, <2>1
      <4> QED BY <1>6, <2>3, <3>2, <4>1
    <3>3. CASE n # 0 /\ n # m
      <4>1. n \in 0 .. m - 1 /\ n - 1 \in 0 .. m /\ n - 1 # m  BY <1>4, <3>3
      <4>2. g[n] = f[n] /\ g[n - 1] = f[n - 1]  BY <2>3, <3>3, <4>1
      <4>3. f[n] = Round(h, link, f[n - 1], n)  BY <2>2, <3>3, <4>1
      <4> QED BY <3>3, <4>2, <4>3
    <3> QED BY <3>1, <3>2, <3>3
  <2>5. Part(g, m)  BY <2>3, <2>4
  <2> QED BY <1>4, <2>5
<1> QED BY <1>5, <1>6

\* Links that lead to records of the heap, or nowhere.
Leads(h, link) == Len(h) \in Nat /\ \A j \in 1 .. Len(h) : h[j][link] \in 0 .. Len(h)

\* A round adds at most one record, at the end.
Longer(h, s, t) ==
    /\ s \in Seq(1 .. Len(h)) /\ t \in Seq(1 .. Len(h)) /\ Len(s) >= 1 /\ Len(t) >= Len(s)
    /\ \A i \in 1 .. Len(s) : t[i] = s[i]

LEMMA RoundTyped ==
    ASSUME NEW h, NEW link, Leads(h, link), NEW s \in Seq(1 .. Len(h)), Len(s) >= 1, NEW n
    PROVE  Longer(h, s, Round(h, link, s, n))
<1>1. PICK L \in Nat : L = Len(h)  BY DEF Leads
<1>2. Len(s) \in 1 .. Len(s) /\ s[Len(s)] \in 1 .. L  BY <1>1
<1>3. PICK y : y = h[s[Len(s)]][link]  OBVIOUS
<1>4. y \in 0 .. L  BY <1>1, <1>2, <1>3 DEF Leads
<1>5. CASE Round(h, link, s, n) = s  BY <1>5 DEF Longer
<1>6. CASE y # NULL /\ Round(h, link, s, n) = Append(s, y)
  <2>1. y \in 1 .. L  BY <1>4, <1>6 DEF NULL
  <2>2. PICK t : t = Append(s, y)  OBVIOUS
  <2>3. t \in Seq(1 .. L) /\ Len(t) = Len(s) + 1 /\ \A i \in 1 .. Len(s) : t[i] = s[i]
    BY <1>1, <2>1, <2>2
  <2>4. Len(t) >= Len(s)  BY <2>3
  <2> QED BY <1>1, <1>6, <2>2, <2>3, <2>4 DEF Longer
<1> QED BY <1>3, <1>5, <1>6 DEF Round

LEMMA RoundsTyped ==
    ASSUME NEW h, NEW link, Leads(h, link), NEW x \in 1 .. Len(h), NEW f, Reaches(f, h, x, link)
    PROVE  \A n \in 0 .. Len(h) :
               f[n] \in Seq(1 .. Len(h)) /\ Len(f[n]) >= 1 /\ f[n][1] = x
<1>1. PICK L \in Nat : L = Len(h)  BY DEF Leads
<1> DEFINE D == {n \in 0 .. L : ~ (f[n] \in Seq(1 .. L) /\ Len(f[n]) >= 1 /\ f[n][1] = x)}
<1>2. SUFFICES ASSUME D # {} PROVE FALSE  BY <1>1
<1>3. PICK m \in D : \A k \in D : m <= k
  <2>1. D \in SUBSET Nat  OBVIOUS
  <2> HIDE DEF D
  <2> QED BY <1>2, <2>1, Least
<1>4. CASE m = 0
  <2>1. f[0] = <<x>>  BY <1>1 DEF Reaches
  <2>2. PICK q : q = <<x>>  OBVIOUS
  <2>3. q \in Seq(1 .. L) /\ Len(q) = 1 /\ q[1] = x  BY <1>1, <2>2
  <2>4. f[m] = q  BY <1>4, <2>1, <2>2
  <2>5. f[m] \in Seq(1 .. L) /\ Len(f[m]) >= 1 /\ f[m][1] = x  BY <2>3, <2>4
  <2> QED BY <1>3, <2>5
<1>5. CASE m # 0
  <2>1. m \in 0 .. L /\ m - 1 \in 0 .. L /\ m - 1 \notin D  BY <1>1, <1>3, <1>5
  <2>2. f[m - 1] \in Seq(1 .. L) /\ Len(f[m - 1]) >= 1 /\ f[m - 1][1] = x  BY <2>1
  <2>3. f[m] = Round(h, link, f[m - 1], m)  BY <1>1, <1>5, <2>1 DEF Reaches
  <2>4. Longer(h, f[m - 1], f[m])  BY <1>1, <2>2, <2>3, RoundTyped
  <2>5. f[m] \in Seq(1 .. L) /\ Len(f[m]) >= 1 /\ f[m][1] = x  BY <1>1, <2>2, <2>4 DEF Longer
  <2> QED BY <1>3, <2>5
<1> QED BY <1>4, <1>5

\* Two sequences that differ in their first element alone.
SameRest(s, t) == Len(s) = Len(t) /\ \A i \in 2 .. Len(s) : s[i] = t[i]

LEMMA RoundSameRest ==
    ASSUME NEW h, NEW link, Leads(h, link), NEW s \in Seq(1 .. Len(h)), NEW t \in Seq(1 .. Len(h)),
           Len(s) >= 1, Len(t) >= 1, SameRest(s, t), h[s[1]][link] = h[t[1]][link], NEW n
    PROVE  SameRest(Round(h, link, s, n), Round(h, link, t, n))
<1>1. PICK L \in Nat : L = Len(h)  BY DEF Leads
<1>2. PICK k \in Nat : k = Len(s) /\ k = Len(t) /\ k >= 1  BY DEF SameRest
<1>3. PICK y : y = h[s[k]][link]  OBVIOUS
<1>4. y = h[t[k]][link]
  <2>1. CASE k = 1  BY <1>3, <2>1
  <2>2. CASE k # 1
    <3>1. k \in 2 .. Len(s)  BY <1>2, <2>2
    <3> QED BY <1>3, <3>1 DEF SameRest
  <2> QED BY <2>1, <2>2
<1>5. y \in 0 .. L
  <2>1. k \in 1 .. Len(s)  BY <1>2
  <2>2. s[k] \in 1 .. L  BY <1>1, <2>1
  <2> QED BY <1>1, <1>3, <2>2 DEF Leads
<1>6. CASE k < n \/ y = NULL  BY <1>2, <1>3, <1>4, <1>6 DEF Round
<1>7. CASE ~(k < n \/ y = NULL)
  <2>1. Round(h, link, s, n) = Append(s, y) /\ Round(h, link, t, n) = Append(t, y)
    BY <1>2, <1>3, <1>4, <1>7 DEF Round
  <2>2. y \in 1 .. L  BY <1>5, <1>7 DEF NULL
  <2>3. PICK u, v : u = Append(s, y) /\ v = Append(t, y)  OBVIOUS
  <2>4. /\ Len(u) = k + 1 /\ u[k + 1] = y /\ \A i \in 1 .. k : u[i] = s[i]
        /\ Len(v) = k + 1 /\ v[k + 1] = y /\ \A i \in 1 .. k : v[i] = t[i]
    <3>1. PICK T : T = 1 .. L  OBVIOUS
    <3>2. s \in Seq(T) /\ t \in Seq(T) /\ y \in T  BY <1>1, <2>2, <3>1
    <3>3. k \in Nat  OBVIOUS
    <3>4. Len(u) = k + 1 /\ u[k + 1] = y /\ \A i \in 1 .. k : u[i] = s[i]
      <4>1. s \in Seq(T) /\ y \in T /\ Len(s) = k /\ u = Append(s, y)  BY <1>2, <2>3, <3>2
      <4> QED BY ONLY <3>3, <4>1
    <3>5. Len(v) = k + 1 /\ v[k + 1] = y /\ \A i \in 1 .. k : v[i] = t[i]
      <4>1. t \in Seq(T) /\ y \in T /\ Len(t) = k /\ v = Append(t, y)  BY <1>2, <2>3, <3>2
      <4> QED BY ONLY <3>3, <4>1
    <3> QED BY <3>4, <3>5
  <2>5. ASSUME NEW i \in 2 .. k + 1 PROVE u[i] = v[i]
    <3>1. CASE i = k + 1  BY <2>4, <3>1
    <3>2. CASE i # k + 1
      <4>1. i \in 1 .. k /\ i \in 2 .. Len(s)  BY <1>2, <3>2
      <4> QED BY <2>4, <4>1 DEF SameRest
    <3> QED BY <3>1, <3>2
  <2> QED BY <2>1, <2>3, <2>4, <2>5 DEF SameRest
<1> QED BY <1>6, <1>7

\* Records with the same link: from the second on they are the same walk.
LEMMA SiblingWalks ==
    ASSUME NEW h, NEW link, Leads(h, link), NEW x \in 1 .. Len(h), NEW y \in 1 .. Len(h),
           h[x][link] = h[y][link]
    PROVE  SameRest(Chain(h, x, link), Chain(h, y, link))
<1>1. PICK L \in Nat : L = Len(h)  BY DEF Leads
<1>2. x # NULL /\ y # NULL  BY DEF NULL
<1>3. PICK f : Reaches(f, h, x, link) /\ Chain(h, x, link) = f[L]
  BY <1>1, <1>2, SomeReaches, ChainReaches
<1>4. PICK g : Reaches(g, h, y, link) /\ Chain(h, y, link) = g[L]
  BY <1>1, <1>2, SomeReaches, ChainReaches
<1>5. \A n \in 0 .. L : /\ f[n] \in Seq(1 .. L) /\ Len(f[n]) >= 1 /\ f[n][1] = x
                       /\ g[n] \in Seq(1 .. L) /\ Len(g[n]) >= 1 /\ g[n][1] = y
  BY <1>1, <1>3, <1>4, RoundsTyped
<1> DEFINE D == {n \in 0 .. L : ~SameRest(f[n], g[n])}
<1>6. SUFFICES ASSUME D # {} PROVE FALSE  BY <1>1, <1>3, <1>4
<1>7. PICK m \in D : \A k \in D : m <= k
  <2>1. D \in SUBSET Nat  OBVIOUS
  <2> HIDE DEF D
  <2> QED BY <1>6, <2>1, Least
<1>8. CASE m = 0
  <2>1. f[0] = <<x>> /\ g[0] = <<y>>  BY <1>1, <1>3, <1>4 DEF Reaches
  <2>2. Len(<<x>>) = 1 /\ Len(<<y>>) = 1  OBVIOUS
  <2>3. SameRest(f[m], g[m])  BY <1>8, <2>1, <2>2 DEF SameRest
  <2> QED BY <1>7, <2>3
<1>9. CASE m # 0
  <2>1. m \in 0 .. L /\ m - 1 \in 0 .. L /\ m - 1 \notin D
    <3>1. m \in 0 .. L  BY <1>7
    <3> HIDE DEF D
    <3> QED BY <1>1, <1>7, <1>9, <3>1
  <2>2. SameRest(f[m - 1], g[m - 1])  BY <2>1
  <2>3. f[m] = Round(h, link, f[m - 1], m) /\ g[m] = Round(h, link, g[m - 1], m)
    BY <1>1, <1>3, <1>4, <1>9, <2>1 DEF Reaches
  <2>4. PICK s, t : s = f[m - 1] /\ t = g[m - 1]  OBVIOUS
  <2>5. /\ s \in Seq(1 .. Len(h)) /\ Len(s) >= 1 /\ t \in Seq(1 .. Len(h)) /\ Len(t) >= 1
        /\ SameRest(s, t) /\ h[s[1]][link] = h[t[1]][link]
    BY <1>1, <1>5, <2>1, <2>2, <2>4
  <2>6. SameRest(Round(h, link, s, m), Round(h, link, t, m))  BY ONLY Leads(h, link), <2>5, RoundSameRest
  <2>7. SameRest(f[m], g[m])  BY <2>3, <2>4, <2>6
  <2> QED BY <1>7, <2>7
<1> QED BY <1>8, <1>9

\* y, and then s.
Before(t, y, s) == Len(t) = Len(s) + 1 /\ t[1] = y /\ \A i \in 1 .. Len(s) : t[i + 1] = s[i]

LEMMA RoundBefore ==
    ASSUME NEW h, NEW link, Leads(h, link), NEW s \in Seq(1 .. Len(h)), NEW t \in Seq(1 .. Len(h)),
           Len(s) >= 1, NEW y, Before(t, y, s), NEW n \in Int
    PROVE  Before(Round(h, link, t, n + 1), y, Round(h, link, s, n))
<1>1. PICK L \in Nat : L = Len(h)  BY DEF Leads
<1>2. PICK k \in Nat : k = Len(s) /\ Len(t) = k + 1 /\ k >= 1  BY DEF Before
<1>3. PICK z : z = h[s[k]][link]  OBVIOUS
<1>4. z = h[t[k + 1]][link] /\ z \in 0 .. L
  <2>1. s[k] \in 1 .. L /\ t[k + 1] = s[k]  BY <1>1, <1>2 DEF Before
  <2> QED BY <1>1, <1>3, <2>1 DEF Leads
<1>5. CASE k < n \/ z = NULL
  <2>1. Len(t) < n + 1 <=> k < n  BY <1>2
  <2> QED BY <1>2, <1>3, <1>4, <1>5, <2>1 DEF Round
<1>6. CASE ~(k < n \/ z = NULL)
  <2>1. Round(h, link, s, n) = Append(s, z) /\ Round(h, link, t, n + 1) = Append(t, z)
    BY <1>2, <1>3, <1>4, <1>6 DEF Round
  <2>2. z \in 1 .. L  BY <1>4, <1>6, SMTT(30) DEF NULL
  <2>3. PICK u, v : u = Append(s, z) /\ v = Append(t, z)  OBVIOUS
  <2>4. /\ Len(u) = k + 1 /\ u[k + 1] = z /\ \A i \in 1 .. k : u[i] = s[i]
        /\ Len(v) = k + 2 /\ v[k + 2] = z /\ \A i \in 1 .. k + 1 : v[i] = t[i]
    BY <1>1, <1>2, <2>2, <2>3
  <2>5. ASSUME NEW i \in 1 .. k + 1 PROVE v[i + 1] = u[i]
    <3>1. CASE i = k + 1  BY <2>4, <3>1
    <3>2. CASE i # k + 1
      <4>1. i \in 1 .. k /\ i + 1 \in 1 .. k + 1  BY <1>2, <3>2
      <4> QED BY <1>2, <2>4, <4>1 DEF Before
    <3> QED BY <3>1, <3>2
  <2>6. v[1] = y  BY <1>2, <2>4 DEF Before
  <2>7. Len(v) = Len(u) + 1 /\ 1 .. Len(u) = 1 .. k + 1  BY <1>2, <2>4
  <2>8. Before(v, y, u)  BY <2>5, <2>6, <2>7 DEF Before
  <2> QED BY <2>1, <2>3, <2>8
<1> QED BY <1>5, <1>6

\* A record whose link leads to x walks where x walks.
LEMMA ChildWalks ==
    ASSUME NEW h, NEW link, Leads(h, link), NEW x \in 1 .. Len(h), NEW y \in 1 .. Len(h),
           h[y][link] = x, NEW i \in 2 .. Len(Chain(h, y, link))
    PROVE  \E j \in 1 .. Len(Chain(h, x, link)) : Chain(h, x, link)[j] = Chain(h, y, link)[i]
<1>1. PICK L \in Nat : L = Len(h) /\ L >= 1  BY DEF Leads
<1>2. x # NULL /\ y # NULL  BY DEF NULL
<1>3. PICK f : Reaches(f, h, x, link) /\ Chain(h, x, link) = f[L]
  BY <1>1, <1>2, SomeReaches, ChainReaches
<1>4. PICK g : Reaches(g, h, y, link) /\ Chain(h, y, link) = g[L]
  BY <1>1, <1>2, SomeReaches, ChainReaches
<1>5. \A n \in 0 .. L : /\ f[n] \in Seq(1 .. L) /\ Len(f[n]) >= 1 /\ f[n][1] = x
                       /\ g[n] \in Seq(1 .. L) /\ Len(g[n]) >= 1 /\ g[n][1] = y
  BY <1>1, <1>3, <1>4, RoundsTyped
<1> DEFINE D == {n \in 0 .. L - 1 : ~Before(g[n + 1], y, f[n])}
<1>6. D = {}
  <2>1. SUFFICES ASSUME D # {} PROVE FALSE  OBVIOUS
  <2>2. PICK m \in D : \A k \in D : m <= k
    <3>1. D \in SUBSET Nat  OBVIOUS
    <3> HIDE DEF D
    <3> QED BY <2>1, <3>1, Least
  <2>3. m \in 0 .. L - 1  BY <2>2
  <2>4. CASE m = 0
    <3>1. f[0] = <<x>> /\ g[0] = <<y>> /\ g[1] = Round(h, link, <<y>>, 1)
      <4>1. 0 \in 0 .. L /\ 1 \in 0 .. L /\ 1 - 1 = 0 /\ 1 # 0  BY <1>1
      <4>2. f[0] = <<x>> /\ g[0] = <<y>>  BY <1>1, <1>3, <1>4, <4>1 DEF Reaches
      <4>3. g[1] = Round(h, link, g[1 - 1], 1)  BY <1>1, <1>4, <4>1 DEF Reaches
      <4> QED BY <4>1, <4>2, <4>3
    <3>2. g[1] = Append(<<y>>, x)  BY <1>2, <3>1 DEF Round
    <3>3. PICK u, v : u = <<x>> /\ v = Append(<<y>>, x)  OBVIOUS
    <3>4. Len(u) = 1 /\ u[1] = x /\ Len(v) = 2 /\ v[1] = y /\ v[2] = x  BY <3>3
    <3>5. Before(v, y, u)  BY <3>4 DEF Before
    <3>6. Before(g[m + 1], y, f[m])
      <4>1. m + 1 = 1  BY <2>4
      <4>2. g[m + 1] = v /\ f[m] = u  BY <2>4, <3>1, <3>2, <3>3, <4>1
      <4> QED BY <3>5, <4>2
    <3> QED BY <2>2, <3>6
  <2>5. CASE m # 0
    <3>1. m - 1 \in 0 .. L - 1 /\ m - 1 \notin D
      <4> HIDE DEF D
      <4> QED BY <1>1, <2>2, <2>3, <2>5
    <3>2. Before(g[m], y, f[m - 1])
      <4>1. Before(g[(m - 1) + 1], y, f[m - 1])  BY <3>1
      <4>2. (m - 1) + 1 = m  BY <2>3
      <4> QED BY <4>1, <4>2
    <3>3. m \in 0 .. L /\ m + 1 \in 0 .. L /\ m - 1 \in 0 .. L /\ m + 1 # 0  BY <1>1, <2>3, <3>1
    <3>4. f[m] = Round(h, link, f[m - 1], m)  BY <1>1, <1>3, <2>5, <3>3 DEF Reaches
    <3>5. g[m + 1] = Round(h, link, g[m], m + 1)
      <4>1. g[m + 1] = Round(h, link, g[(m + 1) - 1], m + 1)  BY <1>1, <1>4, <3>3 DEF Reaches
      <4>2. (m + 1) - 1 = m  BY <2>3
      <4> QED BY <4>1, <4>2
    <3>6. Before(g[m + 1], y, f[m])
      <4>1. m \in Int  BY <2>3
      <4> QED BY <1>1, <1>5, <3>2, <3>3, <3>4, <3>5, <4>1, RoundBefore
    <3> QED BY <2>2, <3>6
  <2> QED BY <2>4, <2>5
<1>7. Before(g[L], y, f[L - 1])
  <2>1. L - 1 \in 0 .. L - 1 /\ (L - 1) + 1 = L  BY <1>1
  <2>2. Before(g[(L - 1) + 1], y, f[L - 1])  BY <1>6, <2>1
  <2> QED BY <2>1, <2>2
<1>8. Longer(h, f[L - 1], f[L])
  <2>1. L \in 0 .. L /\ L - 1 \in 0 .. L /\ L # 0  BY <1>1
  <2>2. f[L] = Round(h, link, f[L - 1], L)  BY <1>1, <1>3, <2>1 DEF Reaches
  <2>3. f[L - 1] \in Seq(1 .. Len(h)) /\ Len(f[L - 1]) >= 1  BY <1>1, <1>5, <2>1
  <2> QED BY <2>2, <2>3, RoundTyped
<1>9. i - 1 \in 1 .. Len(f[L - 1]) /\ g[L][i] = f[L - 1][i - 1]
  <2>1. f[L - 1] \in Seq(1 .. Len(h))  BY <1>8 DEF Longer
  <2>2. Len(f[L - 1]) \in Nat  BY <2>1
  <2>3. Len(g[L]) = Len(f[L - 1]) + 1  BY <1>7 DEF Before
  <2>4. i \in Int /\ 2 <= i /\ i <= Len(f[L - 1]) + 1  BY <1>4, <2>2, <2>3
  <2>5. i - 1 \in 1 .. Len(f[L - 1]) /\ (i - 1) + 1 = i  BY <2>2, <2>4
  <2>6. g[L][(i - 1) + 1] = f[L - 1][i - 1]  BY <1>7, <2>5 DEF Before
  <2> QED BY <2>5, <2>6
<1>10. i - 1 \in 1 .. Len(f[L]) /\ f[L][i - 1] = f[L - 1][i - 1]
  <2>1. Len(f[L]) \in Nat /\ Len(f[L - 1]) \in Nat /\ Len(f[L]) >= Len(f[L - 1])  BY <1>8 DEF Longer
  <2>2. i - 1 \in Int /\ 1 <= i - 1 /\ i - 1 <= Len(f[L - 1])  BY <1>9, <2>1
  <2>3. i - 1 \in 1 .. Len(f[L])  BY <2>1, <2>2
  <2> QED BY <1>8, <1>9, <2>3 DEF Longer
<1> QED BY <1>3, <1>4, <1>9, <1>10

\* A walk begins where it begins, and stays in the heap.
LEMMA WalkTyped ==
    ASSUME NEW h, NEW link, Leads(h, link), NEW x \in 1 .. Len(h)
    PROVE  /\ Chain(h, x, link) \in Seq(1 .. Len(h))
           /\ Len(Chain(h, x, link)) >= 1 /\ Chain(h, x, link)[1] = x
<1>1. x # NULL /\ Len(h) \in 0 .. Len(h)  BY DEF NULL, Leads
<1>2. PICK f : Reaches(f, h, x, link) /\ Chain(h, x, link) = f[Len(h)]
  BY <1>1, SomeReaches, ChainReaches DEF Leads
<1> QED BY <1>1, <1>2, RoundsTyped

\* The links of these records lead to these records, or nowhere.
Closed(h, link, S) ==
    /\ Leads(h, link) /\ S \subseteq 1 .. Len(h)
    /\ \A j \in S : h[j][link] \in S \cup {NULL}

\* A walk stays with records that the link does not lead away from.
LEMMA WalkStays ==
    ASSUME NEW h, NEW link, NEW S, Closed(h, link, S), NEW x \in S
    PROVE  Chain(h, x, link) \in Seq(S) /\ Len(Chain(h, x, link)) >= 1
<1>1. PICK L \in Nat : L = Len(h)  BY DEF Closed, Leads
<1>2. x # NULL /\ x \in 1 .. L  BY <1>1 DEF NULL, Closed
<1>3. PICK f : Reaches(f, h, x, link) /\ Chain(h, x, link) = f[L]
  BY <1>1, <1>2, SomeReaches, ChainReaches
<1> DEFINE D == {n \in 0 .. L : ~ (f[n] \in Seq(S) /\ Len(f[n]) >= 1)}
<1>4. SUFFICES ASSUME D # {} PROVE FALSE  BY <1>1, <1>3
<1>5. PICK m \in D : \A k \in D : m <= k
  <2>1. D \in SUBSET Nat  OBVIOUS
  <2> HIDE DEF D
  <2> QED BY <1>4, <2>1, Least
<1>6. CASE m = 0
  <2>1. f[0] = <<x>>  BY <1>1, <1>3 DEF Reaches
  <2>2. PICK q : q = <<x>>  OBVIOUS
  <2>3. q \in Seq(S) /\ Len(q) = 1  BY <2>2
  <2>4. f[m] = q  BY <1>6, <2>1, <2>2
  <2>5. Len(q) >= 1  BY <2>3
  <2>6. f[m] \in Seq(S) /\ Len(f[m]) >= 1  BY <2>3, <2>4, <2>5, Zenon
  <2> QED BY <1>5, <2>6
<1>7. CASE m # 0
  <2>1. m \in 0 .. L /\ m - 1 \in 0 .. L /\ m - 1 \notin D  BY <1>1, <1>5, <1>7
  <2>2. PICK s : s = f[m - 1] /\ s \in Seq(S) /\ Len(s) >= 1  BY <2>1
  <2>3. f[m] = Round(h, link, s, m)  BY <1>1, <1>3, <1>7, <2>1, <2>2 DEF Reaches
  <2>4. PICK y : y = h[s[Len(s)]][link]  OBVIOUS
  <2>5. s[Len(s)] \in S  BY ONLY <2>2
  <2>6. y \in S \cup {NULL}  BY <2>4, <2>5 DEF Closed
  <2>7. f[m] = s \/ (y # NULL /\ f[m] = Append(s, y))  BY <2>3, <2>4 DEF Round
  <2>8. CASE f[m] = s  BY <1>5, <2>2, <2>8
  <2>9. CASE y # NULL /\ f[m] = Append(s, y)
    <3>1. y \in S  BY <2>6, <2>9
    <3>2. PICK t : t = Append(s, y)  OBVIOUS
    <3>3. t \in Seq(S) /\ Len(t) = Len(s) + 1  BY ONLY <2>2, <3>1, <3>2
    <3>4. Len(t) >= 1  BY <2>2, <3>3
    <3> QED BY <1>5, <2>9, <3>2, <3>3, <3>4
  <2> QED BY <2>7, <2>8, <2>9
<1> QED BY <1>6, <1>7

\* What is looked for is in the sequence, or not there.
LEMMA FirstInOf ==
    ASSUME NEW T, NEW s \in Seq(T), NEW some
    PROVE  FirstIn(s, some) \in T \cup {NULL}
<1>1. PICK fits : fits = {i \in 1 .. Len(s) : s[i] \in some}  OBVIOUS
<1>2. FirstIn(s, some) = IF fits = {} THEN NULL ELSE s[Min(fits)]  BY <1>1 DEF FirstIn
<1>3. CASE fits = {}  BY <1>2, <1>3
<1>4. CASE fits # {}
  <2>1. fits \in SUBSET Nat /\ fits \subseteq 1 .. Len(s)  BY <1>1
  <2>2. \E m \in fits : \A k \in fits : m <= k  BY <1>4, <2>1, Least
  <2>3. Min(fits) \in fits  BY <2>2 DEF Min
  <2>4. Min(fits) \in 1 .. Len(s)  BY <2>1, <2>3
  <2>5. \A i \in 1 .. Len(s) : s[i] \in T  OBVIOUS
  <2> QED BY <1>2, <1>4, <2>4, <2>5
<1> QED BY <1>3, <1>4
=============================================================================
