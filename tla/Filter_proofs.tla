--------------------------- MODULE Filter_proofs ---------------------------
(***************************************************************************)
(* The rules of the packet filter stay in one list, in the order they were *)
(* added, and none is used after it was freed, whatever the hooks do.      *)
(***************************************************************************)
EXTENDS Filter, Heap_proofs

-----------------------------------------------------------------------------
(* Rules, with pointers from P and everything else from V.                 *)

RuleRec(P, V) ==
    [next : P, prev : P, hook : V, args : V, freed : BOOLEAN, rules : V, score : V, value : V]

LEMMA RulesTyped ==
    ASSUME NEW P, NEW Q, NEW V, NEW W, P \subseteq Q, V \subseteq W
    PROVE  RuleRec(P, V) \subseteq RuleRec(Q, W)
BY DEF RuleRec

\* Everything in a rule but its links and whether it was freed.
SameRule(q, r) ==
    /\ q.hook = r.hook /\ q.args = r.args /\ q.rules = r.rules
    /\ q.score = r.score /\ q.value = r.value

\* One assignment to a pointer.
RuleLinkSet(P, V, h, g, a, f, v) ==
    /\ g \in Seq(RuleRec(P, V)) /\ Len(g) = Len(h)
    /\ \A j \in 1 .. Len(h) :
        /\ g[j].next = IF j = a /\ f = "next" THEN v ELSE h[j].next
        /\ g[j].prev = IF j = a /\ f = "prev" THEN v ELSE h[j].prev
        /\ g[j].freed = h[j].freed /\ SameRule(g[j], h[j])

LEMMA SetRuleLink ==
    ASSUME NEW P, NEW V, NEW h \in Seq(RuleRec(P, V)), NEW a \in 1 .. Len(h),
           NEW f \in {"next", "prev"}, NEW v \in P, NEW g, g = [h EXCEPT ![a][f] = v]
    PROVE  RuleLinkSet(P, V, h, g, a, f, v)
<1>1. PICK r : r = [h[a] EXCEPT ![f] = v]  OBVIOUS
<1>2. h[a] \in RuleRec(P, V)  OBVIOUS
<1>3. /\ r \in RuleRec(P, V) /\ r.freed = h[a].freed /\ SameRule(r, h[a])
      /\ r.next = IF f = "next" THEN v ELSE h[a].next
      /\ r.prev = IF f = "prev" THEN v ELSE h[a].prev
  <2>1. CASE f = "next"  BY <1>1, <1>2, <2>1 DEF RuleRec, SameRule
  <2>2. CASE f = "prev"  BY <1>1, <1>2, <2>2 DEF RuleRec, SameRule
  <2> QED BY <2>1, <2>2
<1>4. g = [h EXCEPT ![a] = r]  BY <1>1
<1>5. g \in Seq(RuleRec(P, V)) /\ Len(g) = Len(h)  BY <1>3, <1>4
<1>6. \A j \in 1 .. Len(h) : g[j] = IF j = a THEN r ELSE h[j]  BY <1>4
<1>7. ASSUME NEW j \in 1 .. Len(h)
      PROVE  /\ g[j].next = IF j = a /\ f = "next" THEN v ELSE h[j].next
             /\ g[j].prev = IF j = a /\ f = "prev" THEN v ELSE h[j].prev
             /\ g[j].freed = h[j].freed /\ SameRule(g[j], h[j])
  <2>1. CASE j = a  BY <1>3, <1>6, <2>1
  <2>2. CASE j # a  BY <1>6, <2>2 DEF SameRule
  <2> QED BY <2>1, <2>2
<1> QED BY <1>5, <1>7 DEF RuleLinkSet

\* The neighbours of x see each other.
BypassedLinks(P, V, h, g, x) ==
    /\ g \in Seq(RuleRec(P, V)) /\ Len(g) = Len(h)
    /\ \A j \in 1 .. Len(h) :
        /\ g[j].next = IF j = h[x].prev THEN h[x].next ELSE h[j].next
        /\ g[j].prev = IF j = h[x].next THEN h[x].prev ELSE h[j].prev
        /\ g[j].freed = h[j].freed /\ SameRule(g[j], h[j])

LEMMA RuleBypassed ==
    ASSUME NEW P, NEW V, NEW h \in Seq(RuleRec(P, V)), NEW x \in 1 .. Len(h), P = 0 .. Len(h),
           NEW g, g = Bypassed(h, x)
    PROVE  BypassedLinks(P, V, h, g, x)
<1>1. PICK a \in P : a = h[x].prev
  <2>1. h[x] \in RuleRec(P, V)  OBVIOUS
  <2> QED BY <2>1 DEF RuleRec
<1>2. PICK b \in P : b = h[x].next
  <2>1. h[x] \in RuleRec(P, V)  OBVIOUS
  <2> QED BY <2>1 DEF RuleRec
<1>3. PICK k : k = IF a = NULL THEN h ELSE [h EXCEPT ![a].next = b]  OBVIOUS
<1>4. g = IF b = NULL THEN k ELSE [k EXCEPT ![b].prev = a]  BY <1>1, <1>2, <1>3 DEF Bypassed
<1>5. /\ k \in Seq(RuleRec(P, V)) /\ Len(k) = Len(h)
      /\ \A j \in 1 .. Len(h) : /\ k[j].next = IF j = a THEN b ELSE h[j].next
                               /\ k[j].prev = h[j].prev /\ k[j].freed = h[j].freed
                               /\ SameRule(k[j], h[j])
  <2>1. CASE a = NULL  BY <1>3, <2>1 DEF NULL, SameRule
  <2>2. CASE a # NULL
    <3>1. a \in 1 .. Len(h)  BY <2>2 DEF NULL
    <3>2. k = [h EXCEPT ![a]["next"] = b]  BY <1>3, <2>2
    <3>3. RuleLinkSet(P, V, h, k, a, "next", b)  BY <3>1, <3>2, SetRuleLink
    <3> QED BY <3>3 DEF RuleLinkSet
  <2> QED BY <2>1, <2>2
<1>6. /\ g \in Seq(RuleRec(P, V)) /\ Len(g) = Len(h)
      /\ \A j \in 1 .. Len(h) : /\ g[j].prev = IF j = b THEN a ELSE k[j].prev
                               /\ g[j].next = k[j].next /\ g[j].freed = k[j].freed
                               /\ SameRule(g[j], k[j])
  <2>1. CASE b = NULL  BY <1>4, <1>5, <2>1 DEF NULL, SameRule
  <2>2. CASE b # NULL
    <3>1. b \in 1 .. Len(k)  BY <1>5, <2>2 DEF NULL
    <3>2. g = [k EXCEPT ![b]["prev"] = a]  BY <1>4, <2>2
    <3>3. RuleLinkSet(P, V, k, g, b, "prev", a)  BY <1>5, <3>1, <3>2, SetRuleLink
    <3> QED BY <1>5, <3>3 DEF RuleLinkSet
  <2> QED BY <2>1, <2>2
<1>7. \A j \in 1 .. Len(h) : SameRule(g[j], h[j])  BY <1>5, <1>6 DEF SameRule
<1> QED BY <1>1, <1>2, <1>5, <1>6, <1>7 DEF BypassedLinks

-----------------------------------------------------------------------------
(* The list l of the filter: its rules and its ends.                       *)

Typed(h) == \E V : h \in Seq(RuleRec(0 .. Len(h), V))

\* The rules of the list, in the order they were made, are those not freed.
Keeps(h, s) ==
    /\ \A i, j \in 1 .. Len(s) : i < j => s[i] < s[j]
    /\ \A x \in 1 .. Len(h) : ~h[x].freed <=> \E i \in 1 .. Len(s) : s[i] = x

Ordered(h, first0, last0, s) == IsList(h, first0, last0, s) /\ Keeps(h, s)

InOrder(l) == Typed(l.heap) /\ \E s : Ordered(l.heap, l.first, l.last, s)

\* iks_filter_remove_rule of a rule of the list.
Removes(l, m, x) ==
    /\ InOrder(m) /\ Len(m.heap) = Len(l.heap) /\ m.ub = l.ub
    /\ \A j \in 1 .. Len(l.heap) :
        /\ m.heap[j].freed <=> j = x \/ l.heap[j].freed
        /\ j # x => SameRule(m.heap[j], l.heap[j])

LEMMA UnlinkedRemoves ==
    ASSUME NEW l, InOrder(l), NEW x \in 1 .. Len(l.heap), ~l.heap[x].freed,
           NEW m, m = Unlinked(l, x)
    PROVE  Removes(l, m, x)
<1>1. PICK h : h = l.heap  OBVIOUS
<1>2. PICK V : h \in Seq(RuleRec(0 .. Len(h), V))  BY <1>1 DEF InOrder, Typed
<1>3. PICK N \in Nat : N = Len(h)  BY <1>2
<1>4. PICK s : Ordered(h, l.first, l.last, s)  BY <1>1 DEF InOrder
<1>5. PICK L \in Nat : /\ L = Len(s) /\ s \in Seq(1 .. N) /\ DOMAIN s = 1 .. L
                       /\ l.first = At(s, 1) /\ l.last = At(s, L)
  BY <1>3, <1>4 DEF Ordered, IsList
<1>6. PICK c \in 1 .. L : s[c] = x  BY <1>1, <1>4, <1>5 DEF Ordered, Keeps
<1>7. \A i \in 1 .. L : s[i] \in 1 .. N  BY <1>5
<1>8. \A i, j \in 1 .. L : s[i] = s[j] => i = j  BY <1>4, <1>5 DEF Ordered, IsList, IsInjective
<1>9. x \in 1 .. N  BY <1>1, <1>3
<1>10. PICK k : k = Bypassed(h, x)  OBVIOUS
<1>11. BypassedLinks(0 .. N, V, h, k, x)
  <2>1. h \in Seq(RuleRec(0 .. N, V)) /\ x \in 1 .. Len(h) /\ 0 .. N = 0 .. Len(h)  BY <1>2, <1>3, <1>9
  <2> QED BY ONLY <1>10, <2>1, RuleBypassed
<1>12. PICK g : g = [k EXCEPT ![x] = Gone(h[x])]  OBVIOUS
<1>13. PICK W : V \cup {0, <<>>, [k2 \in Kinds |-> NoValue]} \subseteq W  OBVIOUS
<1>14. Gone(h[x]) \in RuleRec(0 .. N, W) /\ Gone(h[x]).freed = TRUE
  <2>1. h[x].hook \in W
    <3>1. h[x] \in RuleRec(0 .. N, V)  BY <1>2, <1>3, <1>9
    <3> QED BY <1>13, <3>1 DEF RuleRec
  <2>2. 0 \in 0 .. N  OBVIOUS
  <2> QED BY <1>13, <2>1, <2>2 DEF Gone, Rule, RuleRec, NULL
<1>15. k \in Seq(RuleRec(0 .. N, W)) /\ Len(k) = N
  <2>1. RuleRec(0 .. N, V) \subseteq RuleRec(0 .. N, W)  BY <1>13, RulesTyped
  <2> QED BY <1>3, <1>11, <2>1 DEF BypassedLinks
<1>16. /\ g \in Seq(RuleRec(0 .. N, W)) /\ Len(g) = N
       /\ \A j \in 1 .. N : g[j] = IF j = x THEN Gone(h[x]) ELSE k[j]
  <2>1. PICK S : S = RuleRec(0 .. N, W)  OBVIOUS
  <2>2. k \in Seq(S) /\ Gone(h[x]) \in S  BY <1>14, <1>15, <2>1
  <2>3. /\ g \in Seq(S) /\ Len(g) = N
        /\ \A j \in 1 .. N : g[j] = IF j = x THEN Gone(h[x]) ELSE k[j]
    BY ONLY <1>9, <1>12, <1>15, <2>2
  <2> QED BY <2>1, <2>3
<1>17. ASSUME NEW j \in 1 .. N
       PROVE  /\ g[j].freed <=> j = x \/ h[j].freed
              /\ j # x => SameRule(g[j], h[j])
  <2>1. CASE j = x  BY <1>14, <1>16, <2>1
  <2>2. CASE j # x  BY <1>3, <1>11, <1>16, <2>2 DEF BypassedLinks
  <2> QED BY <2>1, <2>2
<1>18. /\ h[x].next = IF c = L THEN NULL ELSE s[c + 1]
       /\ h[x].prev = IF c = 1 THEN NULL ELSE s[c - 1]
  BY <1>4, <1>5, <1>6 DEF Ordered, IsList
<1>19. (c # L => c + 1 \in 1 .. L) /\ (c # 1 => c - 1 \in 1 .. L)  OBVIOUS
<1>20. h[x].next = At(s, c + 1) /\ h[x].prev = At(s, c - 1)  BY <1>5, <1>18, <1>19 DEF At
<1>21. ASSUME NEW i \in 1 .. L, i # c
       PROVE  /\ g[s[i]].next = IF i = c - 1 THEN At(s, c + 1) ELSE h[s[i]].next
              /\ g[s[i]].prev = IF i = c + 1 THEN At(s, c - 1) ELSE h[s[i]].prev
  <2>1. s[i] \in 1 .. N /\ s[i] # x  BY <1>6, <1>7, <1>8, <1>21
  <2>2. s[i] = h[x].prev <=> i = c - 1
    <3>1. CASE c = 1  BY <1>18, <2>1, <3>1 DEF NULL
    <3>2. CASE c # 1  BY <1>8, <1>18, <1>19, <3>2
    <3> QED BY <3>1, <3>2
  <2>3. s[i] = h[x].next <=> i = c + 1
    <3>1. CASE c = L  BY <1>18, <2>1, <3>1 DEF NULL
    <3>2. CASE c # L  BY <1>8, <1>18, <1>19, <3>2
    <3> QED BY <3>1, <3>2
  <2>4. g[s[i]] = k[s[i]]  BY <1>16, <2>1
  <2>5. /\ k[s[i]].next = IF s[i] = h[x].prev THEN h[x].next ELSE h[s[i]].next
        /\ k[s[i]].prev = IF s[i] = h[x].next THEN h[x].prev ELSE h[s[i]].prev
    BY <1>3, <1>11, <2>1 DEF BypassedLinks
  <2> QED BY <1>20, <2>2, <2>3, <2>4, <2>5
<1>22. PICK t : t = Without(s, c)  OBVIOUS
<1>23. IsList(g, IF c = 1 THEN At(s, 2) ELSE l.first, IF c = L THEN At(s, c - 1) ELSE l.last, t)
  <2>1. IsList(h, l.first, l.last, s)  BY <1>4 DEF Ordered
  <2>2. Len(h) \in Nat /\ Len(g) = Len(h) /\ c \in 1 .. Len(s)  BY <1>3, <1>5, <1>16
  <2>3. \A i \in 1 .. Len(s) : i # c =>
            /\ g[s[i]].next = IF i = c - 1 THEN At(s, c + 1) ELSE h[s[i]].next
            /\ g[s[i]].prev = IF i = c + 1 THEN At(s, c - 1) ELSE h[s[i]].prev
    BY <1>5, <1>21
  <2>4. IsList(g, IF c = 1 THEN At(s, 2) ELSE l.first,
                  IF c = Len(s) THEN At(s, c - 1) ELSE l.last, Without(s, c))
    BY ONLY <2>1, <2>2, <2>3, ListRemoved
  <2> QED BY <1>5, <1>22, <2>4
<1>24. /\ m.first = IF c = 1 THEN At(s, 2) ELSE l.first
       /\ m.last = IF c = L THEN At(s, c - 1) ELSE l.last
       /\ m.heap = g /\ m.ub = l.ub
  <2>1. /\ m.first = IF l.first = x THEN h[x].next ELSE l.first
        /\ m.last = IF l.last = x THEN h[x].prev ELSE l.last
        /\ m.heap = g /\ m.ub = l.ub
    BY <1>1, <1>10, <1>12 DEF Unlinked
  <2>2. l.first = s[1] /\ l.last = s[L] /\ 1 \in 1 .. L /\ L \in 1 .. L  BY <1>5 DEF At
  <2>3. (l.first = x <=> c = 1) /\ (l.last = x <=> c = L)  BY <1>6, <1>8, <2>2
  <2> QED BY <1>20, <2>1, <2>3
<1>25. Keeps(g, t)
  <2>1. /\ t \in Seq(1 .. N) /\ Len(t) = L - 1
        /\ \A i \in 1 .. Len(t) : t[i] = IF i < c THEN s[i] ELSE s[i + 1]
    BY <1>5, <1>22, WithoutProperties DEF Without
  <2>2. ASSUME NEW i \in 1 .. Len(t), NEW j \in 1 .. Len(t), i < j PROVE t[i] < t[j]
    <3>1. PICK a \in 1 .. L : a = IF i < c THEN i ELSE i + 1  BY <2>1
    <3>2. PICK b \in 1 .. L : b = IF j < c THEN j ELSE j + 1  BY <2>1
    <3>3. a < b  BY <2>1, <2>2, <3>1, <3>2
    <3>4. s[a] < s[b]  BY <1>4, <1>5, <3>3 DEF Ordered, Keeps
    <3>5. t[i] = s[a] /\ t[j] = s[b]  BY <2>1, <3>1, <3>2
    <3> QED BY <3>4, <3>5
  <2>3. /\ \A i \in 1 .. Len(t) : \E j \in 1 .. Len(s) : j # c /\ t[i] = s[j]
        /\ \A j \in 1 .. Len(s) : j # c => \E i \in 1 .. Len(t) : t[i] = s[j]
    BY <1>5, <1>22, WithoutMembers
  <2>4. ASSUME NEW z \in 1 .. Len(g) PROVE ~g[z].freed <=> \E i \in 1 .. Len(t) : t[i] = z
    <3>1. ~h[z].freed <=> \E i \in 1 .. L : s[i] = z  BY <1>3, <1>4, <1>5, <1>16 DEF Ordered, Keeps
    <3>2. ~g[z].freed <=> z # x /\ ~h[z].freed  BY <1>16, <1>17
    <3>3. ASSUME ~g[z].freed PROVE \E i \in 1 .. Len(t) : t[i] = z
      <4>1. PICK j \in 1 .. L : s[j] = z  BY <3>1, <3>2, <3>3
      <4>2. j # c  BY <1>6, <3>2, <3>3, <4>1
      <4> QED BY <1>5, <2>3, <4>1, <4>2
    <3>4. ASSUME NEW i \in 1 .. Len(t), t[i] = z PROVE ~g[z].freed
      <4>1. PICK j \in 1 .. L : j # c /\ s[j] = z  BY <1>5, <2>3, <3>4
      <4>2. z # x  BY <1>6, <1>8, <4>1
      <4> QED BY <3>1, <3>2, <4>1, <4>2
    <3> QED BY <3>3, <3>4
  <2> QED BY <2>2, <2>4 DEF Keeps
<1>26. InOrder(m)
  <2>1. Typed(g)  BY <1>16 DEF Typed
  <2>2. Ordered(g, m.first, m.last, t)  BY <1>23, <1>24, <1>25 DEF Ordered
  <2> QED BY <1>24, <2>1, <2>2 DEF InOrder
<1> QED BY <1>1, <1>3, <1>16, <1>17, <1>24, <1>26 DEF Removes

\* iks_filter_add_rule: a rule at the end.
OneMore(h, g, r) ==
    /\ Len(h) \in Nat /\ Len(g) = Len(h) + 1
    /\ \A j \in 1 .. Len(h) : g[j].freed = h[j].freed /\ SameRule(g[j], h[j])
    /\ ~g[Len(h) + 1].freed /\ SameRule(g[Len(h) + 1], r)

LEMMA AddedInOrder ==
    ASSUME NEW l, InOrder(l), NEW r, NEW V, r \in RuleRec({NULL}, V), ~r.freed,
           NEW m, m.first = IF l.first = NULL THEN Len(l.heap) + 1 ELSE l.first,
           m.last = Len(l.heap) + 1,
           LET h == Append(l.heap, [r EXCEPT !.prev = l.last])
           IN  m.heap = IF l.last = NULL THEN h ELSE [h EXCEPT ![l.last].next = Len(l.heap) + 1]
    PROVE  InOrder(m) /\ OneMore(l.heap, m.heap, r)
<1>1. PICK h : h = l.heap  OBVIOUS
<1>2. PICK W : h \in Seq(RuleRec(0 .. Len(h), W))  BY <1>1 DEF InOrder, Typed
<1>3. PICK N \in Nat : N = Len(h)  BY <1>2
<1>4. PICK s : Ordered(h, l.first, l.last, s)  BY <1>1 DEF InOrder
<1>5. PICK L \in Nat : /\ L = Len(s) /\ s \in Seq(1 .. N) /\ DOMAIN s = 1 .. L
                       /\ l.first = At(s, 1) /\ l.last = At(s, L)
  BY <1>3, <1>4 DEF Ordered, IsList
<1>6. \A i \in 1 .. L : s[i] \in 1 .. N  BY <1>5
<1>7. PICK q : q = [r EXCEPT !.prev = l.last]  OBVIOUS
<1>8. PICK z \in 0 .. N : z = l.last /\ (z = NULL <=> L = 0)
  <2>1. CASE L = 0  BY <1>5, <2>1 DEF At, NULL
  <2>2. CASE L # 0
    <3>1. L \in 1 .. L  BY <2>2
    <3> QED BY <1>5, <1>6, <2>2, <3>1 DEF At, NULL
  <2> QED BY <2>1, <2>2
<1>9. PICK P : P = 0 .. (N + 1)  OBVIOUS
<1>10. PICK S : S = RuleRec(P, V \cup W)  OBVIOUS
<1>11. q \in S /\ q.next = NULL /\ q.prev = z /\ ~q.freed /\ SameRule(q, r)
  <2>1. z \in P /\ NULL \in P  BY <1>9 DEF NULL
  <2> QED BY <1>7, <1>8, <1>10, <2>1 DEF RuleRec, SameRule
<1>12. h \in Seq(S)
  <2>1. RuleRec(0 .. N, W) \subseteq S  BY <1>9, <1>10, RulesTyped
  <2> QED BY <1>2, <1>3, <2>1
<1>13. PICK k : k = Append(h, q)  OBVIOUS
<1>14. /\ k \in Seq(S) /\ Len(k) = N + 1 /\ k[N + 1] = q
       /\ \A j \in 1 .. N : k[j] = h[j]
  BY ONLY <1>3, <1>11, <1>12, <1>13
<1>15. PICK g : g = m.heap  OBVIOUS
<1>16. /\ g \in Seq(S) /\ Len(g) = N + 1
       /\ \A j \in 1 .. N + 1 : /\ g[j].next = IF z # NULL /\ j = z THEN N + 1 ELSE k[j].next
                                /\ g[j].prev = k[j].prev /\ g[j].freed = k[j].freed
                                /\ SameRule(g[j], k[j])
  <2>1. CASE z = NULL
    <3>1. g = k  BY <1>1, <1>7, <1>8, <1>13, <1>15, <2>1
    <3> QED BY <1>14, <2>1, <3>1 DEF SameRule
  <2>2. CASE z # NULL
    <3>1. z \in 1 .. Len(k) /\ N + 1 \in P  BY <1>9, <1>14, <2>2 DEF NULL
    <3>2. g = [k EXCEPT ![z]["next"] = N + 1]  BY <1>1, <1>3, <1>7, <1>8, <1>13, <1>15, <2>2
    <3>3. RuleLinkSet(P, V \cup W, k, g, z, "next", N + 1)  BY <1>10, <1>14, <3>1, <3>2, SetRuleLink
    <3> QED BY <1>10, <1>14, <2>2, <3>3 DEF RuleLinkSet
  <2> QED BY <2>1, <2>2
<1>17. PICK t : t = With(s, L + 1, N + 1)  OBVIOUS
<1>18. IsList(g, m.first, m.last, t)
  <2>1. IsList(h, l.first, l.last, s)  BY <1>4 DEF Ordered
  <2>2. /\ Len(h) \in Nat /\ Len(g) \in Nat /\ Len(h) <= Len(g)
        /\ L + 1 \in 1 .. Len(s) + 1 /\ N + 1 \in 1 .. Len(g)
    BY <1>3, <1>5, <1>16
  <2>3. SplicedIn(h, g, s, L + 1, N + 1)
    <3>1. g[N + 1].next = At(s, L + 1) /\ g[N + 1].prev = At(s, (L + 1) - 1)
      <4>1. At(s, L + 1) = NULL /\ (L + 1) - 1 = L  BY <1>5 DEF At
      <4>2. g[N + 1].next = q.next /\ g[N + 1].prev = q.prev  BY <1>8, <1>14, <1>16
      <4> QED BY <1>5, <1>8, <1>11, <4>1, <4>2
    <3>2. ASSUME NEW i \in 1 .. Len(s)
          PROVE  /\ s[i] # N + 1
                 /\ g[s[i]].next = IF i = (L + 1) - 1 THEN N + 1 ELSE h[s[i]].next
                 /\ g[s[i]].prev = IF i = L + 1 THEN N + 1 ELSE h[s[i]].prev
      <4>1. i \in 1 .. L /\ s[i] \in 1 .. N /\ L \in 1 .. L /\ L # 0  BY <1>5, <1>6
      <4>2. z = s[L] /\ z # NULL  BY <1>5, <1>8, <4>1 DEF At
      <4>3. s[i] = z <=> i = L  BY <1>4, <1>5, <4>1, <4>2 DEF Ordered, IsList, IsInjective
      <4>4. /\ g[s[i]].next = IF s[i] = z THEN N + 1 ELSE h[s[i]].next
            /\ g[s[i]].prev = h[s[i]].prev
        BY <1>14, <1>16, <4>1, <4>2
      <4> QED BY <4>1, <4>3, <4>4
    <3> QED BY <3>1, <3>2 DEF SplicedIn
  <2>4. IsList(g, IF L + 1 = 1 THEN N + 1 ELSE l.first,
                  IF L + 1 = Len(s) + 1 THEN N + 1 ELSE l.last, With(s, L + 1, N + 1))
    BY ONLY <2>1, <2>2, <2>3, ListInserted
  <2>5. l.first = NULL <=> L = 0
    <3>1. L # 0 => 1 \in 1 .. L  OBVIOUS
    <3> QED BY <1>5, <1>6, <3>1 DEF At, NULL
  <2> QED BY <1>1, <1>3, <1>5, <1>17, <2>4, <2>5
<1>19. Keeps(g, t)
  <2>1. /\ Len(t) = L + 1 /\ t[L + 1] = N + 1
        /\ \A i \in 1 .. L : t[i] = s[i]
    <3>1. PICK T : T = 1 .. (N + 1)  OBVIOUS
    <3>2. s \in Seq(T)  BY <1>5, <3>1
    <3>3. L + 1 \in 1 .. Len(s) + 1 /\ N + 1 \in T  BY <1>5, <3>1
    <3>4. /\ Len(t) = Len(s) + 1 /\ t[L + 1] = N + 1
          /\ \A i \in 1 .. Len(s) : i < L + 1 => t[i] = s[i]
      BY ONLY <1>17, <3>2, <3>3, WithProperties
    <3> QED BY <1>5, <3>4
  <2>2. ASSUME NEW i \in 1 .. Len(t), NEW j \in 1 .. Len(t), i < j PROVE t[i] < t[j]
    <3>1. i \in 1 .. L /\ t[i] = s[i]  BY <2>1, <2>2
    <3>2. CASE j = L + 1  BY <1>6, <2>1, <3>1, <3>2
    <3>3. CASE j # L + 1
      <4>1. j \in 1 .. L /\ t[j] = s[j]  BY <2>1, <3>3
      <4> QED BY <1>4, <1>5, <2>2, <3>1, <4>1 DEF Ordered, Keeps
    <3> QED BY <3>2, <3>3
  <2>3. ASSUME NEW x \in 1 .. Len(g) PROVE ~g[x].freed <=> \E i \in 1 .. Len(t) : t[i] = x
    <3>1. CASE x = N + 1
      <4>1. ~g[x].freed  BY <1>11, <1>14, <1>16, <3>1
      <4>2. L + 1 \in 1 .. Len(t)  BY <2>1
      <4> QED BY <2>1, <3>1, <4>1, <4>2
    <3>2. CASE x # N + 1
      <4>1. x \in 1 .. N /\ g[x].freed = h[x].freed  BY <1>14, <1>16, <3>2
      <4>2. ~h[x].freed <=> \E i \in 1 .. L : s[i] = x
        BY <1>3, <1>4, <1>5, <4>1 DEF Ordered, Keeps
      <4>3. (\E i \in 1 .. L : s[i] = x) <=> \E i \in 1 .. Len(t) : t[i] = x  BY <2>1, <3>2, SMTT(30)
      <4> QED BY <4>1, <4>2, <4>3
    <3> QED BY <3>1, <3>2
  <2> QED BY <2>2, <2>3 DEF Keeps
<1>20. Typed(g)
  <2>1. g \in Seq(RuleRec(0 .. Len(g), V \cup W))  BY <1>9, <1>10, <1>16
  <2> QED BY <2>1 DEF Typed
<1>21. OneMore(h, g, r)
  <2>1. \A j \in 1 .. N : g[j].freed = h[j].freed /\ SameRule(g[j], h[j])  BY <1>14, <1>16
  <2>2. ~g[N + 1].freed /\ SameRule(g[N + 1], r)  BY <1>11, <1>14, <1>16 DEF SameRule
  <2> QED BY <1>3, <1>16, <2>1, <2>2 DEF OneMore
<1> QED BY <1>1, <1>15, <1>18, <1>19, <1>20, <1>21 DEF InOrder, Ordered

\* Other scores, from X: the list is the same.
Rescored(l, m, X) ==
    /\ m.first = l.first /\ m.last = l.last
    /\ m.heap = [j \in 1 .. Len(l.heap) |-> m.heap[j]]
    /\ \A j \in 1 .. Len(l.heap) :
        \/ m.heap[j] = l.heap[j]
        \/ \E v \in X : m.heap[j] = [l.heap[j] EXCEPT !.score = v]

LEMMA ScoredInOrder ==
    ASSUME NEW l, InOrder(l), NEW m, NEW X, Rescored(l, m, X)
    PROVE  InOrder(m)
<1>1. PICK h : h = l.heap  OBVIOUS
<1>2. PICK V : h \in Seq(RuleRec(0 .. Len(h), V))  BY <1>1 DEF InOrder, Typed
<1>3. PICK N \in Nat : N = Len(h)  BY <1>2
<1>4. PICK s : Ordered(h, l.first, l.last, s)  BY <1>1 DEF InOrder
<1>5. PICK g : g = m.heap  OBVIOUS
<1>6. PICK S : S = RuleRec(0 .. N, V \cup X)  OBVIOUS
<1>7. ASSUME NEW j \in 1 .. N
      PROVE  /\ g[j] \in S /\ g[j].next = h[j].next /\ g[j].prev = h[j].prev
             /\ g[j].freed = h[j].freed
  <2>1. h[j] \in RuleRec(0 .. N, V)  BY <1>2, <1>3
  <2>2. CASE g[j] = h[j]  BY <1>6, <2>1, <2>2 DEF RuleRec
  <2>3. CASE \E v \in X : g[j] = [h[j] EXCEPT !.score = v]  BY <1>6, <2>1, <2>3 DEF RuleRec
  <2> QED BY <1>1, <1>3, <1>5, <2>2, <2>3 DEF Rescored
<1>8. g \in Seq(S) /\ Len(g) = N
  <2>1. g = [j \in 1 .. N |-> g[j]]  BY <1>1, <1>3, <1>5 DEF Rescored
  <2> QED BY <1>7, <2>1
<1>9. Typed(g)  BY <1>6, <1>8 DEF Typed
<1>10. IsList(g, l.first, l.last, s)
  <2>1. IsList(h, l.first, l.last, s)  BY <1>4 DEF Ordered
  <2>2. Len(h) \in Nat /\ Len(g) \in Nat /\ Len(h) <= Len(g)  BY <1>3, <1>8
  <2>3. \A i \in 1 .. Len(s) : s[i] \in 1 .. N  BY <1>3, <2>1 DEF IsList
  <2>4. \A i \in 1 .. Len(s) : g[s[i]].next = h[s[i]].next /\ g[s[i]].prev = h[s[i]].prev
    BY <1>7, <2>3
  <2> QED BY ONLY <2>1, <2>2, <2>4, ListKept
<1>11. Keeps(g, s)  BY <1>3, <1>4, <1>7, <1>8 DEF Ordered, Keeps
<1> QED BY <1>5, <1>9, <1>10, <1>11 DEF InOrder, Ordered, Rescored

-----------------------------------------------------------------------------
(* The calls.                                                              *)

\* The walk of the list, and no rule of it was freed.
LEMMA ListWalked ==
    ASSUME InOrder(List)
    PROVE  /\ InList \in Seq(1 .. Len(heap)) /\ Len(heap) \in Nat
           /\ Ordered(heap, first, last, InList)
           /\ \A i \in 1 .. Len(InList) : ~heap[InList[i]].freed
           /\ ~Freed(InList)
           /\ \A i, j \in 1 .. Len(InList) : InList[i] = InList[j] => i = j
<1>1. Typed(heap) /\ \E s : Ordered(heap, first, last, s)  BY DEF InOrder, List
<1>2. Len(heap) \in Nat  BY <1>1 DEF Typed
<1>3. PICK s : Ordered(heap, first, last, s)  BY <1>1
<1>4. IsList(heap, first, last, s)  BY <1>3 DEF Ordered
<1>5. InList = s  BY <1>2, <1>4, ListForwards DEF InList
<1>6. s \in Seq(1 .. Len(heap)) /\ \A i \in 1 .. Len(s) : s[i] \in 1 .. Len(heap)  BY <1>4 DEF IsList
<1>7. \A i \in 1 .. Len(s) : ~heap[s[i]].freed  BY <1>3, <1>6 DEF Ordered, Keeps
<1>8. \A i, j \in 1 .. Len(s) : s[i] = s[j] => i = j
  <2>1. IsInjective(s) /\ DOMAIN s = 1 .. Len(s)  BY <1>4, <1>6 DEF IsList
  <2> QED BY <2>1 DEF IsInjective
<1> QED BY <1>2, <1>3, <1>5, <1>6, <1>7, <1>8 DEF Freed

-----------------------------------------------------------------------------
(* Loops that count.                                                       *)

LEMMA Counted ==
    ASSUME NEW L \in Nat, NEW S, 0 \in S, \A n \in 1 .. L : n - 1 \in S => n \in S
    PROVE  \A n \in 0 .. L : n \in S
<1>1. PICK Bad : Bad = {n \in 0 .. L : n \notin S}  OBVIOUS
<1>2. CASE Bad # {}
  <2>1. Bad \in SUBSET Nat  BY <1>1
  <2>2. PICK n \in Bad : \A k \in Bad : n <= k  BY <1>2, <2>1, Least
  <2>3. n \in 0 .. L /\ n \notin S  BY <1>1
  <2>4. n \in 1 .. L /\ n - 1 \in 0 .. L /\ n - 1 < n  BY <2>3
  <2>5. n - 1 \notin Bad  BY <2>2, <2>3, <2>4
  <2> QED BY <1>1, <2>3, <2>4, <2>5
<1> QED BY <1>1, <1>2

\* The values a variable of the loop has, one after the other.
Runs(f, D, L, base, step) ==
    /\ f \in [0 .. L -> D] /\ f[0] = base
    /\ \A n \in 1 .. L : f[n] = step[<<f[n - 1], n>>]

LEMMA LoopRuns ==
    ASSUME NEW D, NEW base \in D, NEW L \in Nat, NEW step \in [D \X (1 .. L) -> D]
    PROVE  \E f : Runs(f, D, L, base, step)
<1>1. PICK S : S = {m \in 0 .. L : \E f : Runs(f, D, m, base, step)}  OBVIOUS
<1>2. 0 \in S
  <2>1. PICK f : f = [n \in 0 .. 0 |-> base]  OBVIOUS
  <2>2. Runs(f, D, 0, base, step)  BY <2>1 DEF Runs
  <2> QED BY <1>1, <2>2
<1>3. ASSUME NEW m \in 1 .. L, m - 1 \in S PROVE m \in S
  <2>1. PICK f : Runs(f, D, m - 1, base, step)  BY <1>1, <1>3
  <2>2. PICK g : g = [n \in 0 .. m |-> IF n < m THEN f[n] ELSE step[<<f[m - 1], m>>]]  OBVIOUS
  <2>3. m - 1 \in 0 .. m - 1 /\ f[m - 1] \in D  BY <2>1 DEF Runs
  <2>4. step[<<f[m - 1], m>>] \in D  BY <2>3
  <2>5. g \in [0 .. m -> D]
    <3>1. \A n \in 0 .. m : n < m => f[n] \in D  BY <2>1 DEF Runs
    <3> QED BY <2>2, <2>4, <3>1
  <2>6. g[0] = base
    <3>1. 0 \in 0 .. m /\ 0 < m  OBVIOUS
    <3> QED BY <2>1, <2>2, <3>1 DEF Runs
  <2>7. ASSUME NEW n \in 1 .. m PROVE g[n] = step[<<g[n - 1], n>>]
    <3>1. n - 1 \in 0 .. m /\ n - 1 < m /\ n \in 0 .. m  OBVIOUS
    <3>2. g[n - 1] = f[n - 1]  BY <2>2, <3>1
    <3>3. CASE n = m  BY <2>2, <3>1, <3>2, <3>3
    <3>4. CASE n # m
      <4>1. n < m /\ n \in 1 .. m - 1  BY <3>4
      <4>2. g[n] = f[n]  BY <2>2, <3>1, <4>1
      <4>3. f[n] = step[<<f[n - 1], n>>]  BY <2>1, <4>1 DEF Runs
      <4> QED BY <3>2, <4>2, <4>3
    <3> QED BY <3>3, <3>4
  <2>8. Runs(g, D, m, base, step)  BY <2>5, <2>6, <2>7 DEF Runs
  <2> QED BY <1>1, <2>8
<1>4. L \in S
  <2>1. \A m \in 0 .. L : m \in S  BY <1>2, <1>3, Counted
  <2> QED BY <2>1
<1> QED BY <1>1, <1>4

-----------------------------------------------------------------------------
(* What a rule asks for.                                                   *)

\* iks_filter_add_rule before and after each of its arguments.
Told(f, hook, args) ==
    f = [n \in 0 .. Len(args) |->
            IF n = 0 THEN Rule(hook, args)
            ELSE [f[n - 1] EXCEPT !.rules = @ + Bit(args[n].kind),
                                  !.value = [@ EXCEPT ![Field(args[n].kind)] = args[n].value]]]

Zeroed(hook, args, a, v) ==
    [next |-> NULL, prev |-> NULL, hook |-> hook, args |-> args, freed |-> FALSE,
     rules |-> a, score |-> 0, value |-> v]

IsArgs(args) == args \in Seq({c \in ToSet(args) : c.kind \in Kinds})

LEMMA ArgsTyped ==
    ASSUME NEW args, IsArgs(args)
    PROVE  /\ Len(args) \in Nat /\ DOMAIN args = 1 .. Len(args)
           /\ \A i \in 1 .. Len(args) : args[i].kind \in Kinds
BY DEF IsArgs

LEMMA BitTypes == \A k \in Kinds : Bit(k) \in Nat /\ Field(k) \in Kinds
BY DEF Kinds, Bit, Field

LEMMA ValueSet ==
    ASSUME NEW hook, NEW args, NEW a, NEW v, NEW w
    PROVE  [Zeroed(hook, args, a, v) EXCEPT !.value = w] = Zeroed(hook, args, a, w)
<1>1. PICK f : f = FALSE  OBVIOUS
<1>2. ASSUME NEW u
      PROVE  Zeroed(hook, args, a, u) =
                [next |-> NULL, prev |-> NULL, hook |-> hook, args |-> args, freed |-> f,
                 rules |-> a, score |-> 0, value |-> u]
  BY <1>1, Zenon DEF Zeroed
<1>3. [[next |-> NULL, prev |-> NULL, hook |-> hook, args |-> args, freed |-> f,
        rules |-> a, score |-> 0, value |-> v] EXCEPT !.value = w] =
            [next |-> NULL, prev |-> NULL, hook |-> hook, args |-> args, freed |-> f,
             rules |-> a, score |-> 0, value |-> w]
  BY ONLY SMT
<1> QED BY <1>2, <1>3

LEMMA ToldLast ==
    ASSUME NEW hook, NEW args, NEW g, Told(g, hook, args)
    PROVE  \E f : Told(f, hook, args) /\ NewRule(hook, args) = f[Len(args)]
BY DEF Told, NewRule

\* All that the arguments decide, one after the other.
Adds(args, a, v) ==
    /\ a \in [0 .. Len(args) -> Nat]
    /\ v \in [0 .. Len(args) -> [Kinds -> {args[i].value : i \in 1 .. Len(args)} \cup {NoValue}]]
    /\ a[0] = 0 /\ v[0] = [k \in Kinds |-> NoValue]
    /\ \A n \in 1 .. Len(args) :
        /\ a[n] = a[n - 1] + Bit(args[n].kind)
        /\ v[n] = [v[n - 1] EXCEPT ![Field(args[n].kind)] = args[n].value]

LEMMA RuleTold ==
    ASSUME NEW hook, NEW args, IsArgs(args)
    PROVE  \E a, v : /\ Adds(args, a, v)
                     /\ NewRule(hook, args) = Zeroed(hook, args, a[Len(args)], v[Len(args)])
<1>1. PICK L \in Nat : L = Len(args)  BY ArgsTyped
<1>2. PICK V : V = {args[i].value : i \in 1 .. L} \cup {NoValue}  OBVIOUS
<1>3. ASSUME NEW n \in 1 .. L
      PROVE  Bit(args[n].kind) \in Nat /\ Field(args[n].kind) \in Kinds /\ args[n].value \in V
  BY <1>1, <1>2, BitTypes, ArgsTyped
<1>4. PICK a : Runs(a, Nat, L, 0, [z \in Nat \X (1 .. L) |-> z[1] + Bit(args[z[2]].kind)])
  <2>1. [z \in Nat \X (1 .. L) |-> z[1] + Bit(args[z[2]].kind)] \in [Nat \X (1 .. L) -> Nat]
    BY <1>3
  <2> QED BY <2>1, LoopRuns
<1>5. PICK v : Runs(v, [Kinds -> V], L, [k \in Kinds |-> NoValue],
                    [z \in [Kinds -> V] \X (1 .. L) |->
                        [z[1] EXCEPT ![Field(args[z[2]].kind)] = args[z[2]].value]])
  <2>1. [z \in [Kinds -> V] \X (1 .. L) |-> [z[1] EXCEPT ![Field(args[z[2]].kind)] = args[z[2]].value]]
            \in [[Kinds -> V] \X (1 .. L) -> [Kinds -> V]]
    BY <1>3
  <2>2. [k \in Kinds |-> NoValue] \in [Kinds -> V]  BY <1>2
  <2> QED BY <2>1, <2>2, LoopRuns
<1>6. /\ a \in [0 .. L -> Nat] /\ a[0] = 0
      /\ \A n \in 1 .. L : a[n] = a[n - 1] + Bit(args[n].kind)
  <2>1. \A n \in 1 .. L : a[n - 1] \in Nat  BY <1>4 DEF Runs
  <2> QED BY <1>4, <2>1 DEF Runs
<1>7. /\ v \in [0 .. L -> [Kinds -> V]] /\ v[0] = [k \in Kinds |-> NoValue]
      /\ \A n \in 1 .. L : v[n] = [v[n - 1] EXCEPT ![Field(args[n].kind)] = args[n].value]
  <2>1. \A n \in 1 .. L : v[n - 1] \in [Kinds -> V]  BY <1>5 DEF Runs
  <2> QED BY <1>5, <2>1 DEF Runs
<1>8. PICK g : g = [n \in 0 .. L |-> Zeroed(hook, args, a[n], v[n])]  OBVIOUS
<1>9. \A n \in 0 .. L : g[n] = Zeroed(hook, args, a[n], v[n])  BY <1>8
<1>10. Told(g, hook, args)
  <2>1. g[0] = Rule(hook, args)
    <3>1. 0 \in 0 .. L  OBVIOUS
    <3>2. g[0] = Zeroed(hook, args, 0, [k \in Kinds |-> NoValue])  BY <1>6, <1>7, <1>9, <3>1
    <3> QED BY <3>2 DEF Zeroed, Rule
  <2>2. ASSUME NEW n \in 1 .. L
        PROVE  g[n] = [g[n - 1] EXCEPT !.rules = @ + Bit(args[n].kind),
                                       !.value = [@ EXCEPT ![Field(args[n].kind)] = args[n].value]]
    <3>1. n - 1 \in 0 .. L /\ n \in 0 .. L  OBVIOUS
    <3>2. PICK b : b = a[n - 1]  OBVIOUS
    <3>3. PICK w : w = v[n - 1]  OBVIOUS
    <3>4. PICK c : c = a[n] /\ c = b + Bit(args[n].kind)  BY <1>6, <3>2
    <3>5. PICK u : u = v[n] /\ u = [w EXCEPT ![Field(args[n].kind)] = args[n].value]  BY <1>7, <3>3
    <3>6. g[n - 1] = Zeroed(hook, args, b, w) /\ g[n] = Zeroed(hook, args, c, u)
      BY <1>9, <3>1, <3>2, <3>3, <3>4, <3>5
    <3>7. PICK q : q = Zeroed(hook, args, b, w)  OBVIOUS
    <3>8. g[n] = [g[n - 1] EXCEPT !.rules = c, !.value = u]
      <4>1. PICK q2 : q2 = [q EXCEPT !.rules = c]  OBVIOUS
      <4>2. q2 = Zeroed(hook, args, c, w)  BY ONLY <3>7, <4>1 DEF Zeroed
      <4>3. [q2 EXCEPT !.value = u] = Zeroed(hook, args, c, u)
        BY ONLY <4>2, ValueSet
      <4> QED BY <3>6, <3>7, <4>1, <4>3
    <3>9. g[n - 1].rules = b /\ g[n - 1].value = w  BY ONLY <3>6 DEF Zeroed
    <3> QED BY <3>4, <3>5, <3>8, <3>9
  <2>3. g = [n \in 0 .. L |->
                IF n = 0 THEN Rule(hook, args)
                ELSE [g[n - 1] EXCEPT !.rules = @ + Bit(args[n].kind),
                                      !.value = [@ EXCEPT ![Field(args[n].kind)] = args[n].value]]]
    <3>1. ASSUME NEW n \in 0 .. L
          PROVE  g[n] = IF n = 0 THEN Rule(hook, args)
                        ELSE [g[n - 1] EXCEPT !.rules = @ + Bit(args[n].kind),
                                              !.value = [@ EXCEPT ![Field(args[n].kind)] = args[n].value]]
      <4>1. CASE n = 0  BY <2>1, <4>1
      <4>2. CASE n # 0
        <5>1. n \in 1 .. L  BY <4>2
        <5> QED BY <2>2, <4>2, <5>1
      <4> QED BY <4>1, <4>2
    <3> QED BY <1>8, <3>1, Zenon
  <2> QED BY <1>1, <2>3 DEF Told
<1>11. PICK f : Told(f, hook, args) /\ NewRule(hook, args) = f[L]  BY <1>1, <1>10, ToldLast
<1>12. f[L] = g[L]
  <2>1. PICK S : S = {n \in 0 .. L : f[n] = g[n]}  OBVIOUS
  <2>2. f[0] = Rule(hook, args) /\ g[0] = Rule(hook, args)
    <3>1. 0 \in 0 .. Len(args)  BY <1>1
    <3> QED BY <1>10, <1>11, <3>1 DEF Told
  <2>3. ASSUME NEW n \in 1 .. L, n - 1 \in S PROVE n \in S
    <3>1. f[n - 1] = g[n - 1] /\ n \in 0 .. L /\ n # 0  BY <2>1, <2>3
    <3>2. /\ f[n] = [f[n - 1] EXCEPT !.rules = @ + Bit(args[n].kind),
                                     !.value = [@ EXCEPT ![Field(args[n].kind)] = args[n].value]]
          /\ g[n] = [g[n - 1] EXCEPT !.rules = @ + Bit(args[n].kind),
                                     !.value = [@ EXCEPT ![Field(args[n].kind)] = args[n].value]]
      BY <1>1, <1>10, <1>11, <3>1 DEF Told
    <3> QED BY <2>1, <3>1, <3>2
  <2>4. \A n \in 0 .. L : n \in S
    <3>1. 0 \in S  BY <2>1, <2>2
    <3> QED BY <2>3, <3>1, Counted
  <2> QED BY <2>1, <2>4
<1>13. L \in 0 .. L  OBVIOUS
<1>14. NewRule(hook, args) = Zeroed(hook, args, a[L], v[L])  BY <1>11, <1>12, <1>9, <1>13
<1> QED
  <2>1. a \in [0 .. Len(args) -> Nat] /\ a[0] = 0 /\ v[0] = [k \in Kinds |-> NoValue]
    BY <1>1, <1>6, <1>7
  <2>2. v \in [0 .. Len(args) -> [Kinds -> {args[i].value : i \in 1 .. Len(args)} \cup {NoValue}]]
    BY <1>1, <1>2, <1>7
  <2>3. \A n \in 1 .. Len(args) :
            /\ a[n] = a[n - 1] + Bit(args[n].kind)
            /\ v[n] = [v[n - 1] EXCEPT ![Field(args[n].kind)] = args[n].value]
    BY <1>1, <1>6, <1>7
  <2>4. NewRule(hook, args) = Zeroed(hook, args, a[Len(args)], v[Len(args)])  BY <1>1, <1>14
  <2>5. Adds(args, a, v)  BY ONLY <2>1, <2>2, <2>3 DEF Adds
  <2> QED BY ONLY <2>4, <2>5

\* A new rule is zeroed, but for what it was asked for.
LEMMA NewRuleTyped ==
    ASSUME NEW hook, NEW args, IsArgs(args)
    PROVE  /\ \E V : NewRule(hook, args) \in RuleRec({NULL}, V)
           /\ ~NewRule(hook, args).freed
<1>1. PICK a, v : NewRule(hook, args) = Zeroed(hook, args, a, v)
  <2>1. \E a, v : NewRule(hook, args) = Zeroed(hook, args, a[Len(args)], v[Len(args)])  BY RuleTold
  <2> QED BY <2>1
<1>2. PICK V : V = {hook, args, a, v, 0}  OBVIOUS
<1>3. Zeroed(hook, args, a, v) \in RuleRec({NULL}, V) /\ ~Zeroed(hook, args, a, v).freed
  BY <1>2 DEF RuleRec, Zeroed
<1> QED BY <1>1, <1>3

\* The list after each of the first m rules of s has been looked at.
RemovedUpTo(f, s, hook, m) ==
    f = [n \in 0 .. m |->
           IF n = 0 THEN List
           ELSE IF heap[s[n]].hook = hook THEN Unlinked(f[n - 1], s[n]) ELSE f[n - 1]]

LEMMA SomeRemovedUpTo ==
    ASSUME NEW s, NEW hook, NEW L \in Nat
    PROVE  \E f : RemovedUpTo(f, s, hook, L)
<1>1. PICK Bad : Bad = {m \in Nat : ~ \E f : RemovedUpTo(f, s, hook, m)}  OBVIOUS
<1>2. CASE Bad # {}
  <2>1. Bad \in SUBSET Nat  BY <1>1
  <2>2. PICK m \in Bad : \A k \in Bad : m <= k  BY <1>2, <2>1, Least
  <2>3. m # 0
    <3>1. PICK f : f = [n \in 0 .. 0 |-> List]  OBVIOUS
    <3>2. RemovedUpTo(f, s, hook, 0)  BY <3>1 DEF RemovedUpTo
    <3> QED BY <1>1, <3>2
  <2>4. m \in Nat /\ m - 1 \in Nat /\ m - 1 \notin Bad
    <3>1. m \in Nat  BY <2>1
    <3>2. m - 1 \in Nat /\ m - 1 < m  BY <2>3, <3>1
    <3> QED BY <2>2, <3>1, <3>2
  <2>5. PICK f : RemovedUpTo(f, s, hook, m - 1)  BY <1>1, <2>4
  <2>6. PICK g : g = [n \in 0 .. m |->
                        IF n < m THEN f[n]
                        ELSE IF heap[s[m]].hook = hook THEN Unlinked(f[m - 1], s[m]) ELSE f[m - 1]]
    OBVIOUS
  <2>7. ASSUME NEW n \in 0 .. m
        PROVE  g[n] = IF n = 0 THEN List
                      ELSE IF heap[s[n]].hook = hook THEN Unlinked(g[n - 1], s[n]) ELSE g[n - 1]
    <3>1. CASE n = m
      <4>1. m - 1 \in 0 .. m /\ m - 1 < m /\ n # 0  BY <2>3, <2>4, <3>1
      <4>2. g[n - 1] = f[m - 1]  BY <2>6, <3>1, <4>1
      <4> QED BY <2>6, <3>1, <4>1, <4>2
    <3>2. CASE n = 0
      <4>1. 0 < m /\ 0 \in 0 .. m - 1 /\ 0 \in 0 .. m  BY <2>3, <2>4
      <4>2. g[0] = f[0]  BY <2>6, <4>1
      <4>3. f[0] = List  BY <2>5, <4>1 DEF RemovedUpTo
      <4> QED BY <3>2, <4>2, <4>3
    <3>3. CASE n # m /\ n # 0
      <4>1. n \in 0 .. m - 1 /\ n < m /\ n - 1 \in 0 .. m /\ n - 1 < m  BY <2>4, <3>3
      <4>2. g[n] = f[n] /\ g[n - 1] = f[n - 1]  BY <2>6, <4>1
      <4>3. f[n] = IF heap[s[n]].hook = hook THEN Unlinked(f[n - 1], s[n]) ELSE f[n - 1]
        BY <2>5, <3>3, <4>1 DEF RemovedUpTo
      <4> QED BY <3>3, <4>2, <4>3
    <3> QED BY <3>1, <3>2, <3>3
  <2>8. RemovedUpTo(g, s, hook, m)  BY <2>6, <2>7 DEF RemovedUpTo
  <2> QED BY <1>1, <2>2, <2>8
<1>3. CASE Bad = {}  BY <1>1, <1>3
<1> QED BY <1>2, <1>3

\* iks_filter_remove_hook: the rules of the hook are taken out one after the other.
HookGone(h, g, hook) ==
    /\ Len(g) = Len(h)
    /\ \A x \in 1 .. Len(h) :
        /\ g[x].freed <=> h[x].freed \/ h[x].hook = hook
        /\ ~g[x].freed => SameRule(g[x], h[x])

LEMMA HookRemoved ==
    ASSUME InOrder(List), NEW hook, RemoveHook(hook)
    PROVE  InOrder(List)' /\ ub' = ub /\ HookGone(heap, heap', hook)
<1>1. PICK s : s = InList  OBVIOUS
<1>2. /\ s \in Seq(1 .. Len(heap)) /\ Len(heap) \in Nat
      /\ \A i \in 1 .. Len(s) : ~heap[s[i]].freed
      /\ \A i, j \in 1 .. Len(s) : s[i] = s[j] => i = j
  BY <1>1, ListWalked
<1>3. PICK L \in Nat : L = Len(s) /\ \A i \in 1 .. L : s[i] \in 1 .. Len(heap)  BY <1>2
<1>4. PICK after : RemovedUpTo(after, s, hook, L) /\ Becomes(after[L])
  <2>1. PICK f : RemovedUpTo(f, s, hook, L)  BY SomeRemovedUpTo
  <2> QED BY <1>1, <1>3, <2>1 DEF RemoveHook, InList, RemovedUpTo
<1>5. after[0] = List  BY <1>4 DEF RemovedUpTo
<1>6. \A n \in 1 .. L : after[n] = IF heap[s[n]].hook = hook THEN Unlinked(after[n - 1], s[n])
                                   ELSE after[n - 1]
  BY <1>4 DEF RemovedUpTo
<1> DEFINE Good(n) == /\ InOrder(after[n]) /\ after[n].ub = ub /\ Len(after[n].heap) = Len(heap)
                      /\ \A i \in n + 1 .. L : ~after[n].heap[s[i]].freed
                      /\ \A x \in 1 .. Len(heap) :
                            /\ after[n].heap[x].freed <=>
                                heap[x].freed \/ (heap[x].hook = hook /\ \E i \in 1 .. n : s[i] = x)
                            /\ ~after[n].heap[x].freed => SameRule(after[n].heap[x], heap[x])
<1>7. Good(0)
  <2>1. after[0].heap = heap /\ after[0].ub = ub  BY <1>5 DEF List
  <2>2. \A i \in 1 .. L : ~heap[s[i]].freed  BY <1>2, <1>3
  <2>3. \A x \in 1 .. Len(heap) :
            /\ after[0].heap[x].freed <=>
                heap[x].freed \/ (heap[x].hook = hook /\ \E i \in 1 .. 0 : s[i] = x)
            /\ ~after[0].heap[x].freed => SameRule(after[0].heap[x], heap[x])
    BY <2>1 DEF SameRule
  <2> QED BY <1>5, <2>1, <2>2, <2>3
<1>8. ASSUME NEW n \in 1 .. L, Good(n - 1) PROVE Good(n)
  <2>1. PICK l : l = after[n - 1]  OBVIOUS
  <2>2. /\ InOrder(l) /\ l.ub = ub /\ Len(l.heap) = Len(heap)
        /\ \A i \in n .. L : ~l.heap[s[i]].freed
        /\ \A x \in 1 .. Len(heap) :
            /\ l.heap[x].freed <=>
                heap[x].freed \/ (heap[x].hook = hook /\ \E i \in 1 .. n - 1 : s[i] = x)
            /\ ~l.heap[x].freed => SameRule(l.heap[x], heap[x])
    BY <1>8, <2>1
  <2>3. \A x \in 1 .. Len(heap) :
            (\E i \in 1 .. n : s[i] = x) <=> x = s[n] \/ \E i \in 1 .. n - 1 : s[i] = x
    <3> TAKE x \in 1 .. Len(heap)
    <3>1. \A i \in 1 .. n : i = n \/ i \in 1 .. n - 1  OBVIOUS
    <3>2. n \in 1 .. n /\ \A i \in 1 .. n - 1 : i \in 1 .. n  OBVIOUS
    <3> QED BY <3>1, <3>2
  <2> HIDE DEF Good
  <2>4. CASE heap[s[n]].hook # hook
    <3>1. after[n] = l  BY <1>6, <2>1, <2>4
    <3>2. \A x \in 1 .. Len(heap) :
            heap[x].hook = hook => ((\E i \in 1 .. n : s[i] = x) <=> \E i \in 1 .. n - 1 : s[i] = x)
      BY <2>4, <2>3
    <3>3. \A i \in n + 1 .. L : ~l.heap[s[i]].freed  BY <2>2
    <3>4. \A x \in 1 .. Len(heap) :
            /\ l.heap[x].freed <=>
                heap[x].freed \/ (heap[x].hook = hook /\ \E i \in 1 .. n : s[i] = x)
            /\ ~l.heap[x].freed => SameRule(l.heap[x], heap[x])
      BY <2>2, <3>2
    <3> QED BY <2>2, <3>1, <3>3, <3>4 DEF Good
  <2>5. CASE heap[s[n]].hook = hook
    <3>1. PICK x : x = s[n]  OBVIOUS
    <3>2. x \in 1 .. Len(l.heap) /\ ~l.heap[x].freed  BY <1>3, <2>2, <3>1
    <3>3. PICK m : m = Unlinked(l, x)  OBVIOUS
    <3>4. Removes(l, m, x)  BY <2>2, <3>2, <3>3, UnlinkedRemoves
    <3>5. \A j \in 1 .. Len(l.heap) : m.heap[j].freed <=> j = x \/ l.heap[j].freed
      BY <3>4 DEF Removes
    <3>6. \A j \in 1 .. Len(l.heap) : j # x => SameRule(m.heap[j], l.heap[j])  BY <3>4 DEF Removes
    <3>7. after[n] = m  BY <1>6, <2>1, <2>5, <3>1, <3>3
    <3>8. ASSUME NEW i \in n + 1 .. L PROVE ~m.heap[s[i]].freed
      <4>1. i \in 1 .. L /\ i # n /\ i \in n .. L  OBVIOUS
      <4>2. s[i] # x /\ s[i] \in 1 .. Len(l.heap) /\ ~l.heap[s[i]].freed
        BY <1>2, <1>3, <2>2, <3>1, <4>1
      <4> QED BY <3>5, <4>2
    <3>9. ASSUME NEW z \in 1 .. Len(heap)
          PROVE  /\ m.heap[z].freed <=>
                     heap[z].freed \/ (heap[z].hook = hook /\ \E i \in 1 .. n : s[i] = z)
                 /\ ~m.heap[z].freed => SameRule(m.heap[z], heap[z])
      <4>1. CASE z = x
        <5>1. m.heap[z].freed  BY <3>2, <3>5, <4>1
        <5>2. heap[z].hook = hook /\ \E i \in 1 .. n : s[i] = z  BY <2>5, <2>3, <3>1, <4>1
        <5> QED BY <5>1, <5>2
      <4>2. CASE z # x
        <5>1. /\ m.heap[z].freed <=> l.heap[z].freed
              /\ SameRule(m.heap[z], l.heap[z])
          BY <2>2, <3>5, <3>6, <4>2
        <5>2. (\E i \in 1 .. n : s[i] = z) <=> \E i \in 1 .. n - 1 : s[i] = z  BY <2>3, <3>1, <4>2
        <5>3. ~l.heap[z].freed => SameRule(l.heap[z], heap[z])  BY <2>2
        <5>4. ~m.heap[z].freed => SameRule(m.heap[z], heap[z])  BY <5>1, <5>3 DEF SameRule
        <5> QED BY <2>2, <5>1, <5>2, <5>4
      <4> QED BY <4>1, <4>2
    <3>10. InOrder(m) /\ m.ub = ub /\ Len(m.heap) = Len(heap)  BY <2>2, <3>4 DEF Removes
    <3> QED BY <3>7, <3>8, <3>9, <3>10 DEF Good
  <2> QED BY <2>4, <2>5
<1>9. Good(L)
  <2> HIDE DEF Good
  <2>1. PICK Bad : Bad = {n \in 0 .. L : ~Good(n)}  OBVIOUS
  <2>2. CASE Bad # {}
    <3>1. Bad \in SUBSET Nat  BY <2>1
    <3>2. PICK n \in Bad : \A k \in Bad : n <= k  BY <2>2, <3>1, Least
    <3>3. n \in 1 .. L /\ ~Good(n)  BY <1>7, <2>1, <3>2
    <3>4. n - 1 \in 0 .. L /\ n - 1 \notin Bad  BY <3>2, <3>3
    <3>5. Good(n - 1)  BY <2>1, <3>4
    <3> QED BY <1>8, <3>3, <3>5
  <2>3. CASE Bad = {}
    <3>1. L \in 0 .. L  OBVIOUS
    <3> QED BY <2>1, <2>3, <3>1
  <2> QED BY <2>2, <2>3
<1>10. /\ heap' = after[L].heap /\ first' = after[L].first /\ last' = after[L].last
       /\ ub' = after[L].ub
  BY <1>4 DEF Becomes
<1>11. InOrder(List)' /\ ub' = ub /\ Len(heap') = Len(heap)  BY <1>9, <1>10 DEF InOrder, List
<1>12. ASSUME NEW x \in 1 .. Len(heap)
       PROVE  /\ heap'[x].freed <=> heap[x].freed \/ heap[x].hook = hook
              /\ ~heap'[x].freed => SameRule(heap'[x], heap[x])
  <2>1. ~heap[x].freed <=> \E i \in 1 .. L : s[i] = x
    BY <1>1, <1>3, ListWalked DEF Ordered, Keeps
  <2> QED BY <1>9, <1>10, <2>1
<1> QED BY <1>11, <1>12 DEF HookGone

\* iks_filter_delete: what was in the list is gone, and that was everything.
LEMMA AllDeleted ==
    ASSUME InOrder(List), Delete
    PROVE  /\ InOrder(List)' /\ ub' = ub
           /\ Len(heap') = Len(heap) /\ \A x \in 1 .. Len(heap) : heap'[x].freed
<1>1. PICK s : s = InList  OBVIOUS
<1>2. Len(heap) \in Nat /\ Ordered(heap, first, last, s) /\ ~Freed(s) /\ s \in Seq(1 .. Len(heap))
  BY <1>1, ListWalked
<1>3. PICK V : heap \in Seq(RuleRec(0 .. Len(heap), V))  BY DEF InOrder, List, Typed
<1>4. PICK g : g = heap'  OBVIOUS
<1>5. /\ g = [x \in 1 .. Len(heap) |-> IF x \in ToSet(s) THEN Gone(heap[x]) ELSE heap[x]]
      /\ first' = NULL /\ last' = NULL
      /\ ub' = ub \cup (IF Freed(s) THEN {"rule freed twice"} ELSE {})
  BY <1>1, <1>4 DEF Delete, InList
<1>6. PICK W : V \cup {0, <<>>, [k \in Kinds |-> NoValue]} \subseteq W  OBVIOUS
<1>7. ASSUME NEW x \in 1 .. Len(heap)
      PROVE  g[x] \in RuleRec(0 .. Len(heap), W) /\ g[x].freed
  <2>1. heap[x] \in RuleRec(0 .. Len(heap), V)  BY <1>3
  <2>2. RuleRec(0 .. Len(heap), V) \subseteq RuleRec(0 .. Len(heap), W)  BY <1>6, RulesTyped
  <2>3. CASE x \in ToSet(s)
    <3>1. g[x] = Gone(heap[x])  BY <1>5, <2>3
    <3>2. NULL \in 0 .. Len(heap) /\ heap[x].hook \in W  BY <1>2, <1>6, <2>1 DEF RuleRec, NULL
    <3> QED BY <1>6, <3>1, <3>2 DEF Gone, Rule, RuleRec
  <2>4. CASE x \notin ToSet(s)
    <3>1. g[x] = heap[x]  BY <1>5, <2>4
    <3>2. ~ \E i \in 1 .. Len(s) : s[i] = x  BY <1>2, <2>4 DEF ToSet
    <3>3. heap[x].freed  BY <1>2, <3>2 DEF Ordered, Keeps
    <3> QED BY <2>1, <2>2, <3>1, <3>3
  <2> QED BY <2>3, <2>4
<1>8. g \in Seq(RuleRec(0 .. Len(heap), W)) /\ Len(g) = Len(heap)
  <2>1. g = [x \in 1 .. Len(heap) |-> g[x]]  BY <1>5
  <2> QED BY <1>2, <1>7, <2>1
<1>9. Typed(g)  BY <1>8 DEF Typed
<1>10. IsList(g, NULL, NULL, <<>>)  BY DEF IsList, IsInjective, At
<1>11. Keeps(g, <<>>)  BY <1>7, <1>8 DEF Keeps
<1>12. ub' = ub  BY <1>2, <1>5
<1> QED BY <1>4, <1>5, <1>7, <1>8, <1>9, <1>10, <1>11, <1>12 DEF InOrder, Ordered, List

\* What every call keeps; nothing but the score of a freed rule is ever touched.
LEMMA CallKeeps ==
    ASSUME InOrder(List), [Next]_vars
    PROVE  InOrder(List)' /\ (~RemovesAndPasses => ub' = ub)
<1>1. PICK l : l = List  OBVIOUS
<1>2. PICK m : m = [heap |-> heap', first |-> first', last |-> last', ub |-> ub']  OBVIOUS
<1>3. /\ l.heap = heap /\ l.first = first /\ l.last = last /\ InOrder(l)
      /\ m.heap = heap' /\ m.first = first' /\ m.last = last'
      /\ (InOrder(m) => InOrder(List)')
  BY <1>1, <1>2 DEF List
<1>4. /\ ~Freed(InList) /\ Len(heap) \in Nat /\ InList \in Seq(1 .. Len(heap))
      /\ DOMAIN heap = 1 .. Len(heap) /\ heap = [j \in 1 .. Len(heap) |-> heap[j]]
  <2>1. Typed(heap)  BY DEF InOrder, List
  <2> QED BY <2>1, ListWalked DEF Typed
<1>5. ASSUME NEW p \in Packets, Filter(p) PROVE InOrder(List)' /\ (~RemovesAndPasses => ub' = ub)
  <2>1. /\ heap' = [x \in 1 .. Len(heap) |->
                IF x \in ToSet(InList) THEN [heap[x] EXCEPT !.score = Score(heap[x], p)] ELSE heap[x]]
        /\ first' = first /\ last' = last
        /\ ub' = ub \cup (IF Freed(InList) THEN {"freed rule in the list"} ELSE {})
    BY <1>5 DEF Filter, Continue, InList
  <2>2. PICK X : X = {Score(heap[x], p) : x \in 1 .. Len(heap)}  OBVIOUS
  <2>3. Rescored(l, m, X)
    <3>1. /\ m.heap = [x \in 1 .. Len(l.heap) |->
                IF x \in ToSet(InList) THEN [heap[x] EXCEPT !.score = Score(heap[x], p)] ELSE heap[x]]
          /\ l.heap = heap
      BY <1>3, <2>1
    <3>2. ASSUME NEW j \in 1 .. Len(l.heap)
          PROVE  \/ m.heap[j] = l.heap[j]
                 \/ \E v \in X : m.heap[j] = [l.heap[j] EXCEPT !.score = v]
      <4>1. CASE j \in ToSet(InList)
        <5>1. Score(heap[j], p) \in X  BY <2>2, <3>1
        <5> QED BY <3>1, <4>1, <5>1
      <4>2. CASE j \notin ToSet(InList)  BY <3>1, <4>2
      <4> QED BY <4>1, <4>2
    <3> QED BY <1>3, <2>1, <3>1, <3>2 DEF Rescored
  <2>4. InOrder(m)  BY ONLY <1>3, <2>3, ScoredInOrder
  <2> QED BY <1>3, <1>4, <2>1, <2>4
<1>6. ASSUME Pass PROVE InOrder(List)' /\ (~RemovesAndPasses => ub' = ub)
  <2>1. PICK x : x = frames[Len(frames)].max  OBVIOUS
  <2>2. /\ heap' = [heap EXCEPT ![x].score = 0] /\ first' = first /\ last' = last
        /\ RemovesAndPasses \/ ~heap[x].freed
        /\ ub' = ub \cup (IF heap[x].freed THEN {"score of a freed rule"} ELSE {})
                    \cup (IF Freed(InList) THEN {"freed rule in the list"} ELSE {})
    BY <1>6, <2>1 DEF Pass, Continue, InList
  <2>3. Rescored(l, m, {0})
    <3>1. m.heap = [heap EXCEPT ![x].score = 0] /\ l.heap = heap  BY <1>3, <2>2
    <3>2. m.heap = [j \in 1 .. Len(l.heap) |-> m.heap[j]]
      BY <1>4, <3>1
    <3>3. ASSUME NEW j \in 1 .. Len(l.heap)
          PROVE  \/ m.heap[j] = l.heap[j]
                 \/ \E v \in {0} : m.heap[j] = [l.heap[j] EXCEPT !.score = v]
      BY <1>4, <3>1
    <3> QED BY <1>3, <2>2, <3>2, <3>3 DEF Rescored
  <2>4. InOrder(m)  BY ONLY <1>3, <2>3, ScoredInOrder
  <2> QED BY <1>3, <1>4, <2>2, <2>4
<1>7. ASSUME Eat \/ UNCHANGED vars PROVE InOrder(List)' /\ (~RemovesAndPasses => ub' = ub)
  BY <1>7 DEF Eat, vars, List, InOrder
<1>8. ASSUME NEW hook \in Hooks, RemoveHook(hook)
      PROVE  InOrder(List)' /\ (~RemovesAndPasses => ub' = ub)
  BY <1>8, HookRemoved
<1>9. ASSUME NEW hook \in Hooks, NEW args \in ArgLists, AddRule(hook, args)
      PROVE  InOrder(List)' /\ (~RemovesAndPasses => ub' = ub)
  <2>1. PICK r : r = NewRule(hook, args)  OBVIOUS
  <2>2. PICK V : r \in RuleRec({NULL}, V) /\ ~r.freed
    BY <2>1, FilterAssumption, NewRuleTyped DEF IsArgs
  <2>3. /\ m.first = IF l.first = NULL THEN Len(l.heap) + 1 ELSE l.first
        /\ m.last = Len(l.heap) + 1
        /\ LET h == Append(l.heap, [r EXCEPT !.prev = l.last])
           IN  m.heap = IF l.last = NULL THEN h ELSE [h EXCEPT ![l.last].next = Len(l.heap) + 1]
        /\ ub' = ub
    BY <1>3, <1>9, <2>1 DEF AddRule
  <2>4. InOrder(m)  BY <1>3, <2>2, <2>3, AddedInOrder
  <2> QED BY <1>3, <2>3, <2>4
<1>10. ASSUME NEW x \in Live, RemoveRule(x)
       PROVE  InOrder(List)' /\ (~RemovesAndPasses => ub' = ub)
  <2>1. PICK k : k = Unlinked(l, x)  OBVIOUS
  <2>2. x \in 1 .. Len(l.heap) /\ ~l.heap[x].freed  BY <1>3 DEF Live
  <2>3. Removes(l, k, x)  BY <1>3, <2>1, <2>2, UnlinkedRemoves
  <2>4. heap' = k.heap /\ first' = k.first /\ last' = k.last /\ ub' = k.ub
    BY <1>1, <1>10, <2>1 DEF RemoveRule, Becomes
  <2>5. InOrder(k) /\ k.ub = ub  BY <1>1, <2>3 DEF Removes, List
  <2> QED BY <1>3, <2>4, <2>5 DEF InOrder
<1>11. ASSUME Delete PROVE InOrder(List)' /\ (~RemovesAndPasses => ub' = ub)
  BY <1>11, AllDeleted
<1> QED BY <1>5, <1>6, <1>7, <1>8, <1>9, <1>10, <1>11 DEF Next

LEMMA EmptyInOrder == ASSUME Init PROVE InOrder(List)
<1>1. List.heap = <<>> /\ List.first = NULL /\ List.last = NULL  BY DEF Init, List
<1>2. \A V : <<>> \in Seq(RuleRec(0 .. Len(<<>>), V))  OBVIOUS
<1>3. Typed(<<>>)  BY <1>2 DEF Typed
<1>4. IsList(<<>>, NULL, NULL, <<>>)  BY DEF IsList, IsInjective, At
<1>5. Keeps(<<>>, <<>>)  BY DEF Keeps
<1> QED BY <1>1, <1>3, <1>4, <1>5 DEF InOrder, Ordered

-----------------------------------------------------------------------------
(* Rules that name each criterion once.                                    *)

\* Is the kind k among the first n arguments?
Named(args, n, k) == IF \E i \in 1 .. n : args[i].kind = k THEN 1 ELSE 0

OnceEach(args) ==
    /\ Len(args) # 0
    /\ \A i \in 1 .. Len(args) : args[i].value # NoValue
    /\ \A i, j \in 1 .. Len(args) : Field(args[i].kind) = Field(args[j].kind) => i = j

SixBits(b1, b2, b3, b4, b5, b6) == b1 + 2 * b2 + 4 * b3 + 8 * b4 + 16 * b5 + 32 * b6

LEMMA BitsRead ==
    ASSUME NEW b1 \in {0, 1}, NEW b2 \in {0, 1}, NEW b3 \in {0, 1}, NEW b4 \in {0, 1},
           NEW b5 \in {0, 1}, NEW b6 \in {0, 1}, NEW m, m = SixBits(b1, b2, b3, b4, b5, b6)
    PROVE  /\ (m \div 1) % 2 = b1 /\ (m \div 2) % 2 = b2 /\ (m \div 4) % 2 = b3
           /\ (m \div 8) % 2 = b4 /\ (m \div 16) % 2 = b5 /\ (m \div 32) % 2 = b6
<1>1. m \in Nat  BY DEF SixBits
<1>2. m \div 1 = m  BY <1>1
<1>3. m \div 2 = b2 + 2 * b3 + 4 * b4 + 8 * b5 + 16 * b6  BY DEF SixBits
<1>4. m \div 4 = b3 + 2 * b4 + 4 * b5 + 8 * b6  BY DEF SixBits
<1>5. m \div 8 = b4 + 2 * b5 + 4 * b6  BY DEF SixBits
<1>6. m \div 16 = b5 + 2 * b6  BY DEF SixBits
<1>7. m \div 32 = b6  BY DEF SixBits
<1>8. m % 2 = b1  BY DEF SixBits
<1>9. (b2 + 2 * b3 + 4 * b4 + 8 * b5 + 16 * b6) % 2 = b2  OBVIOUS
<1>10. (b3 + 2 * b4 + 4 * b5 + 8 * b6) % 2 = b3  OBVIOUS
<1>11. (b4 + 2 * b5 + 4 * b6) % 2 = b4 /\ (b5 + 2 * b6) % 2 = b5 /\ b6 % 2 = b6  OBVIOUS
<1> QED BY <1>2, <1>3, <1>4, <1>5, <1>6, <1>7, <1>8, <1>9, <1>10, <1>11

\* The bits of a rule are those of the kinds that were named.
Marked(args, n, m) ==
    m = SixBits(Named(args, n, "ID"), Named(args, n, "TYPE"), Named(args, n, "SUBTYPE"),
                Named(args, n, "FROM"), Named(args, n, "PARTIAL"), Named(args, n, "NS"))

LEMMA NamedNext ==
    ASSUME NEW args, IsArgs(args), OnceEach(args), NEW n \in 1 .. Len(args), NEW k \in Kinds
    PROVE  Named(args, n, k) = Named(args, n - 1, k) + (IF args[n].kind = k THEN 1 ELSE 0)
<1>1. Len(args) \in Nat  BY ArgsTyped
<1>2. \A i \in 1 .. n : i = n \/ i \in 1 .. n - 1  BY <1>1
<1>3. n \in 1 .. n /\ \A i \in 1 .. n - 1 : i \in 1 .. n /\ i \in 1 .. Len(args) /\ i # n  BY <1>1
<1>4. CASE args[n].kind = k
  <2>1. \A i \in 1 .. n - 1 : args[i].kind # k  BY <1>3, <1>4 DEF OnceEach
  <2>2. Named(args, n, k) = 1 /\ Named(args, n - 1, k) = 0  BY <1>3, <1>4, <2>1 DEF Named
  <2> QED BY <1>4, <2>2
<1>5. CASE args[n].kind # k
  <2>1. (\E i \in 1 .. n : args[i].kind = k) <=> \E i \in 1 .. n - 1 : args[i].kind = k
    BY <1>2, <1>3, <1>5
  <2>2. Named(args, n, k) = Named(args, n - 1, k) /\ Named(args, n, k) \in {0, 1}
    BY <2>1 DEF Named
  <2> QED BY <1>5, <2>2
<1> QED BY <1>4, <1>5

LEMMA MarkedNext ==
    ASSUME NEW args, IsArgs(args), OnceEach(args), NEW n \in 1 .. Len(args),
           NEW m \in Nat, Marked(args, n - 1, m)
    PROVE  Marked(args, n, m + Bit(args[n].kind))
<1>1. args[n].kind \in {"ID", "TYPE", "SUBTYPE", "FROM", "PARTIAL", "NS"}  BY ArgsTyped DEF Kinds
<1>2. PICK q : q = args[n].kind  OBVIOUS
<1>3. ASSUME NEW k \in Kinds
      PROVE  Named(args, n, k) = Named(args, n - 1, k) + (IF q = k THEN 1 ELSE 0)
  BY <1>2, NamedNext
<1>4. /\ Named(args, n, "ID") = Named(args, n - 1, "ID") + (IF q = "ID" THEN 1 ELSE 0)
      /\ Named(args, n, "TYPE") = Named(args, n - 1, "TYPE") + (IF q = "TYPE" THEN 1 ELSE 0)
      /\ Named(args, n, "SUBTYPE") = Named(args, n - 1, "SUBTYPE") + (IF q = "SUBTYPE" THEN 1 ELSE 0)
      /\ Named(args, n, "FROM") = Named(args, n - 1, "FROM") + (IF q = "FROM" THEN 1 ELSE 0)
      /\ Named(args, n, "PARTIAL") = Named(args, n - 1, "PARTIAL") + (IF q = "PARTIAL" THEN 1 ELSE 0)
      /\ Named(args, n, "NS") = Named(args, n - 1, "NS") + (IF q = "NS" THEN 1 ELSE 0)
  BY <1>3 DEF Kinds
<1>5. PICK b1 \in {0, 1}, b2 \in {0, 1}, b3 \in {0, 1}, b4 \in {0, 1}, b5 \in {0, 1}, b6 \in {0, 1} :
            /\ b1 = Named(args, n - 1, "ID") /\ b2 = Named(args, n - 1, "TYPE")
            /\ b3 = Named(args, n - 1, "SUBTYPE") /\ b4 = Named(args, n - 1, "FROM")
            /\ b5 = Named(args, n - 1, "PARTIAL") /\ b6 = Named(args, n - 1, "NS")
  <2>1. \A k : Named(args, n - 1, k) \in {0, 1}  BY DEF Named
  <2> QED BY <2>1
<1>6. m = SixBits(b1, b2, b3, b4, b5, b6)  BY <1>5 DEF Marked
<1>7. m + Bit(q) = SixBits(b1 + (IF q = "ID" THEN 1 ELSE 0), b2 + (IF q = "TYPE" THEN 1 ELSE 0),
                           b3 + (IF q = "SUBTYPE" THEN 1 ELSE 0), b4 + (IF q = "FROM" THEN 1 ELSE 0),
                           b5 + (IF q = "PARTIAL" THEN 1 ELSE 0), b6 + (IF q = "NS" THEN 1 ELSE 0))
  <2>1. CASE q = "ID"
    <3>1. Bit(q) = 1  BY <2>1 DEF Bit
    <3>2. m + 1 = SixBits(b1 + 1, b2 + 0, b3 + 0, b4 + 0, b5 + 0, b6 + 0)
      BY <1>6 DEF SixBits
    <3> QED BY <2>1, <3>1, <3>2
  <2>2. CASE q = "TYPE"
    <3>1. Bit(q) = 2  BY <2>2 DEF Bit
    <3>2. m + 2 = SixBits(b1 + 0, b2 + 1, b3 + 0, b4 + 0, b5 + 0, b6 + 0)
      BY <1>6 DEF SixBits
    <3> QED BY <2>2, <3>1, <3>2
  <2>3. CASE q = "SUBTYPE"
    <3>1. Bit(q) = 4  BY <2>3 DEF Bit
    <3>2. m + 4 = SixBits(b1 + 0, b2 + 0, b3 + 1, b4 + 0, b5 + 0, b6 + 0)
      BY <1>6 DEF SixBits
    <3> QED BY <2>3, <3>1, <3>2
  <2>4. CASE q = "FROM"
    <3>1. Bit(q) = 8  BY <2>4 DEF Bit
    <3>2. m + 8 = SixBits(b1 + 0, b2 + 0, b3 + 0, b4 + 1, b5 + 0, b6 + 0)
      BY <1>6 DEF SixBits
    <3> QED BY <2>4, <3>1, <3>2
  <2>5. CASE q = "PARTIAL"
    <3>1. Bit(q) = 16  BY <2>5 DEF Bit
    <3>2. m + 16 = SixBits(b1 + 0, b2 + 0, b3 + 0, b4 + 0, b5 + 1, b6 + 0)
      BY <1>6 DEF SixBits
    <3> QED BY <2>5, <3>1, <3>2
  <2>6. CASE q = "NS"
    <3>1. Bit(q) = 32  BY <2>6 DEF Bit
    <3>2. m + 32 = SixBits(b1 + 0, b2 + 0, b3 + 0, b4 + 0, b5 + 0, b6 + 1)
      BY <1>6 DEF SixBits
    <3> QED BY <2>6, <3>1, <3>2
  <2> QED BY <1>1, <1>2, <2>1, <2>2, <2>3, <2>4, <2>5, <2>6
<1> QED BY <1>2, <1>4, <1>5, <1>7 DEF Marked

\* A new rule asks for what it was given, and remembers the values.
LEMMA RuleAsks ==
    ASSUME NEW hook, NEW args, IsArgs(args), OnceEach(args), NEW r, r = NewRule(hook, args)
    PROVE  /\ r.hook = hook /\ r.args = args /\ r.score = 0 /\ ~r.freed
           /\ \A k \in Kinds : Asks(r, k) <=> \E i \in 1 .. Len(args) : args[i].kind = k
           /\ \A i \in 1 .. Len(args) : r.value[Field(args[i].kind)] = args[i].value
<1>1. PICK a, v : /\ Adds(args, a, v)
                  /\ NewRule(hook, args) = Zeroed(hook, args, a[Len(args)], v[Len(args)])
  BY RuleTold
<1>2. PICK L \in Nat : L = Len(args) /\ L # 0  BY ArgsTyped DEF OnceEach
<1>3. \A i \in 1 .. L : args[i].kind \in Kinds  BY <1>2, ArgsTyped
<1>4. L \in 0 .. L  BY <1>2
<1>5. /\ r.hook = hook /\ r.args = args /\ r.score = 0 /\ ~r.freed
      /\ r.rules = a[L] /\ r.value = v[L]
  <2>1. r = Zeroed(hook, args, a[L], v[L])  BY <1>1, <1>2
  <2> QED BY <2>1 DEF Zeroed
<1>6. Marked(args, L, a[L])
  <2>1. PICK S : S = {n \in 0 .. L : Marked(args, n, a[n])}  OBVIOUS
  <2>2. 0 \in S
    <3>1. a[0] = 0  BY <1>1 DEF Adds
    <3>2. \A k : Named(args, 0, k) = 0  BY DEF Named
    <3> QED BY <2>1, <3>1, <3>2 DEF Marked, SixBits
  <2>3. ASSUME NEW n \in 1 .. L, n - 1 \in S PROVE n \in S
    <3>1. a[n - 1] \in Nat /\ a[n] = a[n - 1] + Bit(args[n].kind)
      <4>1. n - 1 \in 0 .. L /\ a \in [0 .. L -> Nat]  BY <1>1, <1>2 DEF Adds
      <4> QED BY <1>1, <1>2, <4>1 DEF Adds
    <3>2. Marked(args, n, a[n - 1] + Bit(args[n].kind))  BY <1>2, <2>1, <2>3, <3>1, MarkedNext
    <3> QED BY <2>1, <3>1, <3>2
  <2>4. \A n \in 0 .. L : n \in S  BY <2>2, <2>3, Counted
  <2> QED BY <1>4, <2>1, <2>4
<1>7. ASSUME NEW k \in Kinds
      PROVE  (a[L] \div Bit(k)) % 2 = Named(args, L, k)
  <2>1. \A q : Named(args, L, q) \in {0, 1}  BY DEF Named
  <2>2. PICK b1 \in {0, 1}, b2 \in {0, 1}, b3 \in {0, 1}, b4 \in {0, 1}, b5 \in {0, 1}, b6 \in {0, 1} :
            /\ b1 = Named(args, L, "ID") /\ b2 = Named(args, L, "TYPE")
            /\ b3 = Named(args, L, "SUBTYPE") /\ b4 = Named(args, L, "FROM")
            /\ b5 = Named(args, L, "PARTIAL") /\ b6 = Named(args, L, "NS")
    BY <2>1
  <2>3. PICK m : m = a[L] /\ m = SixBits(b1, b2, b3, b4, b5, b6)  BY <1>6, <2>2 DEF Marked
  <2>4. /\ (m \div 1) % 2 = b1 /\ (m \div 2) % 2 = b2 /\ (m \div 4) % 2 = b3
        /\ (m \div 8) % 2 = b4 /\ (m \div 16) % 2 = b5 /\ (m \div 32) % 2 = b6
    BY <2>3, BitsRead
  <2>5. k \in {"ID", "TYPE", "SUBTYPE", "FROM", "PARTIAL", "NS"}  BY DEF Kinds
  <2>6. CASE k = "ID"  BY <2>2, <2>3, <2>4, <2>6 DEF Bit
  <2>7. CASE k = "TYPE"  BY <2>2, <2>3, <2>4, <2>7 DEF Bit
  <2>8. CASE k = "SUBTYPE"  BY <2>2, <2>3, <2>4, <2>8 DEF Bit
  <2>9. CASE k = "FROM"  BY <2>2, <2>3, <2>4, <2>9 DEF Bit
  <2>10. CASE k = "PARTIAL"  BY <2>2, <2>3, <2>4, <2>10 DEF Bit
  <2>11. CASE k = "NS"  BY <2>2, <2>3, <2>4, <2>11 DEF Bit
  <2> QED BY <2>5, <2>6, <2>7, <2>8, <2>9, <2>10, <2>11
<1>8. \A k \in Kinds : Asks(r, k) <=> \E i \in 1 .. L : args[i].kind = k
  BY <1>5, <1>7 DEF Asks, Named
<1>9. \A i \in 1 .. L : v[L][Field(args[i].kind)] = args[i].value
  <2>1. PICK S : S = {n \in 0 .. L : \A i \in 1 .. n : v[n][Field(args[i].kind)] = args[i].value}
    OBVIOUS
  <2>2. 0 \in S  BY <2>1
  <2>3. ASSUME NEW n \in 1 .. L, n - 1 \in S PROVE n \in S
    <3>1. PICK w : w = v[n - 1]  OBVIOUS
    <3>2. v[n] = [w EXCEPT ![Field(args[n].kind)] = args[n].value]  BY <1>1, <1>2, <3>1 DEF Adds
    <3>3. PICK V : w \in [Kinds -> V]
      <4>1. n - 1 \in 0 .. L  OBVIOUS
      <4>2. PICK V : v \in [0 .. L -> [Kinds -> V]]  BY <1>1, <1>2 DEF Adds
      <4> QED BY <3>1, <4>1, <4>2
    <3>4. ASSUME NEW i \in 1 .. n PROVE v[n][Field(args[i].kind)] = args[i].value
      <4>1. i \in 1 .. L /\ Field(args[i].kind) \in Kinds  BY <1>3, BitTypes
      <4>2. CASE i = n  BY <3>2, <3>3, <4>1, <4>2
      <4>3. CASE i # n
        <5>1. i \in 1 .. n - 1  BY <4>3
        <5>2. w[Field(args[i].kind)] = args[i].value  BY <2>1, <2>3, <3>1, <5>1
        <5>3. Field(args[i].kind) # Field(args[n].kind)  BY <1>2, <4>1, <4>3 DEF OnceEach
        <5> QED BY <3>2, <3>3, <4>1, <5>2, <5>3
      <4> QED BY <4>2, <4>3
    <3> QED BY <2>1, <3>4
  <2>4. \A n \in 0 .. L : n \in S  BY <2>2, <2>3, Counted
  <2> QED BY <1>4, <2>1, <2>4
<1> QED BY <1>2, <1>5, <1>8, <1>9

\* What a rule is worth is the same in the filter and in its promise.
Suits(r, hook, args) ==
    /\ r.hook = hook /\ r.args = args
    /\ r.rules = NewRule(hook, args).rules /\ r.value = NewRule(hook, args).value

LEMMA RuleScores ==
    ASSUME NEW hook, NEW args, IsArgs(args), OnceEach(args), NEW r, Suits(r, hook, args),
           NEW q, q.wants = ToSet(args), NEW p
    PROVE  /\ Worth(r) = Promise!Matched(q) /\ Worth(r) \in Nat /\ Worth(r) > 0
           /\ Score(r, p) = IF Promise!Matches(q, p) THEN Worth(r) ELSE 0
<1>1. PICK L \in Nat : L = Len(args) /\ L # 0 /\ DOMAIN args = 1 .. L
  BY ArgsTyped DEF OnceEach
<1>2. \A i \in 1 .. L : args[i].kind \in Kinds  BY <1>1, ArgsTyped
<1>3. \A k \in Kinds : Asks(r, k) <=> \E i \in 1 .. L : args[i].kind = k
  <2>1. \A k \in Kinds : Asks(NewRule(hook, args), k) <=> \E i \in 1 .. L : args[i].kind = k
    BY <1>1, RuleAsks
  <2> QED BY <2>1 DEF Suits, Asks
<1>4. \A i \in 1 .. L : r.value[Field(args[i].kind)] = args[i].value
  <2>1. \A i \in 1 .. L : NewRule(hook, args).value[Field(args[i].kind)] = args[i].value
    BY <1>1, RuleAsks
  <2> QED BY <2>1 DEF Suits
<1>5. \A k \in Kinds : Asks(r, k) <=> \E c \in q.wants : c.kind = k
  BY <1>1, <1>3 DEF ToSet
<1>6. PICK t1 \in {0, 16}, t2 \in {0, 8}, t3 \in {0, 8}, t4 \in {0, 4}, t5 \in {0, 2}, t6 \in {0, 1} :
            /\ t1 = (IF Asks(r, "ID") THEN 16 ELSE 0) /\ t2 = (IF Asks(r, "FROM") THEN 8 ELSE 0)
            /\ t3 = (IF Asks(r, "PARTIAL") THEN 8 ELSE 0) /\ t4 = (IF Asks(r, "NS") THEN 4 ELSE 0)
            /\ t5 = (IF Asks(r, "SUBTYPE") THEN 2 ELSE 0) /\ t6 = (IF Asks(r, "TYPE") THEN 1 ELSE 0)
  OBVIOUS
<1>7. Worth(r) = t6 + t5 + t1 + t4 + t2 + t3
  <2>1. /\ Points("TYPE") = 1 /\ Points("SUBTYPE") = 2 /\ Points("ID") = 16
        /\ Points("NS") = 4 /\ Points("FROM") = 8 /\ Points("PARTIAL") = 8
    BY DEF Points
  <2> QED BY <1>6, <2>1 DEF Worth
<1>8. Promise!Matched(q) = t1 + t2 + t3 + t4 + t5 + t6
  <2>1. /\ t1 = (IF \E c \in q.wants : c.kind = "ID" THEN 16 ELSE 0)
        /\ t2 = (IF \E c \in q.wants : c.kind = "FROM" THEN 8 ELSE 0)
        /\ t3 = (IF \E c \in q.wants : c.kind = "PARTIAL" THEN 8 ELSE 0)
        /\ t4 = (IF \E c \in q.wants : c.kind = "NS" THEN 4 ELSE 0)
        /\ t5 = (IF \E c \in q.wants : c.kind = "SUBTYPE" THEN 2 ELSE 0)
        /\ t6 = (IF \E c \in q.wants : c.kind = "TYPE" THEN 1 ELSE 0)
    BY <1>5, <1>6 DEF Kinds
  <2> QED BY <2>1 DEF Promise!Matched
<1>9. Worth(r) > 0
  <2>1. 1 \in 1 .. L  BY <1>1
  <2>2. PICK k \in Kinds : k = args[1].kind  BY <1>2, <2>1
  <2>3. Asks(r, k)  BY <1>3, <2>1, <2>2
  <2>4. t1 # 0 \/ t2 # 0 \/ t3 # 0 \/ t4 # 0 \/ t5 # 0 \/ t6 # 0  BY <1>6, <2>3 DEF Kinds
  <2> QED BY <1>6, <1>7, <2>4
<1>10. (\A k \in Kinds : Asks(r, k) => Fits(r, p, k)) <=> Promise!Matches(q, p)
  <2>1. \A i \in 1 .. L : Fits(r, p, args[i].kind) <=> p[args[i].kind] = args[i].value
    <3> TAKE i \in 1 .. L
    <3>1. args[i].value # NoValue  BY <1>1 DEF OnceEach
    <3> QED BY <1>4, <3>1 DEF Fits
  <2>2. Promise!Matches(q, p) <=> \A i \in 1 .. L : p[args[i].kind] = args[i].value
    BY <1>1 DEF Promise!Matches, ToSet
  <2> QED BY <1>2, <1>3, <2>1, <2>2
<1> QED BY <1>6, <1>7, <1>8, <1>9, <1>10 DEF Score

-----------------------------------------------------------------------------
(* The best rule.                                                          *)

\* max_rule before and after each of the rules of s.
Compared(f, h, s) ==
    f = [n \in 0 .. Len(s) |->
            IF n = 0 THEN NULL
            ELSE IF h[s[n]].score > (IF f[n - 1] = NULL THEN 0 ELSE h[f[n - 1]].score)
                 THEN s[n] ELSE f[n - 1]]

LEMMA BestLast ==
    ASSUME NEW h, NEW s, NEW g, Compared(g, h, s)
    PROVE  \E f : Compared(f, h, s) /\ Best(h, s) = f[Len(s)]
BY DEF Compared, Best

\* b is the first of the best of the first n rules of s, if one has a score.
IsBest(h, s, n, b) ==
    \/ b = NULL /\ \A i \in 1 .. n : h[s[i]].score = 0
    \/ \E j \in 1 .. n :
        /\ b = s[j] /\ h[b].score > 0
        /\ \A i \in 1 .. n : h[b].score > h[s[i]].score \/ (h[b].score = h[s[i]].score /\ j <= i)

LEMMA BestFound ==
    ASSUME NEW h, NEW s, Len(s) \in Nat,
           \A i \in 1 .. Len(s) : s[i] # NULL /\ h[s[i]].score \in Nat
    PROVE  IsBest(h, s, Len(s), Best(h, s))
<1>1. PICK L \in Nat : L = Len(s)  OBVIOUS
<1>2. PICK D : D = {s[i] : i \in 1 .. L} \cup {NULL}  OBVIOUS
<1>3. PICK g : Runs(g, D, L, NULL,
                    [z \in D \X (1 .. L) |->
                        IF h[s[z[2]]].score > (IF z[1] = NULL THEN 0 ELSE h[z[1]].score)
                        THEN s[z[2]] ELSE z[1]])
  <2>1. [z \in D \X (1 .. L) |->
            IF h[s[z[2]]].score > (IF z[1] = NULL THEN 0 ELSE h[z[1]].score)
            THEN s[z[2]] ELSE z[1]] \in [D \X (1 .. L) -> D]
    BY <1>2
  <2>2. NULL \in D  BY <1>2
  <2> QED BY <2>1, <2>2, LoopRuns
<1>4. Compared(g, h, s)
  <2>1. g \in [0 .. L -> D] /\ g[0] = NULL  BY <1>3 DEF Runs
  <2>2. ASSUME NEW n \in 1 .. L
        PROVE  g[n] = IF h[s[n]].score > (IF g[n - 1] = NULL THEN 0 ELSE h[g[n - 1]].score)
                      THEN s[n] ELSE g[n - 1]
    <3>1. n - 1 \in 0 .. L  OBVIOUS
    <3>2. g[n - 1] \in D  BY <2>1, <3>1
    <3> QED BY <1>3, <3>2 DEF Runs
  <2>3. ASSUME NEW n \in 0 .. L
        PROVE  g[n] = IF n = 0 THEN NULL
                      ELSE IF h[s[n]].score > (IF g[n - 1] = NULL THEN 0 ELSE h[g[n - 1]].score)
                           THEN s[n] ELSE g[n - 1]
    <3>1. CASE n = 0  BY <2>1, <3>1
    <3>2. CASE n # 0
      <4>1. n \in 1 .. L  BY <3>2
      <4> QED BY <2>2, <3>2, <4>1
    <3> QED BY <3>1, <3>2
  <2>4. g = [n \in 0 .. L |-> g[n]]  BY <2>1
  <2>5. g = [n \in 0 .. L |->
                IF n = 0 THEN NULL
                ELSE IF h[s[n]].score > (IF g[n - 1] = NULL THEN 0 ELSE h[g[n - 1]].score)
                     THEN s[n] ELSE g[n - 1]]
    BY <2>3, <2>4, Zenon
  <2> QED BY <1>1, <2>5 DEF Compared
<1>5. PICK f : Compared(f, h, s) /\ Best(h, s) = f[L]  BY <1>1, <1>4, BestLast
<1>6. PICK S : S = {n \in 0 .. L : IsBest(h, s, n, f[n])}  OBVIOUS
<1>7. 0 \in S
  <2>1. 0 \in 0 .. L  OBVIOUS
  <2>2. f[0] = NULL  BY <1>1, <1>5, <2>1 DEF Compared
  <2> QED BY <1>6, <2>1, <2>2 DEF IsBest
<1>8. ASSUME NEW n \in 1 .. L, n - 1 \in S PROVE n \in S
  <2>1. n \in 0 .. L /\ n # 0 /\ n \in 1 .. n  OBVIOUS
  <2>2. f[n] = IF h[s[n]].score > (IF f[n - 1] = NULL THEN 0 ELSE h[f[n - 1]].score)
               THEN s[n] ELSE f[n - 1]
    BY <1>1, <1>5, <2>1 DEF Compared
  <2>3. IsBest(h, s, n - 1, f[n - 1])  BY <1>6, <1>8
  <2>4. \A i \in 1 .. n : i = n \/ i \in 1 .. n - 1  OBVIOUS
  <2>5. \A i \in 1 .. n : h[s[i]].score \in Nat /\ s[i] # NULL  BY <1>1
  <2>6. IsBest(h, s, n, f[n])
    <3>1. CASE f[n - 1] = NULL /\ \A i \in 1 .. n - 1 : h[s[i]].score = 0
      <4>1. CASE h[s[n]].score > 0
        <5>1. f[n] = s[n]  BY <2>2, <3>1, <4>1
        <5>2. \A i \in 1 .. n : h[s[n]].score > h[s[i]].score \/ (h[s[n]].score = h[s[i]].score /\ n <= i)
          BY <2>1, <2>4, <3>1, <4>1
        <5> QED BY <2>1, <4>1, <5>1, <5>2 DEF IsBest
      <4>2. CASE ~(h[s[n]].score > 0)
        <5>1. f[n] = NULL  BY <2>2, <3>1, <4>2
        <5>2. h[s[n]].score = 0  BY <2>1, <2>5, <4>2
        <5> QED BY <2>4, <3>1, <5>1, <5>2 DEF IsBest
      <4> QED BY <4>1, <4>2
    <3>2. ASSUME NEW j \in 1 .. n - 1, f[n - 1] = s[j], h[s[j]].score > 0,
                 \A i \in 1 .. n - 1 : \/ h[s[j]].score > h[s[i]].score
                                       \/ h[s[j]].score = h[s[i]].score /\ j <= i
          PROVE  IsBest(h, s, n, f[n])
      <4>1. j \in 1 .. n /\ f[n - 1] # NULL /\ j <= n  BY <2>5, <3>2
      <4>2. f[n] = IF h[s[n]].score > h[s[j]].score THEN s[n] ELSE s[j]  BY <2>2, <3>2, <4>1
      <4>3. CASE h[s[n]].score > h[s[j]].score
        <5>1. \A i \in 1 .. n : h[s[n]].score > h[s[i]].score \/ (h[s[n]].score = h[s[i]].score /\ n <= i)
          <6> TAKE i \in 1 .. n
          <6>1. CASE i = n  BY <2>5, <6>1
          <6>2. CASE i # n
            <7>1. i \in 1 .. n - 1  BY <6>2
            <7>2. h[s[i]].score \in Nat /\ h[s[n]].score \in Nat /\ h[s[j]].score \in Nat
              BY <2>1, <2>5, <4>1
            <7>3. h[s[j]].score >= h[s[i]].score  BY <3>2, <7>1, <7>2
            <7> QED BY <4>3, <7>2, <7>3
          <6> QED BY <6>1, <6>2
        <5>2. h[s[n]].score > 0  BY <2>1, <2>5, <3>2, <4>1, <4>3
        <5> QED BY <2>1, <4>2, <4>3, <5>1, <5>2 DEF IsBest
      <4>4. CASE ~(h[s[n]].score > h[s[j]].score)
        <5>1. h[s[j]].score > h[s[n]].score \/ h[s[j]].score = h[s[n]].score
          BY <2>1, <2>5, <4>1, <4>4
        <5>2. \A i \in 1 .. n : h[s[j]].score > h[s[i]].score \/ (h[s[j]].score = h[s[i]].score /\ j <= i)
          BY <2>4, <3>2, <4>1, <5>1
        <5>3. f[n] = s[j]  BY <4>2, <4>4
        <5> QED BY <3>2, <4>1, <5>2, <5>3 DEF IsBest
      <4> QED BY <4>3, <4>4
    <3> QED BY <2>3, <3>1, <3>2 DEF IsBest
  <2> QED BY <1>6, <2>6
<1>9. L \in S
  <2>1. \A n \in 0 .. L : n \in S  BY <1>7, <1>8, Counted
  <2> QED BY <2>1
<1> QED BY <1>1, <1>5, <1>6, <1>9

-----------------------------------------------------------------------------
(* The packet is routed.                                                   *)

\* Hooks do not filter packets, a hook that removed its own rule eats the packet,
\* and rules ask for something, for each criterion once.
Plain ==
    /\ MaxDepth = 1 /\ ~RemovesAndPasses
    /\ \A args \in ArgLists : OnceEach(args)

RuleKept(r) ==
    \E hook \in Hooks, args \in ArgLists : Suits(r, hook, args) /\ r.score \in {0, Worth(r)}

Called(p, x) == [packet |-> p, max |-> x]

RInv ==
    /\ InOrder(List) /\ Len(heap) <= MaxRules
    /\ \A x \in Live : RuleKept(heap[x])
    /\ \/ frames = <<>>
       \/ \E p \in Packets, x \in 1 .. Len(heap) : frames = <<Called(p, x)>>

LEMMA ListIsLive == InOrder(List) => ToSet(InList) = Live
<1> SUFFICES ASSUME InOrder(List) PROVE ToSet(InList) = Live  OBVIOUS
<1>1. PICK s : s = InList  OBVIOUS
<1>2. /\ Len(heap) \in Nat /\ Ordered(heap, first, last, s) /\ s \in Seq(1 .. Len(heap))
  BY <1>1, ListWalked
<1>3. \A i \in 1 .. Len(s) : s[i] \in 1 .. Len(heap)  BY <1>2
<1> QED BY <1>1, <1>2, <1>3 DEF Ordered, Keeps, Live, ToSet

\* A rule that is kept has a score of 0 or what its wants are worth.
LEMMA KeptScores ==
    ASSUME Plain, NEW r, RuleKept(r), NEW q, q.wants = ToSet(r.args)
    PROVE  /\ Worth(r) = Promise!Matched(q) /\ Worth(r) \in Nat /\ Worth(r) > 0
           /\ \A p : Score(r, p) = IF Promise!Matches(q, p) THEN Worth(r) ELSE 0
           /\ r.score \in {0, Worth(r)}
<1>1. PICK hook \in Hooks, args \in ArgLists : Suits(r, hook, args) /\ r.score \in {0, Worth(r)}
  BY DEF RuleKept
<1>2. IsArgs(args) /\ OnceEach(args)  BY FilterAssumption DEF Plain, IsArgs
<1>3. q.wants = ToSet(args)  BY <1>1 DEF Suits
<1> QED BY <1>1, <1>2, <1>3, RuleScores

LEMMA SameKept ==
    ASSUME NEW q, NEW r, SameRule(q, r), RuleKept(r)
    PROVE  RuleKept(q)
<1>1. PICK hook \in Hooks, args \in ArgLists : Suits(r, hook, args) /\ r.score \in {0, Worth(r)}
  BY DEF RuleKept
<1>2. Suits(q, hook, args)  BY <1>1 DEF Suits, SameRule
<1>3. Worth(q) = Worth(r) /\ q.score = r.score  BY DEF Worth, Asks, SameRule
<1> QED BY <1>1, <1>2, <1>3 DEF RuleKept

\* Another score, and nothing else.
ScoreSet(q, r) ==
    q.hook = r.hook /\ q.args = r.args /\ q.rules = r.rules /\ q.value = r.value /\ q.freed = r.freed

LEMMA SetScore ==
    ASSUME InOrder(List), NEW x \in 1 .. Len(heap), NEW v, NEW q, q = [heap[x] EXCEPT !.score = v]
    PROVE  ScoreSet(q, heap[x]) /\ q.score = v
<1>1. PICK V : heap \in Seq(RuleRec(0 .. Len(heap), V))  BY DEF InOrder, List, Typed
<1>2. heap[x] \in RuleRec(0 .. Len(heap), V)  BY <1>1
<1> QED BY <1>2 DEF RuleRec, ScoreSet

\* The rules as the promise sees them, before and after a step.
LEMMA RulesSeen ==
    ASSUME InOrder(List), InOrder(List)'
    PROVE  /\ {Added(x) : x \in ToSet(InList)} = {Added(x) : x \in Live}
           /\ {Added(x) : x \in ToSet(InList)}' = {Added(x)' : x \in Live'}
<1>1. ToSet(InList) = Live  BY ListIsLive
<1>2. InOrder(List)' => (ToSet(InList) = Live)'  BY ListIsLive, PTL
<1> QED BY <1>1, <1>2

\* The best of the rules R with these ids is called, if there is one.
CallMade(R, p, ids, routed, pending, running) ==
    LET called == {r \in R : r.id \in ids}
    IN  IF called = {}
        THEN routed = {} /\ pending = {} /\ running = NULL
        ELSE \E r \in called :
                /\ \A q \in called \ {r} : Promise!Better(r, q)
                /\ routed = {p} /\ running = r.id
                /\ pending = {q.id : q \in called \ {r}}

CallsBest(p, ids) ==
    CallMade({Added(x) : x \in ToSet(InList)}, p, ids,
             (IF Running THEN {frames[1].packet} ELSE {})',
             (IF Running THEN {x \in ToSet(InList) : heap[x].score > 0} \ {frames[1].max} ELSE {})',
             (IF Running THEN frames[1].max ELSE NULL)')

\* The loops of iks_filter_packet end with the call of the best rule, or of none.
LEMMA BestCalled ==
    ASSUME Plain, RInv, InOrder(List)', NEW p \in Packets, NEW C,
           Len(heap') = Len(heap), \A x \in 1 .. Len(heap) : heap'[x].freed = heap[x].freed,
           Continue(<<>>, p, heap', InList),
           \A x \in Live : /\ ScoreSet(heap'[x], heap[x])
                           /\ heap'[x].score \in {0, Worth(heap[x])},
           C = {x \in Live : heap'[x].score > 0}
    PROVE  /\ CallsBest(p, C)
           /\ {Added(x) : x \in ToSet(InList)}' = {Added(x) : x \in ToSet(InList)}
           /\ RInv'
<1>1. PICK N \in Nat : N = Len(heap)  BY ListWalked DEF RInv
<1>2. PICK s : s = InList  OBVIOUS
<1>3. PICK L \in Nat : L = Len(s) /\ s \in Seq(1 .. N) /\ \A i, j \in 1 .. L : i < j => s[i] < s[j]
  <2>1. InOrder(List)  BY DEF RInv
  <2>2. /\ InList \in Seq(1 .. Len(heap)) /\ Ordered(heap, first, last, InList)
    BY ONLY <2>1, ListWalked
  <2>3. \A i, j \in 1 .. Len(s) : i < j => s[i] < s[j]  BY ONLY <1>2, <2>2 DEF Ordered, Keeps
  <2>4. s \in Seq(1 .. N) /\ Len(s) \in Nat  BY ONLY <1>1, <1>2, <2>2
  <2> QED BY ONLY <2>3, <2>4
<1>4. Live = {s[i] : i \in 1 .. L}
  <2>1. Live = ToSet(s)  BY <1>2, ListIsLive DEF RInv
  <2>2. DOMAIN s = 1 .. L  BY ONLY <1>3
  <2> QED BY ONLY <2>1, <2>2 DEF ToSet
<1>5. Live' = Live  BY DEF Live
<1>6. ASSUME NEW x \in Live
      PROVE  /\ Worth(heap[x]) = Promise!Matched(Added(x)) /\ Worth(heap[x]) \in Nat
             /\ heap'[x].score \in {0, Worth(heap[x])} /\ Worth(heap[x]) > 0
             /\ Added(x)' = Added(x) /\ RuleKept(heap'[x])
  <2>1. RuleKept(heap[x])  BY DEF RInv
  <2>2. Added(x).wants = ToSet(heap[x].args)  BY DEF Added
  <2>3. /\ Worth(heap[x]) = Promise!Matched(Added(x)) /\ Worth(heap[x]) \in Nat
        /\ Worth(heap[x]) > 0
    BY ONLY Plain, <2>1, <2>2, KeptScores
  <2>4. Added(x)' = Added(x)  BY DEF Added, ScoreSet
  <2>5. RuleKept(heap'[x])
    <3>1. PICK hook \in Hooks, args \in ArgLists : Suits(heap[x], hook, args)
      BY <2>1 DEF RuleKept
    <3>2. Suits(heap'[x], hook, args)  BY <3>1 DEF Suits, ScoreSet
    <3>3. Worth(heap'[x]) = Worth(heap[x])  BY DEF Worth, Asks, ScoreSet
    <3> QED BY <3>2, <3>3 DEF RuleKept
  <2> QED BY <2>3, <2>4, <2>5
<1>7. PICK R : R = {Added(x) : x \in Live}  OBVIOUS
<1>8. {Added(x) : x \in ToSet(InList)} = R /\ {Added(x) : x \in ToSet(InList)}' = R
  BY <1>5, <1>6, <1>7, RulesSeen DEF RInv
<1>9. PICK b : b = Best(heap', s)  OBVIOUS
<1>10. IsBest(heap', s, L, b)
  <2>1. \A i \in 1 .. Len(s) : s[i] # NULL /\ heap'[s[i]].score \in Nat
    <3> TAKE i \in 1 .. Len(s)
    <3>1. i \in 1 .. L  BY ONLY <1>3
    <3>2. s[i] \in Live /\ s[i] \in 1 .. N  BY ONLY <1>3, <1>4, <3>1
    <3>3. heap'[s[i]].score \in {0, Worth(heap[s[i]])} /\ Worth(heap[s[i]]) \in Nat
      BY ONLY <1>6, <3>2
    <3>4. heap'[s[i]].score \in Nat  BY ONLY <3>3
    <3>5. s[i] # NULL  BY ONLY <1>1, <3>2 DEF NULL
    <3> QED BY ONLY <3>4, <3>5
  <2> QED BY <1>3, <1>9, <2>1, BestFound
<1>11. frames' = IF b = NULL THEN <<>> ELSE <<Called(p, b)>>
  <2>1. Append(<<>>, [packet |-> p, max |-> b]) = <<Called(p, b)>>  BY DEF Called
  <2> QED BY <1>2, <1>9, <2>1 DEF Continue
<1>12. CASE b = NULL
  <2>1. C = {}
    <3>1. \A i \in 1 .. L : heap'[s[i]].score = 0  BY <1>3, <1>4, <1>10, <1>12 DEF IsBest, NULL
    <3> QED BY <1>4, <3>1
  <2>2. frames' = <<>> /\ Running' = FALSE  BY <1>11, <1>12 DEF Running
  <2>3. {r \in R : r.id \in C} = {}  BY <2>1
  <2>4. CallsBest(p, C)  BY <1>8, <2>2, <2>3 DEF CallsBest, CallMade
  <2>5. RInv'  BY <1>5, <1>6, <2>2 DEF RInv
  <2> QED BY <1>8, <2>4, <2>5
<1>13. CASE b # NULL
  <2>1. PICK j \in 1 .. L :
            /\ b = s[j] /\ heap'[b].score > 0
            /\ \A i \in 1 .. L : \/ heap'[b].score > heap'[s[i]].score
                                 \/ heap'[b].score = heap'[s[i]].score /\ j <= i
    BY <1>10, <1>13 DEF IsBest
  <2>2. b \in Live /\ b \in C /\ b \in 1 .. N  BY <1>3, <1>4, <2>1
  <2>3. {r \in R : r.id \in C} = {Added(x) : x \in C}
    <3>1. \A x : Added(x).id = x  BY DEF Added
    <3> QED BY <1>7, <3>1
  <2>4. ASSUME NEW x \in C, x # b PROVE Promise!Better(Added(b), Added(x))
    <3>1. PICK i \in 1 .. L : x = s[i]  BY <1>4
    <3>2. x \in Live /\ heap'[x].score = Worth(heap[x]) /\ heap'[b].score = Worth(heap[b])
      BY <1>6, <2>1, <2>2
    <3>3. j <= i => b < x
      <4>1. i # j  BY ONLY <2>1, <2>4, <3>1
      <4>2. i \in 1 .. L /\ j \in 1 .. L /\ x = s[i] /\ b = s[j]  BY ONLY <2>1, <3>1
      <4>3. j <= i => j < i  BY ONLY <1>3, <4>1, <4>2
      <4>4. j < i => s[j] < s[i]  BY ONLY <1>3, <4>2
      <4> QED BY ONLY <4>2, <4>3, <4>4
    <3>4. \/ Promise!Matched(Added(b)) > Promise!Matched(Added(x))
          \/ Promise!Matched(Added(b)) = Promise!Matched(Added(x)) /\ b < x
      BY <1>6, <2>1, <2>2, <3>1, <3>2, <3>3
    <3>5. Added(b).id = b /\ Added(x).id = x  BY DEF Added
    <3> QED BY <3>4, <3>5 DEF Promise!Better
  <2>5. PICK Q : Q = {Added(x) : x \in C}  OBVIOUS
  <2>6. Added(b) \in Q /\ \A q \in Q \ {Added(b)} : Promise!Better(Added(b), q)  BY <2>2, <2>4, <2>5
  <2>7. Q # {} /\ {q.id : q \in Q \ {Added(b)}} = C \ {b}
    <3>1. \A x : Added(x).id = x  BY DEF Added
    <3>2. \A q \in Q \ {Added(b)} : q.id \in C \ {b}  BY <2>5, <3>1
    <3>3. \A x \in C \ {b} : Added(x) \in Q \ {Added(b)}
      <4> TAKE x \in C \ {b}
      <4>1. Added(x).id # Added(b).id  BY <3>1
      <4> QED BY <2>5, <4>1
    <3>4. \A x \in C \ {b} : x \in {q.id : q \in Q \ {Added(b)}}  BY <3>1, <3>3
    <3> QED BY <2>6, <3>2, <3>4
  <2>8. /\ Running' = TRUE /\ frames' = <<Called(p, b)>>
        /\ frames'[1].packet = p /\ frames'[1].max = b
    BY <1>11, <1>13 DEF Running, Called
  <2>9. {x \in ToSet(InList) : heap[x].score > 0}' = C
    <3>1. InOrder(List)' => (ToSet(InList) = Live)'  BY ListIsLive, PTL
    <3> QED BY <1>5, <3>1
  <2>10. Added(b).id = b  BY DEF Added
  <2>11. CallsBest(p, C)
    BY <1>8, <2>3, <2>5, <2>6, <2>7, <2>8, <2>9, <2>10 DEF CallsBest, CallMade
  <2>12. RInv'  BY <1>1, <1>5, <1>6, <2>2, <2>8 DEF RInv
  <2> QED BY <1>8, <2>11, <2>12
<1> QED BY <1>12, <1>13

\* What the promise sees while a hook runs for a packet.
LEMMA Seen ==
    ASSUME RInv, NEW p \in Packets, NEW m \in 1 .. Len(heap), frames = <<Called(p, m)>>
    PROVE  /\ Running = TRUE /\ frames[1].packet = p /\ frames[1].max = m
           /\ frames[Len(frames)] = frames[1] /\ Len(frames) = 1 /\ Front(frames) = <<>>
<1>1. Front(<<Called(p, m)>>) = <<>>
  <2>1. PICK t : t = Called(p, m)  OBVIOUS
  <2>2. Len(<<t>>) = 1 /\ SubSeq(<<t>>, 1, 0) = <<>>  OBVIOUS
  <2> QED BY <2>1, <2>2 DEF Front
<1> QED BY <1>1 DEF Running, Called

LEMMA FilterRouted ==
    ASSUME Plain, RInv, InOrder(List)', NEW p \in Packets, Filter(p)
    PROVE  Promise!Route(p) /\ RInv'
<1>1. Len(heap) \in Nat /\ ~Freed(InList)  BY ListWalked DEF RInv
<1>2. frames = <<>>
  <2>1. Len(frames) < 1  BY DEF Filter, Plain
  <2>2. \A q \in Packets, m \in 1 .. Len(heap) : frames = <<Called(q, m)>> => Len(frames) = 1
    BY Seen
  <2> QED BY <2>1, <2>2 DEF RInv
<1>3. /\ heap' = [x \in 1 .. Len(heap) |->
            IF x \in Live THEN [heap[x] EXCEPT !.score = Score(heap[x], p)] ELSE heap[x]]
      /\ Continue(<<>>, p, heap', InList)
  <2>1. ToSet(InList) = Live  BY ListIsLive DEF RInv
  <2> QED BY <1>2, <2>1 DEF Filter, Continue, InList
<1>4. Len(heap') = Len(heap)  BY <1>1, <1>3
<1>5. ASSUME NEW x \in Live
      PROVE  /\ ScoreSet(heap'[x], heap[x]) /\ heap'[x].score = Score(heap[x], p)
             /\ Worth(heap[x]) \in Nat /\ Worth(heap[x]) > 0
             /\ Score(heap[x], p) = IF Promise!Matches(Added(x), p) THEN Worth(heap[x]) ELSE 0
  <2>1. x \in 1 .. Len(heap) /\ RuleKept(heap[x])  BY DEF RInv, Live
  <2>2. heap'[x] = [heap[x] EXCEPT !.score = Score(heap[x], p)]  BY <1>3, <2>1
  <2>3. ScoreSet(heap'[x], heap[x]) /\ heap'[x].score = Score(heap[x], p)
    BY <2>1, <2>2, SetScore DEF RInv
  <2>4. Added(x).wants = ToSet(heap[x].args)  BY DEF Added
  <2>5. /\ Worth(heap[x]) \in Nat /\ Worth(heap[x]) > 0
        /\ Score(heap[x], p) = IF Promise!Matches(Added(x), p) THEN Worth(heap[x]) ELSE 0
    BY ONLY Plain, <2>1, <2>4, KeptScores
  <2> QED BY <2>3, <2>5
<1>6. \A x \in 1 .. Len(heap) : heap'[x].freed = heap[x].freed  BY <1>3, <1>5 DEF ScoreSet
<1>7. PICK C : C = {x \in Live : heap'[x].score > 0}  OBVIOUS
<1>8. /\ CallsBest(p, C)
      /\ RInv'
      /\ {Added(x) : x \in ToSet(InList)}' = {Added(x) : x \in ToSet(InList)}
  BY <1>3, <1>4, <1>5, <1>6, <1>7, BestCalled
<1>9. {Added(x) : x \in ToSet(InList)} = {Added(x) : x \in Live}  BY RulesSeen DEF RInv
<1>10. {r.id : r \in {r \in {Added(x) : x \in ToSet(InList)} : Promise!Matches(r, p)}} = C
  <2>1. \A x : Added(x).id = x  BY DEF Added
  <2>2. C = {x \in Live : Promise!Matches(Added(x), p)}  BY <1>5, <1>7
  <2> QED BY <1>9, <2>1, <2>2
<1>11. (IF Running THEN {frames[1].packet} ELSE {}) = {}  BY <1>2 DEF Running
<1>12. CallsBest(p, {r.id : r \in {r \in {Added(x) : x \in ToSet(InList)} : Promise!Matches(r, p)}})
  BY ONLY <1>8, <1>10 DEF CallsBest
<1> QED BY ONLY <1>8, <1>11, <1>12 DEF Promise!Route, Promise!Call, Promise!NoRule, NULL, CallsBest, CallMade

LEMMA PassRouted ==
    ASSUME Plain, RInv, InOrder(List)', Pass
    PROVE  Promise!Pass /\ RInv'
<1>1. Len(heap) \in Nat /\ ~Freed(InList)  BY ListWalked DEF RInv
<1>2. frames # <<>>  BY DEF Pass
<1>3. PICK p \in Packets, m \in 1 .. Len(heap) : frames = <<Called(p, m)>>  BY <1>2 DEF RInv
<1>4. /\ Running = TRUE /\ frames[1].packet = p /\ frames[1].max = m
      /\ frames[Len(frames)] = frames[1] /\ Front(frames) = <<>>
  BY <1>3, Seen
<1>5. /\ heap' = [heap EXCEPT ![m].score = 0] /\ Continue(<<>>, p, heap', InList)
      /\ ~heap[m].freed
  BY <1>4 DEF Pass, Plain, Continue, InList
<1>6. m \in Live  BY <1>5 DEF Live
<1>7. Len(heap') = Len(heap) /\ \A x \in Live : x # m => heap'[x] = heap[x]
  <2>1. PICK V : heap \in Seq(RuleRec(0 .. Len(heap), V))  BY DEF RInv, InOrder, List, Typed
  <2> QED BY <1>5, <2>1 DEF Live
<1>8. ScoreSet(heap'[m], heap[m]) /\ heap'[m].score = 0
  <2>1. PICK V : heap \in Seq(RuleRec(0 .. Len(heap), V))  BY DEF RInv, InOrder, List, Typed
  <2>2. heap'[m] = [heap[m] EXCEPT !.score = 0]  BY <1>5, <2>1
  <2> QED BY <2>2, SetScore DEF RInv
<1>9. ASSUME NEW x \in Live
      PROVE  /\ ScoreSet(heap'[x], heap[x]) /\ heap'[x].score \in {0, Worth(heap[x])}
             /\ heap'[x].score = IF x = m THEN 0 ELSE heap[x].score
  <2>1. heap[x].score \in {0, Worth(heap[x])}  BY DEF RInv, RuleKept
  <2>2. CASE x = m  BY <1>8, <2>2
  <2>3. CASE x # m  BY <1>7, <2>1, <2>3 DEF ScoreSet
  <2> QED BY <2>2, <2>3
<1>10. \A x \in 1 .. Len(heap) : heap'[x].freed = heap[x].freed
  <2>1. \A x \in 1 .. Len(heap) : x # m => heap'[x] = heap[x]
    <3>1. PICK V : heap \in Seq(RuleRec(0 .. Len(heap), V))  BY DEF RInv, InOrder, List, Typed
    <3> QED BY <1>5, <3>1
  <2> QED BY <1>8, <2>1 DEF ScoreSet
<1>11. PICK C : C = {x \in Live : heap'[x].score > 0}  OBVIOUS
<1>12. /\ CallsBest(p, C)
       /\ RInv'
       /\ {Added(x) : x \in ToSet(InList)}' = {Added(x) : x \in ToSet(InList)}
  BY <1>5, <1>7, <1>9, <1>10, <1>11, BestCalled
<1>13. {x \in ToSet(InList) : heap[x].score > 0} \ {m} = C
  <2>1. ToSet(InList) = Live  BY ListIsLive DEF RInv
  <2> QED BY <1>9, <1>11, <2>1
<1>14. (IF Running THEN {frames[1].packet} ELSE {}) = {p}  BY <1>4
<1>15. (IF Running THEN {x \in ToSet(InList) : heap[x].score > 0} \ {frames[1].max} ELSE {}) = C
  BY <1>4, <1>13
<1>16. CallsBest(p, IF Running THEN {x \in ToSet(InList) : heap[x].score > 0} \ {frames[1].max} ELSE {})
  BY ONLY <1>12, <1>15 DEF CallsBest
<1> QED BY ONLY <1>12, <1>14, <1>16 DEF Promise!Pass, Promise!Call, Promise!NoRule, NULL, CallsBest, CallMade

LEMMA EatRouted ==
    ASSUME RInv, Eat
    PROVE  Promise!Eat /\ RInv'
<1>1. frames # <<>> /\ heap' = heap /\ first' = first /\ last' = last /\ ub' = ub
  BY DEF Eat
<1>2. PICK p \in Packets, m \in 1 .. Len(heap) : frames = <<Called(p, m)>>  BY <1>1 DEF RInv
<1>3. Running = TRUE /\ frames[1].packet = p /\ Front(frames) = <<>>  BY <1>2, Seen
<1>4. frames' = <<>> /\ Running' = FALSE  BY <1>3 DEF Eat, Running
<1>5. {Added(x) : x \in ToSet(InList)}' = {Added(x) : x \in ToSet(InList)}
  BY <1>1 DEF Added, InList
<1>6. RInv'  BY <1>1, <1>4 DEF RInv, List, Live, InOrder
<1> QED BY <1>3, <1>4, <1>5, <1>6 DEF Promise!Eat, Promise!NoRule, NULL

\* Rules are taken out of the list, and stay as they are otherwise.
TakenOut(W) ==
    /\ {Added(x) : x \in ToSet(InList)}' = {Added(x) : x \in ToSet(InList)} \ W
    /\ (IF Running THEN {x \in ToSet(InList) : heap[x].score > 0} \ {frames[1].max} ELSE {})'
        = (IF Running THEN {x \in ToSet(InList) : heap[x].score > 0} \ {frames[1].max} ELSE {})
            \ {r.id : r \in W}
    /\ (IF Running THEN {frames[1].packet} ELSE {})' = IF Running THEN {frames[1].packet} ELSE {}
    /\ (IF Running THEN frames[1].max ELSE NULL)' = IF Running THEN frames[1].max ELSE NULL

LEMMA RulesTakenOut ==
    ASSUME RInv, InOrder(List)', frames' = frames, Len(heap') = Len(heap),
           NEW G, G \subseteq Live,
           \A x \in 1 .. Len(heap) :
                /\ heap'[x].freed <=> heap[x].freed \/ x \in G
                /\ ~heap'[x].freed => SameRule(heap'[x], heap[x]),
           NEW W, W = {Added(x) : x \in G}
    PROVE  TakenOut(W) /\ RInv'
<1>1. Live' = Live \ G  BY DEF Live
<1>2. ToSet(InList) = Live  BY ListIsLive DEF RInv
<1>3. ToSet(InList)' = Live \ G
  <2>1. InOrder(List)' => (ToSet(InList) = Live)'  BY ListIsLive, PTL
  <2> QED BY <1>1, <2>1
<1>4. ASSUME NEW x \in Live \ G
      PROVE  Added(x)' = Added(x) /\ heap'[x].score = heap[x].score /\ RuleKept(heap'[x])
  <2>1. SameRule(heap'[x], heap[x])  BY DEF Live
  <2>2. RuleKept(heap[x])  BY DEF RInv
  <2> QED BY <2>1, <2>2, SameKept DEF Added, SameRule
<1>5. \A x : Added(x).id = x  BY DEF Added
<1>6. {Added(x) : x \in ToSet(InList)}' = {Added(x) : x \in Live \ G}  BY <1>3, <1>4
<1>7. {Added(x) : x \in Live \ G} = {Added(x) : x \in Live} \ W
  <2>1. \A x \in Live \ G : Added(x) \notin W  BY <1>5
  <2>2. \A x \in Live : Added(x) \notin W => x \in Live \ G  OBVIOUS
  <2> QED BY <2>1, <2>2
<1>8. {r.id : r \in W} = G  BY <1>5
<1>9. Running' = Running  BY DEF Running
<1>10. {x \in ToSet(InList) : heap[x].score > 0}' = {x \in Live : heap[x].score > 0} \ G
  BY <1>3, <1>4
<1>11. TakenOut(W)
  <2>1. /\ {Added(x) : x \in ToSet(InList)}' = {Added(x) : x \in ToSet(InList)} \ W
    BY <1>2, <1>6, <1>7
  <2>2. (IF Running THEN {x \in ToSet(InList) : heap[x].score > 0} \ {frames[1].max} ELSE {})'
            = (IF Running THEN {x \in ToSet(InList) : heap[x].score > 0} \ {frames[1].max} ELSE {})
                \ {r.id : r \in W}
    BY <1>2, <1>8, <1>9, <1>10
  <2>3. /\ (IF Running THEN {frames[1].packet} ELSE {})' = IF Running THEN {frames[1].packet} ELSE {}
        /\ (IF Running THEN frames[1].max ELSE NULL)' = IF Running THEN frames[1].max ELSE NULL
    BY <1>9
  <2> QED BY ONLY <2>1, <2>2, <2>3 DEF TakenOut
<1>12. RInv'  BY <1>1, <1>4 DEF RInv
<1> QED BY <1>11, <1>12

LEMMA RemoveRuleRouted ==
    ASSUME RInv, InOrder(List)', NEW z \in Live, RemoveRule(z)
    PROVE  Promise!Next /\ RInv'
<1>1. PICK l : l = List  OBVIOUS
<1>2. PICK k : k = Unlinked(l, z)  OBVIOUS
<1>3. l.heap = heap /\ InOrder(l) /\ z \in 1 .. Len(l.heap) /\ ~l.heap[z].freed
  BY <1>1 DEF List, RInv, Live
<1>4. Removes(l, k, z)  BY ONLY <1>2, <1>3, UnlinkedRemoves
<1>5. heap' = k.heap /\ frames' = frames  BY <1>1, <1>2 DEF RemoveRule, Becomes
<1>6. PICK G : G = {z}  OBVIOUS
<1>7. Len(heap') = Len(heap)  BY <1>3, <1>4, <1>5 DEF Removes
<1>8. ASSUME NEW j \in 1 .. Len(heap)
      PROVE  /\ heap'[j].freed <=> heap[j].freed \/ j \in G
             /\ ~heap'[j].freed => SameRule(heap'[j], heap[j])
  BY <1>3, <1>4, <1>5, <1>6 DEF Removes
<1>9. PICK W : W = {Added(x) : x \in G}  OBVIOUS
<1>10. TakenOut(W) /\ RInv'  BY <1>5, <1>6, <1>7, <1>8, <1>9, RulesTakenOut
<1>11. W = {r \in {Added(x) : x \in ToSet(InList)} : r.id = z}
  <2>1. ToSet(InList) = Live  BY ListIsLive DEF RInv
  <2>2. \A x : Added(x).id = x  BY DEF Added
  <2> QED BY <1>6, <1>9, <2>1, <2>2
<1>12. TakenOut({r \in {Added(x) : x \in ToSet(InList)} : r.id = z})  BY ONLY <1>10, <1>11 DEF TakenOut
<1>13. z \in 1 .. MaxRules
  <2>1. Len(heap) \in Nat /\ Len(heap) <= MaxRules /\ z \in 1 .. Len(heap)  BY ListWalked DEF RInv, Live
  <2> QED BY <2>1, FilterAssumption
<1>14. \E i \in 1 .. MaxRules :
            Promise!Withdraw({r \in {Added(x) : x \in ToSet(InList)} : r.id = i})
  BY ONLY <1>12, <1>13 DEF TakenOut, Promise!Withdraw
<1> QED BY ONLY <1>10, <1>14 DEF Promise!Next

LEMMA RemoveHookRouted ==
    ASSUME RInv, InOrder(List)', NEW hook \in Hooks, RemoveHook(hook)
    PROVE  Promise!Next /\ RInv'
<1>1. HookGone(heap, heap', hook)
  <2>1. InOrder(List)  BY DEF RInv
  <2> QED BY <2>1, HookRemoved
<1>2. frames' = frames  BY DEF RemoveHook
<1>3. PICK G : G = {x \in Live : heap[x].hook = hook}  OBVIOUS
<1>4. Len(heap') = Len(heap)  BY <1>1 DEF HookGone
<1>5. ASSUME NEW j \in 1 .. Len(heap)
      PROVE  /\ heap'[j].freed <=> heap[j].freed \/ j \in G
             /\ ~heap'[j].freed => SameRule(heap'[j], heap[j])
  BY <1>1, <1>3 DEF HookGone, Live
<1>6. PICK W : W = {Added(x) : x \in G}  OBVIOUS
<1>7. TakenOut(W) /\ RInv'  BY <1>2, <1>3, <1>4, <1>5, <1>6, RulesTakenOut
<1>8. W = {r \in {Added(x) : x \in ToSet(InList)} : r.hook = hook}
  <2>1. ToSet(InList) = Live  BY ListIsLive DEF RInv
  <2>2. \A x : Added(x).hook = heap[x].hook  BY DEF Added
  <2> QED BY <1>3, <1>6, <2>1, <2>2
<1>9. TakenOut({r \in {Added(x) : x \in ToSet(InList)} : r.hook = hook})
  BY ONLY <1>7, <1>8 DEF TakenOut
<1>10. \E h \in Hooks :
            Promise!Withdraw({r \in {Added(x) : x \in ToSet(InList)} : r.hook = h})
  BY ONLY <1>9, hook \in Hooks DEF TakenOut, Promise!Withdraw
<1> QED BY ONLY <1>7, <1>10 DEF Promise!Next

LEMMA DeleteRouted ==
    ASSUME RInv, InOrder(List)', Delete
    PROVE  Promise!Next /\ RInv'
<1>1. Len(heap') = Len(heap) /\ \A x \in 1 .. Len(heap) : heap'[x].freed
  BY AllDeleted DEF RInv
<1>2. frames' = frames  BY DEF Delete
<1>3. PICK G : G = Live  OBVIOUS
<1>4. ASSUME NEW j \in 1 .. Len(heap)
      PROVE  /\ heap'[j].freed <=> heap[j].freed \/ j \in G
             /\ ~heap'[j].freed => SameRule(heap'[j], heap[j])
  BY <1>1, <1>3 DEF Live
<1>5. PICK W : W = {Added(x) : x \in G}  OBVIOUS
<1>6. TakenOut(W) /\ RInv'  BY <1>1, <1>2, <1>3, <1>4, <1>5, RulesTakenOut
<1>7. W = {Added(x) : x \in ToSet(InList)}  BY <1>3, <1>5, ListIsLive DEF RInv
<1>8. TakenOut({Added(x) : x \in ToSet(InList)})  BY ONLY <1>6, <1>7 DEF TakenOut
<1>9. Promise!Withdraw({Added(x) : x \in ToSet(InList)})  BY ONLY <1>8 DEF TakenOut, Promise!Withdraw
<1> QED BY ONLY <1>6, <1>9 DEF Promise!Next

LEMMA AddRuleRouted ==
    ASSUME Plain, RInv, InOrder(List)', NEW hook \in Hooks, NEW args \in ArgLists, AddRule(hook, args)
    PROVE  Promise!Next /\ RInv'
<1>1. IsArgs(args) /\ OnceEach(args)  BY FilterAssumption DEF Plain, IsArgs
<1>2. PICK r : r = NewRule(hook, args)  OBVIOUS
<1>3. r.hook = hook /\ r.args = args /\ r.score = 0 /\ ~r.freed  BY ONLY <1>1, <1>2, RuleAsks
<1>4. PICK V : r \in RuleRec({NULL}, V)  BY ONLY <1>1, <1>2, NewRuleTyped
<1>5. PICK l : l = List  OBVIOUS
<1>6. PICK k : k = [heap |-> heap', first |-> first', last |-> last', ub |-> ub']  OBVIOUS
<1>7. OneMore(heap, heap', r)
  <2>1. /\ k.first = IF l.first = NULL THEN Len(l.heap) + 1 ELSE l.first
        /\ k.last = Len(l.heap) + 1
        /\ LET h == Append(l.heap, [r EXCEPT !.prev = l.last])
           IN  k.heap = IF l.last = NULL THEN h ELSE [h EXCEPT ![l.last].next = Len(l.heap) + 1]
        /\ l.heap = heap /\ k.heap = heap'
    BY <1>2, <1>5, <1>6 DEF AddRule, List
  <2>2. InOrder(l)  BY <1>5 DEF RInv
  <2> QED BY ONLY <1>3, <1>4, <2>1, <2>2, AddedInOrder
<1>8. PICK N \in Nat : N = Len(heap) /\ N < MaxRules /\ Len(heap') = N + 1
  BY <1>7 DEF OneMore, AddRule
<1>9. frames' = frames  BY DEF AddRule
<1>10. Live' = Live \cup {N + 1}
  <2>1. \A x \in 1 .. N : heap'[x].freed = heap[x].freed  BY <1>7, <1>8 DEF OneMore
  <2>2. ~heap'[N + 1].freed  BY <1>7, <1>8 DEF OneMore
  <2>3. 1 .. N + 1 = (1 .. N) \cup {N + 1}  OBVIOUS
  <2> QED BY <1>8, <2>1, <2>2, <2>3 DEF Live
<1>11. ASSUME NEW x \in Live
       PROVE  Added(x)' = Added(x) /\ heap'[x].score = heap[x].score /\ RuleKept(heap'[x])
  <2>1. SameRule(heap'[x], heap[x])  BY <1>7 DEF OneMore, Live
  <2>2. RuleKept(heap[x])  BY DEF RInv
  <2> QED BY <2>1, <2>2, SameKept DEF Added, SameRule
<1>12. /\ Added(N + 1)' = [id |-> N + 1, wants |-> ToSet(args), hook |-> hook]
       /\ heap'[N + 1].score = 0 /\ RuleKept(heap'[N + 1])
  <2>1. SameRule(heap'[N + 1], r)  BY <1>7, <1>8 DEF OneMore
  <2>2. Suits(heap'[N + 1], hook, args)  BY <1>2, <1>3, <2>1 DEF Suits, SameRule
  <2> QED BY <1>3, <2>1, <2>2 DEF Added, SameRule, RuleKept
<1>13. ToSet(InList) = Live /\ ToSet(InList)' = Live \cup {N + 1}
  <2>1. InOrder(List)' => (ToSet(InList) = Live)'  BY ListIsLive, PTL
  <2> QED BY <1>10, <2>1, ListIsLive DEF RInv
<1>14. {Added(x) : x \in ToSet(InList)}'
            = {Added(x) : x \in ToSet(InList)} \cup {[id |-> N + 1, wants |-> ToSet(args), hook |-> hook]}
  BY <1>11, <1>12, <1>13
<1>15. Running' = Running  BY <1>9 DEF Running
<1>16. {x \in ToSet(InList) : heap[x].score > 0}' = {x \in ToSet(InList) : heap[x].score > 0}
  BY <1>11, <1>12, <1>13
<1>17. \A q \in {Added(x) : x \in ToSet(InList)} : q.id < N + 1
  <2>1. \A x \in Live : x < N + 1  BY <1>8 DEF Live
  <2>2. \A x : Added(x).id = x  BY DEF Added
  <2> QED BY <1>13, <2>1, <2>2
<1>18. /\ (IF Running THEN {frames[1].packet} ELSE {})' = IF Running THEN {frames[1].packet} ELSE {}
       /\ (IF Running THEN {x \in ToSet(InList) : heap[x].score > 0} \ {frames[1].max} ELSE {})'
            = IF Running THEN {x \in ToSet(InList) : heap[x].score > 0} \ {frames[1].max} ELSE {}
       /\ (IF Running THEN frames[1].max ELSE NULL)' = IF Running THEN frames[1].max ELSE NULL
  BY <1>9, <1>15, <1>16
<1>19. PICK new : new = [id |-> N + 1, wants |-> ToSet(args), hook |-> hook]  OBVIOUS
<1>20. \A q \in {Added(x) : x \in ToSet(InList)} : q.id < new.id  BY <1>17, <1>19
<1>21. {Added(x) : x \in ToSet(InList)}' = {Added(x) : x \in ToSet(InList)} \cup {new}
  BY ONLY <1>14, <1>19
<1>22. N + 1 \in 1 .. MaxRules /\ ToSet(args) \in {ToSet(a) : a \in ArgLists}
  BY <1>8, FilterAssumption
<1>23. \E i \in 1 .. MaxRules, w \in {ToSet(a) : a \in ArgLists}, h \in Hooks :
            Promise!Add([id |-> i, wants |-> w, hook |-> h])
  <2>1. Promise!Add(new)  BY ONLY <1>18, <1>20, <1>21 DEF Promise!Add
  <2> QED BY <1>19, <1>22, <2>1
<1>24. RInv'
  <2>1. Len(heap') <= MaxRules  BY <1>8, FilterAssumption
  <2>2. \A x \in Live' : RuleKept(heap'[x])  BY <1>10, <1>11, <1>12
  <2>3. frames' = <<>> \/ \E p \in Packets, x \in 1 .. Len(heap') : frames' = <<Called(p, x)>>
    <3>1. \A x \in 1 .. Len(heap) : x \in 1 .. Len(heap')  BY <1>8
    <3> QED BY <1>9, <3>1 DEF RInv
  <2> QED BY <2>1, <2>2, <2>3 DEF RInv
<1> QED BY ONLY <1>23, <1>24 DEF Promise!Next

LEMMA StutterRouted == ASSUME RInv, UNCHANGED vars PROVE UNCHANGED Promise!routing /\ RInv'
<1>1. heap' = heap /\ first' = first /\ last' = last /\ frames' = frames /\ ub' = ub  BY DEF vars
<1> QED BY <1>1 DEF Promise!routing, Running, Added, InList, RInv, List, Live, InOrder

LEMMA StepRouted ==
    ASSUME Plain, RInv, [Next]_vars
    PROVE  [Promise!Next]_(Promise!routing) /\ RInv'
<1>1. InOrder(List)'  BY CallKeeps DEF RInv
<1>2. ASSUME NEW p \in Packets, Filter(p) PROVE Promise!Next /\ RInv'
  BY <1>1, <1>2, FilterRouted DEF Promise!Next
<1>3. CASE Pass  BY <1>1, <1>3, PassRouted DEF Promise!Next
<1>4. CASE Eat  BY <1>4, EatRouted DEF Promise!Next
<1>5. ASSUME NEW hook \in Hooks, RemoveHook(hook) PROVE Promise!Next /\ RInv'
  BY <1>1, <1>5, RemoveHookRouted
<1>6. ASSUME NEW hook \in Hooks, NEW args \in ArgLists, AddRule(hook, args)
      PROVE  Promise!Next /\ RInv'
  BY <1>1, <1>6, AddRuleRouted
<1>7. ASSUME NEW x \in Live, RemoveRule(x) PROVE Promise!Next /\ RInv'
  BY <1>1, <1>7, RemoveRuleRouted
<1>8. CASE Delete  BY <1>1, <1>8, DeleteRouted
<1>9. CASE UNCHANGED vars  BY <1>9, StutterRouted
<1> QED BY <1>2, <1>3, <1>4, <1>5, <1>6, <1>7, <1>8, <1>9 DEF Next

LEMMA InitRouted == ASSUME Init PROVE Promise!Init /\ RInv
<1>1. heap = <<>> /\ frames = <<>>  BY DEF Init
<1>2. Len(heap) = 0 /\ Live = {} /\ Running = FALSE  BY <1>1 DEF Live, Running
<1>3. RInv  BY <1>1, <1>2, EmptyInOrder, FilterAssumption DEF RInv
<1>4. ToSet(InList) = {}  BY <1>2, <1>3, ListIsLive DEF RInv
<1> QED BY <1>2, <1>3, <1>4 DEF Promise!Init, Promise!NoRule, NULL

-----------------------------------------------------------------------------
(* The properties.                                                         *)

\* From either end the list has the rules that are not removed, in the order they
\* were added, for every number of rules, packets and calls inside each other
\* (iks_filter_add_rule, iks_filter_remove_rule, iks_filter_remove_hook).
THEOREM RulesInOrder == Spec => []ListInOrder
<1>1. Init => InOrder(List)  BY EmptyInOrder
<1>2. InOrder(List) /\ [Next]_vars => InOrder(List)'  BY CallKeeps
<1>3. InOrder(List) => ListInOrder
  <2> SUFFICES ASSUME InOrder(List) PROVE ListInOrder  OBVIOUS
  <2>1. PICK s : s = InList  OBVIOUS
  <2>2. /\ Len(heap) \in Nat /\ Ordered(heap, first, last, s) /\ s \in Seq(1 .. Len(heap))
    BY <2>1, ListWalked
  <2>3. IsList(heap, first, last, s)  BY <2>2 DEF Ordered
  <2>4. Chain(heap, last, "prev") = Reverse(s)  BY <2>2, <2>3, ListBackwards
  <2>5. Reverse(Reverse(s)) = s  BY <2>2 DEF Reverse
  <2>6. ToSet(s) = Live
    <3>1. \A i \in 1 .. Len(s) : s[i] \in 1 .. Len(heap)  BY <2>2
    <3> QED BY <2>2, <3>1 DEF Ordered, Keeps, Live, ToSet
  <2>7. \A i, j \in 1 .. Len(s) : i < j => s[i] < s[j]  BY <2>2 DEF Ordered, Keeps
  <2> QED BY <2>1, <2>4, <2>5, <2>6, <2>7 DEF ListInOrder
<1> QED BY <1>1, <1>2, <1>3, PTL DEF Spec

\* No rule is freed twice or looked at after it was freed, unless a hook removes
\* its own rule and returns IKS_FILTER_PASS (iks_filter_packet).
THEOREM NothingFreedIsUsed == ASSUME ~RemovesAndPasses PROVE Spec => []NoUseOfFreed
<1> DEFINE IInv == InOrder(List) /\ ub = {}
<1>1. Init => IInv  BY EmptyInOrder DEF Init
<1>2. IInv /\ [Next]_vars => IInv'  BY CallKeeps
<1>3. IInv => NoUseOfFreed  BY DEF NoUseOfFreed
<1> QED BY <1>1, <1>2, <1>3, PTL DEF Spec

\* The hooks of the rules that match a packet are called from the best to the
\* least, the older first among equals, each once and until one eats the packet,
\* while rules are added and removed by the hooks (iks_filter_packet): for rules
\* that ask for something and name each criterion once, and hooks that neither
\* filter a packet nor pass after they have removed their own rule.
THEOREM FilterRoutes == ASSUME Plain PROVE Spec => ImplementsRouting
<1>1. Init => Promise!Init /\ RInv  BY InitRouted
<1>2. RInv /\ [Next]_vars => [Promise!Next]_(Promise!routing) /\ RInv'  BY StepRouted
<1> QED BY <1>1, <1>2, PTL DEF Spec, ImplementsRouting, Promise!Spec
=============================================================================
