------------------------- MODULE PyDocument_proofs -------------------------
(***************************************************************************)
(* For any number of Documents, iterators and trees, and any program that  *)
(* avoids the habits the binding does not bear: a tree lives as long as a  *)
(* Document shows it, and nothing that was freed is used (PyReference).    *)
(* Every call on Documents does to the ownership of trees what PyReference *)
(* says, so this holds whatever the trees are and however they are changed *)
(* (PyDocument).  A deleted node is not met again, and an iterator yields  *)
(* what is to be yielded, in order, however its tree changes meanwhile.    *)
(***************************************************************************)
EXTENDS PyDocument, Heap_proofs

\* The other habits concern the links of a tree, or end the process.
Careful == Careless \cap {"orphan", "stanza"} = {}

-----------------------------------------------------------------------------
(* The inductive invariant.                                                *)

\* Every Document counts once, and no tree had one before it was made.
Counted ==
    \A t \in Trees : /\ count[t] = Cardinality(Holders(t))
                     /\ tree[t] = "none" => Holders(t) = {}

\* Those that on_stream leaks do not outlive their tree unseen.
LeaksOK ==
    /\ \A d \in leaked : /\ ref[d] \in Trees
                         /\ tree[ref[d]] = "freed" \/ ref[d] = stanza
    /\ stanza # None => tree[stanza] = "live" /\ \E d \in leaked : ref[d] = stanza

ShownOK ==
    /\ \A d \in Docs : InUse(d) => tree[ref[d]] = "live"
    /\ \A t \in Trees : tree[t] = "live" => \E d \in Docs : ref[d] = t
    /\ \A i \in Iters : iref[i] # None => tree[iref[i]] = "live"

IInv == OwnTypeOK /\ Counted /\ LeaksOK /\ ShownOK /\ ub \subseteq {"null"}

-----------------------------------------------------------------------------
(* Counting.                                                               *)

LEMMA FiniteHolders ==
    ASSUME NEW t PROVE IsFiniteSet(Holders(t)) /\ Cardinality(Holders(t)) \in Nat
<1>1. Holders(t) \subseteq Docs  BY DEF Holders
<1> QED BY <1>1, PyAssumption, FS_Subset, FS_CardinalityType

LEMMA OneMore ==
    ASSUME NEW d \in Docs, NEW t \in Trees, OwnTypeOK,
           ref[d] = None, ref' = [ref EXCEPT ![d] = t]
    PROVE  /\ Holders(t)' = Holders(t) \cup {d}
           /\ Cardinality(Holders(t)') = Cardinality(Holders(t)) + 1
           /\ \A s \in Trees : s # t => Holders(s)' = Holders(s)
<1>1. t # None  BY PyAssumption
<1>2. Holders(t)' = Holders(t) \cup {d} /\ d \notin Holders(t)  BY <1>1 DEF Holders, OwnTypeOK
<1>3. Cardinality(Holders(t)') = Cardinality(Holders(t)) + 1
  BY <1>2, FiniteHolders, FS_AddElement
<1>4. \A s \in Trees : s # t => Holders(s)' = Holders(s)
  BY PyAssumption DEF Holders, OwnTypeOK
<1> QED BY <1>2, <1>3, <1>4

LEMMA OneLess ==
    ASSUME NEW d \in Docs, NEW t \in Trees, OwnTypeOK,
           ref[d] = t, ref' = [ref EXCEPT ![d] = None]
    PROVE  /\ Holders(t)' = Holders(t) \ {d}
           /\ Cardinality(Holders(t)') = Cardinality(Holders(t)) - 1
           /\ \A s \in Trees : s # t => Holders(s)' = Holders(s)
<1>1. t # None  BY PyAssumption
<1>2. Holders(t)' = Holders(t) \ {d} /\ d \in Holders(t)  BY <1>1 DEF Holders, OwnTypeOK
<1>3. Cardinality(Holders(t)') = Cardinality(Holders(t)) - 1
  BY <1>2, FiniteHolders, FS_RemoveElement
<1>4. \A s \in Trees : s # t => Holders(s)' = Holders(s)
  BY PyAssumption DEF Holders, OwnTypeOK
<1> QED BY <1>2, <1>3, <1>4

\* A Document that is there is one the program can use, or shows a freed tree.
LEMMA UsedOrFreed ==
    ASSUME IInv, NEW d \in Docs, ref[d] # None
    PROVE  /\ ref[d] \in Trees
           /\ InUse(d) \/ (d \in leaked /\ tree[ref[d]] = "freed")
BY DEF IInv, OwnTypeOK, LeaksOK, InUse

\* The Reference of a live tree is counted, so nothing is at fault.
LEMMA LiveIsFaultless ==
    ASSUME IInv, NEW t \in Trees, tree[t] = "live"
    PROVE  TreeFault(t) = {} /\ RefFault(t) = {} /\ count[t] > 0
<1>1. PICK d \in Docs : ref[d] = t  BY DEF IInv, ShownOK
<1>2. Holders(t) # {}  BY <1>1 DEF Holders
<1>3. Cardinality(Holders(t)) # 0  BY <1>2, FiniteHolders, FS_EmptySet
<1>4. count[t] > 0  BY <1>3, FiniteHolders DEF IInv, Counted
<1> QED BY <1>4 DEF TreeFault, RefFault

-----------------------------------------------------------------------------
(* Steps.                                                                  *)

LEMMA TypeStep ==
    ASSUME OwnTypeOK, [OwnNext]_own
    PROVE  OwnTypeOK'
<1> USE PyAssumption DEF OwnTypeOK
<1>1. CASE UNCHANGED own  BY <1>1 DEF own
<1>2. CASE CreateFails  BY <1>2 DEF CreateFails
<1>3. CASE StanzaEnd  BY <1>3 DEF StanzaEnd, TreeFault
<1>4. CASE StanzaRaises  BY <1>4 DEF StanzaRaises
<1>5. ASSUME NEW d \in Docs, Look(d) PROVE OwnTypeOK'
  BY <1>5 DEF Look, TreeFault
<1>6. ASSUME NEW d \in Docs, Drop(d) PROVE OwnTypeOK'
  <2>1. ref[d] \in Trees  BY <1>6 DEF Drop
  <2>2. count' \in [Trees -> Nat]  BY <1>6, <2>1 DEF Drop
  <2>3. ub' \subseteq {"tree", "reference", "null"}  BY <1>6 DEF Drop, TreeFault, RefFault
  <2> QED BY <1>6, <2>1, <2>2, <2>3 DEF Drop
<1>7. ASSUME NEW d \in Docs, NEW t \in Trees, Create(d, t) PROVE OwnTypeOK'
  BY <1>7 DEF Create, Own
<1>8. ASSUME NEW d \in Docs, NEW t \in Trees, Stanza(d, t) PROVE OwnTypeOK'
  BY <1>8 DEF Stanza, Own
<1>9. ASSUME NEW e \in Docs, NEW t \in Trees, Share(e, t) PROVE OwnTypeOK'
  BY <1>9 DEF Share, TreeFault, RefFault
<1>10. ASSUME NEW d \in Docs, NEW e \in Docs, Move(d, e) PROVE OwnTypeOK'
  BY <1>9, <1>10 DEF Move, InUse
<1>11. ASSUME NEW d \in Docs, NEW i \in Iters, Iterate(i, d) PROVE OwnTypeOK'
  BY <1>11 DEF Iterate, TreeFault
<1>12. ASSUME NEW e \in Docs, NEW i \in Iters, Yield(i, e) PROVE OwnTypeOK'
  BY <1>9, <1>12 DEF Yield
<1>13. ASSUME NEW i \in Iters, DropIter(i) PROVE OwnTypeOK'
  BY <1>13 DEF DropIter
<1> HIDE DEF OwnTypeOK
<1> QED BY <1>1, <1>2, <1>3, <1>4, <1>5, <1>6, <1>7, <1>8, <1>10, <1>11, <1>12, <1>13 DEF OwnNext

\* A Document of a new tree.
LEMMA OwnStep ==
    ASSUME IInv, OwnTypeOK', NEW d \in Docs, NEW t \in Trees, Own(d, t),
           UNCHANGED <<iref, ub>>,
           \/ UNCHANGED <<leaked, stanza>>
           \/ stanza = None /\ stanza' = t /\ leaked' = leaked \cup {d}
    PROVE  IInv'
<1> USE PyAssumption
<1>1. /\ OwnTypeOK /\ ref[d] = None /\ tree[t] = "none" /\ t # None
      /\ tree' = [tree EXCEPT ![t] = "live"] /\ count' = [count EXCEPT ![t] = 1]
      /\ ref' = [ref EXCEPT ![d] = t]
  BY DEF Own, IInv
<1>2. Counted'
  <2>1. Holders(t) = {}  BY <1>1 DEF IInv, Counted
  <2>2. Cardinality(Holders(t)) = 0  BY <2>1, FS_EmptySet
  <2>3. Cardinality(Holders(t)') = Cardinality(Holders(t)) + 1  BY <1>1, OneMore
  <2>4. Cardinality(Holders(t)') = 1  BY <2>2, <2>3
  <2>5. \A s \in Trees : s # t => Holders(s)' = Holders(s)  BY <1>1, OneMore
  <2> QED BY <1>1, <2>4, <2>5 DEF IInv, Counted, OwnTypeOK
<1>3. d \notin leaked /\ \A i \in Iters : iref[i] # t  BY <1>1 DEF IInv, LeaksOK, ShownOK
<1>4. stanza # t  BY <1>1 DEF IInv, LeaksOK
<1>5. LeaksOK'
  BY <1>1, <1>3, <1>4 DEF IInv, LeaksOK, OwnTypeOK
<1>6. ShownOK'
  <2>1. \A e \in Docs : InUse(e)' => tree'[ref'[e]] = "live"
    <3> SUFFICES ASSUME NEW e \in Docs, InUse(e)', e # d PROVE tree'[ref'[e]] = "live"
      BY <1>1 DEF OwnTypeOK
    <3>1. ref'[e] = ref[e] /\ ref[e] # None  BY <1>1 DEF InUse, OwnTypeOK
    <3>2. InUse(e) \/ tree[ref[e]] = "freed"  BY <3>1, UsedOrFreed
    <3>3. CASE InUse(e)  BY <3>1, <3>3, <1>1 DEF IInv, ShownOK, OwnTypeOK
    <3>4. CASE tree[ref[e]] = "freed" /\ ~InUse(e)
      <4>1. e \in leaked  BY <3>1, <3>4, UsedOrFreed
      <4>2. ref[e] # t  BY <3>4, <1>1
      <4> QED BY <3>1, <3>4, <4>1, <4>2, <1>1 DEF InUse
    <3> QED BY <3>2, <3>3, <3>4
  <2>2. \A s \in Trees : tree'[s] = "live" => \E e \in Docs : ref'[e] = s
    BY <1>1 DEF IInv, ShownOK, OwnTypeOK
  <2>3. \A i \in Iters : iref'[i] # None => tree'[iref'[i]] = "live"
    BY <1>1, <1>3 DEF IInv, ShownOK, OwnTypeOK
  <2> QED BY <2>1, <2>2, <2>3 DEF ShownOK
<1>7. ub' \subseteq {"null"}  BY DEF IInv
<1> QED BY <1>2, <1>5, <1>6, <1>7 DEF IInv

\* One more Document for a live tree.
LEMMA ShareStep ==
    ASSUME IInv, OwnTypeOK', NEW d \in Docs, NEW t \in Trees, Share(d, t), tree[t] = "live"
    PROVE  IInv'
<1> USE PyAssumption
<1>1. /\ OwnTypeOK /\ ref[d] = None /\ t # None
      /\ count' = [count EXCEPT ![t] = @ + 1] /\ ref' = [ref EXCEPT ![d] = t]
      /\ UNCHANGED <<tree, iref, leaked, stanza>>
  BY DEF Share, IInv
<1>2. Counted'
  <2>1. Cardinality(Holders(t)') = Cardinality(Holders(t)) + 1  BY <1>1, OneMore
  <2>2. \A s \in Trees : s # t => Holders(s)' = Holders(s)  BY <1>1, OneMore
  <2>3. count'[t] = count[t] + 1 /\ \A s \in Trees : s # t => count'[s] = count[s]
    BY <1>1 DEF OwnTypeOK
  <2> QED BY <1>1, <2>1, <2>2, <2>3 DEF IInv, Counted
<1>3. d \notin leaked  BY <1>1 DEF IInv, LeaksOK
<1>4. LeaksOK'
  BY <1>1, <1>3 DEF IInv, LeaksOK, OwnTypeOK
<1>5. ShownOK'
  <2>1. \A e \in Docs : InUse(e)' => tree'[ref'[e]] = "live"
    BY <1>1, <1>3 DEF IInv, ShownOK, OwnTypeOK, InUse
  <2>2. \A s \in Trees : tree'[s] = "live" => \E e \in Docs : ref'[e] = s
    BY <1>1 DEF IInv, ShownOK, OwnTypeOK
  <2> QED BY <1>1, <2>1, <2>2 DEF ShownOK, IInv
<1>6. ub' \subseteq {"null"}  BY LiveIsFaultless DEF IInv, Share
<1> QED BY <1>2, <1>4, <1>5, <1>6 DEF IInv

\* Only iterators come and go.
LEMMA IterStep ==
    ASSUME IInv, OwnTypeOK', UNCHANGED <<tree, count, ref, leaked, stanza>>, ub' \subseteq {"null"},
           \A i \in Iters : iref'[i] = None \/ tree[iref'[i]] = "live"
    PROVE  IInv'
<1>1. Counted'  BY DEF IInv, Counted, Holders
<1>2. LeaksOK'  BY DEF IInv, LeaksOK
<1>3. ShownOK'  BY DEF IInv, ShownOK, InUse
<1> QED BY <1>1, <1>2, <1>3 DEF IInv

LEMMA DropStep ==
    ASSUME IInv, OwnTypeOK', Careful, NEW d \in Docs, Drop(d)
    PROVE  IInv'
<1> USE PyAssumption
<1> PICK t : t = ref[d]  OBVIOUS
<1>1. /\ OwnTypeOK /\ ref[d] = t /\ t \in Trees /\ t # None /\ d \notin leaked /\ MayDrop(d)
      /\ ref' = [ref EXCEPT ![d] = None] /\ UNCHANGED <<iref, leaked, stanza>>
  BY DEF Drop, IInv, OwnTypeOK
<1>2. tree[t] = "live"  BY <1>1 DEF InUse, IInv, ShownOK
<1>3. count[t] > 0 /\ TreeFault(t) = {} /\ RefFault(t) = {}  BY <1>1, <1>2, LiveIsFaultless
<1>4. ub' \subseteq {"null"}  BY <1>3 DEF Drop, IInv
<1>5. /\ Holders(t)' = Holders(t) \ {d}
      /\ Cardinality(Holders(t)') = Cardinality(Holders(t)) - 1
      /\ \A s \in Trees : s # t => Holders(s)' = Holders(s)
  BY <1>1, OneLess
<1>6. count' = [count EXCEPT ![t] = @ - 1]  BY <1>1, <1>3 DEF Drop, OwnTypeOK
<1>7. Counted'
  <2>1. \A s \in Trees : count'[s] = Cardinality(Holders(s)')
    BY <1>1, <1>5, <1>6 DEF IInv, Counted, OwnTypeOK
  <2>2. \A s \in Trees : tree'[s] = "none" => tree[s] = "none"
    BY <1>1 DEF Drop, OwnTypeOK
  <2>3. \A s \in Trees : tree'[s] = "none" => Holders(s)' = {}
    BY <1>2, <1>5, <2>2, <1>1 DEF IInv, Counted, Drop, OwnTypeOK
  <2> QED BY <2>1, <2>3 DEF Counted
<1>8. CASE count[t] = 1
  <2>1. tree' = [tree EXCEPT ![t] = "freed"]  BY <1>8 DEF Drop
  <2>2. Holders(t)' = {}
    BY <1>1, <1>5, <1>8, FiniteHolders, FS_EmptySet, FS_Subset, <1>7, <1>6 DEF IInv, Counted
  <2>3. \A e \in Docs : e # d => ref[e] # t  BY <1>1, <1>5, <2>2 DEF Holders
  <2>4. \A i \in Iters : iref[i] # t
    BY <1>1, <2>3 DEF MayDrop, KeptFor, Careful
  <2>5. stanza # t  BY <1>1, <2>3 DEF IInv, LeaksOK, OwnTypeOK
  <2>6. LeaksOK'  BY <1>1, <2>1, <2>3, <2>5 DEF IInv, LeaksOK, OwnTypeOK
  <2>7. ShownOK'
    BY <1>1, <2>1, <2>3, <2>4 DEF IInv, ShownOK, InUse, OwnTypeOK
  <2> QED BY <1>4, <1>7, <2>6, <2>7 DEF IInv
<1>9. CASE count[t] # 1
  <2>1. tree' = tree  BY <1>9 DEF Drop
  <2>2. Cardinality(Holders(t)') = count[t] - 1  BY <1>1, <1>5 DEF IInv, Counted
  <2>3. Cardinality(Holders(t)') # 0  BY <1>1, <1>3, <1>9, <2>2 DEF OwnTypeOK
  <2>4. Holders(t)' # {}  BY <2>3, FS_EmptySet
  <2>5. PICK e \in Docs : e # d /\ ref[e] = t  BY <1>1, <1>5, <2>4 DEF Holders
  <2>6. LeaksOK'  BY <1>1, <2>1 DEF IInv, LeaksOK, OwnTypeOK
  <2>7. ShownOK'  BY <1>1, <2>1, <2>5 DEF IInv, ShownOK, InUse, OwnTypeOK
  <2> QED BY <1>4, <1>7, <2>6, <2>7 DEF IInv
<1> QED BY <1>8, <1>9

LEMMA StanzaEndStep ==
    ASSUME IInv, OwnTypeOK', Careful, StanzaEnd
    PROVE  IInv'
<1> USE PyAssumption
<1>1. /\ OwnTypeOK /\ stanza \in Trees /\ stanza' = None
      /\ tree' = [tree EXCEPT ![stanza] = "freed"] /\ UNCHANGED <<count, ref, iref, leaked>>
      /\ Holders(stanza) \subseteq leaked /\ \A i \in Iters : iref[i] # stanza
  BY DEF StanzaEnd, NothingKept, Careful, IInv, OwnTypeOK
<1>2. tree[stanza] = "live"  BY <1>1 DEF IInv, LeaksOK
<1>3. ub' \subseteq {"null"}  BY <1>1, <1>2, LiveIsFaultless DEF StanzaEnd, IInv
<1>4. Counted'
  BY <1>1, <1>2 DEF IInv, Counted, Holders, OwnTypeOK
<1>5. LeaksOK'  BY <1>1 DEF IInv, LeaksOK, OwnTypeOK
<1>6. ShownOK'
  <2>1. \A e \in Docs : InUse(e)' => tree'[ref'[e]] = "live"
    <3> SUFFICES ASSUME NEW e \in Docs, InUse(e)' PROVE tree'[ref'[e]] = "live"
      OBVIOUS
    <3>1. ref[e] # None /\ e \notin leaked  BY <1>1 DEF InUse, Careful
    <3>2. ref[e] # stanza  BY <1>1, <3>1 DEF Holders
    <3>3. tree[ref[e]] = "live"  BY <3>1 DEF IInv, ShownOK, InUse
    <3> QED BY <1>1, <3>1, <3>2, <3>3 DEF OwnTypeOK
  <2> QED BY <1>1, <2>1 DEF IInv, ShownOK, OwnTypeOK
<1> QED BY <1>3, <1>4, <1>5, <1>6 DEF IInv

LEMMA InvStep ==
    ASSUME IInv, Careful, [OwnNext]_own
    PROVE  IInv'
<1>1. OwnTypeOK'  BY TypeStep DEF IInv
<1>2. CASE UNCHANGED own
  <2>1. \A i \in Iters : iref'[i] = None \/ tree[iref'[i]] = "live"
    BY <1>2 DEF own, IInv, ShownOK
  <2>2. UNCHANGED <<tree, count, ref, leaked, stanza>> /\ ub' \subseteq {"null"}
    BY <1>2 DEF own, IInv
  <2> QED BY <1>1, <2>1, <2>2, IterStep
<1>3. CASE CreateFails
  BY <1>1, <1>3 DEF CreateFails, IInv, Counted, Holders, LeaksOK, ShownOK, InUse
<1>4. CASE StanzaEnd  BY <1>1, <1>4, StanzaEndStep
<1>5. CASE StanzaRaises
  BY <1>1, <1>5 DEF StanzaRaises, IInv, Counted, Holders, LeaksOK, ShownOK, InUse
<1>6. ASSUME NEW d \in Docs, Look(d) PROVE IInv'
  <2>1. tree[ref[d]] = "live" /\ ref[d] \in Trees
    BY <1>6 DEF Look, InUse, IInv, ShownOK, OwnTypeOK
  <2>2. ub' \subseteq {"null"}  BY <1>6, <2>1 DEF Look, TreeFault, IInv
  <2>3. \A i \in Iters : iref'[i] = None \/ tree[iref'[i]] = "live"
    BY <1>6 DEF Look, IInv, ShownOK
  <2> QED BY <1>1, <1>6, <2>2, <2>3, IterStep DEF Look
<1>7. ASSUME NEW d \in Docs, Drop(d) PROVE IInv'  BY <1>1, <1>7, DropStep
<1>8. ASSUME NEW d \in Docs, NEW t \in Trees, Create(d, t) PROVE IInv'
  BY <1>1, <1>8, OwnStep DEF Create
<1>9. ASSUME NEW d \in Docs, NEW t \in Trees, Stanza(d, t) PROVE IInv'
  BY <1>1, <1>9, OwnStep DEF Stanza
<1>10. ASSUME NEW d \in Docs, NEW e \in Docs, Move(d, e) PROVE IInv'
  <2>1. tree[ref[d]] = "live" /\ ref[d] \in Trees
    BY <1>10 DEF Move, InUse, IInv, ShownOK, OwnTypeOK
  <2> QED BY <1>1, <1>10, <2>1, ShareStep DEF Move
<1>11. ASSUME NEW d \in Docs, NEW i \in Iters, Iterate(i, d) PROVE IInv'
  <2>1. tree[ref[d]] = "live" /\ ref[d] \in Trees
    BY <1>11 DEF Iterate, InUse, IInv, ShownOK, OwnTypeOK
  <2>2. ub' \subseteq {"null"}  BY <1>11, <2>1 DEF Iterate, TreeFault, IInv
  <2>3. \A j \in Iters : iref'[j] = None \/ tree[iref'[j]] = "live"
    BY <1>11, <2>1 DEF Iterate, IInv, ShownOK, OwnTypeOK
  <2> QED BY <1>1, <1>11, <2>2, <2>3, IterStep DEF Iterate
<1>12. ASSUME NEW e \in Docs, NEW i \in Iters, Yield(i, e) PROVE IInv'
  <2>1. tree[iref[i]] = "live" /\ iref[i] \in Trees
    BY <1>12 DEF Yield, IInv, ShownOK, OwnTypeOK
  <2> QED BY <1>1, <1>12, <2>1, ShareStep DEF Yield
<1>13. ASSUME NEW i \in Iters, DropIter(i) PROVE IInv'
  <2>1. \A j \in Iters : iref'[j] = None \/ tree[iref'[j]] = "live"
    BY <1>13 DEF DropIter, IInv, ShownOK, OwnTypeOK
  <2> QED BY <1>1, <1>13, <2>1, IterStep DEF DropIter, IInv
<1> QED
  BY <1>2, <1>3, <1>4, <1>5, <1>6, <1>7, <1>8, <1>9, <1>10, <1>11, <1>12, <1>13 DEF OwnNext

LEMMA InvInit == Init => IInv
<1> SUFFICES ASSUME Init PROVE IInv  OBVIOUS
<1> USE PyAssumption DEF Init
<1>1. OwnTypeOK  BY DEF OwnTypeOK
<1>2. \A t : t \in Trees => Holders(t) = {}  BY DEF Holders
<1>3. Counted  BY <1>2, FS_EmptySet DEF Counted
<1>4. LeaksOK  BY DEF LeaksOK
<1>5. ShownOK  BY DEF ShownOK, InUse
<1> QED BY <1>1, <1>3, <1>4, <1>5 DEF IInv

LEMMA InvShows == IInv => OwnTypeOK /\ NoUseOfFreed /\ TreeLivesWithDocuments
<1> SUFFICES ASSUME IInv PROVE TreeLivesWithDocuments  BY DEF IInv, NoUseOfFreed
<1> SUFFICES ASSUME NEW t \in Trees
             PROVE  tree[t] = "live" <=> \E d \in Holders(t) : InUse(d)
  BY DEF TreeLivesWithDocuments
<1>1. ASSUME tree[t] = "live" PROVE \E d \in Holders(t) : InUse(d)
  <2>1. PICK d \in Docs : ref[d] = t  BY <1>1 DEF IInv, ShownOK
  <2>2. InUse(d)  BY <1>1, <2>1, PyAssumption, UsedOrFreed
  <2> QED BY <2>1, <2>2 DEF Holders
<1>2. ASSUME NEW d \in Holders(t), InUse(d) PROVE tree[t] = "live"
  BY <1>2 DEF Holders, IInv, ShownOK
<1> QED BY <1>1, <1>2

-----------------------------------------------------------------------------
(* Theorems.                                                               *)

LEMMA Owned == Careful => (OwnSpec => []IInv)
<1> SUFFICES ASSUME Careful PROVE OwnSpec => []IInv  OBVIOUS
<1>1. IInv /\ [OwnNext]_own => IInv'  BY InvStep
<1> QED BY <1>1, InvInit, PTL DEF OwnSpec

\* The counts, pointers and flags keep their types.
THEOREM TypeCorrect == OwnSpec => []OwnTypeOK
<1>1. Init => OwnTypeOK  BY InvInit DEF IInv
<1>2. OwnTypeOK /\ [OwnNext]_own => OwnTypeOK'  BY TypeStep
<1> QED BY <1>1, <1>2, PTL DEF OwnSpec

\* Nothing of a tree that was deleted is read, and nothing is deleted twice.
THEOREM NothingFreedIsUsed == Careful => (OwnSpec => []NoUseOfFreed)
<1> SUFFICES ASSUME Careful PROVE OwnSpec => []NoUseOfFreed  OBVIOUS
<1> QED BY Owned, InvShows, PTL

\* A tree is there exactly as long as a Document that the program has shows it.
THEOREM TreesLive == Careful => (OwnSpec => []TreeLivesWithDocuments)
<1> SUFFICES ASSUME Careful PROVE OwnSpec => []TreeLivesWithDocuments  OBVIOUS
<1> QED BY Owned, InvShows, PTL

-----------------------------------------------------------------------------
(* What Documents do to ownership.                                         *)

\* Calls that change what a Document shows, or the tree, share one tree.
LEMMA InsertsMoves ==
    ASSUME NEW d \in Docs, NEW e \in Docs, NEW h, NEW y, Inserts(d, e, h, y)
    PROVE  Move(d, e)
BY DEF Inserts

LEMMA StepImplements == [DocNext]_vars => [OwnNext]_own
<1>1. UNCHANGED vars => UNCHANGED own  BY DEF vars
<1> SUFFICES ASSUME DocNext, Alive PROVE OwnNext
  BY <1>1 DEF DocNext
<1> USE DEF OwnNext
<1>2. CASE DocumentFails \/ OnStanzaReturns \/ OnStanzaRaises
  BY <1>2 DEF DocumentFails, OnStanzaReturns, OnStanzaRaises
<1>3. ASSUME NEW d \in Docs, Read(d) \/ Forget(d) \/ Delete(d) PROVE OwnNext
  BY <1>3 DEF Read, Forget, Delete
<1>4. ASSUME NEW d \in Docs, NEW t \in Trees, NEW h \in Sources,
             Document(d, t, h) \/ OnStanza(d, t, h)
      PROVE  OwnNext
  BY <1>4 DEF Document, OnStanza
<1>5. ASSUME NEW d \in Docs, NEW n, NEW value, Set(d, n, value) PROVE OwnNext
  BY <1>5 DEF Set
<1>6. ASSUME NEW d \in Docs, NEW e \in Docs, Go(d, e) PROVE OwnNext
  BY <1>6 DEF Go
<1>7. ASSUME NEW d \in Docs, NEW e \in Docs, NEW n, Insert(d, e, n) \/ InsertText(d, e, n)
      PROVE  OwnNext
  BY <1>7, InsertsMoves DEF Insert, InsertText
<1>8. ASSUME NEW d \in Docs, NEW e \in Docs, NEW new, AppendBeside(d, e, new) \/ Prepend(d, e, new)
      PROVE  OwnNext
  BY <1>8, InsertsMoves DEF AppendBeside, Prepend
<1>9. ASSUME NEW d \in Docs, NEW i \in Iters, NEW tags, NEW n, Iter(i, d, tags, n) PROVE OwnNext
  BY <1>9 DEF Iter
<1>10. ASSUME NEW d \in Docs, NEW i \in Iters, Iter_next(i, d) PROVE OwnNext
  BY <1>10 DEF Iter_next
<1>11. ASSUME NEW i \in Iters, ForgetIter(i) PROVE OwnNext
  BY <1>11 DEF ForgetIter
<1> HIDE DEF OwnNext
<1> QED
  BY <1>2, <1>3, <1>4, <1>5, <1>6, <1>7, <1>8, <1>9, <1>10, <1>11 DEF DocNext

\* The Document objects implement the counting of PyReference.
THEOREM ImplementsOwnership == Spec => OwnSpec
<1>1. DocInit => Init  BY DEF DocInit
<1> QED BY <1>1, StepImplements, PTL DEF Spec, OwnSpec

\* No node of a deleted tree is read and no freed Reference counted by any program
\* that keeps the Document it iterates over and keeps nothing from on_stanza.
THEOREM DocumentsUseNothingFreed == Careful => (Spec => []NoUseOfFreed)
<1> SUFFICES ASSUME Careful PROVE Spec => []NoUseOfFreed  OBVIOUS
<1> QED BY ImplementsOwnership, NothingFreedIsUsed, PTL

\* A tree is deleted with the last Document that shows it, and not before.
THEOREM DocumentsKeepTrees == Careful => (Spec => []TreeLivesWithDocuments)
<1> SUFFICES ASSUME Careful PROVE Spec => []TreeLivesWithDocuments  OBVIOUS
<1> QED BY ImplementsOwnership, TreesLive, PTL

-----------------------------------------------------------------------------
(* Trees that a program can walk through without meeting a deleted node.   *)

NodesOf(h) == {x \in 1 .. Len(h) : h[x].type # "ATTRIBUTE"}

\* From a node, only nodes are met; what is not an element has no children.
Plain(h) ==
    \A x \in NodesOf(h) :
        /\ {h[x].next, h[x].prev} \subseteq NodesOf(h) \cup {NULL}
        /\ ~IsTag(h, x) => h[x].first = NULL /\ h[x].last = NULL

\* No element has a node of out among its children.
NoneListed(h, out) ==
    \A p \in 1 .. Len(h) : IsTag(h, p) =>
        \A i \in 1 .. Len(ListAt(h, p, "kids")) : ListAt(h, p, "kids")[i] \notin out

Sound(h, out) == Whole(h, out) /\ out \subseteq NodesOf(h) /\ NoneListed(h, out) /\ Plain(h)

\* g is as sound as h, and has the nodes of h.
Keeps(h, g, out) == Sound(g, out) /\ NodesOf(h) \subseteq NodesOf(g)

IsVisible(h, out, x) == ToSet(Chain(h, x, "parent")) \cap out = {}

\* s has the children of p, from the first to the last.
Listed(h, out, p, s) ==
    /\ s \in Seq(1 .. Len(h)) /\ ListOf(h, p, "kids", s) /\ Complete(h, p, "kids", out, s)
    /\ ListAt(h, p, "kids") = s
    /\ h[p].first = At(s, 1) /\ h[p].last = At(s, Len(s))
    /\ \A i \in 1 .. Len(s) :
          /\ s[i] \in NodesOf(h) /\ s[i] \notin out /\ h[s[i]].parent = p
          /\ h[s[i]].next = At(s, i + 1) /\ h[s[i]].prev = At(s, i - 1)

LEMMA ChildrenListed ==
    ASSUME NEW h, NEW out, Sound(h, out), NEW p \in 1 .. Len(h), IsTag(h, p)
    PROVE  \E s : Listed(h, out, p, s)
<1>1. Len(h) \in Nat  BY DEF Sound, Whole
<1>2. PICK s : ListOf(h, p, "kids", s) /\ Complete(h, p, "kids", out, s)
  BY DEF Sound, Whole, HasList, Roles
<1>3. ListAt(h, p, "kids") = s  BY <1>1, <1>2, WalkOfList
<1>4. IsList(h, h[p].first, h[p].last, s)  BY <1>2 DEF ListOf, FirstOf, LastOf
<1>5. PICK L \in Nat : L = Len(s) /\ s \in Seq(1 .. Len(h)) /\ \A i \in 1 .. L : s[i] \in 1 .. Len(h)
  <2>1. s \in Seq(1 .. Len(h))  BY <1>4 DEF IsList
  <2> QED BY ONLY <2>1
<1>6. ASSUME NEW i \in 1 .. L
      PROVE  /\ s[i] \in NodesOf(h) /\ s[i] \notin out /\ h[s[i]].parent = p
             /\ h[s[i]].next = At(s, i + 1) /\ h[s[i]].prev = At(s, i - 1)
  <2>1. h[s[i]].parent = p /\ Role(h, s[i]) = "kids"  BY <1>2, <1>5 DEF ListOf
  <2>2. s[i] \in NodesOf(h)  BY <1>5, <2>1 DEF Role, NodesOf
  <2>3. s[i] \notin out  BY <1>3, <1>5 DEF Sound, NoneListed
  <2>4. h[s[i]].next = At(s, i + 1)
    <3>1. h[s[i]].next = IF i = L THEN NULL ELSE s[i + 1]  BY <1>4, <1>5 DEF IsList
    <3>2. i = L <=> i + 1 \notin 1 .. L  BY <1>5
    <3> QED BY <1>5, <3>1, <3>2 DEF At
  <2>5. h[s[i]].prev = At(s, i - 1)
    <3>1. h[s[i]].prev = IF i = 1 THEN NULL ELSE s[i - 1]  BY <1>4, <1>5 DEF IsList
    <3>2. i = 1 <=> i - 1 \notin 1 .. L  BY <1>5
    <3> QED BY <1>5, <3>1, <3>2 DEF At
  <2> QED BY <2>1, <2>2, <2>3, <2>4, <2>5
<1>7. h[p].first = At(s, 1) /\ h[p].last = At(s, Len(s))  BY <1>4 DEF IsList
<1> QED BY <1>2, <1>3, <1>5, <1>6, <1>7 DEF Listed

LEMMA WalkIsListed ==
    ASSUME NEW h, NEW out, Sound(h, out), NEW p \in 1 .. Len(h), IsTag(h, p)
    PROVE  Listed(h, out, p, ListAt(h, p, "kids"))
<1>1. PICK s : Listed(h, out, p, s)  BY ChildrenListed
<1>2. ListAt(h, p, "kids") = s  BY <1>1 DEF Listed
<1> QED BY <1>1, <1>2

\* The ways from a node that is not deleted, nor anything above it, lead to such
\* nodes only.
LEMMA NoWayToDeleted ==
    ASSUME NEW h, NEW out, Sound(h, out), NEW x \in NodesOf(h), IsVisible(h, out, x),
           NEW link \in {"next", "prev", "first", "last"}, h[x][link] # NULL
    PROVE  IsVisible(h, out, h[x][link])
<1>1. PICK y : y = h[x][link] /\ y # NULL  OBVIOUS
<1>2. Leads(h, "parent") /\ x \in 1 .. Len(h) /\ Len(h) \in Nat
  <2>1. Whole(h, out) /\ Len(h) \in Nat  BY DEF Sound, Whole
  <2>2. \A j \in 1 .. Len(h) : h[j].parent \in 0 .. Len(h)  BY <2>1, LinksTyped
  <2> QED BY <2>1, <2>2 DEF Leads, NodesOf
<1>3. PICK c : /\ c = Chain(h, x, "parent") /\ c \in Seq(1 .. Len(h)) /\ Len(c) >= 1 /\ c[1] = x
               /\ \A i \in 1 .. Len(c) : c[i] \notin out
  <2>1. PICK c : c = Chain(h, x, "parent") /\ c \in Seq(1 .. Len(h)) /\ Len(c) >= 1 /\ c[1] = x
    BY <1>2, WalkTyped
  <2>2. \A i \in 1 .. Len(c) : c[i] \in ToSet(c)  BY <2>1 DEF ToSet
  <2> QED BY <2>1, <2>2 DEF IsVisible
<1>4. x \notin out  BY <1>3
<1>5. /\ y \in 1 .. Len(h) /\ y \notin out
      /\ h[y].parent = x \/ h[y].parent = h[x].parent
  <2>1. CASE link \in {"next", "prev"}
    <3>1. h[x].parent # NULL  BY <1>1, <1>2, <2>1 DEF Sound, Whole
    <3>2. PICK p \in 1 .. Len(h) : p = h[x].parent /\ IsTag(h, p)
      <4>1. h[x].parent \in 0 .. Len(h)  BY <1>2 DEF Leads
      <4> QED BY <1>2, <3>1, <4>1 DEF Sound, Whole, NULL
    <3>3. PICK s : Listed(h, out, p, s)  BY <3>2, ChildrenListed
    <3>4. /\ s \in Seq(1 .. Len(h)) /\ Complete(h, p, "kids", out, s)
          /\ \A i \in 1 .. Len(s) :
                /\ s[i] \in NodesOf(h) /\ s[i] \notin out /\ h[s[i]].parent = p
                /\ h[s[i]].next = At(s, i + 1) /\ h[s[i]].prev = At(s, i - 1)
      BY <3>3 DEF Listed
    <3>5. PICK i \in 1 .. Len(s) : s[i] = x
      <4>1. Role(h, x) = "kids"  BY DEF NodesOf, Role
      <4> QED BY <1>2, <1>4, <3>2, <3>4, <4>1 DEF Complete
    <3>6. y = At(s, i + 1) \/ y = At(s, i - 1)  BY <1>1, <2>1, <3>4, <3>5
    <3>7. \E j \in 1 .. Len(s) : y = s[j]  BY <1>1, <3>6 DEF At
    <3> QED BY <3>2, <3>4, <3>7 DEF NodesOf
  <2>2. CASE link \in {"first", "last"}
    <3>1. IsTag(h, x)  BY <1>1, <2>2 DEF Sound, Plain
    <3>2. PICK s : Listed(h, out, x, s)  BY <1>2, <3>1, ChildrenListed
    <3>3. /\ s \in Seq(1 .. Len(h)) /\ h[x].first = At(s, 1) /\ h[x].last = At(s, Len(s))
          /\ \A i \in 1 .. Len(s) : s[i] \in NodesOf(h) /\ s[i] \notin out /\ h[s[i]].parent = x
      BY <3>2 DEF Listed
    <3>4. \E j \in 1 .. Len(s) : y = s[j]  BY <1>1, <2>2, <3>3 DEF At
    <3> QED BY <3>3, <3>4 DEF NodesOf
  <2> QED BY <2>1, <2>2
<1>6. PICK d : d = Chain(h, y, "parent") /\ d \in Seq(1 .. Len(h)) /\ Len(d) >= 1 /\ d[1] = y
  BY <1>2, <1>5, WalkTyped
<1>7. ASSUME NEW i \in 1 .. Len(d) PROVE d[i] \notin out
  <2>1. CASE i = 1  BY <1>5, <1>6, <2>1
  <2>2. CASE i # 1
    <3>1. i \in 2 .. Len(d)  BY <1>6, <2>2
    <3>2. CASE h[y].parent = x
      <4>1. h[y]["parent"] = x /\ Leads(h, "parent") /\ y \in 1 .. Len(h) /\ x \in 1 .. Len(h)
        BY <1>2, <1>5, <3>2
      <4>2. i \in 2 .. Len(Chain(h, y, "parent"))  BY <1>6, <3>1
      <4>3. \E j \in 1 .. Len(Chain(h, x, "parent")) : Chain(h, x, "parent")[j] = Chain(h, y, "parent")[i]
        BY ONLY <4>1, <4>2, ChildWalks
      <4>4. \E j \in 1 .. Len(c) : c[j] = d[i]  BY <1>3, <1>6, <4>3
      <4> QED BY <1>3, <4>4
    <3>3. CASE h[y].parent = h[x].parent
      <4>1. SameRest(d, c)  BY <1>2, <1>3, <1>5, <1>6, <3>3, SiblingWalks
      <4>2. d[i] = c[i] /\ i \in 1 .. Len(c)  BY <3>1, <4>1 DEF SameRest
      <4> QED BY <1>3, <4>2
    <3> QED BY <1>5, <3>2, <3>3
  <2> QED BY <2>1, <2>2
<1>8. ToSet(d) \cap out = {}
  <2>1. \A z \in ToSet(d) : \E i \in 1 .. Len(d) : z = d[i]  BY <1>6 DEF ToSet
  <2> QED BY <1>7, <2>1
<1> QED BY <1>1, <1>6, <1>8 DEF IsVisible

-----------------------------------------------------------------------------
(* Iterators.                                                              *)

LEMMA WithPlaces ==
    ASSUME NEW T, NEW s \in Seq(T), NEW k \in 1 .. Len(s) + 1, NEW y,
           NEW i \in 1 .. Len(With(s, k, y)), i # k
    PROVE  \E j \in 1 .. Len(s) : /\ With(s, k, y)[i] = s[j]
                                  /\ i = IF j < k THEN j ELSE j + 1
<1>1. PICK L \in Nat : L = Len(s) /\ DOMAIN s = 1 .. L /\ k \in 1 .. L + 1  OBVIOUS
<1>2. PICK t : t = With(s, k, y)  OBVIOUS
<1>3. t = [n \in 1 .. L + 1 |-> IF n < k THEN s[n] ELSE IF n = k THEN y ELSE s[n - 1]]
  BY <1>1, <1>2 DEF With
<1>4. i \in 1 .. L + 1  BY <1>1, <1>2, <1>3
<1>5. CASE i < k
  <2>1. i \in 1 .. L /\ t[i] = s[i]  BY <1>1, <1>3, <1>4, <1>5
  <2> QED BY <1>1, <1>2, <1>5, <2>1
<1>6. CASE i > k
  <2>1. i - 1 \in 1 .. L /\ t[i] = s[i - 1] /\ ~(i - 1 < k) /\ i = i - 1 + 1
    BY <1>1, <1>3, <1>4, <1>6
  <2> QED BY <1>1, <1>2, <2>1
<1> QED BY <1>1, <1>4, <1>5, <1>6

LEMMA WithoutPlaces ==
    ASSUME NEW T, NEW s \in Seq(T), NEW k \in 1 .. Len(s),
           NEW i \in 1 .. Len(Without(s, k))
    PROVE  \E j \in 1 .. Len(s) : /\ Without(s, k)[i] = s[j] /\ j # k
                                  /\ i = IF j < k THEN j ELSE j - 1
<1>1. PICK L \in Nat : L = Len(s) /\ DOMAIN s = 1 .. L /\ k \in 1 .. L /\ L >= 1  OBVIOUS
<1>2. PICK t : t = Without(s, k)  OBVIOUS
<1>3. t = [n \in 1 .. L - 1 |-> IF n < k THEN s[n] ELSE s[n + 1]]  BY <1>1, <1>2 DEF Without
<1>4. i \in 1 .. L - 1  BY <1>1, <1>2, <1>3
<1>5. CASE i < k
  <2>1. i \in 1 .. L /\ t[i] = s[i]  BY <1>1, <1>3, <1>4, <1>5
  <2> QED BY <1>1, <1>2, <1>5, <2>1
<1>6. CASE i >= k
  <2>1. i + 1 \in 1 .. L /\ t[i] = s[i + 1] /\ ~(i + 1 < k) /\ i + 1 # k /\ i = i + 1 - 1
    BY <1>1, <1>3, <1>4, <1>6
  <2> QED BY <1>1, <1>2, <2>1
<1> QED BY <1>1, <1>4, <1>5, <1>6

\* An iterator that yields doc next has the deleted nodes u before it, then the
\* children now behind the n-th.
Stands(h, out, doc, now, u, n) ==
    /\ u \in Seq(out) /\ n \in 0 .. Len(now)
    /\ \A i, j \in 1 .. Len(u) : u[i] = u[j] => i = j
    /\ doc = IF u = <<>> THEN At(now, n + 1) ELSE u[1]
    /\ \A i \in 1 .. Len(u) : h[u[i]].next = IF i = Len(u) THEN At(now, n + 1) ELSE u[i + 1]

\* What it has yielded is behind it.
GotOK(got, out, now, u, n) ==
    /\ \A a, b \in 1 .. Len(got) : got[a] = got[b] => a = b
    /\ \A a \in 1 .. Len(got) :
        /\ \A i \in 1 .. Len(u) : got[a] # u[i]
        /\ got[a] \in out \/ \E j \in 1 .. n : now[j] = got[a]
    /\ \A a, b \in 1 .. Len(got), j, k \in 1 .. Len(now) :
           got[a] = now[j] /\ got[b] = now[k] /\ a <= b => j <= k

\* What it owes was deleted, or yielded, or is before it.
DueOK(due, got, out, now, n) ==
    \A y \in due : \/ y \in out \/ \E a \in 1 .. Len(got) : got[a] = y
                   \/ \E i \in n + 1 .. Len(now) : now[i] = y

Course(h, out, it, now, u, n) ==
    /\ Stands(h, out, it.doc, now, u, n)
    /\ GotOK(it.got, out, now, u, n)
    /\ DueOK(it.due, it.got, out, now, n)

FollowsIn(h, out, it) ==
    /\ it.of \in 1 .. Len(h) /\ IsTag(h, it.of)
    /\ it.got \in Seq(1 .. Len(h))
    /\ it.due \subseteq NodesOf(h) /\ it.due \subseteq Wanted(h, it.tags, it.name)
    /\ \E u, n : Course(h, out, it, ListAt(h, it.of, "kids"), u, n)

\* A call changes the children of at most one element, by one; the nodes keep their
\* names, those that are deleted their ways.
Steps(h, out, g, out2) ==
    /\ Len(h) \in Nat /\ Len(g) \in Nat /\ Len(h) <= Len(g) /\ out \subseteq out2
    /\ \A j \in NodesOf(h) : g[j].type = h[j].type /\ g[j].name = h[j].name
    /\ \A j \in out : g[j].next = h[j].next
    /\ \A p \in 1 .. Len(h) : IsTag(h, p) =>
        LET s == ListAt(h, p, "kids")
            t == ListAt(g, p, "kids")
        IN  \/ t = s
            \/ \E k \in 1 .. Len(s) + 1, y \in Len(h) + 1 .. Len(g) : t = With(s, k, y)
            \/ \E k \in 1 .. Len(s) : t = Without(s, k) /\ s[k] \in out2 /\ g[s[k]].next = h[s[k]].next

\* The children s became t, of the first n the first m are left; new ones may have come.
Moved(s, n, t, m, new, out) ==
    /\ m \in 0 .. Len(t)
    /\ \A j \in 1 .. Len(s) :
        s[j] \in out \/ \E i \in 1 .. Len(t) : t[i] = s[j] /\ (j <= n <=> i <= m)
    /\ \A i \in 1 .. Len(t) : t[i] \in new \/ \E j \in 1 .. Len(s) : t[i] = s[j]
    /\ \A i, k \in 1 .. Len(t), a, b \in 1 .. Len(s) :
        t[i] = s[a] /\ t[k] = s[b] /\ a <= b => i <= k

Distinct(s) == \A i, j \in 1 .. Len(s) : s[i] = s[j] => i = j

NoneOf(s, some) == \A i \in 1 .. Len(s) : s[i] \notin some

\* Of v, all was in u or is the child behind the n-th of s.
UpTo(v, u, s, n) ==
    \A i \in 1 .. Len(v) : \/ \E j \in 1 .. Len(u) : v[i] = u[j]
                           \/ n + 1 \in 1 .. Len(s) /\ v[i] = s[n + 1]

LEMMA WithMoves ==
    ASSUME NEW T, NEW s \in Seq(T), Distinct(s), NEW k \in 1 .. Len(s) + 1,
           NEW n \in 0 .. Len(s), NEW new, NEW y \in new, NEW out,
           \A i \in 1 .. Len(s) : s[i] \notin new
    PROVE  LET m == IF k <= n + 1 THEN n + 1 ELSE n
           IN  /\ Moved(s, n, With(s, k, y), m, new, out)
               /\ At(With(s, k, y), m + 1) = At(s, n + 1)
<1>1. PICK L \in Nat : L = Len(s) /\ k \in 1 .. L + 1 /\ n \in 0 .. L  OBVIOUS
<1>2. PICK t : t = With(s, k, y)  OBVIOUS
<1>3. PICK m : m = IF k <= n + 1 THEN n + 1 ELSE n  OBVIOUS
<1>4. /\ Len(t) = L + 1 /\ t[k] = y
      /\ \A i \in 1 .. L : (i < k => t[i] = s[i]) /\ (i >= k => t[i + 1] = s[i])
  <2>1. PICK U : s \in Seq(U) /\ y \in U
    <3>1. s \in Seq(T \cup {y})  OBVIOUS
    <3> QED BY <3>1
  <2>2. /\ Len(With(s, k, y)) = Len(s) + 1 /\ With(s, k, y)[k] = y
        /\ \A i \in 1 .. Len(s) : i < k => With(s, k, y)[i] = s[i]
        /\ \A i \in 1 .. Len(s) : i >= k => With(s, k, y)[i + 1] = s[i]
    BY <2>1, WithProperties
  <2> QED BY <1>1, <1>2, <2>2
<1>5. \A i \in 1 .. L + 1 : i # k => \E j \in 1 .. L : t[i] = s[j] /\ i = IF j < k THEN j ELSE j + 1
  BY <1>1, <1>2, <1>4, WithPlaces
<1>6. m \in 0 .. L + 1  BY <1>1, <1>3
<1>7. ASSUME NEW j \in 1 .. L PROVE \E i \in 1 .. L + 1 : t[i] = s[j] /\ (j <= n <=> i <= m)
  <2>1. CASE j < k
    <3>1. j \in 1 .. L + 1 /\ t[j] = s[j] /\ (j <= n <=> j <= m)  BY <1>1, <1>3, <1>4, <2>1
    <3> QED BY <3>1
  <2>2. CASE j >= k
    <3>1. j + 1 \in 1 .. L + 1 /\ t[j + 1] = s[j] /\ (j <= n <=> j + 1 <= m)  BY <1>1, <1>3, <1>4, <2>2
    <3> QED BY <3>1
  <2> QED BY <1>1, <2>1, <2>2
<1>8. ASSUME NEW i \in 1 .. L + 1 PROVE t[i] \in new \/ \E j \in 1 .. L : t[i] = s[j]
  BY <1>4, <1>5
<1>9. ASSUME NEW i \in 1 .. L + 1, NEW a \in 1 .. L, t[i] = s[a]
      PROVE  i = IF a < k THEN a ELSE a + 1
  <2>1. i # k  BY <1>1, <1>4, <1>9
  <2>2. PICK j \in 1 .. L : t[i] = s[j] /\ i = IF j < k THEN j ELSE j + 1  BY <1>5, <2>1
  <2>3. j = a  BY <1>1, <1>9, <2>2 DEF Distinct
  <2> QED BY <2>2, <2>3
<1>10. ASSUME NEW i \in 1 .. L + 1, NEW j \in 1 .. L + 1, NEW a \in 1 .. L, NEW b \in 1 .. L,
              t[i] = s[a], t[j] = s[b], a <= b
       PROVE  i <= j
  <2>1. i = IF a < k THEN a ELSE a + 1  BY <1>9, <1>10
  <2>2. j = IF b < k THEN b ELSE b + 1  BY <1>9, <1>10
  <2> QED BY <1>1, <1>10, <2>1, <2>2
<1>11. Moved(s, n, t, m, new, out)
  BY <1>1, <1>4, <1>6, <1>7, <1>8, <1>10 DEF Moved
<1>12. At(t, m + 1) = At(s, n + 1)
  <2>1. CASE n = L
    <3>1. n + 1 \notin 1 .. Len(s) /\ m + 1 \notin 1 .. Len(t)  BY <1>1, <1>3, <1>4, <2>1
    <3> QED BY <3>1 DEF At
  <2>2. CASE n < L
    <3>1. n + 1 \in 1 .. Len(s) /\ m + 1 \in 1 .. Len(t) /\ n + 1 \in 1 .. L  BY <1>1, <1>3, <1>4, <2>2
    <3>2. t[m + 1] = s[n + 1]
      <4>1. CASE k <= n + 1
        <5>1. m = n + 1 /\ n + 1 >= k  BY <1>3, <4>1
        <5>2. t[n + 1 + 1] = s[n + 1]  BY <1>4, <3>1, <5>1
        <5> QED BY <5>1, <5>2
      <4>2. CASE ~(k <= n + 1)
        <5>1. m = n /\ n + 1 < k  BY <1>1, <1>3, <4>2
        <5> QED BY <1>4, <3>1, <5>1
      <4> QED BY <4>1, <4>2
    <3> QED BY <3>1, <3>2 DEF At
  <2> QED BY <1>1, <2>1, <2>2
<1> QED BY <1>2, <1>3, <1>11, <1>12

LEMMA WithoutMoves ==
    ASSUME NEW T, NEW s \in Seq(T), Distinct(s), NEW k \in 1 .. Len(s),
           NEW n \in 0 .. Len(s), NEW new, NEW out, s[k] \in out
    PROVE  LET m == IF k <= n THEN n - 1 ELSE n
           IN  /\ Moved(s, n, Without(s, k), m, new, out)
               /\ At(Without(s, k), m + 1) = IF k = n + 1 THEN At(s, n + 2) ELSE At(s, n + 1)
<1>1. PICK L \in Nat : L = Len(s) /\ k \in 1 .. L /\ n \in 0 .. L /\ L >= 1  OBVIOUS
<1>2. PICK t : t = Without(s, k)  OBVIOUS
<1>3. PICK m : m = IF k <= n THEN n - 1 ELSE n  OBVIOUS
<1>4. /\ Len(t) = L - 1
      /\ \A i \in 1 .. L : (i < k => t[i] = s[i]) /\ (i > k => t[i - 1] = s[i])
  BY <1>1, <1>2, WithoutProperties
<1>5. \A i \in 1 .. L - 1 : \E j \in 1 .. L : t[i] = s[j] /\ j # k /\ i = IF j < k THEN j ELSE j - 1
  <2> TAKE i \in 1 .. L - 1
  <2>1. i \in 1 .. Len(Without(s, k))  BY <1>2, <1>4
  <2>2. \E j \in 1 .. Len(s) : Without(s, k)[i] = s[j] /\ j # k /\ i = IF j < k THEN j ELSE j - 1
    BY <2>1, WithoutPlaces
  <2> QED BY <1>1, <1>2, <2>2
<1>6. m \in 0 .. L - 1  BY <1>1, <1>3
<1>7. ASSUME NEW j \in 1 .. L
      PROVE  s[j] \in out \/ \E i \in 1 .. L - 1 : t[i] = s[j] /\ (j <= n <=> i <= m)
  <2>1. CASE j < k
    <3>1. j \in 1 .. L - 1 /\ t[j] = s[j] /\ (j <= n <=> j <= m)  BY <1>1, <1>3, <1>4, <2>1
    <3> QED BY <3>1
  <2>2. CASE j > k
    <3>1. j - 1 \in 1 .. L - 1 /\ t[j - 1] = s[j] /\ (j <= n <=> j - 1 <= m)  BY <1>1, <1>3, <1>4, <2>2
    <3> QED BY <3>1
  <2>3. CASE j = k  BY <2>3
  <2> QED BY <1>1, <2>1, <2>2, <2>3
<1>8. ASSUME NEW i \in 1 .. L - 1, NEW a \in 1 .. L, t[i] = s[a]
      PROVE  a # k /\ i = IF a < k THEN a ELSE a - 1
  <2>1. PICK j \in 1 .. L : t[i] = s[j] /\ j # k /\ i = IF j < k THEN j ELSE j - 1  BY <1>5
  <2>2. j = a  BY <1>1, <1>8, <2>1 DEF Distinct
  <2> QED BY <2>1, <2>2
<1>9. ASSUME NEW i \in 1 .. L - 1, NEW j \in 1 .. L - 1, NEW a \in 1 .. L, NEW b \in 1 .. L,
             t[i] = s[a], t[j] = s[b], a <= b
      PROVE  i <= j
  <2>1. i = IF a < k THEN a ELSE a - 1  BY <1>8, <1>9
  <2>2. j = IF b < k THEN b ELSE b - 1  BY <1>8, <1>9
  <2> QED BY <1>1, <1>9, <2>1, <2>2
<1>10. \A i \in 1 .. L - 1 : \E j \in 1 .. L : t[i] = s[j]  BY <1>5
<1>11. Moved(s, n, t, m, new, out)
  BY <1>1, <1>4, <1>6, <1>7, <1>9, <1>10 DEF Moved
<1>12. At(t, m + 1) = IF k = n + 1 THEN At(s, n + 2) ELSE At(s, n + 1)
  <2>1. PICK r : r = IF k = n + 1 THEN n + 2 ELSE n + 1  OBVIOUS
  <2>2. r \in Nat /\ m + 1 \in Nat /\ r >= 1 /\ m + 1 >= 1  BY <1>1, <1>3, <2>1
  <2>3. CASE r > L
    <3>1. m + 1 > L - 1  BY <1>1, <1>3, <2>1, <2>3
    <3>2. r \notin 1 .. Len(s) /\ m + 1 \notin 1 .. Len(t)  BY <1>1, <1>4, <2>2, <2>3, <3>1
    <3> QED BY <2>1, <3>2 DEF At
  <2>4. CASE r <= L
    <3>1. r \in 1 .. L /\ m + 1 \in 1 .. L - 1  BY <1>1, <1>3, <2>1, <2>2, <2>4
    <3>2. t[m + 1] = s[r]
      <4>1. CASE r < k
        <5>1. m + 1 = r  BY <1>1, <1>3, <2>1, <4>1
        <5> QED BY <1>4, <3>1, <4>1, <5>1
      <4>2. CASE r > k
        <5>1. m + 1 = r - 1  BY <1>1, <1>3, <2>1, <4>2
        <5> QED BY <1>4, <3>1, <4>2, <5>1
      <4>3. r # k  BY <1>1, <2>1
      <4> QED BY <1>1, <3>1, <4>1, <4>2, <4>3
    <3> QED BY <1>1, <1>4, <2>1, <3>1, <3>2 DEF At
  <2> QED BY <1>1, <2>2, <2>3, <2>4
<1> QED BY <1>2, <1>3, <1>11, <1>12

\* The place and the promises of an iterator, when the children have moved.
LEMMA GotMoved ==
    ASSUME NEW s, NEW t, NEW n, NEW m, NEW new, NEW out, NEW out2, out \subseteq out2,
           Len(s) \in Nat, Len(t) \in Nat, n \in 0 .. Len(s),
           Moved(s, n, t, m, new, out2), NoneOf(s, out), Distinct(s),
           NEW got, NEW u, GotOK(got, out, s, u, n), NoneOf(got, new),
           NEW v, UpTo(v, u, s, n)
    PROVE  GotOK(got, out2, t, v, m)
<1>1. \A a, b \in 1 .. Len(got) : got[a] = got[b] => a = b  BY DEF GotOK
<1>2. ASSUME NEW a \in 1 .. Len(got), NEW i \in 1 .. Len(v) PROVE got[a] # v[i]
  <2>1. CASE \E j \in 1 .. Len(u) : v[i] = u[j]  BY <2>1 DEF GotOK
  <2>2. CASE n + 1 \in 1 .. Len(s) /\ v[i] = s[n + 1]
    <3>1. CASE got[a] \in out  BY <2>2, <3>1 DEF NoneOf
    <3>2. CASE \E j \in 1 .. n : s[j] = got[a]
      <4>1. PICK j \in 1 .. n : s[j] = got[a]  BY <3>2
      <4>2. j \in 1 .. Len(s) /\ j # n + 1  BY <4>1
      <4> QED BY <2>2, <4>1, <4>2 DEF Distinct
    <3> QED BY <3>1, <3>2 DEF GotOK
  <2> QED BY <2>1, <2>2 DEF UpTo
<1>3. ASSUME NEW a \in 1 .. Len(got) PROVE got[a] \in out2 \/ \E i \in 1 .. m : t[i] = got[a]
  <2>1. CASE got[a] \in out  BY <2>1
  <2>2. CASE \E j \in 1 .. n : s[j] = got[a]
    <3>1. PICK j \in 1 .. n : s[j] = got[a]  BY <2>2
    <3>2. j \in 1 .. Len(s) /\ j <= n  BY <3>1
    <3>3. s[j] \in out2 \/ \E i \in 1 .. Len(t) : t[i] = s[j] /\ (j <= n <=> i <= m)
      BY <3>2 DEF Moved
    <3>4. CASE s[j] \in out2  BY <3>1, <3>4
    <3>5. CASE \E i \in 1 .. Len(t) : t[i] = s[j] /\ (j <= n <=> i <= m)
      <4>1. PICK i \in 1 .. Len(t) : t[i] = s[j] /\ (j <= n <=> i <= m)  BY <3>5
      <4>2. m \in Nat  BY DEF Moved
      <4>3. i \in 1 .. m  BY <3>2, <4>1, <4>2
      <4> QED BY <3>1, <4>1, <4>3
    <3> QED BY <3>3, <3>4, <3>5
  <2> QED BY <2>1, <2>2 DEF GotOK
<1>4. ASSUME NEW a \in 1 .. Len(got), NEW b \in 1 .. Len(got), NEW i \in 1 .. Len(t), NEW k \in 1 .. Len(t),
             got[a] = t[i], got[b] = t[k], a <= b
      PROVE  i <= k
  <2>1. PICK j \in 1 .. Len(s) : t[i] = s[j]  BY <1>4 DEF Moved, NoneOf
  <2>2. PICK l \in 1 .. Len(s) : t[k] = s[l]  BY <1>4 DEF Moved, NoneOf
  <2>3. j <= l  BY <1>4, <2>1, <2>2 DEF GotOK
  <2> QED BY <2>1, <2>2, <2>3 DEF Moved
<1> QED BY <1>1, <1>2, <1>3, <1>4 DEF GotOK

LEMMA DueMoved ==
    ASSUME NEW s, NEW t, NEW n, NEW m, NEW new, NEW out, NEW out2, out \subseteq out2,
           Len(s) \in Nat, Len(t) \in Nat, n \in 0 .. Len(s), Moved(s, n, t, m, new, out2),
           NEW due, NEW got, DueOK(due, got, out, s, n)
    PROVE  DueOK(due, got, out2, t, m)
<1> SUFFICES ASSUME NEW y \in due
             PROVE  \/ y \in out2 \/ \E a \in 1 .. Len(got) : got[a] = y
                    \/ \E i \in m + 1 .. Len(t) : t[i] = y
  BY DEF DueOK
<1>1. CASE y \in out  BY <1>1
<1>2. CASE \E a \in 1 .. Len(got) : got[a] = y  BY <1>2
<1>3. CASE \E i \in n + 1 .. Len(s) : s[i] = y
  <2>1. PICK j \in n + 1 .. Len(s) : s[j] = y  BY <1>3
  <2>2. j \in 1 .. Len(s) /\ ~(j <= n)  BY <2>1
  <2>3. s[j] \in out2 \/ \E i \in 1 .. Len(t) : t[i] = s[j] /\ (j <= n <=> i <= m)
    BY <2>2 DEF Moved
  <2>4. CASE s[j] \in out2  BY <2>1, <2>4
  <2>5. CASE \E i \in 1 .. Len(t) : t[i] = s[j] /\ (j <= n <=> i <= m)
    <3>1. PICK i \in 1 .. Len(t) : t[i] = s[j] /\ (j <= n <=> i <= m)  BY <2>5
    <3>2. m \in Nat  BY DEF Moved
    <3>3. i \in m + 1 .. Len(t)  BY <2>2, <3>1, <3>2
    <3> QED BY <2>1, <3>1, <3>3
  <2> QED BY <2>3, <2>4, <2>5
<1> QED BY <1>1, <1>2, <1>3 DEF DueOK

\* The way of deleted nodes leads to the children that are left as it did.
LEMMA StandsOn ==
    ASSUME NEW h, NEW g, NEW out, NEW out2, out \subseteq out2,
           \A j \in out : g[j].next = h[j].next,
           NEW doc, NEW s, NEW t, NEW u, NEW n, Stands(h, out, doc, s, u, n),
           NEW m \in 0 .. Len(t), At(t, m + 1) = At(s, n + 1)
    PROVE  Stands(g, out2, doc, t, u, m)
<1>1. u \in Seq(out) /\ u \in Seq(out2) /\ \A i \in 1 .. Len(u) : u[i] \in out
  <2>1. u \in Seq(out)  BY DEF Stands
  <2> QED BY ONLY <2>1, out \subseteq out2
<1>2. \A i \in 1 .. Len(u) : g[u[i]].next = h[u[i]].next  BY <1>1
<1> QED BY <1>1, <1>2 DEF Stands

LEMMA StandsLonger ==
    ASSUME NEW h, NEW g, NEW out, NEW out2, out \subseteq out2,
           \A j \in out : g[j].next = h[j].next,
           NEW doc, NEW s, NEW t, NEW u, NEW n, Stands(h, out, doc, s, u, n), Len(s) \in Nat,
           n + 1 \in 1 .. Len(s), s[n + 1] \in out2, s[n + 1] \notin out,
           g[s[n + 1]].next = At(s, n + 2),
           n \in 0 .. Len(t), At(t, n + 1) = At(s, n + 2)
    PROVE  Stands(g, out2, doc, t, Append(u, s[n + 1]), n)
<1>1. PICK K \in Nat : K = Len(u) /\ u \in Seq(out) /\ \A i \in 1 .. K : u[i] \in out
  <2>1. u \in Seq(out)  BY DEF Stands
  <2> QED BY ONLY <2>1
<1>2. PICK y : y = s[n + 1]  OBVIOUS
<1>3. PICK v : v = Append(u, y)  OBVIOUS
<1>4. v \in Seq(out2) /\ Len(v) = K + 1 /\ v[K + 1] = y /\ \A i \in 1 .. K : v[i] = u[i]
  <2>1. u \in Seq(out2) /\ y \in out2  BY <1>1, <1>2
  <2> QED BY ONLY <1>1, <1>3, <2>1
<1>5. At(s, n + 1) = y  BY <1>2 DEF At
<1>6. ASSUME NEW i \in 1 .. K + 1, NEW j \in 1 .. K + 1, v[i] = v[j] PROVE i = j
  <2>1. CASE i \in 1 .. K /\ j \in 1 .. K  BY <1>1, <1>4, <1>6, <2>1 DEF Stands
  <2>2. CASE i = K + 1 /\ j \in 1 .. K  BY <1>1, <1>2, <1>4, <1>6, <2>2
  <2>3. CASE j = K + 1 /\ i \in 1 .. K  BY <1>1, <1>2, <1>4, <1>6, <2>3
  <2> QED BY <1>1, <2>1, <2>2, <2>3
<1>7. v # <<>> /\ doc = v[1]
  <2>1. v # <<>>  BY <1>1, <1>4
  <2>2. CASE K = 0
    <3>1. Len(u) = 0 /\ u \in Seq(out)  BY <1>1, <2>2
    <3>2. u = <<>>  BY ONLY <3>1
    <3> QED BY <1>4, <1>5, <2>1, <2>2, <3>2 DEF Stands
  <2>3. CASE K # 0
    <3>1. u # <<>> /\ 1 \in 1 .. K  BY <1>1, <2>3
    <3> QED BY <1>4, <2>1, <3>1 DEF Stands
  <2> QED BY <2>2, <2>3
<1>8. ASSUME NEW i \in 1 .. K + 1
      PROVE  g[v[i]].next = IF i = K + 1 THEN At(t, n + 1) ELSE v[i + 1]
  <2>1. CASE i = K + 1  BY <1>2, <1>4, <2>1
  <2>2. CASE i # K + 1
    <3>1. i \in 1 .. K /\ i + 1 \in 1 .. K + 1  BY <1>1, <2>2
    <3>2. g[v[i]].next = h[u[i]].next  BY <1>1, <1>4, <3>1
    <3>3. h[u[i]].next = IF i = K THEN y ELSE u[i + 1]  BY <1>1, <1>5, <3>1 DEF Stands
    <3>4. i # K => i + 1 \in 1 .. K  BY <1>1, <3>1
    <3> QED BY <1>4, <2>2, <3>2, <3>3, <3>4
  <2> QED BY <2>1, <2>2
<1>9. Stands(g, out2, doc, t, v, n)  BY <1>4, <1>6, <1>7, <1>8 DEF Stands
<1> QED BY <1>2, <1>3, <1>9

LEMMA FollowsOn ==
    ASSUME NEW h, NEW out, Sound(h, out), NEW g, NEW out2, Sound(g, out2), Steps(h, out, g, out2),
           NEW it, FollowsIn(h, out, it)
    PROVE  FollowsIn(g, out2, it)
<1>1. PICK p : p = it.of /\ p \in 1 .. Len(h) /\ IsTag(h, p)  BY DEF FollowsIn
<1>2. p \in 1 .. Len(g) /\ IsTag(g, p)
  <2>1. p \in NodesOf(h)  BY <1>1 DEF NodesOf, IsTag
  <2> QED BY <1>1, <2>1 DEF Steps, IsTag
<1>3. PICK s : s = ListAt(h, p, "kids") /\ Listed(h, out, p, s)  BY <1>1, WalkIsListed
<1>4. PICK t : t = ListAt(g, p, "kids") /\ Listed(g, out2, p, t)  BY <1>2, WalkIsListed
<1>5. PICK L \in Nat : /\ L = Len(s) /\ s \in Seq(1 .. Len(h)) /\ Distinct(s)
                       /\ \A i \in 1 .. L : s[i] \notin out /\ s[i] \in 1 .. Len(h)
                                            /\ h[s[i]].next = At(s, i + 1)
  <2>1. /\ s \in Seq(1 .. Len(h)) /\ IsInjective(s)
        /\ \A i \in 1 .. Len(s) : s[i] \notin out /\ h[s[i]].next = At(s, i + 1)
    BY <1>3 DEF Listed, ListOf, IsList
  <2>2. Distinct(s)  BY ONLY <2>1 DEF IsInjective, Distinct
  <2>3. Len(s) \in Nat /\ \A i \in 1 .. Len(s) : s[i] \in 1 .. Len(h)  BY ONLY <2>1
  <2> QED BY <2>1, <2>2, <2>3
<1>6. Len(t) \in Nat
  <2>1. t \in Seq(1 .. Len(g))  BY <1>4 DEF Listed
  <2> QED BY ONLY <2>1
<1>7. PICK u, n : Course(h, out, it, s, u, n)  BY <1>1, <1>3 DEF FollowsIn
<1>8. n \in 0 .. L /\ u \in Seq(out) /\ out \subseteq out2 /\ \A j \in out : g[j].next = h[j].next
  BY <1>5, <1>7 DEF Course, Stands, Steps
<1>9. PICK new : new = Len(h) + 1 .. Len(g)  OBVIOUS
<1>10. NoneOf(it.got, new)
  <2>1. it.got \in Seq(1 .. Len(h)) /\ Len(h) \in Nat  BY DEF FollowsIn, Steps
  <2>2. \A a \in 1 .. Len(it.got) : it.got[a] \in 1 .. Len(h)  BY ONLY <2>1
  <2> QED BY <1>9, <2>1, <2>2 DEF NoneOf
<1>11. \A i \in 1 .. L : s[i] \notin new
  <2>1. Len(h) \in Nat  BY DEF Steps
  <2> QED BY <1>5, <1>9, <2>1
<1>12. ASSUME NEW m, NEW v, Moved(s, n, t, m, new, out2), UpTo(v, u, s, n),
              Stands(g, out2, it.doc, t, v, m)
       PROVE  Course(g, out2, it, t, v, m)
  <2>1. GotOK(it.got, out, s, u, n) /\ DueOK(it.due, it.got, out, s, n)  BY <1>7 DEF Course
  <2>2. /\ out \subseteq out2 /\ Len(s) \in Nat /\ Len(t) \in Nat /\ n \in 0 .. Len(s)
        /\ Distinct(s) /\ NoneOf(s, out)
    BY <1>5, <1>6, <1>8 DEF NoneOf
  <2>3. GotOK(it.got, out2, t, v, m)  BY ONLY <1>10, <1>12, <2>1, <2>2, GotMoved
  <2>4. DueOK(it.due, it.got, out2, t, m)  BY ONLY <1>12, <2>1, <2>2, DueMoved
  <2> QED BY <1>12, <2>3, <2>4 DEF Course
<1>13. Stands(h, out, it.doc, s, u, n)  BY <1>7 DEF Course
<1>14. UpTo(u, u, s, n)  BY DEF UpTo
<1>15. \E v, m : Course(g, out2, it, t, v, m)
  <2>1. CASE t = s
    <3>1. GotOK(it.got, out2, t, u, n) /\ DueOK(it.due, it.got, out2, t, n)
      BY <1>7, <1>8, <2>1 DEF Course, GotOK, DueOK
    <3>2. Stands(g, out2, it.doc, t, u, n)
      BY ONLY <1>5, <1>8, <1>13, <2>1, StandsOn
    <3> QED BY <3>1, <3>2 DEF Course
  <2>2. ASSUME NEW k \in 1 .. Len(s) + 1, NEW y \in new, t = With(s, k, y)
        PROVE  \E v, m : Course(g, out2, it, t, v, m)
    <3>1. PICK m : m = IF k <= n + 1 THEN n + 1 ELSE n  OBVIOUS
    <3>2. Moved(s, n, t, m, new, out2) /\ At(t, m + 1) = At(s, n + 1)
      BY ONLY <1>5, <1>8, <1>11, <2>2, <3>1, WithMoves
    <3>3. m \in 0 .. Len(t)  BY <3>2 DEF Moved
    <3>4. Stands(g, out2, it.doc, t, u, m)  BY ONLY <1>8, <1>13, <3>2, <3>3, StandsOn
    <3> QED BY <1>12, <1>14, <3>2, <3>4
  <2>3. ASSUME NEW k \in 1 .. Len(s), t = Without(s, k), s[k] \in out2, g[s[k]].next = h[s[k]].next
        PROVE  \E v, m : Course(g, out2, it, t, v, m)
    <3>1. PICK m : m = IF k <= n THEN n - 1 ELSE n  OBVIOUS
    <3>2. Moved(s, n, t, m, new, out2) /\ At(t, m + 1) = IF k = n + 1 THEN At(s, n + 2) ELSE At(s, n + 1)
      BY ONLY <1>5, <1>8, <2>3, <3>1, WithoutMoves
    <3>3. m \in 0 .. Len(t)  BY <3>2 DEF Moved
    <3>4. CASE k # n + 1
      <4>1. Stands(g, out2, it.doc, t, u, m)  BY ONLY <1>8, <1>13, <3>2, <3>3, <3>4, StandsOn
      <4> QED BY <1>12, <1>14, <3>2, <4>1
    <3>5. CASE k = n + 1
      <4>1. PICK v : v = Append(u, s[n + 1])  OBVIOUS
      <4>2. m = n /\ n + 1 \in 1 .. Len(s) /\ n + 1 + 1 = n + 2  BY <1>5, <1>8, <3>1, <3>5
      <4>3. g[s[n + 1]].next = At(s, n + 2)  BY <1>5, <2>3, <3>5, <4>2
      <4>4. s[n + 1] \in out2 /\ s[n + 1] \notin out  BY <1>5, <2>3, <3>5, <4>2
      <4>5. At(t, n + 1) = At(s, n + 2) /\ n \in 0 .. Len(t)  BY <3>2, <3>3, <3>5, <4>2
      <4>6. Len(s) \in Nat  BY <1>5
      <4>7. Stands(g, out2, it.doc, t, v, n)
        BY ONLY <1>8, <1>13, <4>1, <4>2, <4>3, <4>4, <4>5, <4>6, StandsLonger
      <4>8. UpTo(v, u, s, n)
        <5>1. Len(v) = Len(u) + 1 /\ v[Len(u) + 1] = s[n + 1] /\ \A i \in 1 .. Len(u) : v[i] = u[i]
          BY ONLY <1>8, <4>1
        <5>2. Len(u) \in Nat  BY ONLY <1>8
        <5> QED BY <4>2, <5>1, <5>2 DEF UpTo
      <4> QED BY <1>12, <3>2, <4>2, <4>7, <4>8
    <3> QED BY <3>4, <3>5
  <2>4. \/ t = s
        \/ \E k \in 1 .. Len(s) + 1, y \in Len(h) + 1 .. Len(g) : t = With(s, k, y)
        \/ \E k \in 1 .. Len(s) : t = Without(s, k) /\ s[k] \in out2 /\ g[s[k]].next = h[s[k]].next
    BY <1>1, <1>3, <1>4 DEF Steps
  <2> QED BY <1>9, <2>1, <2>2, <2>3, <2>4
<1>16. /\ Len(h) <= Len(g) /\ Len(h) \in Nat /\ Len(g) \in Nat
       /\ \A j \in NodesOf(h) : g[j].type = h[j].type /\ g[j].name = h[j].name
  BY DEF Steps
<1>17. it.got \in Seq(1 .. Len(g))
  <2>1. PICK S, T, q : S = 1 .. Len(h) /\ T = 1 .. Len(g) /\ q = it.got  OBVIOUS
  <2>2. S \subseteq T  BY <1>16, <2>1
  <2>3. q \in Seq(S)  BY <2>1 DEF FollowsIn
  <2>4. q \in Seq(T)  BY ONLY <2>2, <2>3
  <2> QED BY <2>1, <2>4
<1>18. it.due \subseteq NodesOf(g) /\ it.due \subseteq Wanted(g, it.tags, it.name)
  <2> SUFFICES ASSUME NEW y \in it.due PROVE y \in NodesOf(g) /\ y \in Wanted(g, it.tags, it.name)
    OBVIOUS
  <2>1. y \in NodesOf(h) /\ y \in Wanted(h, it.tags, it.name)  BY DEF FollowsIn
  <2>2. y \in 1 .. Len(h) /\ y \in 1 .. Len(g)  BY <1>16, <2>1 DEF NodesOf
  <2>3. y \in NodesOf(g)  BY <1>16, <2>1, <2>2 DEF NodesOf
  <2> QED BY <1>16, <2>1, <2>2, <2>3 DEF Wanted, NamedIn, TagsIn, IsTag
<1> QED BY <1>1, <1>2, <1>4, <1>15, <1>17, <1>18 DEF FollowsIn

-----------------------------------------------------------------------------
(* The way of an iterator.                                                 *)

\* The first that is looked for, or the place behind the last.
LEMMA FirstInPlace ==
    ASSUME NEW T, NEW s \in Seq(T), NEW some
    PROVE  \E m \in 1 .. Len(s) + 1 : /\ FirstIn(s, some) = At(s, m)
                                      /\ \A i \in 1 .. m - 1 : s[i] \notin some
<1>1. PICK L \in Nat : L = Len(s)  OBVIOUS
<1>2. PICK fits : fits = {i \in 1 .. L : s[i] \in some}  OBVIOUS
<1>3. FirstIn(s, some) = IF fits = {} THEN NULL ELSE s[Min(fits)]  BY <1>1, <1>2 DEF FirstIn
<1>4. CASE fits = {}
  <2>1. PICK m : m = L + 1  OBVIOUS
  <2>2. m \in 1 .. L + 1 /\ m \notin 1 .. L /\ m - 1 = L  BY <1>1, <2>1
  <2>3. \A i \in 1 .. m - 1 : s[i] \notin some  BY <1>2, <1>4, <2>2
  <2>4. FirstIn(s, some) = At(s, m)  BY <1>1, <1>3, <1>4, <2>2 DEF At
  <2> QED BY <1>1, <2>2, <2>3, <2>4
<1>5. CASE fits # {}
  <2>1. fits \in SUBSET Nat  BY <1>2
  <2>2. PICK m \in fits : \A k \in fits : m <= k  BY <1>5, <2>1, Least
  <2>3. Min(fits) = m
    <3>1. PICK q : q = Min(fits)  OBVIOUS
    <3>2. q \in fits /\ \A k \in fits : q <= k  BY <2>2, <3>1 DEF Min
    <3>3. q <= m /\ m <= q /\ q \in Nat /\ m \in Nat  BY <2>1, <2>2, <3>2
    <3>4. q = m  BY ONLY <3>3
    <3> QED BY <3>1, <3>4
  <2>4. m \in 1 .. L /\ m \in 1 .. L + 1  BY <1>1, <1>2
  <2>5. FirstIn(s, some) = At(s, m)  BY <1>1, <1>3, <1>5, <2>3, <2>4 DEF At
  <2>6. ASSUME NEW i \in 1 .. m - 1 PROVE s[i] \notin some
    <3>1. i \in 1 .. L /\ ~(m <= i)  BY <1>1, <2>4
    <3> QED BY <1>2, <2>2, <3>1
  <2> QED BY <1>1, <2>4, <2>5, <2>6
<1> QED BY <1>4, <1>5

\* The deleted nodes u, and behind them the children behind the n-th.
Way(u, now, n) ==
    [i \in 1 .. Len(u) + Len(now) - n |-> IF i <= Len(u) THEN u[i] ELSE now[n + i - Len(u)]]

AlongWay(w, u, now, n) ==
    /\ Len(w) = Len(u) + Len(now) - n
    /\ \A i \in 1 .. Len(u) : w[i] = u[i]
    /\ \A j \in 1 .. Len(now) - n : w[Len(u) + j] = now[n + j]
    /\ \A j \in 1 .. Len(now) - n + 1 : At(w, Len(u) + j) = At(now, n + j)

LEMMA WayPlaces ==
    ASSUME NEW T, NEW u \in Seq(T), NEW now \in Seq(T), NEW n \in 0 .. Len(now),
           NEW w, w = Way(u, now, n)
    PROVE  w \in Seq(T) /\ AlongWay(w, u, now, n)
<1>1. PICK K \in Nat, L \in Nat : K = Len(u) /\ L = Len(now) /\ n \in 0 .. L  OBVIOUS
<1>2. w = [i \in 1 .. K + L - n |-> IF i <= K THEN u[i] ELSE now[n + i - K]]  BY <1>1 DEF Way
<1>3. K + L - n \in Nat  BY <1>1
<1>4. \A i \in 1 .. K : w[i] = u[i]
  <2>1. \A i \in 1 .. K : i \in 1 .. K + L - n /\ i <= K  BY <1>1
  <2> QED BY <1>2, <2>1
<1>5. ASSUME NEW j \in 1 .. L - n PROVE w[K + j] = now[n + j] /\ n + j \in 1 .. L
  <2>1. K + j \in 1 .. K + L - n /\ ~(K + j <= K) /\ n + (K + j) - K = n + j /\ n + j \in 1 .. L
    BY <1>1
  <2> QED BY <1>2, <2>1
<1>6. ASSUME NEW i \in 1 .. K + L - n PROVE w[i] \in T
  <2>1. CASE i \in 1 .. K  BY <1>1, <1>4, <2>1
  <2>2. CASE i \notin 1 .. K
    <3>1. i - K \in 1 .. L - n /\ K + (i - K) = i  BY <1>1, <2>2
    <3>2. w[i] = now[n + (i - K)] /\ n + (i - K) \in 1 .. L  BY <1>5, <3>1
    <3> QED BY <1>1, <3>2
  <2> QED BY <2>1, <2>2
<1>7. w \in Seq(T) /\ Len(w) = K + L - n
  <2>1. PICK N \in Nat : N = K + L - n  BY <1>3
  <2>2. w \in [1 .. N -> T]  BY <1>2, <1>6, <2>1
  <2> QED BY <2>1, <2>2
<1>8. ASSUME NEW j \in 1 .. L - n + 1 PROVE At(w, K + j) = At(now, n + j)
  <2>1. K + j \in 1 .. Len(w) <=> n + j \in 1 .. Len(now)  BY <1>1, <1>7
  <2>2. n + j \in 1 .. Len(now) => j \in 1 .. L - n  BY <1>1
  <2> QED BY <1>5, <2>1, <2>2 DEF At
<1> QED BY <1>1, <1>4, <1>5, <1>7, <1>8 DEF AlongWay

\* What a walk from there meets.
LEMMA WayIsWalked ==
    ASSUME NEW h, NEW out, Sound(h, out), NEW p, NEW now, Listed(h, out, p, now),
           NEW z, NEW u, NEW n, Stands(h, out, z, now, u, n)
    PROVE  Chain(h, z, "next") = Way(u, now, n) /\ u \in Seq(1 .. Len(h))
<1>1. PICK K \in Nat, L \in Nat :
          /\ K = Len(u) /\ L = Len(now) /\ n \in 0 .. L
          /\ now \in Seq(1 .. Len(h)) /\ u \in Seq(out) /\ u \in Seq(1 .. Len(h)) /\ Len(h) \in Nat
          /\ \A i \in 1 .. K : u[i] \in out
  <2>1. now \in Seq(1 .. Len(h))  BY DEF Listed
  <2>2. u \in Seq(out) /\ n \in 0 .. Len(now)  BY DEF Stands
  <2>3. PICK S : S = 1 .. Len(h) /\ out \subseteq S  BY DEF Sound, NodesOf
  <2>4. u \in Seq(S)
    <3>1. u \in Seq(out) /\ out \subseteq S  BY <2>2, <2>3
    <3> QED BY ONLY <3>1
  <2>5. Len(u) \in Nat /\ Len(now) \in Nat /\ \A i \in 1 .. Len(u) : u[i] \in out  BY ONLY <2>1, <2>2
  <2>6. Len(h) \in Nat  BY DEF Sound, Whole
  <2> QED BY <2>1, <2>2, <2>3, <2>4, <2>5, <2>6
<1>2. PICK w : w = Way(u, now, n)  OBVIOUS
<1>3. /\ w \in Seq(1 .. Len(h)) /\ Len(w) = K + L - n /\ \A i \in 1 .. K : w[i] = u[i]
      /\ \A j \in 1 .. L - n : w[K + j] = now[n + j]
      /\ \A j \in 1 .. L - n + 1 : At(w, K + j) = At(now, n + j)
  <2>1. PICK T : T = 1 .. Len(h)  OBVIOUS
  <2>2. u \in Seq(T) /\ now \in Seq(T) /\ n \in 0 .. Len(now) /\ w = Way(u, now, n)
    BY <1>1, <1>2, <2>1
  <2>3. w \in Seq(T) /\ AlongWay(w, u, now, n)  BY ONLY <2>2, WayPlaces
  <2> QED BY <1>1, <1>2, <2>1, <2>3 DEF AlongWay
<1>4. /\ IsInjective(now)
      /\ \A i \in 1 .. L : now[i] \notin out /\ h[now[i]].next = At(now, i + 1)
  BY <1>1 DEF Listed, ListOf, IsList
<1>5. /\ \A i, j \in 1 .. K : u[i] = u[j] => i = j
      /\ z = IF u = <<>> THEN At(now, n + 1) ELSE u[1]
      /\ \A i \in 1 .. K : h[u[i]].next = IF i = K THEN At(now, n + 1) ELSE u[i + 1]
  BY <1>1 DEF Stands
<1>6. \A i \in 1 .. K + L - n : i \in 1 .. K \/ \E j \in 1 .. L - n : i = K + j
  <2> TAKE i \in 1 .. K + L - n
  <2>1. i \notin 1 .. K => i - K \in 1 .. L - n /\ i = K + (i - K)  BY <1>1
  <2> QED BY <2>1
<1>7. IsInjective(w)
  <2>1. ASSUME NEW a \in 1 .. K + L - n, NEW b \in 1 .. K + L - n, w[a] = w[b] PROVE a = b
    <3>1. CASE a \in 1 .. K /\ b \in 1 .. K  BY <1>3, <1>5, <2>1, <3>1
    <3>2. ASSUME NEW i \in 1 .. K, NEW j \in 1 .. L - n PROVE w[i] # w[K + j]
      <4>1. n + j \in 1 .. L  BY <1>1
      <4> QED BY <1>1, <1>3, <1>4, <4>1
    <3>3. ASSUME NEW i \in 1 .. L - n, NEW j \in 1 .. L - n, w[K + i] = w[K + j] PROVE i = j
      <4>1. n + i \in 1 .. L /\ n + j \in 1 .. L /\ DOMAIN now = 1 .. L  BY <1>1
      <4>2. n + i = n + j  BY <1>3, <1>4, <3>3, <4>1 DEF IsInjective
      <4> QED BY <1>1, <4>2
    <3> QED BY <1>6, <2>1, <3>1, <3>2, <3>3
  <2>2. DOMAIN w = 1 .. K + L - n  BY <1>3
  <2> QED BY ONLY <2>1, <2>2 DEF IsInjective
<1>8. z = IF w = <<>> THEN NULL ELSE w[1]
  <2>1. z = At(w, 1)
    <3>1. CASE K = 0
      <4>1. u = <<>>
        <5>1. Len(u) = 0 /\ u \in Seq(out)  BY <1>1, <3>1
        <5> QED BY ONLY <5>1
      <4>2. 1 \in 1 .. L - n + 1 /\ K + 1 = 1  BY <1>1, <3>1
      <4> QED BY <1>3, <1>5, <4>1, <4>2
    <3>2. CASE K # 0
      <4>1. u # <<>> /\ 1 \in 1 .. K /\ 1 \in 1 .. Len(w)  BY <1>1, <1>3, <3>2
      <4> QED BY <1>3, <1>5, <4>1 DEF At
    <3> QED BY <3>1, <3>2
  <2>2. w = <<>> <=> 1 \notin 1 .. Len(w)
    <3>1. Len(w) \in Nat /\ w \in Seq(1 .. Len(h))  BY <1>3
    <3> QED BY ONLY <3>1
  <2> QED BY <2>1, <2>2 DEF At
<1>9. ASSUME NEW i \in 1 .. Len(w) PROVE h[w[i]].next = At(w, i + 1)
  <2>1. CASE i \in 1 .. K
    <3>1. h[w[i]].next = IF i = K THEN At(now, n + 1) ELSE u[i + 1]  BY <1>3, <1>5, <2>1
    <3>2. CASE i = K
      <4>1. 1 \in 1 .. L - n + 1  BY <1>1
      <4> QED BY <1>3, <3>1, <3>2, <4>1
    <3>3. CASE i # K
      <4>1. i + 1 \in 1 .. K  BY <1>1, <2>1, <3>3
      <4>2. i + 1 \in 1 .. Len(w)
        <5>1. i + 1 \in 1 .. K + L - n  BY <1>1, <4>1
        <5> QED BY <1>3, <5>1
      <4> QED BY <1>3, <3>1, <3>3, <4>1, <4>2 DEF At
    <3> QED BY <3>2, <3>3
  <2>2. ASSUME NEW j \in 1 .. L - n, i = K + j PROVE h[w[i]].next = At(w, i + 1)
    <3>1. /\ n + j \in 1 .. L /\ j + 1 \in 1 .. L - n + 1
          /\ K + (j + 1) = i + 1 /\ n + (j + 1) = n + j + 1
      BY <1>1, <2>2
    <3>2. h[w[i]].next = At(now, n + j + 1)  BY <1>3, <1>4, <2>2, <3>1
    <3> QED BY <1>3, <3>1, <3>2
  <2> QED BY <1>3, <1>6, <2>1, <2>2
<1>10. ASSUME NEW i \in 1 .. Len(w)
       PROVE  h[w[i]]["next"] = IF i = Len(w) THEN NULL ELSE w[i + 1]
  <2>1. Len(w) \in Nat  BY <1>3
  <2>2. i = Len(w) <=> i + 1 \notin 1 .. Len(w)  BY <2>1
  <2> QED BY <1>9, <2>2 DEF At
<1>11. Linked(h, z, "next", w)  BY <1>3, <1>7, <1>8, <1>10 DEF Linked
<1> QED BY <1>1, <1>2, <1>11, ChainOfLinked

\* One node further on it.
LEMMA StandsNext ==
    ASSUME NEW h, NEW out, Sound(h, out), NEW p, NEW now, Listed(h, out, p, now),
           NEW x, NEW u, NEW n, Stands(h, out, x, now, u, n), x # NULL
    PROVE  \/ /\ u = <<>> /\ n + 1 \in 1 .. Len(now) /\ x = now[n + 1]
              /\ Stands(h, out, h[x].next, now, <<>>, n + 1)
           \/ /\ Len(u) >= 1 /\ x = u[1]
              /\ Stands(h, out, h[x].next, now, Tail(u), n)
<1>1. PICK L \in Nat : /\ L = Len(now) /\ n \in 0 .. L /\ u \in Seq(out)
                       /\ \A i \in 1 .. L : h[now[i]].next = At(now, i + 1)
  <2>1. now \in Seq(1 .. Len(h)) /\ \A i \in 1 .. Len(now) : h[now[i]].next = At(now, i + 1)
    BY DEF Listed
  <2>2. Len(now) \in Nat  BY ONLY <2>1
  <2> QED BY <2>1, <2>2 DEF Stands
<1>2. CASE u = <<>>
  <2>1. x = At(now, n + 1)  BY <1>2 DEF Stands
  <2>2. n + 1 \in 1 .. L /\ x = now[n + 1]  BY <1>1, <2>1 DEF At
  <2>3. n + 1 + 1 = n + 2 /\ n + 1 \in 0 .. L  BY <1>1, <2>2
  <2>4. h[x].next = At(now, n + 1 + 1)  BY <1>1, <2>2
  <2>5. PICK v : v = <<>>  OBVIOUS
  <2>6. v \in Seq(out) /\ Len(v) = 0 /\ 1 .. Len(v) = {}  BY <2>5
  <2>7. Stands(h, out, h[x].next, now, v, n + 1)  BY <1>1, <2>3, <2>4, <2>5, <2>6 DEF Stands
  <2> QED BY <1>1, <1>2, <2>2, <2>5, <2>7
<1>3. CASE u # <<>>
  <2>1. PICK K \in Nat : K = Len(u) /\ K >= 1
    <3>1. Len(u) \in Nat /\ Len(u) >= 1  BY <1>1, <1>3
    <3> QED BY <3>1
  <2>2. PICK v : v = Tail(u)  OBVIOUS
  <2>3. v \in Seq(out) /\ Len(v) = K - 1 /\ \A i \in 1 .. K - 1 : v[i] = u[i + 1]
    <3>1. v \in Seq(out) /\ Len(v) = Len(u) - 1  BY ONLY <1>1, <1>3, <2>2
    <3>2. \A i \in 1 .. Len(u) - 1 : v[i] = u[i + 1]  BY ONLY <1>1, <1>3, <2>2
    <3> QED BY <2>1, <3>1, <3>2
  <2>4. /\ x = u[1] /\ \A i, j \in 1 .. K : u[i] = u[j] => i = j
        /\ \A i \in 1 .. K : h[u[i]].next = IF i = K THEN At(now, n + 1) ELSE u[i + 1]
    BY <1>3, <2>1 DEF Stands
  <2>5. h[x].next = IF v = <<>> THEN At(now, n + 1) ELSE v[1]
    <3>1. v = <<>> <=> K = 1
      <4>1. v \in Seq(out) /\ Len(v) = K - 1 /\ K \in Nat  BY <2>1, <2>3
      <4> QED BY ONLY <4>1
    <3>2. 1 \in 1 .. K /\ (K # 1 => 1 \in 1 .. K - 1)  BY <2>1
    <3>3. K # 1 => v[1] = u[1 + 1]  BY <2>3, <3>2
    <3> QED BY <2>4, <3>1, <3>2, <3>3
  <2>6. ASSUME NEW i \in 1 .. K - 1
        PROVE  h[v[i]].next = IF i = K - 1 THEN At(now, n + 1) ELSE v[i + 1]
    <3>1. i + 1 \in 1 .. K /\ (i + 1 = K <=> i = K - 1)  BY <2>1
    <3>2. h[v[i]].next = IF i + 1 = K THEN At(now, n + 1) ELSE u[i + 1 + 1]  BY <2>3, <2>4, <3>1
    <3>3. i # K - 1 => i + 1 \in 1 .. K - 1  BY <2>1
    <3> QED BY <2>3, <3>1, <3>2, <3>3
  <2>7. ASSUME NEW i \in 1 .. K - 1, NEW j \in 1 .. K - 1, v[i] = v[j] PROVE i = j
    <3>1. i + 1 \in 1 .. K /\ j + 1 \in 1 .. K  BY <2>1
    <3>2. i + 1 = j + 1  BY <2>3, <2>4, <2>7, <3>1
    <3> QED BY <3>2
  <2>8. Stands(h, out, h[x].next, now, v, n)  BY <1>1, <2>3, <2>5, <2>6, <2>7 DEF Stands
  <2> QED BY <2>1, <2>2, <2>4, <2>8
<1> QED BY <1>2, <1>3

\* None of the children from n to m is wanted, and v is the end of u.
Skips(now, u, n, v, m, some) ==
    /\ n <= m /\ \A i \in n + 1 .. m : now[i] \notin some
    /\ \A i \in 1 .. Len(v) : \E j \in 1 .. Len(u) : v[i] = u[j]

\* To the first node on it that is wanted.
LEMMA StandsFirst ==
    ASSUME NEW h, NEW out, Sound(h, out), NEW p, NEW now, Listed(h, out, p, now),
           NEW z, NEW u, NEW n, Stands(h, out, z, now, u, n), NEW some
    PROVE  \E v, m : /\ Stands(h, out, FirstIn(Chain(h, z, "next"), some), now, v, m)
                     /\ Skips(now, u, n, v, m, some)
<1>1. PICK w : w = Way(u, now, n) /\ w = Chain(h, z, "next") /\ u \in Seq(1 .. Len(h))
  BY WayIsWalked
<1>2. PICK K \in Nat, L \in Nat : K = Len(u) /\ L = Len(now) /\ n \in 0 .. L
                                  /\ u \in Seq(out) /\ now \in Seq(1 .. Len(h))
  <2>1. now \in Seq(1 .. Len(h)) /\ u \in Seq(out)  BY DEF Listed, Stands
  <2>2. Len(now) \in Nat /\ Len(u) \in Nat  BY ONLY <2>1
  <2> QED BY <2>1, <2>2 DEF Stands
<1>3. /\ w \in Seq(1 .. Len(h)) /\ Len(w) = K + L - n /\ \A i \in 1 .. K : w[i] = u[i]
      /\ \A j \in 1 .. L - n : w[K + j] = now[n + j]
      /\ \A j \in 1 .. L - n + 1 : At(w, K + j) = At(now, n + j)
  <2>1. PICK T : T = 1 .. Len(h)  OBVIOUS
  <2>2. u \in Seq(T) /\ now \in Seq(T) /\ n \in 0 .. Len(now) /\ w = Way(u, now, n)
    BY <1>1, <1>2, <2>1
  <2>3. w \in Seq(T) /\ AlongWay(w, u, now, n)  BY ONLY <2>2, WayPlaces
  <2> QED BY <1>1, <1>2, <2>1, <2>3 DEF AlongWay
<1>4. PICK m \in 1 .. K + L - n + 1 : /\ FirstIn(w, some) = At(w, m)
                                      /\ \A i \in 1 .. m - 1 : w[i] \notin some
  <2>1. \E m \in 1 .. Len(w) + 1 : /\ FirstIn(w, some) = At(w, m)
                                   /\ \A i \in 1 .. m - 1 : w[i] \notin some
    BY <1>3, FirstInPlace
  <2> QED BY <1>3, <2>1
<1>5. /\ \A i, j \in 1 .. K : u[i] = u[j] => i = j
      /\ \A i \in 1 .. K : h[u[i]].next = IF i = K THEN At(now, n + 1) ELSE u[i + 1]
  BY <1>2 DEF Stands
<1>6. CASE m <= K
  <2>1. K - m + 1 \in Nat  BY <1>2, <1>6
  <2>2. PICK M \in Nat : M = K - m + 1  BY <2>1
  <2>3. PICK v : v = [i \in 1 .. M |-> u[m - 1 + i]]  OBVIOUS
  <2>4. \A i \in 1 .. M : m - 1 + i \in 1 .. K /\ v[i] = u[m - 1 + i]  BY <1>2, <1>6, <2>2, <2>3
  <2>5. v \in Seq(out) /\ Len(v) = M /\ v # <<>>
    <3>1. \A i \in 1 .. K : u[i] \in out  BY ONLY <1>2
    <3>2. v \in [1 .. M -> out] /\ M >= 1  BY <1>2, <1>6, <2>2, <2>3, <2>4, <3>1
    <3>3. v \in Seq(out) /\ Len(v) = M  BY <2>2, <3>2
    <3> QED BY <3>2, <3>3
  <2>6. FirstIn(w, some) = v[1]
    <3>1. 1 \in 1 .. M /\ m - 1 + 1 = m /\ m \in 1 .. K /\ m \in 1 .. Len(w)  BY <1>2, <1>3, <1>6, <2>2
    <3> QED BY <1>3, <1>4, <2>4, <3>1 DEF At
  <2>7. ASSUME NEW i \in 1 .. M, NEW j \in 1 .. M, v[i] = v[j] PROVE i = j
    <3>1. m - 1 + i = m - 1 + j  BY <1>5, <2>4, <2>7
    <3> QED BY <3>1
  <2>8. ASSUME NEW i \in 1 .. M PROVE h[v[i]].next = IF i = M THEN At(now, n + 1) ELSE v[i + 1]
    <3>1. m - 1 + i = K <=> i = M  BY <1>2, <2>2
    <3>2. h[v[i]].next = IF m - 1 + i = K THEN At(now, n + 1) ELSE u[m - 1 + i + 1]
      BY <1>5, <2>4
    <3>3. i # M => i + 1 \in 1 .. M /\ m - 1 + i + 1 = m - 1 + (i + 1)  BY <2>2
    <3> QED BY <2>4, <3>1, <3>2, <3>3
  <2>9. Stands(h, out, FirstIn(w, some), now, v, n)
    BY <1>2, <2>5, <2>6, <2>7, <2>8 DEF Stands
  <2>10. n <= n /\ n + 1 .. n = {}  BY <1>2
  <2>11. \A i \in 1 .. Len(v) : \E j \in 1 .. Len(u) : v[i] = u[j]  BY <1>2, <2>4, <2>5
  <2> QED BY <1>1, <2>9, <2>10, <2>11 DEF Skips
<1>7. CASE ~(m <= K)
  <2>1. n + (m - K - 1) \in n .. L  BY <1>2, <1>7
  <2>2. PICK l \in n .. L : l = n + (m - K - 1)  BY <2>1
  <2>3. PICK v : v = <<>>  OBVIOUS
  <2>4. v \in Seq(out) /\ Len(v) = 0 /\ 1 .. Len(v) = {}  BY <2>3
  <2>5. FirstIn(w, some) = At(now, l + 1)
    <3>1. m - K \in 1 .. L - n + 1 /\ K + (m - K) = m /\ n + (m - K) = l + 1  BY <1>2, <1>7, <2>2
    <3> QED BY <1>3, <1>4, <3>1
  <2>6. l \in 0 .. L /\ n <= l  BY <1>2, <2>2
  <2>7. Stands(h, out, FirstIn(w, some), now, v, l)  BY <1>2, <2>3, <2>4, <2>5, <2>6 DEF Stands
  <2>8. ASSUME NEW i \in n + 1 .. l PROVE now[i] \notin some
    <3>1. i - n \in 1 .. L - n /\ K + (i - n) \in 1 .. m - 1 /\ n + (i - n) = i
      BY <1>2, <1>7, <2>2
    <3> QED BY <1>3, <1>4, <3>1
  <2> QED BY <1>1, <2>4, <2>6, <2>7, <2>8 DEF Skips
<1> QED BY <1>6, <1>7

\* The children of p, as iterators need them.
LEMMA ListedPlain ==
    ASSUME NEW h, NEW out, NEW p, NEW now, Listed(h, out, p, now)
    PROVE  /\ Len(now) \in Nat /\ now \in Seq(1 .. Len(h)) /\ Distinct(now) /\ NoneOf(now, out)
           /\ \A j \in 1 .. Len(now) : now[j] \in NodesOf(h)
<1>1. /\ now \in Seq(1 .. Len(h)) /\ IsInjective(now)
      /\ \A i \in 1 .. Len(now) : now[i] \notin out /\ now[i] \in NodesOf(h)
  BY DEF Listed, ListOf, IsList
<1>2. Distinct(now)  BY ONLY <1>1 DEF IsInjective, Distinct
<1>3. Len(now) \in Nat  BY ONLY <1>1
<1> QED BY <1>1, <1>2, <1>3 DEF NoneOf

\* A new iterator (Iter).
LEMMA IterStarts ==
    ASSUME NEW h, NEW out, NEW p, NEW now, Listed(h, out, p, now), NEW some,
           NEW it, it.doc = FirstIn(now, some), it.got = <<>>, it.due = ToSet(now) \cap some
    PROVE  \E u, n : Course(h, out, it, now, u, n)
<1>1. Len(now) \in Nat /\ now \in Seq(1 .. Len(h))  BY ListedPlain
<1>2. PICK m \in 1 .. Len(now) + 1 : /\ FirstIn(now, some) = At(now, m)
                                     /\ \A i \in 1 .. m - 1 : now[i] \notin some
  BY <1>1, FirstInPlace
<1>3. PICK n \in 0 .. Len(now) : n + 1 = m /\ n = m - 1
  <2>1. m - 1 \in 0 .. Len(now) /\ m - 1 + 1 = m  BY <1>1
  <2> QED BY <2>1
<1>4. PICK u : u = <<>>  OBVIOUS
<1>5. u \in Seq(out) /\ Len(u) = 0 /\ 1 .. Len(u) = {}  BY <1>4
<1>6. Stands(h, out, it.doc, now, u, n)  BY <1>2, <1>3, <1>4, <1>5 DEF Stands
<1>7. GotOK(it.got, out, now, u, n)
  <2>1. Len(it.got) = 0 /\ 1 .. Len(it.got) = {}  BY <1>4, <1>5
  <2> QED BY <2>1 DEF GotOK
<1>8. ASSUME NEW y \in it.due PROVE \E i \in n + 1 .. Len(now) : now[i] = y
  <2>1. y \in ToSet(now) /\ y \in some  BY <1>8
  <2>2. PICK i \in 1 .. Len(now) : now[i] = y  BY <1>1, <2>1 DEF ToSet
  <2>3. i \notin 1 .. m - 1  BY <1>2, <2>1, <2>2
  <2>4. i \in n + 1 .. Len(now)  BY <1>1, <1>3, <2>3
  <2> QED BY <2>2, <2>4
<1>9. DueOK(it.due, it.got, out, now, n)  BY <1>8 DEF DueOK
<1> QED BY <1>6, <1>7, <1>9 DEF Course

\* From x on: m children are behind it, and of the deleted nodes it had before it
\* at most the others than x are.
Passes(now, x, u, n, v, m, some) ==
    \/ /\ u = <<>> /\ n + 1 \in 1 .. Len(now) /\ x = now[n + 1] /\ m \in n + 1 .. Len(now)
       /\ \A i \in n + 2 .. m : now[i] \notin some
       /\ Len(v) = 0
    \/ /\ Len(u) \in Nat /\ Len(u) >= 1 /\ x = u[1] /\ m \in n .. Len(now)
       /\ \A i \in n + 1 .. m : now[i] \notin some
       /\ \A i \in 1 .. Len(v) : \E j \in 2 .. Len(u) : v[i] = u[j]

LEMMA StandsPassed ==
    ASSUME NEW h, NEW out, Sound(h, out), NEW p, NEW now, Listed(h, out, p, now),
           NEW x, NEW u, NEW n, Stands(h, out, x, now, u, n), x # NULL, NEW some
    PROVE  \E v, m : /\ Stands(h, out, FirstIn(Chain(h, h[x].next, "next"), some), now, v, m)
                     /\ Passes(now, x, u, n, v, m, some)
<1>1. PICK z : z = h[x].next  OBVIOUS
<1>2. u \in Seq(out) /\ n \in 0 .. Len(now) /\ Len(now) \in Nat /\ Len(u) \in Nat
  <2>1. u \in Seq(out)  BY DEF Stands
  <2>2. Len(u) \in Nat  BY ONLY <2>1
  <2> QED BY <2>1, <2>2, ListedPlain DEF Stands
<1>3. CASE u = <<>> /\ n + 1 \in 1 .. Len(now) /\ x = now[n + 1] /\ Stands(h, out, z, now, <<>>, n + 1)
  <2>1. PICK w : w = <<>> /\ Len(w) = 0 /\ 1 .. Len(w) = {}  OBVIOUS
  <2>2. PICK k : k = n + 1  OBVIOUS
  <2>3. Stands(h, out, z, now, w, k)  BY <1>3, <2>1, <2>2
  <2>4. PICK v, m : /\ Stands(h, out, FirstIn(Chain(h, z, "next"), some), now, v, m)
                    /\ Skips(now, w, k, v, m, some)
    BY ONLY Sound(h, out), Listed(h, out, p, now), <2>3, StandsFirst
  <2>5. m \in 0 .. Len(now) /\ v \in Seq(out)  BY <2>4 DEF Stands
  <2>6. Len(v) \in Nat /\ 1 .. Len(v) = {}
    <3>1. Len(v) \in Nat  BY ONLY <2>5
    <3> QED BY <2>1, <2>4, <3>1 DEF Skips
  <2>7. Len(v) = 0  BY <2>6
  <2>8. m \in n + 1 .. Len(now) /\ k + 1 = n + 2  BY <1>2, <2>2, <2>4, <2>5 DEF Skips
  <2>9. Passes(now, x, u, n, v, m, some)  BY <1>3, <2>4, <2>7, <2>8 DEF Passes, Skips
  <2> QED BY <1>1, <2>4, <2>9
<1>4. CASE Len(u) >= 1 /\ x = u[1] /\ Stands(h, out, z, now, Tail(u), n)
  <2>1. PICK w : w = Tail(u)  OBVIOUS
  <2>2. Len(w) = Len(u) - 1 /\ \A j \in 1 .. Len(u) - 1 : w[j] = u[j + 1]
    <3>1. u # <<>>
      <4>1. Len(u) # 0  BY <1>2, <1>4
      <4> QED BY <4>1
    <3> QED BY ONLY <1>2, <2>1, <3>1
  <2>3. Stands(h, out, z, now, w, n)  BY <1>4, <2>1
  <2>4. PICK v, m : /\ Stands(h, out, FirstIn(Chain(h, z, "next"), some), now, v, m)
                    /\ Skips(now, w, n, v, m, some)
    BY ONLY Sound(h, out), Listed(h, out, p, now), <2>3, StandsFirst
  <2>5. m \in 0 .. Len(now)  BY <2>4 DEF Stands
  <2>6. ASSUME NEW i \in 1 .. Len(v) PROVE \E j \in 2 .. Len(u) : v[i] = u[j]
    <3>1. PICK j \in 1 .. Len(w) : v[i] = w[j]  BY <2>4 DEF Skips
    <3>2. j \in 1 .. Len(u) - 1 /\ j + 1 \in 2 .. Len(u)  BY <1>2, <2>2
    <3> QED BY <2>2, <3>1, <3>2
  <2>7. m \in n .. Len(now)  BY <1>2, <2>4, <2>5 DEF Skips
  <2>8. Passes(now, x, u, n, v, m, some)  BY <1>2, <1>4, <2>4, <2>6, <2>7 DEF Passes, Skips
  <2> QED BY <1>1, <2>4, <2>8
<1> QED BY <1>1, <1>3, <1>4, StandsNext

LEMMA GotNext ==
    ASSUME NEW h, NEW out, NEW p, NEW now, Listed(h, out, p, now),
           NEW x, NEW u, NEW n, Stands(h, out, x, now, u, n),
           NEW v, NEW m, NEW some, Passes(now, x, u, n, v, m, some),
           NEW T, NEW got \in Seq(T), x \in T, GotOK(got, out, now, u, n)
    PROVE  GotOK(Append(got, x), out, now, v, m)
<1>1. PICK G \in Nat : G = Len(got)  OBVIOUS
<1>2. PICK g : g = Append(got, x)  OBVIOUS
<1>3. Len(g) = G + 1 /\ g[G + 1] = x /\ \A a \in 1 .. G : g[a] = got[a]  BY ONLY <1>1, <1>2, got \in Seq(T), x \in T
<1>4. Len(now) \in Nat /\ Distinct(now) /\ NoneOf(now, out)  BY ListedPlain
<1>5. PICK K \in Nat : K = Len(u) /\ (\A i \in 1 .. K : u[i] \in out) /\ n \in 0 .. Len(now)
                       /\ \A i, j \in 1 .. K : u[i] = u[j] => i = j
  <2>1. u \in Seq(out)  BY DEF Stands
  <2>2. Len(u) \in Nat /\ \A i \in 1 .. Len(u) : u[i] \in out  BY ONLY <2>1
  <2> QED BY <2>2 DEF Stands
<1>6. /\ \A a, b \in 1 .. G : got[a] = got[b] => a = b
      /\ \A a \in 1 .. G, i \in 1 .. K : got[a] # u[i]
      /\ \A a \in 1 .. G : got[a] \in out \/ \E j \in 1 .. n : now[j] = got[a]
      /\ \A a, b \in 1 .. G, j, k \in 1 .. Len(now) :
             got[a] = now[j] /\ got[b] = now[k] /\ a <= b => j <= k
  BY <1>1, <1>5 DEF GotOK
<1>7. \A a \in 1 .. G, j \in 1 .. Len(now) : got[a] = now[j] => j <= n
  <2> SUFFICES ASSUME NEW a \in 1 .. G, NEW j \in 1 .. Len(now), got[a] = now[j] PROVE j <= n
    OBVIOUS
  <2>1. got[a] \notin out  BY <1>4 DEF NoneOf
  <2>2. PICK k \in 1 .. n : now[k] = got[a]  BY <1>6, <2>1
  <2>3. k \in 1 .. Len(now)  BY <1>4, <1>5
  <2>4. k = j  BY <1>4, <2>2, <2>3 DEF Distinct
  <2> QED BY <1>5, <2>4
<1>8. \A a \in 1 .. G : got[a] # x
  <2>1. CASE n + 1 \in 1 .. Len(now) /\ x = now[n + 1]
    <3>1. ~(n + 1 <= n)  BY <1>5
    <3> QED BY <1>7, <2>1, <3>1
  <2>2. CASE Len(u) >= 1 /\ x = u[1]
    <3>1. 1 \in 1 .. K  BY <1>5, <2>2
    <3> QED BY <1>6, <2>2, <3>1
  <2> QED BY <2>1, <2>2 DEF Passes
<1>9. \A a \in 1 .. G + 1 : a \in 1 .. G \/ a = G + 1  BY <1>1
<1>10. ASSUME NEW a \in 1 .. G + 1, NEW b \in 1 .. G + 1, g[a] = g[b] PROVE a = b
  BY <1>3, <1>6, <1>8, <1>9, <1>10
<1>11. ASSUME NEW a \in 1 .. G + 1, NEW i \in 1 .. Len(v) PROVE g[a] # v[i]
  <2>1. Len(v) # 0  BY <1>11
  <2>2. PICK j \in 2 .. K : v[i] = u[j]
    <3>1. Len(u) \in Nat /\ \A k \in 1 .. Len(v) : \E j \in 2 .. Len(u) : v[k] = u[j]
      BY <2>1 DEF Passes
    <3> QED BY <1>5, <3>1
  <2>3. j \in 1 .. K /\ 1 \in 1 .. K /\ j # 1  BY <1>5
  <2>4. x = u[1]  BY <2>1 DEF Passes
  <2> QED BY <1>3, <1>5, <1>6, <1>9, <2>2, <2>3, <2>4
<1>12. n <= m /\ m \in Nat /\ \A j \in 1 .. n : j \in 1 .. m
  <2>1. m \in n .. Len(now) \/ m \in n + 1 .. Len(now)  BY DEF Passes
  <2>2. n <= m /\ m \in Nat  BY <1>4, <1>5, <2>1
  <2> QED BY <1>5, <2>2
<1>13. ASSUME NEW a \in 1 .. G + 1 PROVE g[a] \in out \/ \E j \in 1 .. m : now[j] = g[a]
  <2>1. CASE a \in 1 .. G  BY <1>3, <1>6, <1>12, <2>1
  <2>2. CASE a = G + 1
    <3>1. CASE n + 1 \in 1 .. Len(now) /\ x = now[n + 1] /\ m \in n + 1 .. Len(now)
      <4>1. n + 1 \in 1 .. m  BY <1>4, <1>5, <3>1
      <4> QED BY <1>3, <2>2, <3>1, <4>1
    <3>2. CASE Len(u) >= 1 /\ x = u[1]
      <4>1. 1 \in 1 .. K  BY <1>5, <3>2
      <4> QED BY <1>3, <1>5, <2>2, <3>2, <4>1
    <3> QED BY <3>1, <3>2 DEF Passes
  <2> QED BY <1>9, <2>1, <2>2
<1>14. ASSUME NEW k \in 1 .. Len(now), x = now[k] PROVE k = n + 1
  <2>1. x \notin out  BY <1>4, <1>14 DEF NoneOf
  <2>2. ~(Len(u) >= 1 /\ x = u[1])
    <3>1. Len(u) >= 1 => 1 \in 1 .. K  BY <1>5
    <3> QED BY <1>5, <2>1, <3>1
  <2>3. n + 1 \in 1 .. Len(now) /\ x = now[n + 1]  BY <2>2 DEF Passes
  <2> QED BY <1>4, <1>14, <2>3 DEF Distinct
<1>15. ASSUME NEW a \in 1 .. G + 1, NEW b \in 1 .. G + 1,
              NEW j \in 1 .. Len(now), NEW k \in 1 .. Len(now),
              g[a] = now[j], g[b] = now[k], a <= b
       PROVE  j <= k
  <2>1. CASE a \in 1 .. G /\ b \in 1 .. G  BY <1>3, <1>6, <1>15, <2>1
  <2>2. CASE a \in 1 .. G /\ b = G + 1
    <3>1. j <= n /\ k = n + 1  BY <1>3, <1>7, <1>14, <1>15, <2>2
    <3> QED BY <1>5, <3>1
  <2>3. CASE a = G + 1 /\ b = G + 1
    <3>1. j = n + 1 /\ k = n + 1  BY <1>3, <1>14, <1>15, <2>3
    <3> QED BY <1>5, <3>1
  <2>4. CASE a = G + 1 /\ b \in 1 .. G  BY <1>1, <1>15, <2>4
  <2> QED BY <1>9, <2>1, <2>2, <2>3, <2>4
<1> QED BY <1>2, <1>3, <1>10, <1>11, <1>13, <1>15 DEF GotOK

LEMMA DueNext ==
    ASSUME NEW out, NEW now, Len(now) \in Nat, NEW n \in 0 .. Len(now),
           NEW x, NEW u, NEW v, NEW m, NEW some, Passes(now, x, u, n, v, m, some),
           NEW T, NEW got \in Seq(T), x \in T, NEW due, due \subseteq some, DueOK(due, got, out, now, n)
    PROVE  DueOK(due, Append(got, x), out, now, m)
<1>1. PICK G \in Nat : G = Len(got)  OBVIOUS
<1>2. PICK g : g = Append(got, x)  OBVIOUS
<1>3. Len(g) = G + 1 /\ g[G + 1] = x /\ \A a \in 1 .. G : g[a] = got[a] /\ a \in 1 .. G + 1
  <2>1. Len(g) = G + 1 /\ g[G + 1] = x /\ \A a \in 1 .. G : g[a] = got[a]
    BY ONLY <1>1, <1>2, got \in Seq(T), x \in T
  <2> QED BY <1>1, <2>1
<1> SUFFICES ASSUME NEW y \in due
             PROVE  \/ y \in out \/ \E a \in 1 .. Len(g) : g[a] = y
                    \/ \E i \in m + 1 .. Len(now) : now[i] = y
  BY <1>2 DEF DueOK
<1>4. CASE y \in out  BY <1>4
<1>5. CASE \E a \in 1 .. Len(got) : got[a] = y  BY <1>1, <1>3, <1>5
<1>6. CASE \E i \in n + 1 .. Len(now) : now[i] = y
  <2>1. PICK i \in n + 1 .. Len(now) : now[i] = y  BY <1>6
  <2>2. m \in Nat
    <3>1. m \in n .. Len(now) \/ m \in n + 1 .. Len(now)  BY DEF Passes
    <3> QED BY <3>1
  <2>3. CASE i > m
    <3>1. i \in m + 1 .. Len(now)  BY <2>2, <2>3
    <3> QED BY <2>1, <3>1
  <2>4. CASE ~(i > m) /\ i = n + 1
    <3>1. i \notin n + 2 .. m  BY <2>4
    <3>2. i \in n + 1 .. m  BY <2>2, <2>4
    <3>3. y \in some  OBVIOUS
    <3>4. x = y  BY <2>1, <2>4, <3>2, <3>3 DEF Passes
    <3>5. G + 1 \in 1 .. Len(g)  BY <1>1, <1>3
    <3> QED BY <1>3, <3>4, <3>5
  <2>5. CASE ~(i > m) /\ i # n + 1
    <3>1. i \in n + 1 .. m /\ i \in n + 2 .. m  BY <2>2, <2>5
    <3>2. y \in some  OBVIOUS
    <3> QED BY <2>1, <3>1, <3>2 DEF Passes
  <2> QED BY <2>3, <2>4, <2>5
<1> QED BY <1>4, <1>5, <1>6 DEF DueOK

\* An iterator yields a node (Iter_next).
LEMMA IterGoes ==
    ASSUME NEW h, NEW out, Sound(h, out), NEW it, FollowsIn(h, out, it), it.doc # NULL, it.doc \in 1 .. Len(h),
           NEW to, to.of = it.of, to.tags = it.tags, to.name = it.name, to.due = it.due,
           to.got = Append(it.got, it.doc),
           to.doc = FirstIn(Chain(h, h[it.doc].next, "next"), Wanted(h, it.tags, it.name))
    PROVE  FollowsIn(h, out, to)
<1>1. PICK p : p = it.of /\ p \in 1 .. Len(h) /\ IsTag(h, p)  BY DEF FollowsIn
<1>2. PICK now : now = ListAt(h, p, "kids") /\ Listed(h, out, p, now)  BY <1>1, WalkIsListed
<1>3. PICK u, n : Course(h, out, it, now, u, n)  BY <1>1, <1>2 DEF FollowsIn
<1>4. PICK some : some = Wanted(h, it.tags, it.name)  OBVIOUS
<1>5. PICK x, got, due : x = it.doc /\ got = it.got /\ due = it.due  OBVIOUS
<1>6. Stands(h, out, x, now, u, n) /\ GotOK(got, out, now, u, n) /\ DueOK(due, got, out, now, n)
  BY <1>3, <1>5 DEF Course
<1>7. x # NULL /\ x \in 1 .. Len(h) /\ got \in Seq(1 .. Len(h)) /\ due \subseteq some
  BY <1>4, <1>5 DEF FollowsIn
<1>8. PICK v, m : /\ Stands(h, out, FirstIn(Chain(h, h[x].next, "next"), some), now, v, m)
                  /\ Passes(now, x, u, n, v, m, some)
  BY ONLY Sound(h, out), <1>2, <1>6, <1>7, StandsPassed
<1>9. GotOK(Append(got, x), out, now, v, m)
  BY ONLY <1>2, <1>6, <1>7, <1>8, GotNext
<1>10. DueOK(due, Append(got, x), out, now, m)
  <2>1. Len(now) \in Nat /\ n \in 0 .. Len(now)  BY <1>2, <1>6, ListedPlain DEF Stands
  <2> QED BY ONLY <1>6, <1>7, <1>8, <2>1, DueNext
<1>11. Course(h, out, to, now, v, m)  BY <1>4, <1>5, <1>8, <1>9, <1>10 DEF Course
<1>12. to.got \in Seq(1 .. Len(h))
  <2>1. Append(got, x) \in Seq(1 .. Len(h))  BY ONLY <1>7
  <2> QED BY <1>5, <2>1
<1> QED BY <1>1, <1>2, <1>11, <1>12 DEF FollowsIn

\* What an iterator has yielded, and what it owes.
YieldsInOrder(it, now, out) ==
    /\ IsInjective(it.got)
    /\ ToSet(it.got) \ out = ToSet(it.got) \cap ToSet(now)
    /\ \A a, b \in 1 .. Len(it.got), j, k \in 1 .. Len(now) :
           it.got[a] = now[j] /\ it.got[b] = now[k] /\ a <= b => j <= k
    /\ it.doc = NULL => it.due \subseteq ToSet(it.got) \cup out

LEMMA FollowedInOrder ==
    ASSUME NEW h, NEW out, Sound(h, out), NEW it, FollowsIn(h, out, it)
    PROVE  YieldsInOrder(it, Chain(h, h[it.of].first, "next"), out)
<1>1. PICK p : p = it.of /\ p \in 1 .. Len(h) /\ IsTag(h, p)  BY DEF FollowsIn
<1>2. PICK now : now = ListAt(h, p, "kids") /\ Listed(h, out, p, now)  BY <1>1, WalkIsListed
<1>3. now = Chain(h, h[it.of].first, "next")  BY <1>1, <1>2 DEF ListAt, FirstOf
<1>4. PICK u, n : Course(h, out, it, now, u, n)  BY <1>1, <1>2 DEF FollowsIn
<1>5. PICK got : got = it.got /\ got \in Seq(1 .. Len(h)) /\ DOMAIN got = 1 .. Len(got)
  BY DEF FollowsIn
<1>6. /\ Len(now) \in Nat /\ Distinct(now) /\ NoneOf(now, out) /\ DOMAIN now = 1 .. Len(now)
      /\ \A j \in 1 .. Len(now) : now[j] \in 1 .. Len(h)
  <2>1. now \in Seq(1 .. Len(h))  BY <1>2, ListedPlain
  <2>2. DOMAIN now = 1 .. Len(now) /\ \A j \in 1 .. Len(now) : now[j] \in 1 .. Len(h)  BY ONLY <2>1
  <2> QED BY <1>2, <2>2, ListedPlain
<1>7. GotOK(got, out, now, u, n) /\ DueOK(it.due, got, out, now, n) /\ Stands(h, out, it.doc, now, u, n)
  BY <1>4, <1>5 DEF Course
<1>8. IsInjective(got)  BY ONLY <1>5, <1>7 DEF GotOK, IsInjective
<1>9. n \in 0 .. Len(now) /\ u \in Seq(out)  BY <1>7 DEF Stands
<1>10. ToSet(got) \ out = ToSet(got) \cap ToSet(now)
  <2>1. ASSUME NEW a \in 1 .. Len(got), got[a] \notin out PROVE got[a] \in ToSet(now)
    <3>1. PICK j \in 1 .. n : now[j] = got[a]  BY <1>7, <2>1 DEF GotOK
    <3>2. j \in DOMAIN now  BY <1>6, <1>9
    <3> QED BY <3>1, <3>2 DEF ToSet
  <2>2. ASSUME NEW y \in ToSet(now) PROVE y \notin out
    <3>1. PICK j \in 1 .. Len(now) : now[j] = y  BY <1>6 DEF ToSet
    <3> QED BY <1>6, <3>1 DEF NoneOf
  <2>3. \A y \in ToSet(got) : \E a \in 1 .. Len(got) : y = got[a]  BY <1>5 DEF ToSet
  <2> QED BY <2>1, <2>2, <2>3
<1>11. ASSUME it.doc = NULL, NEW y \in it.due PROVE y \in ToSet(got) \cup out
  <2>1. u = <<>>
    <3>1. SUFFICES ASSUME u # <<>> PROVE FALSE  OBVIOUS
    <3>2. u[1] \in out  BY ONLY <1>9, <3>1
    <3>3. u[1] = NULL  BY <1>7, <1>11, <3>1 DEF Stands
    <3> QED BY <3>2, <3>3 DEF Sound, NULL, NodesOf
  <2>2. At(now, n + 1) = NULL  BY <1>7, <1>11, <2>1 DEF Stands
  <2>3. n + 1 \notin 1 .. Len(now)
    <3>1. NULL \notin 1 .. Len(h)  BY DEF NULL
    <3> QED BY <1>6, <2>2, <3>1 DEF At
  <2>4. n + 1 .. Len(now) = {}  BY <1>6, <1>9, <2>3
  <2>5. y \in out \/ \E a \in 1 .. Len(got) : got[a] = y  BY <1>7, <2>4 DEF DueOK
  <2> QED BY <1>5, <2>5 DEF ToSet
<1>12. \A a, b \in 1 .. Len(got), j, k \in 1 .. Len(now) :
           got[a] = now[j] /\ got[b] = now[k] /\ a <= b => j <= k
  BY <1>7 DEF GotOK
<1> QED BY <1>3, <1>5, <1>8, <1>10, <1>11, <1>12 DEF YieldsInOrder

-----------------------------------------------------------------------------
(* The calls keep them so.                                                 *)

\* The children of p became t; what is out now was so, or was one of them, and is not in t.
OutOf(h, out, out2, p, t) ==
    /\ \A i \in 1 .. Len(t) : t[i] \notin out2
    /\ \A z \in out2 \ out : h[z].parent = p

LEMMA NoneListedKept ==
    ASSUME NEW h, NEW out, Sound(h, out), NEW g, Len(g) = Len(h),
           \A j \in 1 .. Len(h) : g[j].type = h[j].type,
           NEW p, NEW t, ListChanged(h, g, p, "kids", t), NEW out2, OutOf(h, out, out2, p, t)
    PROVE  NoneListed(g, out2)
<1> SUFFICES ASSUME NEW q \in 1 .. Len(h), IsTag(h, q)
             PROVE  \A i \in 1 .. Len(ListAt(g, q, "kids")) : ListAt(g, q, "kids")[i] \notin out2
  BY DEF NoneListed, IsTag
<1>1. CASE q = p  BY <1>1 DEF ListChanged, OutOf
<1>2. CASE q # p
  <2>1. PICK s : Listed(h, out, q, s)  BY ChildrenListed
  <2>2. ListAt(h, q, "kids") = s /\ \A i \in 1 .. Len(s) : s[i] \notin out /\ h[s[i]].parent = q
    BY <2>1 DEF Listed
  <2>3. ListAt(g, q, "kids") = s  BY <1>2, <2>2 DEF ListChanged, OthersSame, Roles
  <2> QED BY <1>2, <2>2, <2>3 DEF OutOf
<1> QED BY <1>1, <1>2

LEMMA PlainKept ==
    ASSUME NEW h, Plain(h), NEW g, Len(g) = Len(h),
           \A j \in 1 .. Len(h) : g[j].type = h[j].type,
           \A j \in NodesOf(h) :
               /\ {g[j].next, g[j].prev} \subseteq NodesOf(h) \cup {NULL, h[j].next, h[j].prev}
               /\ ~IsTag(h, j) => g[j].first = h[j].first /\ g[j].last = h[j].last
    PROVE  Plain(g)
<1>1. NodesOf(g) = NodesOf(h)  BY DEF NodesOf
<1>2. \A j \in NodesOf(h) : j \in 1 .. Len(h)  BY DEF NodesOf
<1>3. ASSUME NEW j \in NodesOf(h)
      PROVE  /\ {g[j].next, g[j].prev} \subseteq NodesOf(h) \cup {NULL}
             /\ ~IsTag(g, j) => g[j].first = NULL /\ g[j].last = NULL
  <2>1. {h[j].next, h[j].prev} \subseteq NodesOf(h) \cup {NULL}  BY DEF Plain
  <2>2. ~IsTag(h, j) => h[j].first = NULL /\ h[j].last = NULL  BY DEF Plain
  <2>3. IsTag(g, j) <=> IsTag(h, j)  BY <1>2 DEF IsTag
  <2> QED BY <2>1, <2>2, <2>3
<1> QED BY <1>1, <1>3 DEF Plain

\* y, which was by itself, is one of the children of a node.
NowLinked(h, g, out, y) ==
    /\ Len(g) = Len(h) /\ SameContent(h, g)
    /\ \A j \in out : g[j].next = h[j].next
    /\ \E p : \E k \in 1 .. Len(ListAt(h, p, "kids")) + 1 :
           ListChanged(h, g, p, "kids", With(ListAt(h, p, "kids"), k, y))

\* The children of a node that is an element are not deleted, nor the ends of its list.
LEMMA ListedNotOut ==
    ASSUME NEW h, NEW out, Sound(h, out), NEW p, NEW s, Listed(h, out, p, s), NEW i
    PROVE  At(s, i) \notin out
<1>1. \A j \in 1 .. Len(s) : s[j] \notin out  BY DEF Listed
<1>2. NULL \notin out  BY DEF Sound, NodesOf, NULL
<1> QED BY <1>1, <1>2 DEF At

LEMMA EndsAreNodes ==
    ASSUME NEW h, NEW out, Sound(h, out), NEW x \in 1 .. Len(h), IsTag(h, x)
    PROVE  /\ {h[x].first, h[x].last} \subseteq NodesOf(h) \cup {NULL}
           /\ h[x].lastAttrib \notin NodesOf(h)
<1>1. PICK s : Listed(h, out, x, s)  BY ChildrenListed
<1>2. {h[x].first, h[x].last} \subseteq NodesOf(h) \cup {NULL}  BY <1>1 DEF Listed, At
<1>3. PICK r : ListOf(h, x, "attribs", r)  BY DEF Sound, Whole, HasList, Roles
<1>4. h[x].lastAttrib = At(r, Len(r)) /\ \A i \in 1 .. Len(r) : Role(h, r[i]) = "attribs"
  BY <1>3 DEF ListOf, IsList, LastOf
<1>5. h[x].lastAttrib \notin NodesOf(h)
  <2>1. NULL \notin NodesOf(h)  BY DEF NULL, NodesOf
  <2>2. \A i \in 1 .. Len(r) : r[i] \notin NodesOf(h)  BY <1>4 DEF Role, NodesOf
  <2> QED BY <1>4, <2>1, <2>2 DEF At
<1> QED BY <1>2, <1>5

\* A node that is by itself becomes the last child.
LEMMA SoundLast ==
    ASSUME NEW h, NEW out, Sound(h, out), NEW x \in 1 .. Len(h), IsTag(h, x),
           NEW y \in NodesOf(h) \ out, h[y].parent = NULL
    PROVE  /\ Keeps(h, LinkLast(h, x, y), out) /\ NowLinked(h, LinkLast(h, x, y), out, y)
           /\ LinkLast(h, x, y)[x].last = y
<1>1. PICK g : g = LinkLast(h, x, y)  OBVIOUS
<1>2. Whole(h, out) /\ out \subseteq 1 .. Len(h) /\ Plain(h)  BY DEF Sound, NodesOf
<1>3. y \in 1 .. Len(h) /\ Role(h, y) = "kids"  BY DEF NodesOf, Role
<1>4. PICK s : s = ListAt(h, x, "kids") /\ Listed(h, out, x, s)  BY WalkIsListed
<1>5. Whole(g, out) /\ SameContent(h, g) /\ Len(g) = Len(h)
      /\ ListChanged(h, g, x, "kids", With(s, Len(s) + 1, y))
  BY <1>1, <1>2, <1>3, <1>4, WholeLast
<1>6. \A j \in 1 .. Len(h) : g[j].type = h[j].type  BY <1>5 DEF SameContent
<1>7. \A i \in 1 .. Len(With(s, Len(s) + 1, y)) : With(s, Len(s) + 1, y)[i] \notin out
  <2>1. s \in Seq(1 .. Len(h)) /\ \A i \in 1 .. Len(s) : s[i] \notin out  BY <1>4 DEF Listed
  <2>2. HasToo(s, y, With(s, Len(s) + 1, y))  BY <2>1, WithMembers
  <2> QED BY <2>1, <2>2 DEF HasToo
<1>8. NoneListed(g, out)
  <2>1. PICK t : t = With(s, Len(s) + 1, y)  OBVIOUS
  <2>2. OutOf(h, out, out, x, t)  BY <1>7, <2>1 DEF OutOf
  <2>3. ListChanged(h, g, x, "kids", t) /\ Len(g) = Len(h)  BY <1>5, <2>1
  <2> QED BY ONLY Sound(h, out), <1>6, <2>2, <2>3, NoneListedKept
<1>9. Plain(g) /\ g[x].last = y /\ \A j \in out : g[j].next = h[j].next
  <2>1. /\ \A j \in 1 .. Len(h) :
               /\ g[j].next = IF j = h[x].last THEN y ELSE h[j].next
               /\ g[j].prev = IF j = y /\ h[x].last # NULL THEN h[x].last ELSE h[j].prev
               /\ g[j].first = IF j = x /\ h[x].first = NULL THEN y ELSE h[j].first
               /\ g[j].last = IF j = x THEN y ELSE h[j].last
    <3>1. h \in Seq(NodeRec(0 .. Len(h)))  BY <1>2 DEF Whole
    <3>2. h[x].last \in 0 .. Len(h) /\ x \in 0 .. Len(h) /\ y \in 0 .. Len(h)
      <4>1. h[x].last \in 0 .. Len(h)  BY <1>2, LinksTyped
      <4> QED BY <1>3, <4>1
    <3>3. PICK P : P = 0 .. Len(h)  OBVIOUS
    <3>4. /\ h \in Seq(NodeRec(P)) /\ y \in 1 .. Len(h) /\ x \in P /\ y \in P
          /\ h[x].last \in 0 .. Len(h) /\ h[x].last \in P
      BY <1>3, <3>1, <3>2, <3>3
    <3> QED BY ONLY <1>1, <3>4, LinkLastEffect
  <2>2. h[x].last \in NodesOf(h) \cup {NULL}  BY EndsAreNodes
  <2>3. ASSUME NEW j \in NodesOf(h)
        PROVE  /\ {g[j].next, g[j].prev} \subseteq NodesOf(h) \cup {NULL, h[j].next, h[j].prev}
               /\ ~IsTag(h, j) => g[j].first = h[j].first /\ g[j].last = h[j].last
    <3>1. j \in 1 .. Len(h)  BY DEF NodesOf
    <3> QED BY <2>1, <2>2, <3>1
  <2>4. Plain(g)  BY <1>2, <1>5, <1>6, <2>3, PlainKept
  <2>5. h[x].last \notin out
    <3>1. h[x].last = At(s, Len(s))  BY <1>4 DEF Listed
    <3>2. At(s, Len(s)) \notin out  BY <1>4, ListedNotOut
    <3> QED BY <3>1, <3>2
  <2> QED BY <1>2, <2>1, <2>4, <2>5
<1>10. NodesOf(g) = NodesOf(h)  BY <1>5, <1>6 DEF NodesOf
<1>11. NowLinked(h, g, out, y)
  <2>1. s \in Seq(1 .. Len(h))  BY <1>4 DEF Listed
  <2>2. Len(s) + 1 \in 1 .. Len(s) + 1  BY ONLY <2>1
  <2> QED BY <1>4, <1>5, <1>9, <2>2 DEF NowLinked
<1> QED BY <1>1, <1>2, <1>5, <1>8, <1>9, <1>10, <1>11 DEF Sound, Keeps

\* A node that is by itself becomes the next, or the one before.
LEMMA SoundBeside ==
    ASSUME NEW h, NEW out, Sound(h, out), NEW x \in NodesOf(h) \ out, h[x].parent # NULL,
           NEW y \in NodesOf(h) \ out, h[y].parent = NULL,
           NEW g, g = LinkBehind(h, x, y) \/ g = LinkBefore(h, x, y)
    PROVE  Keeps(h, g, out) /\ NowLinked(h, g, out, y)
<1>1. Whole(h, out) /\ out \subseteq 1 .. Len(h) /\ Plain(h) /\ h \in Seq(NodeRec(0 .. Len(h)))
  BY DEF Sound, Whole, NodesOf
<1>2. /\ x \in (1 .. Len(h)) \ out /\ Role(h, x) = "kids"
      /\ y \in 1 .. Len(h) /\ Role(h, y) = "kids" /\ x # y
  BY DEF NodesOf, Role
<1>3. PICK p \in 1 .. Len(h) : p = h[x].parent /\ IsTag(h, p)
  <2>1. h[x].parent \in 0 .. Len(h)  BY <1>1, <1>2, LinksTyped
  <2> QED BY <1>1, <1>2, <2>1 DEF Whole, NULL
<1>4. PICK s : s = ListAt(h, p, "kids") /\ Listed(h, out, p, s)  BY <1>3, WalkIsListed
<1>5. s \in Seq(1 .. Len(h)) /\ \A i \in 1 .. Len(s) : s[i] \notin out  BY <1>4 DEF Listed
<1>6. /\ Whole(g, out) /\ SameContent(h, g) /\ Len(g) = Len(h)
      /\ \E k \in 1 .. Len(s) + 1 : ListChanged(h, g, p, "kids", With(s, k, y))
  <2>1. CASE g = LinkBehind(h, x, y)
    <3>1. /\ Whole(g, out) /\ SameContent(h, g) /\ Len(g) = Len(h)
          /\ \E k \in 1 .. Len(s) : ListChanged(h, g, p, "kids", With(s, k + 1, y))
      BY <1>1, <1>2, <1>3, <1>4, <2>1, WholeBehind
    <3>2. \A k \in 1 .. Len(s) : k + 1 \in 1 .. Len(s) + 1  BY <1>5
    <3> QED BY <3>1, <3>2
  <2>2. CASE g = LinkBefore(h, x, y)
    <3>1. /\ Whole(g, out) /\ SameContent(h, g) /\ Len(g) = Len(h)
          /\ \E k \in 1 .. Len(s) : ListChanged(h, g, p, "kids", With(s, k, y))
      BY <1>1, <1>2, <1>3, <1>4, <2>2, WholeBefore
    <3>2. \A k \in 1 .. Len(s) : k \in 1 .. Len(s) + 1  BY <1>5
    <3> QED BY <3>1, <3>2
  <2> QED BY <2>1, <2>2
<1>7. PICK k \in 1 .. Len(s) + 1 : ListChanged(h, g, p, "kids", With(s, k, y))  BY <1>6
<1>8. \A j \in 1 .. Len(h) : g[j].type = h[j].type  BY <1>6 DEF SameContent
<1>9. \A i \in 1 .. Len(With(s, k, y)) : With(s, k, y)[i] \notin out
  <2>1. HasToo(s, y, With(s, k, y))  BY <1>5, WithMembers
  <2> QED BY <1>5, <2>1 DEF HasToo
<1>10. NoneListed(g, out)
  <2>1. PICK t : t = With(s, k, y)  OBVIOUS
  <2>2. OutOf(h, out, out, p, t)  BY <1>9, <2>1 DEF OutOf
  <2>3. ListChanged(h, g, p, "kids", t) /\ Len(g) = Len(h)  BY <1>6, <1>7, <2>1
  <2> QED BY ONLY Sound(h, out), <1>8, <2>2, <2>3, NoneListedKept
<1>11. ASSUME NEW j \in NodesOf(h)
       PROVE  /\ {g[j].next, g[j].prev} \subseteq NodesOf(h) \cup {NULL, h[j].next, h[j].prev}
              /\ ~IsTag(h, j) => g[j].first = h[j].first /\ g[j].last = h[j].last
              /\ j \in out => g[j].next = h[j].next
  <2>1. j \in 1 .. Len(h)  BY DEF NodesOf
  <2>2. {h[x].next, h[x].prev} \subseteq NodesOf(h) \cup {NULL}  BY <1>1 DEF Plain
  <2>3. {h[x].next, h[x].prev, p, x, y} \subseteq 0 .. Len(h)  BY <1>1, <1>2, <1>3, LinksTyped
  <2>4. CASE g = LinkBehind(h, x, y)
    <3>1. /\ g[j].next = IF j = x THEN y ELSE IF j = y THEN h[x].next ELSE h[j].next
          /\ g[j].prev = IF j = y THEN x ELSE IF j = h[x].next THEN y ELSE h[j].prev
          /\ g[j].last = IF j = p /\ h[x].next = NULL THEN y ELSE h[j].last
          /\ g[j].first = h[j].first
      <4>1. PICK P : P = 0 .. Len(h)  OBVIOUS
      <4>2. /\ x \in 1 .. Len(h) /\ y \in 1 .. Len(h) /\ x \in P /\ y \in P /\ x # y
            /\ h[x].next \in 0 .. Len(h) /\ h[x].next \in P
            /\ h[x].parent \in 1 .. Len(h) /\ h[x].parent \in P
        BY <1>2, <1>3, <2>3, <4>1
      <4>3. h \in Seq(NodeRec(P)) /\ h[x].parent = p  BY <1>1, <1>3, <4>1
      <4>4. "first" \in {"type", "name", "text", "broken", "first", "attribs", "lastAttrib"}  OBVIOUS
      <4>5. g[j]["first"] = h[j]["first"]  BY ONLY <2>1, <2>4, <4>2, <4>3, <4>4, LinkBehindEffect
      <4> QED BY ONLY <2>1, <2>4, <4>2, <4>3, <4>5, LinkBehindEffect
    <3> QED BY <1>3, <2>2, <3>1
  <2>5. CASE g = LinkBefore(h, x, y)
    <3>1. /\ g[j].prev = IF j = x THEN y ELSE IF j = y THEN h[x].prev ELSE h[j].prev
          /\ g[j].next = IF j = y THEN x ELSE IF j = h[x].prev THEN y ELSE h[j].next
          /\ g[j].first = IF j = p /\ h[x].prev = NULL THEN y ELSE h[j].first
          /\ g[j].last = h[j].last
      <4>1. PICK P : P = 0 .. Len(h)  OBVIOUS
      <4>2. /\ x \in 1 .. Len(h) /\ y \in 1 .. Len(h) /\ x \in P /\ y \in P /\ x # y
            /\ h[x].prev \in 0 .. Len(h) /\ h[x].prev \in P
            /\ h[x].parent \in 1 .. Len(h) /\ h[x].parent \in P
        BY <1>2, <1>3, <2>3, <4>1
      <4>3. h \in Seq(NodeRec(P)) /\ h[x].parent = p  BY <1>1, <1>3, <4>1
      <4>4. "last" \in {"type", "name", "text", "broken", "last", "attribs", "lastAttrib"}  OBVIOUS
      <4>5. g[j]["last"] = h[j]["last"]  BY ONLY <2>1, <2>5, <4>2, <4>3, <4>4, LinkBeforeEffect
      <4> QED BY ONLY <2>1, <2>5, <4>2, <4>3, <4>5, LinkBeforeEffect
    <3>2. h[x].prev \notin out
      <4>1. PICK q \in 1 .. Len(s) : s[q] = x  BY <1>2, <1>3, <1>4 DEF Listed, Complete
      <4>2. h[x].prev = At(s, q - 1)  BY <1>4, <4>1 DEF Listed
      <4>3. At(s, q - 1) \notin out  BY <1>4, ListedNotOut
      <4> QED BY <4>2, <4>3
    <3> QED BY <1>3, <2>2, <3>1, <3>2
  <2> QED BY <2>4, <2>5
<1>12. Plain(g)  BY <1>1, <1>6, <1>8, <1>11, PlainKept
<1>13. NodesOf(g) = NodesOf(h)  BY <1>6, <1>8 DEF NodesOf
<1>14. NowLinked(h, g, out, y)
  <2>1. \A j \in out : g[j].next = h[j].next  BY <1>11 DEF Sound
  <2> QED BY <1>4, <1>6, <1>7, <2>1 DEF NowLinked
<1> QED BY <1>1, <1>6, <1>10, <1>12, <1>13, <1>14 DEF Sound, Keeps

\* A node is deleted (iks_hide).
LEMMA SoundHidden ==
    ASSUME NEW h, NEW out, Sound(h, out), NEW x \in NodesOf(h) \ out
    PROVE  /\ Sound(Hidden(h, x), out \cup {x}) /\ NodesOf(Hidden(h, x)) = NodesOf(h)
           /\ Steps(h, out, Hidden(h, x), out \cup {x})
<1>1. Whole(h, out) /\ out \subseteq 1 .. Len(h) /\ Plain(h) /\ h \in Seq(NodeRec(0 .. Len(h)))
      /\ Len(h) \in Nat
  BY DEF Sound, Whole, NodesOf
<1>2. x \in (1 .. Len(h)) \ out /\ Role(h, x) = "kids" /\ h[x].type # "ATTRIBUTE"  BY DEF NodesOf, Role
<1>3. PICK g, out2 : g = Hidden(h, x) /\ out2 = out \cup {x}  OBVIOUS
<1>4. Whole(g, out2)  BY <1>1, <1>2, <1>3, WholeWithout
<1>5. out2 \subseteq NodesOf(h)  BY <1>3 DEF Sound
<1>6. CASE h[x].parent = NULL
  <2>1. h[x].next = NULL /\ h[x].prev = NULL  BY <1>1, <1>2, <1>6 DEF Whole
  <2>2. g = h  BY <1>3, <1>6, <2>1 DEF Hidden, Bypassed
  <2>3. NoneListed(h, out2)
    <3> SUFFICES ASSUME NEW q \in 1 .. Len(h), IsTag(h, q), NEW i \in 1 .. Len(ListAt(h, q, "kids"))
                 PROVE  ListAt(h, q, "kids")[i] \notin out2
      BY DEF NoneListed
    <3>1. PICK s : Listed(h, out, q, s)  BY ChildrenListed
    <3>2. s = ListAt(h, q, "kids") /\ s[i] \notin out /\ h[s[i]].parent = q  BY <3>1 DEF Listed
    <3> QED BY <1>3, <1>6, <3>2 DEF NULL
  <2>4. Sound(g, out2)  BY <1>1, <1>3, <1>4, <1>5, <2>2, <2>3 DEF Sound
  <2>5. Steps(h, out, g, out2)  BY <1>1, <1>3, <2>2 DEF Steps
  <2> QED BY <1>3, <2>2, <2>4, <2>5
<1>7. CASE h[x].parent # NULL
  <2>1. PICK p \in 1 .. Len(h) : p = h[x].parent /\ IsTag(h, p)
    <3>1. h[x].parent \in 0 .. Len(h)  BY <1>1, <1>2, LinksTyped
    <3> QED BY <1>1, <1>2, <1>7, <3>1 DEF Whole, NULL
  <2>2. PICK s : s = ListAt(h, p, "kids") /\ Listed(h, out, p, s)  BY <2>1, WalkIsListed
  <2>3. /\ s \in Seq(1 .. Len(h)) /\ \A i \in 1 .. Len(s) : s[i] \notin out
        /\ \A i, j \in 1 .. Len(s) : s[i] = s[j] => i = j
    <3>1. s \in Seq(1 .. Len(h)) /\ \A i \in 1 .. Len(s) : s[i] \notin out  BY <2>2 DEF Listed
    <3>2. IsInjective(s)  BY <2>2 DEF Listed, ListOf, IsList
    <3>3. DOMAIN s = 1 .. Len(s)  BY <3>1
    <3> QED BY ONLY <3>1, <3>2, <3>3 DEF IsInjective
  <2>4. /\ SameContent(h, g) /\ Len(g) = Len(h)
        /\ \E k \in 1 .. Len(s) : s[k] = x /\ ListChanged(h, g, p, "kids", Without(s, k))
    BY <1>1, <1>2, <1>3, <1>7, <2>1, <2>2, WholeHidden
  <2>5. PICK k \in 1 .. Len(s) : s[k] = x /\ ListChanged(h, g, p, "kids", Without(s, k))  BY <2>4
  <2>6. \A j \in 1 .. Len(h) : g[j].type = h[j].type  BY <2>4 DEF SameContent
  <2>7. \A i \in 1 .. Len(Without(s, k)) : Without(s, k)[i] \notin out2
    <3>1. \A i \in 1 .. Len(Without(s, k)) : \E j \in 1 .. Len(s) : j # k /\ Without(s, k)[i] = s[j]
      BY <2>3, WithoutMembers
    <3> QED BY <1>3, <2>3, <2>5, <3>1
  <2>8. NoneListed(g, out2)
    <3>1. PICK t : t = Without(s, k)  OBVIOUS
    <3>2. \A z \in out2 \ out : h[z].parent = p  BY <1>3, <2>1
    <3>3. OutOf(h, out, out2, p, t)  BY <2>7, <3>1, <3>2 DEF OutOf
    <3>4. ListChanged(h, g, p, "kids", t) /\ Len(g) = Len(h)  BY <2>4, <2>5, <3>1
    <3> QED BY ONLY Sound(h, out), <2>6, <3>3, <3>4, NoneListedKept
  <2>9. ASSUME NEW j \in NodesOf(h)
        PROVE  /\ {g[j].next, g[j].prev} \subseteq NodesOf(h) \cup {NULL, h[j].next, h[j].prev}
               /\ ~IsTag(h, j) => g[j].first = h[j].first /\ g[j].last = h[j].last
               /\ j = x \/ j # h[x].prev => g[j].next = h[j].next
    <3>1. j \in 1 .. Len(h)  BY DEF NodesOf
    <3>2. {h[x].next, h[x].prev} \subseteq NodesOf(h) \cup {NULL}  BY <1>1 DEF Plain
    <3>3. {h[x].next, h[x].prev} \subseteq 0 .. Len(h) /\ p # NULL  BY <1>1, <1>2, <2>1, LinksTyped DEF NULL
    <3>4. /\ g[j].next = IF j = h[x].prev THEN h[x].next ELSE h[j].next
          /\ g[j].prev = IF j = h[x].next THEN h[x].prev ELSE h[j].prev
          /\ g[j].first = IF j = p /\ h[p].first = x THEN h[x].next ELSE h[j].first
          /\ g[j].last = IF j = p /\ h[p].last = x THEN h[x].prev ELSE h[j].last
      <4>1. PICK P : P = 0 .. Len(h)  OBVIOUS
      <4>2. /\ h \in Seq(NodeRec(P)) /\ x \in 1 .. Len(h) /\ {h[x].next, h[x].prev} \subseteq P
            /\ {h[x].next, h[x].prev} \subseteq 0 .. Len(h) /\ p = h[x].parent /\ p # NULL
            /\ g = Hidden(h, x)
        BY <1>1, <1>2, <1>3, <2>1, <3>3, <4>1
      <4> QED BY ONLY <3>1, <4>2, HiddenEffect
    <3> QED BY <2>1, <3>2, <3>4
  <2>10. Plain(g)  BY <1>1, <2>4, <2>6, <2>9, PlainKept
  <2>11. NodesOf(g) = NodesOf(h)  BY <2>4, <2>6 DEF NodesOf
  <2>12. Sound(g, out2)  BY <1>3, <1>4, <1>5, <2>4, <2>8, <2>10, <2>11 DEF Sound
  <2>13. \A j \in out2 : g[j].next = h[j].next
    <3>1. h[x].prev \notin out
      <4>1. h[x].prev = At(s, k - 1)  BY <2>2, <2>5 DEF Listed
      <4>2. At(s, k - 1) \notin out  BY <2>2, ListedNotOut
      <4> QED BY <4>1, <4>2
    <3>2. \A j \in out2 : j \in NodesOf(h) /\ (j = x \/ j # h[x].prev)  BY <1>3, <1>5, <3>1
    <3> QED BY <2>9, <3>2
  <2>14. ASSUME NEW q \in 1 .. Len(h), IsTag(h, q)
         PROVE  \/ ListAt(g, q, "kids") = ListAt(h, q, "kids")
                \/ q = p /\ ListAt(g, q, "kids") = Without(s, k)
    BY <2>5, <2>14 DEF ListChanged, OthersSame, Roles
  <2>15. Steps(h, out, g, out2)
    <3>1. x \in out2 /\ out \subseteq out2  BY <1>3
    <3>2. \A j \in NodesOf(h) : g[j].type = h[j].type /\ g[j].name = h[j].name
      BY <2>4 DEF NodesOf, SameContent
    <3>3. Len(g) \in Nat /\ Len(h) <= Len(g)  BY <1>1, <2>4
    <3> QED BY <1>1, <2>2, <2>5, <2>13, <2>14, <3>1, <3>2, <3>3 DEF Steps
  <2> QED BY <1>3, <2>11, <2>12, <2>15
<1> QED BY <1>6, <1>7

\* The nodes are as they were; new ones are by themselves.
NodesKept(h, g) ==
    /\ Len(g) \in Nat /\ Len(h) <= Len(g)
    /\ \A j \in 1 .. Len(h) : g[j].type = h[j].type
    /\ \A j \in NodesOf(h), e \in {"name", "next", "prev", "parent", "first", "last"} :
           g[j][e] = h[j][e]
    /\ \A j \in Len(h) + 1 .. Len(g) : j \in NodesOf(g) =>
           g[j].next = NULL /\ g[j].prev = NULL /\ g[j].first = NULL /\ g[j].last = NULL

\* g is as sound as h, and its nodes are as they were.
Kept(h, g, out) == Keeps(h, g, out) /\ NodesKept(h, g)

LEMMA KeptOn ==
    ASSUME NEW h, NEW g, NEW k, NEW out, Kept(h, g, out), Kept(g, k, out), Len(h) \in Nat
    PROVE  Kept(h, k, out)
<1>1. PICK L \in Nat, M \in Nat, N \in Nat :
          L = Len(h) /\ M = Len(g) /\ N = Len(k) /\ L <= M /\ M <= N
  BY DEF Kept, NodesKept
<1>2. NodesOf(h) \subseteq NodesOf(g) /\ NodesOf(g) \subseteq NodesOf(k)  BY DEF Kept, Keeps
<1>3. \A j \in 1 .. L : j \in 1 .. M /\ g[j].type = h[j].type /\ k[j].type = g[j].type
  BY <1>1 DEF Kept, NodesKept
<1>4. ASSUME NEW j \in NodesOf(h), NEW e \in {"name", "next", "prev", "parent", "first", "last"}
      PROVE  k[j][e] = h[j][e]
  BY <1>2 DEF Kept, NodesKept
<1>5. ASSUME NEW j \in L + 1 .. N, j \in NodesOf(k)
      PROVE  k[j].next = NULL /\ k[j].prev = NULL /\ k[j].first = NULL /\ k[j].last = NULL
  <2>1. CASE j \in 1 .. M
    <3>1. j \in NodesOf(g) /\ j \in Len(h) + 1 .. Len(g)
      BY <1>1, <1>5, <2>1 DEF NodesOf, Kept, NodesKept
    <3>2. \A e \in {"next", "prev", "first", "last"} : k[j][e] = g[j][e]
      BY <3>1 DEF Kept, NodesKept
    <3>3. /\ k[j]["next"] = g[j]["next"] /\ k[j]["prev"] = g[j]["prev"]
          /\ k[j]["first"] = g[j]["first"] /\ k[j]["last"] = g[j]["last"]
      BY <3>2
    <3> QED BY <3>1, <3>3 DEF Kept, NodesKept
  <2>2. CASE j \notin 1 .. M
    <3>1. j \in Len(g) + 1 .. Len(k)  BY <1>1, <1>5, <2>2
    <3> QED BY <1>5, <3>1 DEF Kept, NodesKept
  <2> QED BY <2>1, <2>2
<1>6. NodesKept(h, k)
  <2>1. \A j \in 1 .. L : k[j].type = h[j].type  BY <1>3
  <2>2. N \in Nat /\ L <= N  BY <1>1
  <2> QED BY <1>1, <1>4, <1>5, <2>1, <2>2 DEF NodesKept
<1> QED BY <1>2, <1>6 DEF Kept, Keeps

\* Then no list of children changes.
LEMMA ListsKept ==
    ASSUME NEW h, NEW out, Sound(h, out), NEW g, NodesKept(h, g), NEW p \in 1 .. Len(h), IsTag(h, p)
    PROVE  ListAt(g, p, "kids") = ListAt(h, p, "kids")
<1>1. PICK s : Listed(h, out, p, s)  BY ChildrenListed
<1>2. ListOf(h, p, "kids", s) /\ ListAt(h, p, "kids") = s  BY <1>1 DEF Listed
<1>3. p \in NodesOf(h)  BY DEF IsTag, NodesOf
<1>4. FirstOf(g, p, "kids") = FirstOf(h, p, "kids") /\ LastOf(g, p, "kids") = LastOf(h, p, "kids")
  BY <1>3 DEF NodesKept, FirstOf, LastOf
<1>5. \A j \in 1 .. Len(h) : h[j].parent = p /\ Role(h, j) = "kids" =>
          /\ g[j].next = h[j].next /\ g[j].prev = h[j].prev
          /\ g[j].parent = h[j].parent /\ g[j].type = h[j].type
  <2>1. \A j \in 1 .. Len(h) : Role(h, j) = "kids" => j \in NodesOf(h)  BY DEF Role, NodesOf
  <2> QED BY <2>1 DEF NodesKept
<1>6. Len(h) \in Nat /\ Len(g) \in Nat /\ Len(h) <= Len(g)  BY DEF Sound, Whole, NodesKept
<1>7. ListOf(g, p, "kids", s)  BY ONLY <1>2, <1>4, <1>5, <1>6, ListOfKept
<1> QED BY <1>2, <1>6, <1>7, WalkOfList

LEMMA SoundKept ==
    ASSUME NEW h, NEW out, Sound(h, out), NEW g, Whole(g, out), NodesKept(h, g)
    PROVE  Sound(g, out) /\ NodesOf(h) \subseteq NodesOf(g)
<1>1. PICK L \in Nat, N \in Nat : L = Len(h) /\ N = Len(g) /\ L <= N
  BY DEF Sound, Whole, NodesKept
<1>2. Whole(h, out) /\ out \subseteq 1 .. L /\ Plain(h)  BY <1>1 DEF Sound, NodesOf
<1>3. \A j \in 1 .. L : j \in 1 .. N /\ (IsTag(g, j) <=> IsTag(h, j))
  BY <1>1 DEF NodesKept, IsTag
<1>4. \A j \in 1 .. N : (j \in NodesOf(g) /\ j \in 1 .. L) <=> j \in NodesOf(h)
  BY <1>1 DEF NodesKept, NodesOf
<1>5. NodesOf(h) \subseteq NodesOf(g)
  <2>1. \A j \in NodesOf(h) : j \in 1 .. N  BY <1>1, <1>3 DEF NodesOf
  <2> QED BY <1>4, <2>1
<1>6. \A j \in 1 .. N : j \notin 1 .. L => j \in Len(h) + 1 .. Len(g)  BY <1>1
<1>7. ASSUME NEW p \in 1 .. N, IsTag(g, p), NEW i \in 1 .. Len(ListAt(g, p, "kids"))
      PROVE  ListAt(g, p, "kids")[i] \notin out
  <2>1. CASE p \in 1 .. L
    <3>1. IsTag(h, p) /\ p \in NodesOf(h)  BY <1>1, <1>3, <1>7, <2>1 DEF IsTag, NodesOf
    <3>2. PICK s : Listed(h, out, p, s)  BY <1>1, <2>1, <3>1, ChildrenListed
    <3>3. ListAt(h, p, "kids") = s /\ \A k \in 1 .. Len(s) : s[k] \notin out  BY <3>2 DEF Listed
    <3>4. ListAt(g, p, "kids") = s  BY <1>1, <2>1, <3>1, <3>3, ListsKept
    <3> QED BY <1>7, <3>3, <3>4
  <2>2. CASE p \notin 1 .. L
    <3>1. p \in NodesOf(g) /\ p \in Len(h) + 1 .. Len(g)  BY <1>1, <1>6, <1>7, <2>2 DEF IsTag, NodesOf
    <3>2. g[p].first = NULL  BY <3>1 DEF NodesKept
    <3>3. ListAt(g, p, "kids") = <<>>  BY <3>2 DEF ListAt, FirstOf, Chain
    <3> QED BY <1>7, <3>3
  <2> QED BY <2>1, <2>2
<1>8. ASSUME NEW x \in NodesOf(g)
      PROVE  /\ {g[x].next, g[x].prev} \subseteq NodesOf(g) \cup {NULL}
             /\ ~IsTag(g, x) => g[x].first = NULL /\ g[x].last = NULL
  <2>1. CASE x \in 1 .. L
    <3>1. x \in NodesOf(h) /\ (IsTag(g, x) <=> IsTag(h, x))  BY <1>1, <1>3, <1>4, <1>8, <2>1
    <3>2. /\ {h[x].next, h[x].prev} \subseteq NodesOf(h) \cup {NULL}
          /\ ~IsTag(h, x) => h[x].first = NULL /\ h[x].last = NULL
      BY <1>2, <3>1 DEF Plain
    <3>3. g[x].next = h[x].next /\ g[x].prev = h[x].prev /\ g[x].first = h[x].first /\ g[x].last = h[x].last
      BY <3>1 DEF NodesKept
    <3> QED BY <1>5, <3>1, <3>2, <3>3
  <2>2. CASE x \notin 1 .. L
    <3>1. x \in Len(h) + 1 .. Len(g)  BY <1>1, <1>6, <1>8, <2>2 DEF NodesOf
    <3> QED BY <1>8, <3>1 DEF NodesKept
  <2> QED BY <2>1, <2>2
<1>9. NoneListed(g, out)  BY <1>1, <1>7 DEF NoneListed
<1>10. Plain(g)  BY <1>8 DEF Plain
<1>11. out \subseteq 1 .. Len(g)  BY <1>1, <1>2, <1>3
<1> QED BY <1>5, <1>9, <1>10, <1>11 DEF Sound

\* A node is made.
LEMMA SoundAppended ==
    ASSUME NEW h, NEW out, Sound(h, out), NEW n \in NodeRec({NULL})
    PROVE  /\ Kept(h, Append(h, n), out)
           /\ Len(Append(h, n)) = Len(h) + 1 /\ Append(h, n)[Len(h) + 1] = n
           /\ \A j \in 1 .. Len(h) : Append(h, n)[j] = h[j]
<1>1. PICK L \in Nat : L = Len(h) /\ h \in Seq(NodeRec(0 .. L))  BY DEF Sound, Whole
<1>2. PICK g : g = Append(h, n)  OBVIOUS
<1>3. Whole(g, out) /\ Len(g) = L + 1 /\ g[L + 1] = n  BY <1>1, <1>2, WholeAppended DEF Sound
<1>4. \A j \in 1 .. L : g[j] = h[j]  BY <1>1, <1>2
<1>5. n.next = NULL /\ n.prev = NULL /\ n.first = NULL /\ n.last = NULL  BY DEF NodeRec
<1>6. NodesKept(h, g)
  <2>1. \A j \in NodesOf(h) : j \in 1 .. L  BY <1>1 DEF NodesOf
  <2>2. \A j \in Len(h) + 1 .. Len(g) : j = L + 1  BY <1>1, <1>3
  <2>3. Len(g) \in Nat /\ Len(h) <= Len(g)  BY <1>1, <1>3
  <2> QED BY <1>1, <1>3, <1>4, <1>5, <2>1, <2>2, <2>3 DEF NodesKept
<1>7. Sound(g, out) /\ NodesOf(h) \subseteq NodesOf(g)  BY <1>3, <1>6, SoundKept
<1> QED BY <1>1, <1>2, <1>3, <1>4, <1>6, <1>7 DEF Kept, Keeps

\* Another text.
LEMMA SoundText ==
    ASSUME NEW h, NEW out, Sound(h, out), NEW x, NEW v \in Seq(STRING), NEW b \in BOOLEAN
    PROVE  /\ Kept(h, [h EXCEPT ![x].text = v], out)
           /\ Kept(h, [h EXCEPT ![x].broken = b], out)
<1>1. /\ h \in Seq(NodeRec(0 .. Len(h))) /\ Len(h) \in Nat /\ DOMAIN h = 1 .. Len(h) /\ Whole(h, out)
      /\ \A j \in 1 .. Len(h) : h[j] \in NodeRec(0 .. Len(h))
  BY DEF Sound, Whole
<1>2. ASSUME NEW f \in {"text", "broken"}, NEW w, NEW g, g = [h EXCEPT ![x][f] = w], Whole(g, out)
      PROVE  Kept(h, g, out)
  <2>1. Len(g) = Len(h)  BY <1>1, <1>2
  <2>2. ASSUME NEW j \in 1 .. Len(h),
               NEW e \in {"type", "name", "next", "prev", "parent", "first", "last"}
        PROVE  g[j][e] = h[j][e]
    <3>1. g[j] = IF j = x THEN [h[j] EXCEPT ![f] = w] ELSE h[j]  BY <1>1, <1>2
    <3>2. h[j] \in NodeRec(0 .. Len(h)) /\ e # f  BY <1>1, <1>2
    <3> QED BY <3>1, <3>2 DEF NodeRec
  <2>3. \A j \in NodesOf(h) : j \in 1 .. Len(h)  BY DEF NodesOf
  <2>4. \A j \in 1 .. Len(h) : g[j].type = h[j].type
    <3> TAKE j \in 1 .. Len(h)
    <3>1. g[j]["type"] = h[j]["type"]  BY <2>2
    <3> QED BY <3>1
  <2>5. Len(h) + 1 .. Len(g) = {}  BY <1>1, <2>1
  <2>6. NodesKept(h, g)  BY <1>1, <2>1, <2>2, <2>3, <2>4, <2>5 DEF NodesKept
  <2>7. Whole(g, out)  BY <1>2
  <2> QED BY ONLY Sound(h, out), <2>6, <2>7, SoundKept DEF Kept, Keeps
<1>3. Whole([h EXCEPT ![x].text = v], out) /\ Whole([h EXCEPT ![x].broken = b], out)
  BY <1>1, WholeText
<1> QED BY <1>2, <1>3

\* An attribute that is by itself becomes the last one.
LEMMA SoundLastAttrib ==
    ASSUME NEW h, NEW out, Sound(h, out), NEW x \in 1 .. Len(h), IsTag(h, x),
           NEW y \in 1 .. Len(h), h[y].parent = NULL, h[y].type = "ATTRIBUTE"
    PROVE  Kept(h, LinkLastAttrib(h, x, y), out)
<1>1. PICK g : g = LinkLastAttrib(h, x, y)  OBVIOUS
<1>2. Whole(h, out) /\ h \in Seq(NodeRec(0 .. Len(h))) /\ Len(h) \in Nat  BY DEF Sound, Whole
<1>3. Whole(g, out) /\ Len(g) = Len(h)
  <2>1. Role(h, y) = "attribs"  BY DEF Role
  <2> QED BY <1>1, <1>2, <2>1, WholeLastAttrib
<1>4. /\ \A j \in 1 .. Len(h) :
            /\ g[j].next = IF j = h[x].lastAttrib THEN y ELSE h[j].next
            /\ g[j].prev = IF j = y /\ h[x].lastAttrib # NULL THEN h[x].lastAttrib ELSE h[j].prev
            /\ g[j].parent = IF j = y THEN x ELSE h[j].parent
      /\ \A j \in 1 .. Len(h), e \in {"type", "name", "text", "broken", "first", "last"} : g[j][e] = h[j][e]
  <2>1. h[x].lastAttrib \in 0 .. Len(h)  BY <1>2, LinksTyped
  <2>2. x \in 0 .. Len(h) /\ y \in 0 .. Len(h)  BY <1>2
  <2> QED BY <1>1, <1>2, <2>1, <2>2, LinkLastAttribEffect
<1>5. h[x].lastAttrib \notin NodesOf(h) /\ y \notin NodesOf(h)  BY EndsAreNodes DEF NodesOf
<1>6. NodesKept(h, g)
  <2>1. \A j \in 1 .. Len(h) : g[j].type = h[j].type
    <3> TAKE j \in 1 .. Len(h)
    <3>1. g[j]["type"] = h[j]["type"]  BY <1>4
    <3> QED BY <3>1
  <2>2. ASSUME NEW j \in NodesOf(h)
        PROVE  /\ g[j].next = h[j].next /\ g[j].prev = h[j].prev /\ g[j].parent = h[j].parent
               /\ g[j].first = h[j].first /\ g[j].last = h[j].last /\ g[j].name = h[j].name
    <3>1. j \in 1 .. Len(h) /\ j # y /\ j # h[x].lastAttrib  BY <1>5 DEF NodesOf
    <3>2. g[j]["first"] = h[j]["first"] /\ g[j]["last"] = h[j]["last"] /\ g[j]["name"] = h[j]["name"]
      BY <1>4, <3>1
    <3> QED BY <1>4, <3>1, <3>2
  <2>3. Len(h) + 1 .. Len(g) = {}  BY <1>2, <1>3
  <2> QED BY <1>2, <1>3, <2>1, <2>2, <2>3 DEF NodesKept
<1> QED BY <1>1, <1>3, <1>6, SoundKept DEF Kept, Keeps

\* An attribute is taken out.
LEMMA SoundAttribOut ==
    ASSUME NEW h, NEW out, Sound(h, out), NEW p \in 1 .. Len(h), IsTag(h, p), NEW s,
           ListOf(h, p, "attribs", s), NEW x \in 1 .. Len(h), \E k \in 1 .. Len(s) : s[k] = x
    PROVE  Kept(h, AttribOut(h, x, p), out)
<1>1. PICK g : g = AttribOut(h, x, p)  OBVIOUS
<1>2. Whole(h, out) /\ h \in Seq(NodeRec(0 .. Len(h))) /\ Len(h) \in Nat  BY DEF Sound, Whole
<1>3. Whole(g, out) /\ Len(g) = Len(h)  BY <1>1, <1>2, WholeAttribOut
<1>4. {h[x].next, h[x].prev} \subseteq 0 .. Len(h)  BY <1>2, LinksTyped
<1>5. /\ \A j \in 1 .. Len(h) :
            /\ g[j].next = IF j = h[x].prev THEN h[x].next ELSE h[j].next
            /\ g[j].prev = IF j = h[x].next THEN h[x].prev ELSE h[j].prev
      /\ \A j \in 1 .. Len(h), e \in Fields \ {"next", "prev", "attribs", "lastAttrib"} : g[j][e] = h[j][e]
  <2>1. PICK P : P = 0 .. Len(h)  OBVIOUS
  <2>2. /\ h \in Seq(NodeRec(P)) /\ {h[x].next, h[x].prev} \subseteq P
        /\ {h[x].next, h[x].prev} \subseteq 0 .. Len(h)
    BY <1>2, <1>4, <2>1
  <2>3. \A j \in 1 .. Len(h) :
            /\ g[j].next = IF j = h[x].prev THEN h[x].next ELSE h[j].next
            /\ g[j].prev = IF j = h[x].next THEN h[x].prev ELSE h[j].prev
    BY ONLY <1>1, <2>2, AttribOutEffect
  <2>4. \A j \in 1 .. Len(h), e \in Fields \ {"next", "prev", "attribs", "lastAttrib"} : g[j][e] = h[j][e]
    BY ONLY <1>1, <2>2, AttribOutEffect
  <2> QED BY <2>3, <2>4
<1>6. h[x].next \notin NodesOf(h) /\ h[x].prev \notin NodesOf(h)
  <2>1. PICK k \in 1 .. Len(s) : s[k] = x  OBVIOUS
  <2>2. IsList(h, h[p].attribs, h[p].lastAttrib, s)  BY DEF ListOf, FirstOf, LastOf
  <2>3. s \in Seq(1 .. Len(h)) /\ Len(s) \in Nat  BY <2>2 DEF IsList
  <2>4. /\ h[x].next = IF k = Len(s) THEN NULL ELSE s[k + 1]
        /\ h[x].prev = IF k = 1 THEN NULL ELSE s[k - 1]
    BY <2>1, <2>2 DEF IsList
  <2>5. \A i \in 1 .. Len(s) : s[i] \notin NodesOf(h)  BY DEF ListOf, Role, NodesOf
  <2>6. NULL \notin NodesOf(h)  BY DEF NULL, NodesOf
  <2>7. k # Len(s) => k + 1 \in 1 .. Len(s)  BY <2>3
  <2>8. k # 1 => k - 1 \in 1 .. Len(s)  BY <2>3
  <2> QED BY <2>4, <2>5, <2>6, <2>7, <2>8
<1>7. NodesKept(h, g)
  <2>1. \A j \in 1 .. Len(h), e \in {"type", "name", "parent", "first", "last"} : g[j][e] = h[j][e]
    <3>1. {"type", "name", "parent", "first", "last"} \subseteq Fields \ {"next", "prev", "attribs", "lastAttrib"}
      BY DEF Fields, LinkFields, Content
    <3> QED BY <1>5, <3>1
  <2>2. \A j \in 1 .. Len(h) : g[j].type = h[j].type
    <3> TAKE j \in 1 .. Len(h)
    <3>1. g[j]["type"] = h[j]["type"]  BY <2>1
    <3> QED BY <3>1
  <2>3. ASSUME NEW j \in NodesOf(h)
        PROVE  /\ g[j].next = h[j].next /\ g[j].prev = h[j].prev /\ g[j].parent = h[j].parent
               /\ g[j].first = h[j].first /\ g[j].last = h[j].last /\ g[j].name = h[j].name
    <3>1. j \in 1 .. Len(h) /\ j # h[x].next /\ j # h[x].prev  BY <1>6 DEF NodesOf
    <3>2. /\ g[j]["first"] = h[j]["first"] /\ g[j]["last"] = h[j]["last"]
          /\ g[j]["parent"] = h[j]["parent"] /\ g[j]["name"] = h[j]["name"]
      BY <2>1, <3>1
    <3> QED BY <1>5, <3>1, <3>2
  <2>4. Len(h) + 1 .. Len(g) = {}  BY <1>2, <1>3
  <2> QED BY <1>2, <1>3, <2>2, <2>3, <2>4 DEF NodesKept
<1> QED BY <1>1, <1>3, <1>7, SoundKept DEF Kept, Keeps

LEMMA KeptAsItIs ==
    ASSUME NEW h, NEW out, Sound(h, out) PROVE Kept(h, h, out)
<1>1. Len(h) \in Nat /\ Len(h) + 1 .. Len(h) = {}  BY DEF Sound, Whole
<1> QED BY <1>1 DEF Kept, Keeps, NodesKept

LEMMA SoundWithAttrib ==
    ASSUME NEW h, NEW out, Sound(h, out), NEW x \in 1 .. Len(h), IsTag(h, x),
           NEW name \in Seq(STRING)
    PROVE  Kept(h, WithAttrib(h, x, name), out)
<1>1. CASE AttribNamed(h, x, name) # NULL
  <2>1. Kept(h, h, out)  BY KeptAsItIs
  <2> QED BY <1>1, <2>1 DEF WithAttrib
<1>2. CASE AttribNamed(h, x, name) = NULL
  <2>1. PICK L \in Nat : L = Len(h)  BY DEF Sound, Whole
  <2>2. PICK n : n = AttribNode(name)  OBVIOUS
  <2>3. n \in NodeRec({NULL}) /\ n.type = "ATTRIBUTE"
    <3>1. <<>> \in Seq(STRING) /\ "ATTRIBUTE" \in {"TAG", "CDATA", "ATTRIBUTE"}  OBVIOUS
    <3> QED BY <2>2, <3>1, NodeTyped DEF AttribNode
  <2>4. PICK g : g = Append(h, n)  OBVIOUS
  <2>5. Kept(h, g, out) /\ Sound(g, out) /\ Len(g) = L + 1 /\ g[L + 1] = n /\ g[x] = h[x]
    BY <2>1, <2>3, <2>4, SoundAppended DEF Kept, Keeps
  <2>6. IsTag(g, x)  BY <2>5 DEF IsTag
  <2>7. g[L + 1].parent = NULL /\ g[L + 1].type = "ATTRIBUTE"  BY <2>3, <2>5 DEF NodeRec
  <2>8. x \in 1 .. Len(g) /\ L + 1 \in 1 .. Len(g)  BY <2>1, <2>5
  <2>9. Kept(g, LinkLastAttrib(g, x, L + 1), out)  BY ONLY <2>5, <2>6, <2>7, <2>8, SoundLastAttrib
  <2>10. Kept(h, LinkLastAttrib(g, x, L + 1), out)  BY <2>1, <2>5, <2>9, KeptOn
  <2> QED BY <1>2, <2>1, <2>2, <2>4, <2>10 DEF WithAttrib, Made
<1> QED BY <1>1, <1>2

\* iks_insert_attrib.
LEMMA SoundAttribs ==
    ASSUME NEW h, NEW out, Sound(h, out), NEW x \in 1 .. Len(h), IsTag(h, x),
           NEW name \in Seq(STRING), NEW value \in Seq(STRING)
    PROVE  Kept(h, InsertedAttrib(h, x, name, value), out) /\ Kept(h, RemovedAttrib(h, x, name), out)
<1>1. PICK g : g = WithAttrib(h, x, name)  OBVIOUS
<1>2. PICK y : y = AttribNamed(g, x, name)  OBVIOUS
<1>3. Kept(h, g, out) /\ Sound(g, out) /\ Len(h) \in Nat
  <2>1. Kept(h, g, out)  BY <1>1, SoundWithAttrib
  <2>2. Len(h) \in Nat  BY DEF Sound, Whole
  <2> QED BY <2>1, <2>2 DEF Kept, Keeps
<1>4. PICK k : k = [g EXCEPT ![y].text = value]  OBVIOUS
<1>5. Kept(g, k, out) /\ Sound(k, out)
  <2>1. TRUE \in BOOLEAN  OBVIOUS
  <2> QED BY <1>3, <1>4, <2>1, SoundText DEF Kept, Keeps
<1>6. Kept(k, [k EXCEPT ![y].broken = FALSE], out)
  <2>1. FALSE \in BOOLEAN  OBVIOUS
  <2> QED BY <1>5, <2>1, SoundText
<1>7. [g EXCEPT ![y].text = value, ![y].broken = FALSE] = [k EXCEPT ![y].broken = FALSE]
  BY ONLY <1>4
<1>8. Kept(h, InsertedAttrib(h, x, name, value), out)
  <2>1. PICK m : m = [k EXCEPT ![y].broken = FALSE]  OBVIOUS
  <2>2. InsertedAttrib(h, x, name, value) = m  BY <1>1, <1>2, <1>7, <2>1 DEF InsertedAttrib
  <2>3. Kept(h, k, out)  BY ONLY <1>3, <1>5, KeptOn
  <2>4. Kept(h, m, out)  BY ONLY <1>3, <1>6, <2>1, <2>3, KeptOn
  <2> QED BY <2>2, <2>4
<1>9. Kept(h, RemovedAttrib(h, x, name), out)
  <2>1. PICK z : z = AttribNamed(h, x, name)  OBVIOUS
  <2>2. CASE z = NULL  BY <2>1, <2>2, KeptAsItIs DEF RemovedAttrib
  <2>3. CASE z # NULL
    <3>1. Whole(h, out)  BY DEF Sound
    <3>2. z \in 1 .. Len(h)  BY <2>1, <2>3, <3>1, AttribNamedInList
    <3>3. PICK s : ListOf(h, x, "attribs", s) /\ \E k2 \in 1 .. Len(s) : s[k2] = z
      BY <2>1, <2>3, <3>1, AttribNamedInList
    <3>4. Kept(h, AttribOut(h, z, x), out)  BY <3>2, <3>3, SoundAttribOut
    <3>5. RemovedAttrib(h, x, name) = AttribOut(h, z, x)  BY <2>1, <2>3 DEF RemovedAttrib, AttribOut
    <3> QED BY <3>4, <3>5
  <2> QED BY <2>2, <2>3
<1> QED BY <1>8, <1>9

\* As sound, and a step that iterators bear.
Goes(h, g, out) == Keeps(h, g, out) /\ Steps(h, out, g, out)

LEMMA KeptGoes ==
    ASSUME NEW h, NEW out, Sound(h, out), NEW g, Kept(h, g, out)
    PROVE  Goes(h, g, out)
<1>1. NodesKept(h, g) /\ Keeps(h, g, out) /\ Len(h) \in Nat /\ out \subseteq NodesOf(h)
  BY DEF Kept, Sound, Whole
<1>2. \A j \in NodesOf(h) : g[j].type = h[j].type /\ g[j].name = h[j].name /\ g[j].next = h[j].next
  BY <1>1 DEF NodesKept, NodesOf
<1>3. \A p \in 1 .. Len(h) : IsTag(h, p) => ListAt(g, p, "kids") = ListAt(h, p, "kids")
  BY <1>1, ListsKept
<1>4. Len(g) \in Nat /\ Len(h) <= Len(g)  BY <1>1 DEF NodesKept
<1> QED BY <1>1, <1>2, <1>3, <1>4 DEF Goes, Steps

\* A node is made and linked.
LEMMA LinkedGoes ==
    ASSUME NEW h, NEW out, Sound(h, out), NEW k, Kept(h, k, out), Len(k) = Len(h) + 1,
           NEW g, Keeps(k, g, out), NowLinked(k, g, out, Len(h) + 1)
    PROVE  Goes(h, g, out)
<1>1. /\ NodesKept(h, k) /\ Keeps(h, k, out) /\ Len(h) \in Nat /\ Len(g) = Len(h) + 1
      /\ out \subseteq NodesOf(h) /\ SameContent(k, g) /\ \A j \in out : g[j].next = k[j].next
  BY DEF Kept, Sound, Whole, NowLinked
<1>2. ASSUME NEW j \in NodesOf(h)
      PROVE  g[j].type = h[j].type /\ g[j].name = h[j].name /\ k[j].next = h[j].next
  <2>1. j \in 1 .. Len(h) /\ j \in 1 .. Len(k)  BY <1>1 DEF NodesOf
  <2>2. k[j].type = h[j].type /\ k[j].name = h[j].name /\ k[j].next = h[j].next
    BY <1>1, <2>1 DEF NodesKept
  <2> QED BY <1>1, <2>1, <2>2 DEF SameContent
<1>3. ASSUME NEW q \in 1 .. Len(h), IsTag(h, q)
      PROVE  LET s == ListAt(h, q, "kids")
                 t == ListAt(g, q, "kids")
             IN  t = s \/ \E i \in 1 .. Len(s) + 1, y \in Len(h) + 1 .. Len(g) : t = With(s, i, y)
  <2>1. ListAt(k, q, "kids") = ListAt(h, q, "kids")  BY <1>1, <1>3, ListsKept
  <2>2. q \in 1 .. Len(k) /\ IsTag(k, q)  BY <1>1, <1>3 DEF NodesKept, IsTag
  <2>3. PICK p : \E i \in 1 .. Len(ListAt(k, p, "kids")) + 1 :
                    ListChanged(k, g, p, "kids", With(ListAt(k, p, "kids"), i, Len(h) + 1))
    BY DEF NowLinked
  <2>4. CASE q = p
    <3>1. Len(h) + 1 \in Len(h) + 1 .. Len(g)  BY <1>1
    <3> QED BY <2>1, <2>3, <2>4, <3>1 DEF ListChanged
  <2>5. CASE q # p
    <3>1. ListAt(g, q, "kids") = ListAt(k, q, "kids")
      BY <2>2, <2>3, <2>5 DEF ListChanged, OthersSame, Roles
    <3> QED BY <2>1, <3>1
  <2> QED BY <2>4, <2>5
<1>4. Steps(h, out, g, out)
  <2>1. \A j \in out : g[j].next = h[j].next  BY <1>1, <1>2
  <2>2. Len(g) \in Nat /\ Len(h) <= Len(g)  BY <1>1
  <2> QED BY <1>1, <1>2, <1>3, <2>1, <2>2 DEF Steps
<1> QED BY <1>1, <1>4 DEF Goes, Keeps

\* The new node is the last child of x.
HasNew(h, g, x, out) ==
    Goes(h, g, out) /\ Len(g) = Len(h) + 1 /\ Made(h) \in NodesOf(g) /\ g[x].last = Made(h)

\* iks_insert, and the text that iks_insert_cdata makes.
LEMMA SoundInserted ==
    ASSUME NEW h, NEW out, Sound(h, out), NEW x \in 1 .. Len(h), IsTag(h, x),
           NEW n \in NodeRec({NULL}), n.type # "ATTRIBUTE",
           NEW g, g = LinkLast(Append(h, n), x, Made(h))
    PROVE  HasNew(h, g, x, out)
<1>1. PICK L \in Nat : L = Len(h)  BY DEF Sound, Whole
<1>2. PICK k : k = Append(h, n)  OBVIOUS
<1>3. Kept(h, k, out) /\ Keeps(h, k, out) /\ Len(k) = L + 1 /\ k[L + 1] = n /\ k[x] = h[x]
  BY <1>1, <1>2, SoundAppended DEF Kept
<1>4. IsTag(k, x) /\ x \in 1 .. Len(k)  BY <1>1, <1>3 DEF IsTag
<1>5. L + 1 \in NodesOf(k) \ out /\ k[L + 1].parent = NULL
  <2>1. out \subseteq 1 .. L  BY <1>1 DEF Sound, NodesOf
  <2>2. L + 1 \notin out /\ L + 1 \in 1 .. Len(k)  BY <1>1, <1>3, <2>1
  <2> QED BY <1>3, <2>2 DEF NodesOf, NodeRec
<1>6. g = LinkLast(k, x, L + 1)  BY <1>1, <1>2 DEF Made
<1>7. Keeps(k, g, out) /\ NowLinked(k, g, out, L + 1) /\ g[x].last = L + 1
  BY <1>3, <1>4, <1>5, <1>6, SoundLast DEF Keeps
<1>8. L + 1 \in NodesOf(g) /\ Len(g) = L + 1  BY <1>3, <1>5, <1>7 DEF Keeps, NowLinked
<1>9. Goes(h, g, out)  BY <1>1, <1>3, <1>7, LinkedGoes
<1> QED BY <1>1, <1>7, <1>8, <1>9 DEF HasNew, Made

\* iks_append, iks_prepend and the same for texts.
LEMMA SoundInsertedBeside ==
    ASSUME NEW h, NEW out, Sound(h, out), NEW x \in NodesOf(h) \ out, h[x].parent # NULL,
           NEW n \in NodeRec({NULL}), n.type # "ATTRIBUTE",
           NEW g, g = LinkBehind(Append(h, n), x, Made(h)) \/ g = LinkBefore(Append(h, n), x, Made(h))
    PROVE  Goes(h, g, out) /\ Made(h) \in NodesOf(g)
<1>1. PICK L \in Nat : L = Len(h)  BY DEF Sound, Whole
<1>2. PICK k : k = Append(h, n)  OBVIOUS
<1>3. Kept(h, k, out) /\ Keeps(h, k, out) /\ Len(k) = L + 1 /\ k[L + 1] = n /\ k[x] = h[x]
  <2>1. x \in 1 .. Len(h)  BY DEF NodesOf
  <2> QED BY <1>1, <1>2, <2>1, SoundAppended DEF Kept
<1>4. x \in NodesOf(k) \ out /\ k[x].parent # NULL  BY <1>3 DEF Keeps
<1>5. L + 1 \in NodesOf(k) \ out /\ k[L + 1].parent = NULL
  <2>1. out \subseteq 1 .. L  BY <1>1 DEF Sound, NodesOf
  <2>2. L + 1 \notin out /\ L + 1 \in 1 .. Len(k)  BY <1>1, <1>3, <2>1
  <2> QED BY <1>3, <2>2 DEF NodesOf, NodeRec
<1>6. g = LinkBehind(k, x, L + 1) \/ g = LinkBefore(k, x, L + 1)  BY <1>1, <1>2 DEF Made
<1>7. Keeps(k, g, out) /\ NowLinked(k, g, out, L + 1)
  <2>1. Sound(k, out)  BY <1>3 DEF Keeps
  <2> QED BY ONLY <1>4, <1>5, <1>6, <2>1, SoundBeside
<1>8. L + 1 \in NodesOf(g)  BY <1>5, <1>7 DEF Keeps
<1>9. Goes(h, g, out)  BY <1>1, <1>3, <1>7, LinkedGoes
<1> QED BY <1>1, <1>8, <1>9 DEF Made

\* iks_insert_cdata, and the text it is in then.
LEMMA SoundInsertedText ==
    ASSUME NEW h, NEW out, Sound(h, out), NEW x \in 1 .. Len(h), IsTag(h, x), NEW t \in Seq(STRING),
           NEW g, g = InsertedText(h, x, t)
    PROVE  Goes(h, g, out) /\ g[x].last \in NodesOf(g)
<1>1. CASE ~EndsWithText(h, x)
  <2>1. PICK n : n = TextNode(t)  OBVIOUS
  <2>2. n \in NodeRec({NULL}) /\ n.type # "ATTRIBUTE"
    <3>1. <<>> \in Seq(STRING) /\ "CDATA" \in {"TAG", "CDATA", "ATTRIBUTE"}  OBVIOUS
    <3> QED BY <2>1, <3>1, NodeTyped DEF TextNode
  <2>3. g = LinkLast(Append(h, n), x, Made(h))  BY <1>1, <2>1 DEF InsertedText
  <2>4. HasNew(h, g, x, out)  BY <2>2, <2>3, SoundInserted
  <2> QED BY <2>4 DEF HasNew
<1>2. CASE EndsWithText(h, x)
  <2>1. PICK y : y = h[x].last  OBVIOUS
  <2>2. y \in NodesOf(h)  BY <1>2, <2>1, EndsAreNodes DEF EndsWithText
  <2>3. h \in Seq(NodeRec(0 .. Len(h)))  BY DEF Sound, Whole
  <2>4. y \in 1 .. Len(h) /\ h[y] \in NodeRec(0 .. Len(h)) /\ h[x] \in NodeRec(0 .. Len(h))
    BY <2>2, <2>3 DEF NodesOf
  <2>5. PICK v : v = h[y].text \o t  OBVIOUS
  <2>6. v \in Seq(STRING)
    <3>1. h[y].text \in Seq(STRING)  BY <2>4 DEF NodeRec
    <3> QED BY <2>5, <3>1
  <2>7. g = [h EXCEPT ![y].text = v]  BY <1>2, <2>1, <2>5 DEF InsertedText
  <2>8. Goes(h, g, out)
    <3>1. Kept(h, [h EXCEPT ![y].text = v], out)  BY <2>6, TRUE \in BOOLEAN, SoundText
    <3> QED BY <2>7, <3>1, KeptGoes
  <2>9. g[x].last = y
    <3>1. g[x] = IF x = y THEN [h[x] EXCEPT !.text = v] ELSE h[x]  BY <2>3, <2>7
    <3> QED BY <2>1, <2>4, <3>1 DEF NodeRec
  <2> QED BY <2>2, <2>8, <2>9 DEF Goes, Keeps
<1> QED BY <1>1, <1>2

-----------------------------------------------------------------------------
(* Looking around from a node.                                             *)

LEMMA NodesClosed ==
    ASSUME NEW h, NEW out, Sound(h, out)
    PROVE  /\ Closed(h, "next", NodesOf(h)) /\ Closed(h, "prev", NodesOf(h))
           /\ Closed(h, "parent", NodesOf(h))
<1>1. Len(h) \in Nat /\ Whole(h, out) /\ Plain(h)  BY DEF Sound, Whole
<1>2. \A j \in 1 .. Len(h) : {h[j].next, h[j].prev, h[j].parent} \subseteq 0 .. Len(h)
  BY <1>1, LinksTyped
<1>3. NodesOf(h) \subseteq 1 .. Len(h)  BY DEF NodesOf
<1>4. ASSUME NEW j \in NodesOf(h) PROVE h[j].parent \in NodesOf(h) \cup {NULL}
  <2>1. CASE h[j].parent # NULL
    <3>1. h[j].parent \in 1 .. Len(h)  BY <1>1, <1>2, <1>3, <2>1 DEF NULL
    <3>2. IsTag(h, h[j].parent)  BY <1>1, <1>3, <2>1 DEF Whole
    <3> QED BY <3>1, <3>2 DEF NodesOf, IsTag
  <2> QED BY <2>1
<1>5. Leads(h, "next") /\ Leads(h, "prev") /\ Leads(h, "parent")  BY <1>1, <1>2 DEF Leads
<1> QED BY <1>1, <1>3, <1>4, <1>5 DEF Closed, Plain

\* Every way that the binding offers from a node leads to a node or nowhere.
LEMMA WaysFromNode ==
    ASSUME NEW h, NEW out, Sound(h, out), NEW x \in NodesOf(h), NEW some
    PROVE  /\ {h[x].next, h[x].prev, h[x].parent, h[x].first, h[x].last} \subseteq NodesOf(h) \cup {NULL}
           /\ Root(h, x) \in NodesOf(h)
           /\ FirstIn(Chain(h, h[x].next, "next"), some) \in NodesOf(h) \cup {NULL}
           /\ FirstIn(Chain(h, h[x].prev, "prev"), some) \in NodesOf(h) \cup {NULL}
           /\ FirstIn(Chain(h, h[x].first, "next"), some) \in NodesOf(h) \cup {NULL}
<1>1. /\ Closed(h, "next", NodesOf(h)) /\ Closed(h, "prev", NodesOf(h))
      /\ Closed(h, "parent", NodesOf(h))
  BY NodesClosed
<1>2. {h[x].next, h[x].prev, h[x].parent} \subseteq NodesOf(h) \cup {NULL}
  <2>1. h[x]["next"] \in NodesOf(h) \cup {NULL}  BY <1>1 DEF Closed
  <2>2. h[x]["prev"] \in NodesOf(h) \cup {NULL}  BY <1>1 DEF Closed
  <2>3. h[x]["parent"] \in NodesOf(h) \cup {NULL}  BY <1>1 DEF Closed
  <2> QED BY <2>1, <2>2, <2>3
<1>3. {h[x].first, h[x].last} \subseteq NodesOf(h) \cup {NULL}
  <2>1. CASE IsTag(h, x)
    <3>1. x \in 1 .. Len(h)  BY DEF NodesOf
    <3> QED BY <2>1, <3>1, EndsAreNodes
  <2>2. CASE ~IsTag(h, x)  BY <2>2 DEF Sound, Plain
  <2> QED BY <2>1, <2>2
<1>4. ASSUME NEW y \in NodesOf(h) \cup {NULL}, NEW link \in {"next", "prev"}
      PROVE  FirstIn(Chain(h, y, link), some) \in NodesOf(h) \cup {NULL}
  <2>1. Chain(h, y, link) \in Seq(NodesOf(h))
    <3>1. CASE y = NULL
      <4>1. Chain(h, y, link) = <<>>  BY <3>1 DEF Chain
      <4>2. <<>> \in Seq(NodesOf(h))  OBVIOUS
      <4> QED BY <4>1, <4>2
    <3>2. CASE y # NULL
      <4>1. y \in NodesOf(h) /\ Closed(h, link, NodesOf(h))  BY <1>1, <3>2
      <4> QED BY <4>1, WalkStays
    <3> QED BY <3>1, <3>2
  <2> QED BY <2>1, FirstInOf
<1>5. Root(h, x) \in NodesOf(h)
  <2>1. PICK c : c = Chain(h, x, "parent") /\ c \in Seq(NodesOf(h)) /\ Len(c) >= 1
    BY <1>1, WalkStays
  <2>2. c[Len(c)] \in NodesOf(h)  BY ONLY <2>1
  <2> QED BY <2>1, <2>2 DEF Root
<1> QED BY <1>2, <1>3, <1>4, <1>5

-----------------------------------------------------------------------------
(* What is shown is there.                                                 *)

Born(t) == tree[t] # "none"

TreeAt(t) == Sound(heap[t], hidden[t]) /\ (~Born(t) => hidden[t] = {})
DocAt(d)  == ref[d] # None => Born(ref[d]) /\ at[d] \in NodesOf(heap[ref[d]])
IterAt(i) ==
    iref[i] # None =>
        /\ Born(iref[i]) /\ iter[i].doc \in NodesOf(heap[iref[i]]) \cup {NULL}
        /\ FollowsIn(heap[iref[i]], hidden[iref[i]], iter[i])

IsIter(it) == it = [doc |-> it.doc, tags |-> it.tags, name |-> it.name,
                    of |-> it.of, got |-> it.got, due |-> it.due]

FieldsOK ==
    /\ heap = [t \in Trees |-> heap[t]] /\ hidden = [t \in Trees |-> hidden[t]]
    /\ DOMAIN at = Docs /\ DOMAIN iter = Iters
    /\ \A i \in Iters : IsIter(iter[i])

DocInv ==
    /\ OwnTypeOK /\ FieldsOK
    /\ \A t \in Trees : TreeAt(t)
    /\ \A d \in Docs : DocAt(d)
    /\ \A i \in Iters : IterAt(i)

\* Trees stay, lose no node, and change as iterators bear it.
GoesTo(h, out, g, out2) == Sound(g, out2) /\ NodesOf(h) \subseteq NodesOf(g) /\ Steps(h, out, g, out2)

Grows == \A t \in Trees : Born(t) => Born(t)' /\ GoesTo(heap[t], hidden[t], heap'[t], hidden'[t])

LEMMA Stays ==
    ASSUME DocInv, NEW t \in Trees, heap'[t] = heap[t], hidden'[t] = hidden[t]
    PROVE  GoesTo(heap[t], hidden[t], heap'[t], hidden'[t])
<1>1. PICK h, out : h = heap[t] /\ out = hidden[t]  OBVIOUS
<1>2. Sound(h, out)  BY <1>1 DEF DocInv, TreeAt
<1>3. Kept(h, h, out)  BY <1>2, KeptAsItIs
<1>4. Goes(h, h, out)  BY <1>2, <1>3, KeptGoes
<1> QED BY <1>1, <1>4 DEF Goes, Keeps, GoesTo

LEMMA GrowsAsItIs ==
    ASSUME DocInv, UNCHANGED <<heap, hidden>>, \A t \in Trees : Born(t) => Born(t)'
    PROVE  Grows
BY Stays DEF Grows

LEMMA Untouched ==
    ASSUME DocInv, Grows
    PROVE  /\ \A d \in Docs : ref'[d] = ref[d] /\ at'[d] = at[d] => DocAt(d)'
           /\ \A i \in Iters : iref'[i] = iref[i] /\ iter'[i] = iter[i] => IterAt(i)'
           /\ \A t \in Trees : Born(t) /\ heap'[t] = heap[t] /\ hidden'[t] = hidden[t] => TreeAt(t)'
           /\ \A t \in Trees : tree'[t] = tree[t] /\ heap'[t] = heap[t] /\ hidden'[t] = hidden[t] => TreeAt(t)'
<1>1. ASSUME NEW d \in Docs, ref'[d] = ref[d], at'[d] = at[d] PROVE DocAt(d)'
  <2>1. CASE ref[d] = None  BY <1>1, <2>1 DEF DocAt
  <2>2. CASE ref[d] # None
    <3>1. ref[d] \in Trees /\ DocAt(d)  BY <2>2 DEF DocInv, OwnTypeOK
    <3> QED BY <1>1, <2>2, <3>1 DEF Grows, GoesTo, DocAt, Born
  <2> QED BY <2>1, <2>2
<1>2. ASSUME NEW i \in Iters, iref'[i] = iref[i], iter'[i] = iter[i] PROVE IterAt(i)'
  <2>1. CASE iref[i] = None  BY <1>2, <2>1 DEF IterAt
  <2>2. CASE iref[i] # None
    <3>1. PICK t \in Trees : t = iref[i] /\ TreeAt(t) /\ IterAt(i)  BY <2>2 DEF DocInv, OwnTypeOK
    <3>2. Born(t) /\ Born(t)' /\ GoesTo(heap[t], hidden[t], heap'[t], hidden'[t])
      BY <2>2, <3>1 DEF IterAt, Grows
    <3>3. FollowsIn(heap[t], hidden[t], iter[i]) /\ iter[i].doc \in NodesOf(heap[t]) \cup {NULL}
      BY <2>2, <3>1 DEF IterAt
    <3>4. PICK h, out, g, out2, it :
             h = heap[t] /\ out = hidden[t] /\ g = heap'[t] /\ out2 = hidden'[t] /\ it = iter[i]
      OBVIOUS
    <3>5. FollowsIn(g, out2, it)
      <4>1. /\ Sound(h, out) /\ Sound(g, out2) /\ Steps(h, out, g, out2) /\ FollowsIn(h, out, it)
        BY <3>1, <3>2, <3>3, <3>4 DEF TreeAt, GoesTo
      <4> QED BY ONLY <4>1, FollowsOn
    <3>6. it.doc \in NodesOf(g) \cup {NULL}  BY <3>2, <3>3, <3>4 DEF GoesTo
    <3> QED BY <1>2, <3>1, <3>2, <3>4, <3>5, <3>6 DEF IterAt, Born
  <2> QED BY <2>1, <2>2
<1>3. ASSUME NEW t \in Trees, Born(t), heap'[t] = heap[t], hidden'[t] = hidden[t] PROVE TreeAt(t)'
  BY <1>3 DEF DocInv, TreeAt, Grows, Born
<1>4. ASSUME NEW t \in Trees, tree'[t] = tree[t], heap'[t] = heap[t], hidden'[t] = hidden[t] PROVE TreeAt(t)'
  BY <1>4 DEF DocInv, TreeAt, Born
<1> QED BY <1>1, <1>2, <1>3, <1>4

\* A Document that the program uses shows a node of a tree.
LEMMA Shown ==
    ASSUME DocInv, NEW d \in Docs, InUse(d)
    PROVE  /\ ref[d] \in Trees /\ ref[d] # None /\ Born(ref[d])
           /\ Sound(Here(d), hidden[ref[d]])
           /\ at[d] \in NodesOf(Here(d)) /\ at[d] \in 1 .. Len(Here(d))
<1>1. ref[d] \in Trees /\ ref[d] # None /\ DocAt(d)  BY DEF DocInv, OwnTypeOK, InUse
<1>2. TreeAt(ref[d])  BY <1>1 DEF DocInv
<1> QED BY <1>1, <1>2 DEF DocAt, TreeAt, Here, NodesOf

\* What is inserted makes a tree bigger.
LEMMA Inserted ==
    ASSUME DocInv, OwnTypeOK', NEW d \in Docs, NEW e \in Docs, Move(d, e), NEW h, NEW y,
           Goes(Here(d), h, hidden[ref[d]]), y \in NodesOf(h),
           heap' = [heap EXCEPT ![ref[d]] = h], at' = [at EXCEPT ![e] = y], UNCHANGED <<iter, hidden>>
    PROVE  DocInv'
<1> PICK t : t = ref[d]  OBVIOUS
<1>1. t \in Trees /\ Born(t) /\ ref[e] = None /\ ref' = [ref EXCEPT ![e] = t] /\ UNCHANGED <<tree, iref>>
  BY Shown DEF Move, Share
<1>2. OwnTypeOK /\ FieldsOK /\ TreeAt(t)  BY <1>1 DEF DocInv
<1>3. heap'[t] = h /\ \A s \in Trees : s # t => heap'[s] = heap[s]  BY <1>1, <1>2 DEF FieldsOK
<1>4. at'[e] = y /\ \A c \in Docs : c # e => at'[c] = at[c] /\ ref'[c] = ref[c]
  BY <1>1, <1>2 DEF FieldsOK, OwnTypeOK
<1>5. Grows
  <2> SUFFICES ASSUME NEW s \in Trees, Born(s)
               PROVE  Born(s)' /\ GoesTo(heap[s], hidden[s], heap'[s], hidden'[s])
    BY DEF Grows
  <2>1. Born(s)'  BY <1>1 DEF Born
  <2>2. CASE s = t  BY <1>3, <2>1, <2>2 DEF GoesTo, Goes, Keeps, Here
  <2>3. CASE s # t  BY <1>3, <2>1, <2>3, Stays
  <2> QED BY <2>2, <2>3
<1>6. FieldsOK'  BY <1>1, <1>2 DEF FieldsOK
<1>7. ASSUME NEW s \in Trees PROVE TreeAt(s)'
  <2>1. CASE s = t  BY <1>1, <1>3, <2>1 DEF TreeAt, Goes, Keeps, Born
  <2>2. CASE s # t  BY <1>1, <1>3, <1>5, <2>2, Untouched
  <2> QED BY <2>1, <2>2
<1>8. ASSUME NEW c \in Docs PROVE DocAt(c)'
  <2>1. CASE c = e
    <3>1. ref'[e] = t  BY <1>1, <1>2 DEF OwnTypeOK
    <3> QED BY <1>1, <1>3, <1>4, <2>1, <3>1 DEF DocAt, Born
  <2>2. CASE c # e  BY <1>4, <1>5, <2>2, Untouched
  <2> QED BY <2>1, <2>2
<1>9. \A i \in Iters : IterAt(i)'  BY <1>1, <1>5, Untouched
<1> QED BY <1>6, <1>7, <1>8, <1>9 DEF DocInv

\* The tree of d is changed, and nothing else.
LEMMA Changed ==
    ASSUME DocInv, OwnTypeOK', NEW d \in Docs, Look(d), NEW h, NEW out,
           GoesTo(Here(d), hidden[ref[d]], h, out),
           heap' = [heap EXCEPT ![ref[d]] = h], hidden' = [hidden EXCEPT ![ref[d]] = out],
           UNCHANGED <<at, iter>>
    PROVE  DocInv'
<1> PICK t : t = ref[d]  OBVIOUS
<1>1. t \in Trees /\ Born(t) /\ UNCHANGED <<tree, ref, iref>>  BY Shown DEF Look
<1>2. FieldsOK  BY DEF DocInv
<1>3. /\ heap'[t] = h /\ hidden'[t] = out
      /\ \A s \in Trees : s # t => heap'[s] = heap[s] /\ hidden'[s] = hidden[s]
  BY <1>1, <1>2 DEF FieldsOK
<1>4. Grows
  <2> SUFFICES ASSUME NEW s \in Trees, Born(s)
               PROVE  Born(s)' /\ GoesTo(heap[s], hidden[s], heap'[s], hidden'[s])
    BY DEF Grows
  <2>1. Born(s)'  BY <1>1 DEF Born
  <2>2. CASE s = t  BY <1>3, <2>1, <2>2 DEF Here
  <2>3. CASE s # t  BY <1>3, <2>1, <2>3, Stays
  <2> QED BY <2>2, <2>3
<1>5. FieldsOK'  BY <1>1, <1>2 DEF FieldsOK
<1>6. ASSUME NEW s \in Trees PROVE TreeAt(s)'
  <2>1. CASE s = t  BY <1>1, <1>3, <2>1 DEF TreeAt, GoesTo, Born
  <2>2. CASE s # t  BY <1>1, <1>3, <1>4, <2>2, Untouched
  <2> QED BY <2>1, <2>2
<1>7. \A c \in Docs : DocAt(c)'  BY <1>1, <1>4, Untouched
<1>8. \A i \in Iters : IterAt(i)'  BY <1>1, <1>4, Untouched
<1> QED BY <1>5, <1>6, <1>7, <1>8 DEF DocInv

\* A tree comes, and the Document that shows its root.
LEMMA TreeComes ==
    ASSUME DocInv, OwnTypeOK', NEW d \in Docs, NEW t \in Trees, NEW h, Own(d, t), Shows(d, t, h),
           UNCHANGED iref, Sound(h, {}), 1 \in NodesOf(h)
    PROVE  DocInv'
<1>1. /\ ref[d] = None /\ ~Born(t) /\ tree' = [tree EXCEPT ![t] = "live"]
      /\ ref' = [ref EXCEPT ![d] = t] /\ heap' = [heap EXCEPT ![t] = h]
      /\ at' = [at EXCEPT ![d] = 1] /\ UNCHANGED <<iter, hidden>>
  BY DEF Own, Shows, Born
<1>2. OwnTypeOK /\ FieldsOK /\ TreeAt(t)  BY DEF DocInv
<1>3. /\ heap'[t] = h /\ tree'[t] = "live" /\ hidden'[t] = {}
      /\ \A s \in Trees : s # t => heap'[s] = heap[s] /\ tree'[s] = tree[s]
  BY <1>1, <1>2 DEF FieldsOK, OwnTypeOK, TreeAt
<1>4. ref'[d] = t /\ at'[d] = 1 /\ \A c \in Docs : c # d => at'[c] = at[c] /\ ref'[c] = ref[c]
  BY <1>1, <1>2 DEF FieldsOK, OwnTypeOK
<1>5. Grows
  <2> SUFFICES ASSUME NEW s \in Trees, Born(s)
               PROVE  Born(s)' /\ GoesTo(heap[s], hidden[s], heap'[s], hidden'[s])
    BY DEF Grows
  <2>1. s # t  BY <1>1
  <2>2. heap'[s] = heap[s] /\ hidden'[s] = hidden[s] /\ tree'[s] = tree[s]  BY <1>1, <1>3, <2>1
  <2>3. GoesTo(heap[s], hidden[s], heap'[s], hidden'[s])  BY <2>2, Stays
  <2> QED BY <2>2, <2>3 DEF Born
<1>6. FieldsOK'  BY <1>1, <1>2 DEF FieldsOK
<1>7. ASSUME NEW s \in Trees PROVE TreeAt(s)'
  <2>1. CASE s = t  BY <1>3, <2>1 DEF TreeAt, Born
  <2>2. CASE s # t  BY <1>1, <1>3, <1>5, <2>2, Untouched
  <2> QED BY <2>1, <2>2
<1>8. ASSUME NEW c \in Docs PROVE DocAt(c)'
  <2>1. CASE c = d  BY <1>3, <1>4, <2>1 DEF DocAt, Born
  <2>2. CASE c # d  BY <1>4, <1>5, <2>2, Untouched
  <2> QED BY <2>1, <2>2
<1>9. \A i \in Iters : IterAt(i)'  BY <1>1, <1>5, Untouched
<1> QED BY <1>6, <1>7, <1>8, <1>9 DEF DocInv

LEMMA IterMade ==
    ASSUME DocInv, OwnTypeOK', NEW i \in Iters, NEW d \in Docs, NEW tags, NEW name, Iter(i, d, tags, name)
    PROVE  DocInv'
<1> PICK t : t = ref[d]  OBVIOUS
<1> PICK now : now = Chain(Here(d), Here(d)[at[d]].first, "next")  OBVIOUS
<1> PICK some : some = Wanted(Here(d), tags, name)  OBVIOUS
<1>1. /\ InUse(d) /\ IsTag(Here(d), at[d])
      /\ iref' = [iref EXCEPT ![i] = t] /\ UNCHANGED <<tree, ref, heap, at, hidden>>
  BY DEF Iter, Iterate, IsTagDoc
<1>2. PICK r : /\ iter' = [iter EXCEPT ![i] = r] /\ IsIter(r)
               /\ r.doc = FirstIn(now, some) /\ r.tags = tags /\ r.name = name /\ r.of = at[d]
               /\ r.got = <<>> /\ r.due = ToSet(now) \cap some
  <2>1. iter' = [iter EXCEPT ![i] = [doc |-> FirstIn(now, some), tags |-> tags, name |-> name,
                                     of |-> at[d], got |-> <<>>, due |-> ToSet(now) \cap some]]
    BY DEF Iter
  <2>2. PICK r : r = [doc |-> FirstIn(now, some), tags |-> tags, name |-> name,
                      of |-> at[d], got |-> <<>>, due |-> ToSet(now) \cap some]
    OBVIOUS
  <2>3. /\ r.doc = FirstIn(now, some) /\ r.tags = tags /\ r.name = name /\ r.of = at[d]
        /\ r.got = <<>> /\ r.due = ToSet(now) \cap some
    BY <2>2
  <2>4. IsIter(r)  BY <2>2, <2>3 DEF IsIter
  <2>5. iter' = [iter EXCEPT ![i] = r]  BY <2>1, <2>2
  <2> QED BY <2>3, <2>4, <2>5
<1>3. t \in Trees /\ Born(t) /\ Sound(heap[t], hidden[t]) /\ at[d] \in NodesOf(heap[t]) /\ Here(d) = heap[t]
  BY <1>1, Shown DEF Here
<1>4. r.doc \in NodesOf(heap[t]) \cup {NULL}
  <2> QED BY <1>2, <1>3, WaysFromNode
<1>5. FollowsIn(heap[t], hidden[t], r)
  <2>1. PICK h, out, p : h = heap[t] /\ out = hidden[t] /\ p = at[d]  OBVIOUS
  <2>2. Sound(h, out) /\ p \in 1 .. Len(h) /\ IsTag(h, p) /\ h = Here(d)
    BY <1>1, <1>3, <2>1 DEF NodesOf
  <2>3. ListAt(h, p, "kids") = now  BY <2>1, <2>2 DEF ListAt, FirstOf
  <2>4. Listed(h, out, p, now)  BY <2>2, <2>3, WalkIsListed
  <2>5. \E u, n : Course(h, out, r, now, u, n)  BY ONLY <1>2, <2>4, IterStarts
  <2>6. r.due \subseteq NodesOf(h)
    <3>1. now \in Seq(1 .. Len(h))  BY <2>4 DEF Listed
    <3>2. \A j \in 1 .. Len(now) : now[j] \in NodesOf(h)  BY <2>4 DEF Listed
    <3>3. ToSet(now) \subseteq NodesOf(h)  BY <3>1, <3>2 DEF ToSet
    <3> QED BY <1>2, <3>3
  <2>7. r.due \subseteq Wanted(h, r.tags, r.name)  BY <1>2, <2>2
  <2>8. r.got \in Seq(1 .. Len(h))
    <3>1. <<>> \in Seq(1 .. Len(h))  OBVIOUS
    <3> QED BY <1>2, <3>1
  <2> QED BY <1>2, <2>1, <2>2, <2>3, <2>5, <2>6, <2>7, <2>8 DEF FollowsIn
<1>6. Grows  BY <1>1, GrowsAsItIs DEF Born
<1>7. FieldsOK'  BY <1>1, <1>2 DEF FieldsOK, DocInv
<1>8. \A s \in Trees : TreeAt(s)'  BY <1>1, <1>6, Untouched
<1>9. \A c \in Docs : DocAt(c)'  BY <1>1, <1>6, Untouched
<1>10. ASSUME NEW j \in Iters PROVE IterAt(j)'
  <2>1. CASE j = i
    <3>1. iref'[i] = t /\ iter'[i] = r  BY <1>1, <1>2 DEF DocInv, FieldsOK, OwnTypeOK
    <3> QED BY <1>1, <1>2, <1>3, <1>4, <1>5, <2>1, <3>1 DEF IterAt, Born
  <2>2. CASE j # i
    <3>1. iref'[j] = iref[j] /\ iter'[j] = iter[j]
      BY <1>1, <1>2, <2>2 DEF DocInv, FieldsOK, OwnTypeOK
    <3> QED BY <1>6, <3>1, Untouched
  <2> QED BY <2>1, <2>2
<1> QED BY <1>7, <1>8, <1>9, <1>10 DEF DocInv

LEMMA IterMoved ==
    ASSUME DocInv, OwnTypeOK', NEW i \in Iters, NEW e \in Docs, Iter_next(i, e)
    PROVE  DocInv'
<1> PICK t : t = iref[i]  OBVIOUS
<1> PICK x : x = iter[i].doc  OBVIOUS
<1> PICK some : some = Wanted(heap[t], iter[i].tags, iter[i].name)  OBVIOUS
<1> PICK y : y = FirstIn(Chain(heap[t], heap[t][x].next, "next"), some)  OBVIOUS
<1>1. /\ x # NULL /\ t # None /\ ref[e] = None /\ ref' = [ref EXCEPT ![e] = t]
      /\ at' = [at EXCEPT ![e] = x] /\ UNCHANGED <<tree, iref, heap, hidden>>
  BY DEF Iter_next, Yield, Share
<1>2. iter' = [iter EXCEPT ![i].doc = y, ![i].got = Append(@, x)]  BY DEF Iter_next
<1>3. FieldsOK /\ OwnTypeOK /\ t \in Trees  BY <1>1 DEF DocInv, OwnTypeOK
<1>4. Born(t) /\ Sound(heap[t], hidden[t]) /\ x \in NodesOf(heap[t]) /\ FollowsIn(heap[t], hidden[t], iter[i])
  <2>1. IterAt(i) /\ TreeAt(t)  BY <1>3 DEF DocInv
  <2> QED BY <1>1, <2>1 DEF IterAt, TreeAt
<1>5. y \in NodesOf(heap[t]) \cup {NULL}  BY <1>4, WaysFromNode
<1>6. Grows  BY <1>1, GrowsAsItIs DEF Born
<1>7. PICK to : /\ iter' = [iter EXCEPT ![i] = to] /\ IsIter(to)
                /\ to.doc = y /\ to.tags = iter[i].tags /\ to.name = iter[i].name /\ to.of = iter[i].of
                /\ to.got = Append(iter[i].got, x) /\ to.due = iter[i].due
  <2>1. PICK it : it = iter[i] /\ IsIter(it)  BY <1>3 DEF FieldsOK
  <2>2. PICK to : to = [it EXCEPT !.doc = y, !.got = Append(@, x)]  OBVIOUS
  <2>3. iter' = [iter EXCEPT ![i] = to]  BY <1>2, <2>1, <2>2
  <2>4. to = [doc |-> y, tags |-> it.tags, name |-> it.name,
              of |-> it.of, got |-> Append(it.got, x), due |-> it.due]
    BY <2>1, <2>2 DEF IsIter
  <2>5. /\ to.doc = y /\ to.tags = it.tags /\ to.name = it.name /\ to.of = it.of
        /\ to.got = Append(it.got, x) /\ to.due = it.due
    BY <2>4
  <2>6. IsIter(to)  BY <2>4, <2>5 DEF IsIter
  <2> QED BY <2>1, <2>3, <2>5, <2>6
<1>8. /\ DOMAIN iter' = Iters /\ iter'[i] = to /\ \A k \in Iters : IsIter(iter'[k])
      /\ \A j \in Iters : j # i => iter'[j] = iter[j]
  BY <1>3, <1>7 DEF FieldsOK
<1>9. FollowsIn(heap[t], hidden[t], to)
  <2>1. PICK h, out, it : h = heap[t] /\ out = hidden[t] /\ it = iter[i]  OBVIOUS
  <2>2. /\ Sound(h, out) /\ FollowsIn(h, out, it) /\ it.doc # NULL /\ it.doc \in 1 .. Len(h)
    BY <1>1, <1>4, <2>1 DEF NodesOf
  <2>3. /\ to.of = it.of /\ to.tags = it.tags /\ to.name = it.name /\ to.due = it.due
        /\ to.got = Append(it.got, it.doc)
        /\ to.doc = FirstIn(Chain(h, h[it.doc].next, "next"), Wanted(h, it.tags, it.name))
    BY <1>7, <2>1
  <2>4. FollowsIn(h, out, to)  BY ONLY <2>2, <2>3, IterGoes
  <2> QED BY <2>1, <2>4
<1>10. FieldsOK'  BY <1>1, <1>3, <1>8 DEF FieldsOK
<1>11. \A s \in Trees : TreeAt(s)'  BY <1>1, <1>6, Untouched
<1>12. ASSUME NEW c \in Docs PROVE DocAt(c)'
  <2>1. CASE c = e
    <3>1. ref'[e] = t /\ at'[e] = x  BY <1>1, <1>3 DEF OwnTypeOK, FieldsOK
    <3> QED BY <1>1, <1>4, <2>1, <3>1 DEF DocAt, Born
  <2>2. CASE c # e
    <3>1. ref'[c] = ref[c] /\ at'[c] = at[c]  BY <1>1, <1>3, <2>2 DEF OwnTypeOK, FieldsOK
    <3> QED BY <1>6, <3>1, Untouched
  <2> QED BY <2>1, <2>2
<1>13. ASSUME NEW j \in Iters PROVE IterAt(j)'
  <2>1. CASE j = i  BY <1>1, <1>4, <1>5, <1>7, <1>8, <1>9, <2>1 DEF IterAt, Born
  <2>2. CASE j # i  BY <1>1, <1>6, <1>8, <2>2, Untouched
  <2> QED BY <2>1, <2>2
<1> QED BY <1>10, <1>11, <1>12, <1>13 DEF DocInv

LEMMA Forgotten ==
    ASSUME DocInv, OwnTypeOK'
    PROVE  /\ \A d \in Docs : Forget(d) => DocInv'
           /\ \A i \in Iters : ForgetIter(i) => DocInv'
<1>1. FieldsOK /\ OwnTypeOK  BY DEF DocInv
<1>2. ASSUME NEW d \in Docs, Forget(d) PROVE DocInv'
  <2>1. /\ ref[d] # None /\ ref' = [ref EXCEPT ![d] = None] /\ at' = [at EXCEPT ![d] = NULL]
        /\ UNCHANGED <<iref, heap, iter, hidden>>
        /\ tree' = tree \/ tree' = [tree EXCEPT ![ref[d]] = "freed"]
    BY <1>2 DEF Forget, Drop
  <2>2. ref[d] \in Trees /\ Born(ref[d])  BY <2>1, <1>1 DEF DocInv, OwnTypeOK, DocAt
  <2>3. \A t \in Trees : Born(t) <=> Born(t)'  BY <2>1, <2>2, <1>1 DEF Born, OwnTypeOK
  <2>4. Grows  BY <2>1, <2>3, GrowsAsItIs
  <2>5. FieldsOK'  BY <1>1, <2>1 DEF FieldsOK
  <2>6. \A t \in Trees : TreeAt(t)'  BY <2>1, <2>3 DEF DocInv, TreeAt
  <2>7. ASSUME NEW c \in Docs PROVE DocAt(c)'
    <3>1. CASE c = d  BY <1>1, <2>1, <3>1 DEF DocAt, OwnTypeOK
    <3>2. CASE c # d
      <4>1. ref'[c] = ref[c] /\ at'[c] = at[c]  BY <1>1, <2>1, <3>2 DEF OwnTypeOK, FieldsOK
      <4> QED BY <2>4, <4>1, Untouched
    <3> QED BY <3>1, <3>2
  <2>8. \A i \in Iters : IterAt(i)'  BY <2>1, <2>4, Untouched
  <2> QED BY <2>5, <2>6, <2>7, <2>8 DEF DocInv
<1>3. ASSUME NEW i \in Iters, ForgetIter(i) PROVE DocInv'
  <2>1. /\ iref' = [iref EXCEPT ![i] = None] /\ iter' = [iter EXCEPT ![i] = NoIter]
        /\ UNCHANGED <<tree, ref, heap, at, hidden>>
    BY <1>3 DEF ForgetIter, DropIter
  <2>2. Grows  BY <2>1, GrowsAsItIs DEF Born
  <2>3. IsIter(NoIter)  BY DEF NoIter, IsIter
  <2>4. FieldsOK'  BY <1>1, <2>1, <2>3 DEF FieldsOK
  <2>5. \A t \in Trees : TreeAt(t)'  BY <2>1, <2>2, Untouched
  <2>6. \A d \in Docs : DocAt(d)'  BY <2>1, <2>2, Untouched
  <2>7. ASSUME NEW j \in Iters PROVE IterAt(j)'
    <3>1. CASE j = i  BY <1>1, <2>1, <3>1 DEF IterAt, OwnTypeOK
    <3>2. CASE j # i
      <4>1. iref'[j] = iref[j] /\ iter'[j] = iter[j]  BY <1>1, <2>1, <3>2 DEF OwnTypeOK, FieldsOK
      <4> QED BY <2>2, <4>1, Untouched
    <3> QED BY <3>1, <3>2
  <2> QED BY <2>4, <2>5, <2>6, <2>7 DEF DocInv
<1> QED BY <1>2, <1>3

\* Calls that do not change a tree, nor what is shown of it.
LEMMA Seen ==
    ASSUME DocInv, OwnTypeOK', UNCHANGED <<ref, iref, heap, at, iter, hidden>>,
           \A t \in Trees : Born(t) => Born(t)'
    PROVE  DocInv'
<1>1. Grows  BY GrowsAsItIs
<1>2. FieldsOK'  BY DEF DocInv, FieldsOK
<1>3. \A t \in Trees : TreeAt(t)'  BY DEF DocInv, TreeAt
<1>4. (\A d \in Docs : DocAt(d)') /\ (\A i \in Iters : IterAt(i)')  BY <1>1, Untouched
<1> QED BY <1>2, <1>3, <1>4 DEF DocInv

-----------------------------------------------------------------------------
(* The calls.                                                              *)

\* What Documents are made of: the element that is the root and what was built from
\* it by iks_insert and the other calls; names of tags and attributes are texts.
DocumentsAreSound ==
    /\ \A h \in Sources : Sound(h, {}) /\ IsTag(h, 1)
    /\ Names \subseteq Seq(STRING)

LEMMA EmptyIsSound == Sound(<<>>, {})
<1>1. Len(<<>>) = 0 /\ 1 .. 0 = {}  OBVIOUS
<1>2. <<>> \in Seq(NodeRec(0 .. 0))  OBVIOUS
<1>3. Whole(<<>>, {})  BY <1>1, <1>2 DEF Whole
<1> QED BY <1>1, <1>3 DEF Sound, NoneListed, Plain, NodesOf

\* An element by itself is such a tree, so all that the calls build from it is.
LEMMA AloneIsSound ==
    ASSUME NEW name \in Seq(STRING)
    PROVE  Sound(<<TagNode(name)>>, {}) /\ IsTag(<<TagNode(name)>>, 1)
<1>1. Sound(<<>>, {})  BY EmptyIsSound
<1>2. PICK n : n = TagNode(name)  OBVIOUS
<1>3. n \in NodeRec({NULL}) /\ n.type = "TAG"
  <2>1. <<>> \in Seq(STRING) /\ "TAG" \in {"TAG", "CDATA", "ATTRIBUTE"}  OBVIOUS
  <2> QED BY <1>2, <2>1, NodeTyped DEF TagNode
<1>4. Append(<<>>, n) = <<n>>  OBVIOUS
<1>5. Sound(<<n>>, {})
  <2>1. PICK h, out : h = <<>> /\ out = {}  OBVIOUS
  <2>2. Sound(h, out)  BY <1>1, <2>1
  <2>3. Sound(Append(h, n), out)  BY ONLY <1>3, <2>2, SoundAppended DEF Kept, Keeps
  <2> QED BY <1>4, <2>1, <2>3
<1> QED BY <1>2, <1>3, <1>5 DEF IsTag

LEMMA NewNodesTyped ==
    ASSUME Names \subseteq Seq(STRING), NEW n \in Names
    PROVE  /\ {TagNode(n), TextNode(n)} \subseteq NodeRec({NULL})
           /\ TagNode(n).type # "ATTRIBUTE" /\ TextNode(n).type # "ATTRIBUTE"
<1>1. n \in Seq(STRING) /\ <<>> \in Seq(STRING)  OBVIOUS
<1>2. "TAG" \in {"TAG", "CDATA", "ATTRIBUTE"} /\ "CDATA" \in {"TAG", "CDATA", "ATTRIBUTE"}  OBVIOUS
<1>3. TagNode(n) \in NodeRec({NULL}) /\ TagNode(n).type = "TAG"  BY <1>1, <1>2, NodeTyped DEF TagNode
<1>4. TextNode(n) \in NodeRec({NULL}) /\ TextNode(n).type = "CDATA"  BY <1>1, <1>2, NodeTyped DEF TextNode
<1> QED BY <1>3, <1>4

LEMMA GoStep ==
    ASSUME DocInv, OwnTypeOK', NEW d \in Docs, NEW e \in Docs, Go(d, e)
    PROVE  DocInv'
<1>1. InUse(d) /\ Move(d, e) /\ UNCHANGED <<heap, iter, hidden>>  BY DEF Go, Move
<1>2. PICK h, x, out : h = Here(d) /\ x = at[d] /\ out = hidden[ref[d]]  OBVIOUS
<1>3. Sound(h, out) /\ x \in NodesOf(h) /\ x \in 1 .. Len(h) /\ ref[d] \in Trees  BY <1>1, <1>2, Shown
<1>4. PICK y \in Targets(h, x) \ {NULL} : at' = [at EXCEPT ![e] = y]  BY <1>2 DEF Go
<1>5. \A some : /\ {h[x].next, h[x].prev, h[x].parent, h[x].first, h[x].last} \subseteq NodesOf(h) \cup {NULL}
                /\ Root(h, x) \in NodesOf(h)
                /\ FirstIn(Chain(h, h[x].next, "next"), some) \in NodesOf(h) \cup {NULL}
                /\ FirstIn(Chain(h, h[x].prev, "prev"), some) \in NodesOf(h) \cup {NULL}
                /\ FirstIn(Chain(h, h[x].first, "next"), some) \in NodesOf(h) \cup {NULL}
  BY <1>3, WaysFromNode
<1>6. y \in NodesOf(h)
  BY <1>4, <1>5 DEF Targets, Child, NextTag, PrevTag, Find
<1>7. Goes(h, h, out)
  <2>1. Kept(h, h, out)  BY <1>3, KeptAsItIs
  <2> QED BY <1>3, <2>1, KeptGoes
<1>8. heap' = [heap EXCEPT ![ref[d]] = h]  BY <1>1, <1>2, <1>3 DEF DocInv, FieldsOK, Here
<1> QED BY <1>1, <1>2, <1>4, <1>6, <1>7, <1>8, Inserted

LEMMA InsertStep ==
    ASSUME DocInv, OwnTypeOK', Names \subseteq Seq(STRING), NEW d \in Docs, NEW e \in Docs, NEW n \in Names,
           Insert(d, e, n) \/ InsertText(d, e, n)
    PROVE  DocInv'
<1>1. PICK h, x, out : h = Here(d) /\ x = at[d] /\ out = hidden[ref[d]]  OBVIOUS
<1>2. InUse(d) /\ IsTag(h, x)  BY <1>1 DEF Insert, InsertText, IsTagDoc
<1>3. Sound(h, out) /\ x \in NodesOf(h) /\ x \in 1 .. Len(h) /\ ref[d] \in Trees  BY <1>1, <1>2, Shown
<1>4. PICK g, y : Inserts(d, e, g, y) /\ Goes(h, g, out) /\ y \in NodesOf(g)
  <2>1. CASE Insert(d, e, n)
    <3>1. PICK g, new : g = InsertedTag(h, x, n) /\ new = TagNode(n)  OBVIOUS
    <3>2. g = LinkLast(Append(h, new), x, Made(h))  BY <3>1 DEF InsertedTag
    <3>3. new \in NodeRec({NULL}) /\ new.type # "ATTRIBUTE"  BY <3>1, NewNodesTyped
    <3>4. HasNew(h, g, x, out)
      BY ONLY <1>2, <1>3, <3>2, <3>3, SoundInserted
    <3>5. Inserts(d, e, g, Len(g))  BY <1>1, <2>1, <3>1 DEF Insert
    <3> QED BY <3>4, <3>5 DEF HasNew, Made
  <2>2. CASE InsertText(d, e, n)
    <3>1. PICK g : g = InsertedText(h, x, n)  OBVIOUS
    <3>2. n \in Seq(STRING)  OBVIOUS
    <3>3. Goes(h, g, out) /\ g[x].last \in NodesOf(g)  BY <1>2, <1>3, <3>1, <3>2, SoundInsertedText
    <3>4. Inserts(d, e, g, g[x].last)  BY <1>1, <2>2, <3>1 DEF InsertText
    <3> QED BY <3>3, <3>4
  <2> QED BY <2>1, <2>2
<1> QED BY <1>1, <1>4, Inserted DEF Inserts

LEMMA BesideStep ==
    ASSUME DocInv, OwnTypeOK', Names \subseteq Seq(STRING), "deleted" \notin Careless,
           NEW d \in Docs, NEW e \in Docs, NEW new \in NewNodes,
           AppendBeside(d, e, new) \/ Prepend(d, e, new)
    PROVE  DocInv'
<1>1. PICK h, x, out : h = Here(d) /\ x = at[d] /\ out = hidden[ref[d]]  OBVIOUS
<1>2. InUse(d) /\ x \notin out /\ h[x].parent # NULL
  BY <1>1 DEF AppendBeside, Prepend, Beside, MayChange
<1>3. Sound(h, out) /\ x \in NodesOf(h)  BY <1>1, <1>2, Shown
<1>4. new \in NodeRec({NULL}) /\ new.type # "ATTRIBUTE"  BY NewNodesTyped DEF NewNodes
<1>5. PICK g : /\ Inserts(d, e, g, Made(h))
               /\ g = LinkBehind(Append(h, new), x, Made(h)) \/ g = LinkBefore(Append(h, new), x, Made(h))
  BY <1>1 DEF AppendBeside, Prepend
<1>6. Goes(h, g, out) /\ Made(h) \in NodesOf(g)  BY <1>2, <1>3, <1>4, <1>5, SoundInsertedBeside
<1> QED BY <1>1, <1>5, <1>6, Inserted DEF Inserts

LEMMA SetStep ==
    ASSUME DocInv, OwnTypeOK', Names \subseteq Seq(STRING), NEW d \in Docs, NEW n \in Names,
           NEW value \in {n, NoName}, Set(d, n, value)
    PROVE  DocInv'
<1>1. PICK h, x, out : h = Here(d) /\ x = at[d] /\ out = hidden[ref[d]]  OBVIOUS
<1>2. InUse(d) /\ IsTag(h, x) /\ Look(d) /\ UNCHANGED <<at, iter, hidden>>  BY <1>1 DEF Set, IsTagDoc
<1>3. Sound(h, out) /\ x \in NodesOf(h) /\ x \in 1 .. Len(h) /\ ref[d] \in Trees  BY <1>1, <1>2, Shown
<1>4. PICK g : /\ heap' = [heap EXCEPT ![ref[d]] = g]
               /\ g = IF value = NoName THEN RemovedAttrib(h, x, n) ELSE InsertedAttrib(h, x, n, value)
  BY <1>1 DEF Set, Here
<1>5. n \in Seq(STRING) /\ value \in Seq(STRING)
  <2>1. <<>> \in Seq(STRING)  OBVIOUS
  <2> QED BY <2>1 DEF NoName
<1>6. Goes(h, g, out)
  <2>1. Kept(h, g, out)  BY <1>2, <1>3, <1>4, <1>5, SoundAttribs
  <2> QED BY <1>3, <2>1, KeptGoes
<1>7. hidden' = [hidden EXCEPT ![ref[d]] = out]  BY <1>1, <1>2, <1>3 DEF DocInv, FieldsOK
<1>8. GoesTo(h, out, g, out)  BY <1>6 DEF Goes, Keeps, GoesTo
<1> QED BY <1>1, <1>2, <1>4, <1>7, <1>8, Changed

LEMMA DeleteStep ==
    ASSUME DocInv, OwnTypeOK', "deleted" \notin Careless, NEW d \in Docs, Delete(d)
    PROVE  DocInv'
<1>1. PICK h, x, out : h = Here(d) /\ x = at[d] /\ out = hidden[ref[d]]  OBVIOUS
<1>2. InUse(d) /\ x \notin out /\ Look(d) /\ UNCHANGED <<at, iter>>  BY <1>1 DEF Delete, MayChange
<1>3. Sound(h, out) /\ x \in NodesOf(h) \ out  BY <1>1, <1>2, Shown
<1>4. PICK g : g = Hidden(h, x)  OBVIOUS
<1>5. GoesTo(h, out, g, out \cup {x})  BY <1>3, <1>4, SoundHidden DEF GoesTo
<1>6. heap' = [heap EXCEPT ![ref[d]] = g] /\ hidden' = [hidden EXCEPT ![ref[d]] = out \cup {x}]
  BY <1>1, <1>4 DEF Delete, Here
<1> QED BY <1>1, <1>2, <1>5, <1>6, Changed

LEMMA DocStep ==
    ASSUME DocInv, OwnTypeOK', DocumentsAreSound, "deleted" \notin Careless, [DocNext]_vars
    PROVE  DocInv'
<1>1. Names \subseteq Seq(STRING)  BY DEF DocumentsAreSound
<1>2. CASE UNCHANGED vars  BY <1>2, Seen DEF vars, own, Born
<1>3. CASE DocumentFails  BY <1>3, Seen DEF DocumentFails, CreateFails, TreesStay, Born
<1>4. CASE OnStanzaRaises  BY <1>4, Seen DEF OnStanzaRaises, StanzaRaises, TreesStay, Born
<1>5. CASE OnStanzaReturns
  <2>1. UNCHANGED <<ref, iref, heap, at, iter, hidden>> /\ tree' = [tree EXCEPT ![stanza] = "freed"]
    BY <1>5 DEF OnStanzaReturns, StanzaEnd, TreesStay
  <2>2. \A t \in Trees : Born(t) => Born(t)'  BY <2>1 DEF DocInv, OwnTypeOK, Born
  <2> QED BY <2>1, <2>2, Seen
<1>6. ASSUME NEW d \in Docs, Read(d) PROVE DocInv'
  BY <1>6, Seen DEF Read, Look, TreesStay, Born
<1>7. ASSUME NEW d \in Docs, Forget(d) PROVE DocInv'  BY <1>7, Forgotten
<1>8. ASSUME NEW d \in Docs, Delete(d) PROVE DocInv'  BY <1>8, DeleteStep
<1>9. ASSUME NEW d \in Docs, NEW t \in Trees, NEW h \in Sources, Document(d, t, h) \/ OnStanza(d, t, h)
      PROVE  DocInv'
  <2>1. Own(d, t) /\ Shows(d, t, h) /\ UNCHANGED iref  BY <1>9 DEF Document, OnStanza, Create, Stanza
  <2>2. Sound(h, {}) /\ IsTag(h, 1)  BY DEF DocumentsAreSound
  <2>3. 1 \in NodesOf(h)
    <3>1. Len(h) \in Nat /\ h \in Seq(NodeRec(0 .. Len(h))) /\ h # <<>>
      BY <2>2, SourcesAssumption DEF Sound, Whole
    <3>2. 1 \in 1 .. Len(h)  BY ONLY <3>1
    <3> QED BY <2>2, <3>2 DEF NodesOf, IsTag
  <2> QED BY <2>1, <2>2, <2>3, TreeComes
<1>10. ASSUME NEW d \in Docs, NEW n \in Names, NEW value \in {n, NoName}, Set(d, n, value) PROVE DocInv'
  BY <1>1, <1>10, SetStep
<1>11. ASSUME NEW d \in Docs, NEW e \in Docs, Go(d, e) PROVE DocInv'  BY <1>11, GoStep
<1>12. ASSUME NEW d \in Docs, NEW e \in Docs, NEW n \in Names, Insert(d, e, n) \/ InsertText(d, e, n)
       PROVE  DocInv'
  BY <1>1, <1>12, InsertStep
<1>13. ASSUME NEW d \in Docs, NEW e \in Docs, NEW new \in NewNodes, AppendBeside(d, e, new) \/ Prepend(d, e, new)
       PROVE  DocInv'
  BY <1>1, <1>13, BesideStep
<1>14. ASSUME NEW d \in Docs, NEW i \in Iters, NEW tags, NEW n, Iter(i, d, tags, n) PROVE DocInv'
  BY <1>14, IterMade
<1>15. ASSUME NEW d \in Docs, NEW i \in Iters, Iter_next(i, d) PROVE DocInv'  BY <1>15, IterMoved
<1>16. ASSUME NEW i \in Iters, ForgetIter(i) PROVE DocInv'  BY <1>16, Forgotten
<1> QED
  BY <1>2, <1>3, <1>4, <1>5, <1>6, <1>7, <1>8, <1>9, <1>10, <1>11, <1>12, <1>13, <1>14, <1>15, <1>16
  DEF DocNext

LEMMA DocInvInit == DocInit => DocInv
<1> SUFFICES ASSUME DocInit PROVE DocInv  OBVIOUS
<1>1. OwnTypeOK  BY PyAssumption DEF DocInit, Init, OwnTypeOK
<1>2. FieldsOK  BY DEF DocInit, FieldsOK, NoIter, IsIter
<1>3. Sound(<<>>, {})  BY EmptyIsSound
<1>4. \A t \in Trees : TreeAt(t)  BY <1>3 DEF DocInit, Init, TreeAt
<1>5. (\A d \in Docs : DocAt(d)) /\ (\A i \in Iters : IterAt(i))  BY DEF DocInit, Init, DocAt, IterAt
<1> QED BY <1>1, <1>2, <1>4, <1>5 DEF DocInv

LEMMA DocSound ==
    ASSUME DocumentsAreSound, "deleted" \notin Careless PROVE Spec => []DocInv
<1>1. DocInv /\ [DocNext]_vars => DocInv'
  <2> SUFFICES ASSUME DocInv, [DocNext]_vars PROVE DocInv'  OBVIOUS
  <2>1. OwnTypeOK'  BY StepImplements, TypeStep DEF DocInv
  <2> QED BY <2>1, DocStep
<1> QED BY <1>1, DocInvInit, PTL DEF Spec

LEMMA DocInvShows == DocInv => DeletedStaysDeleted
<1> SUFFICES ASSUME DocInv, NEW t \in Trees, NEW x \in 1 .. Len(heap[t]),
                    heap[t][x].type # "ATTRIBUTE", Visible(t, x),
                    NEW link \in {"next", "prev", "first", "last"}, heap[t][x][link] # NULL
             PROVE  Visible(t, heap[t][x][link])
  BY DEF DeletedStaysDeleted
<1>1. Sound(heap[t], hidden[t])  BY DEF DocInv, TreeAt
<1>2. x \in NodesOf(heap[t])  BY DEF NodesOf
<1>3. \A y : Visible(t, y) <=> IsVisible(heap[t], hidden[t], y)  BY DEF Visible, IsVisible
<1>4. IsVisible(heap[t], hidden[t], heap[t][x][link])  BY <1>1, <1>2, <1>3, NoWayToDeleted
<1> QED BY <1>3, <1>4

\* A deleted node is not met again on any way through what is left of a tree, by any
\* program that does not append or prepend beside a deleted node.
THEOREM DeletedNotMet ==
    DocumentsAreSound /\ "deleted" \notin Careless => (Spec => []DeletedStaysDeleted)
<1> SUFFICES ASSUME DocumentsAreSound, "deleted" \notin Careless
             PROVE  Spec => []DeletedStaysDeleted
  OBVIOUS
<1> QED BY DocSound, DocInvShows, PTL

LEMMA DocInvYields == DocInv => IterationInOrder
<1> SUFFICES ASSUME DocInv, NEW i \in Iters, iref[i] # None,
                    NEW t, t = iref[i], NEW it, it = iter[i],
                    NEW now, now = Chain(heap[t], heap[t][it.of].first, "next")
             PROVE  YieldsInOrder(it, now, hidden[t])
  BY DEF IterationInOrder, YieldsInOrder
<1>1. t \in Trees /\ TreeAt(t) /\ IterAt(i)  BY DEF DocInv, OwnTypeOK
<1>2. Sound(heap[t], hidden[t]) /\ FollowsIn(heap[t], hidden[t], it)  BY <1>1 DEF TreeAt, IterAt
<1> QED BY <1>2, FollowedInOrder

\* An iterator yields the children in the order of the document, none twice, and in the
\* end all that were there all the time, whatever is inserted and deleted while it goes.
THEOREM IteratesInOrder ==
    DocumentsAreSound /\ "deleted" \notin Careless => (Spec => []IterationInOrder)
<1> SUFFICES ASSUME DocumentsAreSound, "deleted" \notin Careless
             PROVE  Spec => []IterationInOrder
  OBVIOUS
<1> QED BY DocSound, DocInvYields, PTL
=============================================================================
