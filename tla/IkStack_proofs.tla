--------------------------- MODULE IkStack_proofs ---------------------------
(***************************************************************************)
(* For every alignment, chunk size, text and sequence of calls: the blocks *)
(* of the object stack do not share memory, no string is written past its  *)
(* chunk, strings keep their text (refinement of StringPool), and what     *)
(* iks_stack_stat reports is exact.                                        *)
(***************************************************************************)
EXTENDS IkStack, SequenceTheorems, WellFoundedInduction, TLAPS

-----------------------------------------------------------------------------
(* Arithmetic.                                                             *)

LEMMA LeastNat ==
    ASSUME NEW T, T \subseteq Nat, T # {}
    PROVE  \E x \in T : \A y \in T : x <= y
<1> DEFINE R == {ss \in Nat \X Nat : ss[1] < ss[2]}
<1>1. IsWellFoundedOn(R, Nat)
  BY NatLessThanWellFounded DEF OpToRel
<1>2. PICK x \in T : \A y \in T : ~ (<<y, x>> \in R)
  <2> HIDE DEF R
  <2> QED BY <1>1, WFMin
<1>3. ASSUME NEW y \in T PROVE x <= y
  <2>1. ~ (<<y, x>> \in R)  BY <1>2
  <2>2. ~ (y < x)  BY <2>1
  <2> QED BY <2>2
<1> QED BY <1>3

LEMMA AlignedSum ==
    ASSUME NEW x \in Nat, NEW y \in Nat, x % Alignment = 0, y % Alignment = 0
    PROVE  (x + y) % Alignment = 0
<1>1. Alignment \in Nat \ {0}  BY IkStackAssumption
<1>2. x = Alignment * (x \div Alignment) /\ y = Alignment * (y \div Alignment)
  BY <1>1
<1>3. x + y = Alignment * ((x \div Alignment) + (y \div Alignment))
  BY <1>1, <1>2
<1>4. (x \div Alignment) + (y \div Alignment) \in Nat  BY <1>1
<1>5. \A k \in Nat : (Alignment * k) % Alignment = 0  BY <1>1
<1> QED BY <1>3, <1>4, <1>5

LEMMA AlignAligns ==
    ASSUME NEW n \in Nat
    PROVE  /\ Align(n) \in Nat
           /\ n <= Align(n)
           /\ Align(n) % Alignment = 0
<1>1. Alignment \in Nat \ {0}  BY IkStackAssumption
<1>2. CASE n % Alignment = 0  BY <1>2 DEF Align
<1>3. CASE n % Alignment # 0
  <2>1. n = Alignment * (n \div Alignment) + (n % Alignment)  BY <1>1
  <2>2. n % Alignment \in 0 .. Alignment - 1  BY <1>1
  <2>3. n \div Alignment \in Nat  BY <1>1
  <2>4. n + (Alignment - (n % Alignment)) = Alignment * ((n \div Alignment) + 1)
    BY <2>1, <2>2, <2>3, <1>1
  <2>5. (Alignment * ((n \div Alignment) + 1)) % Alignment = 0  BY <2>3, <1>1
  <2> QED BY <1>3, <1>1, <2>2, <2>4, <2>5 DEF Align
<1> QED BY <1>2, <1>3

-----------------------------------------------------------------------------
(* find_space.                                                             *)

ChunksOK(list) == \A i \in 1 .. Len(list) : list[i].used <= list[i].size

LEMMA SpaceFound ==
    ASSUME NEW list \in Seq(ChunkType), list # <<>>, ChunksOK(list), NEW n \in Nat
    PROVE  LET i  == Place(list, n)
               ws == WithSpace(list, n)
           IN  /\ ws \in Seq(ChunkType)
               /\ ChunksOK(ws)
               /\ i \in 1 .. Len(ws)
               /\ Room(ws[i]) >= n
               /\ Len(ws) = IF IsFull(list, n) THEN Len(list) + 1 ELSE Len(list)
               /\ \A j \in 1 .. Len(list) : ws[j] = list[j]
               /\ IsFull(list, n) => /\ i = Len(list) + 1
                                     /\ ws[i] = Chunk(NewSize(list, n))
               /\ NewSize(list, n) \in Nat
<1> DEFINE i  == Place(list, n)
           ws == WithSpace(list, n)
<1>1. Len(list) \in Nat \ {0} /\ list[Len(list)] \in ChunkType
  BY EmptySeq, ElementOfSeq, LenProperties
<1>2. NewSize(list, n) \in Nat /\ n <= NewSize(list, n)
  BY <1>1 DEF NewSize, Larger, ChunkType
<1>3. CASE IsFull(list, n)
  <2>1. Chunk(NewSize(list, n)) \in ChunkType  BY <1>2 DEF Chunk, ChunkType, NoLast
  <2>2. ws = Append(list, Chunk(NewSize(list, n)))  BY <1>3 DEF WithSpace
  <2>3. /\ ws \in Seq(ChunkType)
        /\ Len(ws) = Len(list) + 1
        /\ \A j \in 1 .. Len(list) : ws[j] = list[j]
        /\ ws[Len(list) + 1] = Chunk(NewSize(list, n))
    BY <2>1, <2>2, AppendProperties
  <2>4. i = Len(list) + 1  BY <1>3 DEF Place
  <2>5. Room(ws[i]) >= n  BY <2>3, <2>4, <1>2 DEF Room, Chunk
  <2>6. ChunksOK(ws)
    BY <2>3, <1>1, <1>2 DEF ChunksOK, Chunk
  <2> QED BY <2>3, <2>4, <2>5, <2>6, <1>1, <1>2, <1>3
<1>4. CASE ~ IsFull(list, n)
  <2>1. ws = list  BY <1>4 DEF WithSpace
  <2>2. Fitting(list, n) # {} /\ Fitting(list, n) \subseteq Nat
    BY <1>4 DEF IsFull, Fitting
  <2>3. \E k \in Fitting(list, n) : \A j \in Fitting(list, n) : k <= j
    BY <2>2, LeastNat
  <2>4. i \in Fitting(list, n)  BY <1>4, <2>3 DEF Place
  <2> QED BY <1>4, <1>2, <2>1, <2>4 DEF Fitting
<1> QED BY <1>3, <1>4

-----------------------------------------------------------------------------
(* Sums (iks_stack_stat): what the recursive function of SumOf computes, by *)
(* the least argument at which it would not.                               *)

LEMMA Induction ==
    ASSUME NEW L \in Nat, NEW T, 0 \in T, \A n \in 1 .. L : n - 1 \in T => n \in T
    PROVE  \A n \in 0 .. L : n \in T
<1>1. PICK Bad : Bad = {n \in 0 .. L : n \notin T}  OBVIOUS
<1>2. CASE Bad # {}
  <2>1. Bad \subseteq Nat  BY <1>1
  <2>2. PICK n \in Bad : \A k \in Bad : n <= k  BY <1>2, <2>1, LeastNat
  <2>3. n \in 1 .. L /\ n \notin T  BY <1>1, <2>2
  <2>4. n - 1 \in 0 .. L /\ n - 1 \notin Bad  BY <2>1, <2>2, <2>3
  <2> QED BY <1>1, <2>3, <2>4
<1>3. CASE Bad = {}  BY <1>1, <1>3
<1> QED BY <1>2, <1>3

\* f holds the sums of the first terms of s.
Sums(f, s, L) == f = [n \in 0 .. L |-> IF n = 0 THEN 0 ELSE f[n - 1] + s[n]]

LEMMA SomeSums ==
    ASSUME NEW s, NEW L \in Nat
    PROVE  \E f : Sums(f, s, L)
<1>1. PICK T : T = {m \in 0 .. L : \E f : Sums(f, s, m)}  OBVIOUS
<1>2. 0 \in T
  <2>1. PICK f : f = [n \in 0 .. 0 |-> 0]  OBVIOUS
  <2>2. Sums(f, s, 0)  BY <2>1 DEF Sums
  <2> QED BY <1>1, <2>2
<1>3. ASSUME NEW m \in 1 .. L, m - 1 \in T PROVE m \in T
  <2>1. PICK f : Sums(f, s, m - 1)  BY <1>1, <1>3
  <2>2. PICK g : g = [n \in 0 .. m |-> IF n < m THEN f[n] ELSE f[m - 1] + s[m]]  OBVIOUS
  <2>3. ASSUME NEW n \in 0 .. m
        PROVE  g[n] = IF n = 0 THEN 0 ELSE g[n - 1] + s[n]
    <3>1. CASE n = m
      <4>1. m - 1 \in 0 .. m /\ m - 1 < m /\ n # 0  BY <3>1
      <4> QED BY <2>2, <3>1, <4>1
    <3>2. CASE n = 0
      <4>1. 0 < m /\ 0 \in 0 .. m - 1 /\ 0 \in 0 .. m  OBVIOUS
      <4>2. g[0] = f[0]  BY <2>2, <4>1
      <4>3. f[0] = 0  BY <2>1, <4>1 DEF Sums
      <4> QED BY <3>2, <4>2, <4>3
    <3>3. CASE n # m /\ n # 0
      <4>1. n \in 0 .. m - 1 /\ n < m /\ n - 1 \in 0 .. m /\ n - 1 < m  BY <3>3
      <4>2. g[n] = f[n] /\ g[n - 1] = f[n - 1]  BY <2>2, <4>1
      <4>3. f[n] = f[n - 1] + s[n]  BY <2>1, <3>3, <4>1 DEF Sums
      <4> QED BY <3>3, <4>2, <4>3
    <3> QED BY <3>1, <3>2, <3>3
  <2>4. Sums(g, s, m)  BY <2>2, <2>3 DEF Sums
  <2> QED BY <1>1, <2>4
<1>4. \A m \in 0 .. L : m \in T
  <2>1. \A n \in 1 .. L : n - 1 \in T => n \in T  BY <1>3
  <2> QED BY <1>2, <2>1, Induction
<1>5. L \in T  BY <1>4
<1> QED BY <1>1, <1>5

\* Two tables of sums of sequences with the same first terms agree on them.
LEMMA SumsAgree ==
    ASSUME NEW s, NEW t, NEW f, NEW g, NEW M \in Nat, NEW L \in 0 .. M,
           Sums(f, s, L), Sums(g, t, M), \A n \in 1 .. L : s[n] = t[n]
    PROVE  f[L] = g[L]
<1>1. PICK T : T = {n \in 0 .. L : f[n] = g[n]}  OBVIOUS
<1>2. 0 \in T
  <2>1. 0 \in 0 .. L /\ 0 \in 0 .. M  OBVIOUS
  <2>2. f[0] = 0 /\ g[0] = 0  BY <2>1 DEF Sums
  <2> QED BY <1>1, <2>1, <2>2
<1>3. ASSUME NEW n \in 1 .. L, n - 1 \in T PROVE n \in T
  <2>1. n \in 0 .. L /\ n \in 0 .. M /\ n # 0  OBVIOUS
  <2>2. f[n] = f[n - 1] + s[n] /\ g[n] = g[n - 1] + t[n]  BY <2>1 DEF Sums
  <2>3. f[n - 1] = g[n - 1]  BY <1>1, <1>3
  <2> QED BY <1>1, <2>1, <2>2, <2>3
<1>4. \A n \in 0 .. L : n \in T
  <2>1. L \in Nat /\ \A n \in 1 .. L : n - 1 \in T => n \in T  BY <1>3
  <2> QED BY <1>2, <2>1, Induction
<1>5. L \in T  BY <1>4
<1> QED BY <1>1, <1>5

LEMMA SumFound ==
    ASSUME NEW s, Len(s) \in Nat
    PROVE  \E f : Sums(f, s, Len(s)) /\ SumOf(s) = f[Len(s)]
<1>1. PICK L \in Nat : L = Len(s)  OBVIOUS
<1>2. PICK f : Sums(f, s, L)  BY SomeSums
<1> QED BY <1>1, <1>2 DEF SumOf, Sums

\* The sum of naturals is one, and smaller terms have a smaller sum.
LEMMA SumGrows ==
    ASSUME NEW s \in Seq(Nat), NEW t \in Seq(Nat), Len(s) = Len(t),
           \A i \in 1 .. Len(s) : s[i] <= t[i]
    PROVE  SumOf(s) \in Nat /\ SumOf(t) \in Nat /\ SumOf(s) <= SumOf(t)
<1>1. PICK L \in Nat : L = Len(s) /\ L = Len(t)  BY LenProperties
<1>2. PICK f : Sums(f, s, L) /\ SumOf(s) = f[L]  BY <1>1, SumFound
<1>3. PICK g : Sums(g, t, L) /\ SumOf(t) = g[L]  BY <1>1, SumFound
<1>4. \A n \in 1 .. L : s[n] \in Nat /\ t[n] \in Nat /\ s[n] <= t[n]  BY <1>1, ElementOfSeq
<1>5. PICK T : T = {n \in 0 .. L : f[n] \in Nat /\ g[n] \in Nat /\ f[n] <= g[n]}  OBVIOUS
<1>6. 0 \in T
  <2>1. 0 \in 0 .. L  OBVIOUS
  <2>2. f[0] = 0 /\ g[0] = 0  BY <1>2, <1>3, <2>1 DEF Sums
  <2> QED BY <1>5, <2>1, <2>2
<1>7. ASSUME NEW n \in 1 .. L, n - 1 \in T PROVE n \in T
  <2>1. n \in 0 .. L /\ n # 0  OBVIOUS
  <2>2. f[n] = f[n - 1] + s[n] /\ g[n] = g[n - 1] + t[n]  BY <1>2, <1>3, <2>1 DEF Sums
  <2>3. PICK a, b, c, d \in Nat :
          a = f[n - 1] /\ b = g[n - 1] /\ c = s[n] /\ d = t[n] /\ a <= b /\ c <= d
    BY <1>4, <1>5, <1>7
  <2>4. a + c \in Nat /\ b + d \in Nat /\ a + c <= b + d
    <3>1. \A w, x, y, z \in Nat : w <= x /\ y <= z => w + y \in Nat /\ x + z \in Nat /\ w + y <= x + z
      OBVIOUS
    <3> QED BY ONLY <3>1, <2>3
  <2> QED BY <1>5, <2>1, <2>2, <2>3, <2>4
<1>8. \A n \in 0 .. L : n \in T
  <2>1. \A n \in 1 .. L : n - 1 \in T => n \in T  BY <1>7
  <2> QED BY <1>6, <2>1, Induction
<1>9. L \in T  BY <1>8
<1> QED BY <1>2, <1>3, <1>5, <1>9

LEMMA SumAppended ==
    ASSUME NEW s \in Seq(Nat), NEW t \in Seq(Nat), Len(t) = Len(s) + 1,
           \A i \in 1 .. Len(s) : t[i] = s[i]
    PROVE  SumOf(t) = SumOf(s) + t[Len(t)]
<1>1. PICK L \in Nat : L = Len(s) /\ L + 1 = Len(t)  BY LenProperties
<1>2. PICK f : Sums(f, s, L) /\ SumOf(s) = f[L]  BY <1>1, SumFound
<1>3. PICK g : Sums(g, t, L + 1) /\ SumOf(t) = g[L + 1]
  <2>1. L + 1 \in Nat  OBVIOUS
  <2> QED BY <1>1, <2>1, SumFound
<1>4. f[L] = g[L]
  <2>1. L + 1 \in Nat /\ L \in 0 .. L + 1 /\ \A n \in 1 .. L : s[n] = t[n]  BY <1>1
  <2> QED BY <1>2, <1>3, <2>1, SumsAgree
<1>5. g[L + 1] = g[L] + t[L + 1]
  <2>1. L + 1 \in 0 .. L + 1 /\ L + 1 # 0 /\ L + 1 - 1 = L  OBVIOUS
  <2> QED BY <1>3, <2>1 DEF Sums
<1> QED BY <1>1, <1>2, <1>3, <1>4, <1>5

-----------------------------------------------------------------------------
(* What the chunks take.                                                   *)

LEMMA SizesTyped ==
    ASSUME NEW list \in Seq(ChunkType)
    PROVE  \E s \in Seq(Nat) :
             /\ Len(s) = Len(list) /\ SizeOf(list) = SumOf(s)
             /\ \A i \in 1 .. Len(list) : s[i] = HeaderSize + list[i].size
<1>1. PICK s : s = [i \in 1 .. Len(list) |-> HeaderSize + list[i].size]  OBVIOUS
<1>2. Len(list) \in Nat /\ HeaderSize \in Nat  BY LenProperties, IkStackAssumption
<1>3. ASSUME NEW i \in 1 .. Len(list) PROVE HeaderSize + list[i].size \in Nat
  <2>1. list[i] \in ChunkType  BY ElementOfSeq
  <2>2. list[i].size \in Nat  BY <2>1 DEF ChunkType
  <2> QED BY <1>2, <2>2
<1>4. s \in Seq(Nat) /\ Len(s) = Len(list)
  <2>1. s \in [1 .. Len(list) -> Nat]  BY <1>1, <1>3
  <2> QED BY <1>2, <2>1
<1> QED BY <1>1, <1>4 DEF SizeOf

\* What find_space added is what it was accounted as, whatever else the call
\* wrote into the chunks.
LEMMA SpaceAccounted ==
    ASSUME NEW list \in Seq(ChunkType), list # <<>>, ChunksOK(list), NEW n \in Nat,
           NEW after \in Seq(ChunkType), Len(after) = Len(WithSpace(list, n)),
           \A i \in 1 .. Len(after) : after[i].size = WithSpace(list, n)[i].size
    PROVE  /\ SizeOf(list) \in Nat
           /\ SizeOf(after) = IF IsFull(list, n) THEN SizeOf(list) + HeaderSize + NewSize(list, n)
                              ELSE SizeOf(list)
<1>1. PICK ws : ws = WithSpace(list, n)  OBVIOUS
<1>2. /\ Len(ws) = IF IsFull(list, n) THEN Len(list) + 1 ELSE Len(list)
      /\ \A j \in 1 .. Len(list) : ws[j] = list[j]
      /\ IsFull(list, n) => ws[Len(list) + 1] = Chunk(NewSize(list, n))
      /\ NewSize(list, n) \in Nat
  <2>1. PICK i : i = Place(list, n)  OBVIOUS
  <2> QED BY <1>1, <2>1, SpaceFound
<1>3. PICK s \in Seq(Nat) :
        /\ Len(s) = Len(list) /\ SizeOf(list) = SumOf(s)
        /\ \A i \in 1 .. Len(list) : s[i] = HeaderSize + list[i].size
  BY SizesTyped
<1>4. PICK t \in Seq(Nat) :
        /\ Len(t) = Len(after) /\ SizeOf(after) = SumOf(t)
        /\ \A i \in 1 .. Len(after) : t[i] = HeaderSize + after[i].size
  BY SizesTyped
<1>5. Len(list) \in Nat /\ HeaderSize \in Nat  BY LenProperties, IkStackAssumption
<1>6. ASSUME NEW i \in 1 .. Len(s) PROVE t[i] = s[i]
  <2>1. i \in 1 .. Len(list) /\ i \in 1 .. Len(after)  BY <1>1, <1>2, <1>3, <1>5
  <2>2. after[i].size = list[i].size  BY <1>1, <1>2, <2>1
  <2> QED BY <1>3, <1>4, <2>1, <2>2
<1>7. \A i \in 1 .. Len(s) : s[i] \in Nat /\ s[i] <= s[i]
  <2> SUFFICES ASSUME NEW i \in 1 .. Len(s) PROVE s[i] \in Nat /\ s[i] <= s[i]  OBVIOUS
  <2>1. s[i] \in Nat  BY ElementOfSeq
  <2> QED BY <2>1
<1>8. SumOf(s) \in Nat  BY <1>7, SumGrows
<1>9. CASE IsFull(list, n)
  <2>1. Len(t) = Len(s) + 1  BY <1>1, <1>2, <1>3, <1>4, <1>9
  <2>2. SumOf(t) = SumOf(s) + t[Len(t)]  BY <1>6, <2>1, SumAppended
  <2>3. Len(list) + 1 \in 1 .. Len(after) /\ Len(t) = Len(list) + 1
    BY <1>1, <1>2, <1>4, <1>5, <1>9
  <2>4. after[Len(list) + 1].size = NewSize(list, n)
    <3>1. ws[Len(list) + 1].size = NewSize(list, n)  BY <1>2, <1>9 DEF Chunk
    <3> QED BY <1>1, <2>3, <3>1
  <2>5. t[Len(t)] = HeaderSize + NewSize(list, n)  BY <1>4, <2>3, <2>4
  <2>6. SumOf(t) = SumOf(s) + HeaderSize + NewSize(list, n)  BY <1>2, <1>5, <1>8, <2>2, <2>5
  <2> QED BY <1>3, <1>4, <1>8, <1>9, <2>6
<1>10. CASE ~IsFull(list, n)
  <2>1. Len(t) = Len(s)  BY <1>1, <1>2, <1>3, <1>4, <1>10
  <2>2. \A i \in 1 .. Len(s) : s[i] <= t[i] /\ t[i] <= s[i]  BY <1>6, <1>7
  <2>3. SumOf(s) <= SumOf(t) /\ SumOf(t) <= SumOf(s) /\ SumOf(t) \in Nat  BY <2>1, <2>2, SumGrows
  <2>4. SumOf(t) = SumOf(s)  BY <1>8, <2>3
  <2> QED BY <1>3, <1>4, <1>8, <1>10, <2>4
<1> QED BY <1>9, <1>10

\* Chunks that keep their sizes take what they took.
LEMMA SameSizes ==
    ASSUME NEW list \in Seq(ChunkType), NEW after \in Seq(ChunkType), Len(after) = Len(list),
           \A i \in 1 .. Len(list) : after[i].size = list[i].size
    PROVE  SizeOf(after) = SizeOf(list)
<1>1. [i \in 1 .. Len(after) |-> HeaderSize + after[i].size]
        = [i \in 1 .. Len(list) |-> HeaderSize + list[i].size]
  OBVIOUS
<1> QED BY <1>1 DEF SizeOf

\* What is used of the chunks lies in what they take.
LEMMA UsedFits ==
    ASSUME NEW list \in Seq(ChunkType), ChunksOK(list)
    PROVE  UsedOf(list) \in Nat /\ SizeOf(list) \in Nat /\ UsedOf(list) <= SizeOf(list)
<1>1. PICK t \in Seq(Nat) :
        /\ Len(t) = Len(list) /\ SizeOf(list) = SumOf(t)
        /\ \A i \in 1 .. Len(list) : t[i] = HeaderSize + list[i].size
  BY SizesTyped
<1>2. PICK s : s = [i \in 1 .. Len(list) |-> list[i].used]  OBVIOUS
<1>3. Len(list) \in Nat /\ HeaderSize \in Nat  BY LenProperties, IkStackAssumption
<1>4. ASSUME NEW i \in 1 .. Len(list)
      PROVE  list[i].used \in Nat /\ list[i].used <= t[i]
  <2>1. list[i] \in ChunkType  BY ElementOfSeq
  <2>2. PICK u, z \in Nat : u = list[i].used /\ z = list[i].size /\ u <= z
    BY <2>1 DEF ChunkType, ChunksOK
  <2>3. u <= HeaderSize + z  BY <1>3, <2>2
  <2> QED BY <1>1, <2>2, <2>3
<1>5. s \in Seq(Nat) /\ Len(s) = Len(list)
  <2>1. s \in [1 .. Len(list) -> Nat]  BY <1>2, <1>4
  <2> QED BY <1>2, <1>3, <2>1
<1>6. \A i \in 1 .. Len(s) : s[i] <= t[i]  BY <1>2, <1>4, <1>5
<1> QED BY <1>1, <1>2, <1>5, <1>6, SumGrows DEF UsedOf

-----------------------------------------------------------------------------
(* Strings in memory.                                                      *)

Letter == (Nat \ {0}) \cup {Junk}
Byte   == Nat \cup {Junk}

\* The text s and its NUL lie at an offset of the memory m.
IsText(m, off, s) ==
    /\ off + Len(s) + 1 <= Len(m)
    /\ \A k \in 1 .. Len(s) : m[off + k] = s[k]
    /\ m[off + Len(s) + 1] = 0

LEMMA TextFound ==
    ASSUME NEW m \in Seq(Byte), NEW off \in Nat, NEW s \in Seq(Letter),
           IsText(m, off, s)
    PROVE  TextIn(m, off) = s
<1> DEFINE e == off + Len(s) + 1
<1>1. Len(s) \in Nat /\ Len(m) \in Nat  BY LenProperties
<1>2. e \in Zeros(m, off)  BY <1>1 DEF IsText, Zeros
<1>3. ASSUME NEW k \in Zeros(m, off) PROVE e <= k
  <2>1. SUFFICES ASSUME k < e PROVE FALSE
    BY <1>1, <1>3 DEF Zeros
  <2>2. k \in off + 1 .. Len(m) /\ m[k] = 0  BY <1>3 DEF Zeros
  <2>3. k - off \in 1 .. Len(s) /\ k = off + (k - off)  BY <1>1, <2>1, <2>2
  <2>4. m[k] = s[k - off]  BY <2>3 DEF IsText
  <2>5. s[k - off] \in Letter  BY <2>3, ElementOfSeq
  <2> QED BY <2>2, <2>4, <2>5 DEF Letter, Junk
<1>4. EndOf(m, off) = e
  <2>1. EndOf(m, off) \in Zeros(m, off) /\ \A k \in Zeros(m, off) : EndOf(m, off) <= k
    BY <1>2, <1>3 DEF EndOf
  <2>2. EndOf(m, off) \in Nat  BY <2>1, <1>1 DEF Zeros
  <2> QED BY <1>1, <1>2, <1>3, <2>1, <2>2
<1>5. TextIn(m, off) = SubSeq(m, off + 1, off + Len(s))
  BY <1>1, <1>2, <1>4 DEF TextIn
<1>6. /\ SubSeq(m, off + 1, off + Len(s)) \in Seq(Byte)
      /\ Len(SubSeq(m, off + 1, off + Len(s))) = Len(s)
      /\ \A k \in 1 .. Len(s) : SubSeq(m, off + 1, off + Len(s))[k] = m[off + k]
  BY <1>1 DEF IsText
<1>7. \A k \in 1 .. Len(s) : SubSeq(m, off + 1, off + Len(s))[k] = s[k]
  BY <1>6 DEF IsText
<1>8. s \in Seq(Byte)
  BY SeqMonotonic DEF Letter, Byte
<1> HIDE DEF e
<1> QED BY <1>5, <1>6, <1>7, <1>8, SeqEqual

\* What is written is there afterwards, and nothing else changes.
LEMMA WrittenAt ==
    ASSUME NEW m \in Seq(Byte), NEW off \in Nat, NEW s \in Seq(Byte)
    PROVE  /\ Written(m, off, s) \in Seq(Byte)
           /\ Len(Written(m, off, s)) = Len(m)
           /\ \A k \in 1 .. Len(m) : off < k /\ k <= off + Len(s) => Written(m, off, s)[k] = s[k - off]
           /\ \A k \in 1 .. Len(m) : ~ (off < k /\ k <= off + Len(s)) => Written(m, off, s)[k] = m[k]
<1>1. Len(m) \in Nat /\ Len(s) \in Nat  BY LenProperties
<1>2. ASSUME NEW k \in 1 .. Len(m)
      PROVE  (IF off < k /\ k <= off + Len(s) THEN s[k - off] ELSE m[k]) \in Byte
  <2>1. CASE off < k /\ k <= off + Len(s)
    BY <2>1, <1>1, ElementOfSeq
  <2>2. CASE ~ (off < k /\ k <= off + Len(s))
    BY <2>2, <1>1, ElementOfSeq
  <2> QED BY <2>1, <2>2
<1>3. Written(m, off, s) \in [1 .. Len(m) -> Byte]
  BY <1>2, Zenon DEF Written
<1>4. Written(m, off, s) \in Seq(Byte) /\ Len(Written(m, off, s)) = Len(m)
  BY <1>1, <1>3
<1> QED BY <1>4 DEF Written

LEMMA TextKept ==
    ASSUME NEW m \in Seq(Byte), NEW m2 \in Seq(Byte), NEW off \in Nat, NEW s \in Seq(Letter),
           IsText(m, off, s), Len(m2) = Len(m),
           \A k \in off + 1 .. off + Len(s) + 1 : m2[k] = m[k]
    PROVE  IsText(m2, off, s)
<1>1. Len(s) \in Nat  BY LenProperties
<1> QED BY <1>1 DEF IsText

LEMMA LetterWithNul ==
    ASSUME NEW s \in Seq(Letter)
    PROVE  /\ Append(s, 0) \in Seq(Byte)
           /\ Len(Append(s, 0)) = Len(s) + 1
           /\ \A k \in 1 .. Len(s) : Append(s, 0)[k] = s[k]
           /\ Append(s, 0)[Len(s) + 1] = 0
<1>1. s \in Seq(Byte)  BY SeqMonotonic DEF Letter, Byte
<1>2. 0 \in Byte  BY DEF Byte
<1> QED BY <1>1, <1>2, AppendProperties

LEMMA TextStored ==
    ASSUME NEW m \in Seq(Byte), NEW off \in Nat, NEW s \in Seq(Letter),
           off + Len(s) + 1 <= Len(m)
    PROVE  IsText(Written(m, off, Append(s, 0)), off, s)
<1> DEFINE w == Append(s, 0)
           m2 == Written(m, off, w)
<1>1. Len(s) \in Nat /\ Len(m) \in Nat  BY LenProperties
<1>2. /\ w \in Seq(Byte)
      /\ Len(w) = Len(s) + 1
      /\ \A k \in 1 .. Len(s) : w[k] = s[k]
      /\ w[Len(s) + 1] = 0
  BY LetterWithNul
<1> HIDE DEF w
<1>3. /\ Len(m2) = Len(m)
      /\ \A k \in 1 .. Len(m) : off < k /\ k <= off + Len(w) => m2[k] = w[k - off]
  BY <1>2, WrittenAt
<1> HIDE DEF m2
<1>4. ASSUME NEW k \in 1 .. Len(s) PROVE m2[off + k] = s[k]
  <2>1. off + k \in 1 .. Len(m) /\ off < off + k /\ off + k <= off + Len(w)  BY <1>1, <1>2
  <2>2. off + k - off = k  BY <1>1
  <2>3. m2[off + k] = w[off + k - off]  BY <1>3, <2>1
  <2> QED BY <1>2, <2>2, <2>3
<1>5. m2[off + Len(s) + 1] = 0
  BY <1>1, <1>2, <1>3
<1>6. IsText(m2, off, s)  BY <1>3, <1>4, <1>5 DEF IsText
<1> QED BY <1>6 DEF m2, w

LEMMA TextGrown ==
    ASSUME NEW m \in Seq(Byte), NEW off \in Nat, NEW s \in Seq(Letter), NEW t \in Seq(Letter),
           IsText(m, off, s), off + Len(s) + Len(t) + 1 <= Len(m)
    PROVE  IsText(Written(m, off + Len(s), Append(t, 0)), off, s \o t)
<1> DEFINE w  == Append(t, 0)
           o2 == off + Len(s)
           m2 == Written(m, o2, w)
           st == s \o t
<1>1. Len(s) \in Nat /\ Len(t) \in Nat /\ Len(m) \in Nat /\ o2 \in Nat  BY LenProperties
<1>2. /\ w \in Seq(Byte)
      /\ Len(w) = Len(t) + 1
      /\ \A k \in 1 .. Len(t) : w[k] = t[k]
      /\ w[Len(t) + 1] = 0
  BY LetterWithNul
<1>3. /\ Len(st) = Len(s) + Len(t)
      /\ \A k \in 1 .. Len(s) + Len(t) : st[k] = IF k <= Len(s) THEN s[k] ELSE t[k - Len(s)]
  BY ConcatProperties
<1> HIDE DEF w, st
<1>4. /\ Len(m2) = Len(m)
      /\ \A k \in 1 .. Len(m) : o2 < k /\ k <= o2 + Len(w) => m2[k] = w[k - o2]
      /\ \A k \in 1 .. Len(m) : ~ (o2 < k /\ k <= o2 + Len(w)) => m2[k] = m[k]
  BY <1>1, <1>2, WrittenAt
<1> HIDE DEF m2
<1>5. ASSUME NEW k \in 1 .. Len(st) PROVE m2[off + k] = st[k]
  <2>1. CASE k <= Len(s)
    <3>1. m2[off + k] = m[off + k]  BY <1>1, <1>3, <1>4, <2>1
    <3>2. m[off + k] = s[k]  BY <1>1, <1>3, <2>1 DEF IsText
    <3> QED BY <1>3, <2>1, <3>1, <3>2, <1>1
  <2>2. CASE ~ (k <= Len(s))
    <3>1. k - Len(s) \in 1 .. Len(t)  BY <1>1, <1>3, <2>2
    <3>2. off + k \in 1 .. Len(m) /\ o2 < off + k /\ off + k <= o2 + Len(w)
      BY <1>1, <1>2, <1>3, <2>2
    <3>4. m2[off + k] = w[off + k - o2]  BY <1>4, <3>2
    <3>3. off + k - o2 = k - Len(s)  BY <1>1
    <3> QED BY <1>1, <1>2, <1>3, <2>2, <3>1, <3>3, <3>4
  <2> QED BY <2>1, <2>2
<1>6. m2[off + Len(st) + 1] = 0
  <2>1. m2[o2 + (Len(t) + 1)] = w[o2 + (Len(t) + 1) - o2]  BY <1>1, <1>2, <1>4
  <2>2. o2 + (Len(t) + 1) = off + Len(st) + 1 /\ o2 + (Len(t) + 1) - o2 = Len(t) + 1  BY <1>1, <1>3
  <2> QED BY <1>2, <2>1, <2>2
<1>7. off + Len(st) + 1 <= Len(m2)  BY <1>1, <1>3, <1>4
<1>8. IsText(m2, off, st)  BY <1>5, <1>6, <1>7 DEF IsText
<1> QED BY <1>8 DEF m2, w, st

-----------------------------------------------------------------------------
(* The inductive invariant.                                                *)

\* The byte behind a string's NUL.
Behind(p) == p[2] + Len(TextAt(p)) + 1

\* A string lies in the used part of its chunk; the last one ends it.
Placed(p) ==
    /\ p[1] \in 1 .. Len(data)
    /\ TextAt(p) \in Seq(Letter)
    /\ IsText(bytes[p[1]], p[2], TextAt(p))
    /\ Behind(p) <= data[p[1]].used
    /\ data[p[1]].last = p[2] => Behind(p) = data[p[1]].used

Apart(p, q) == p[1] # q[1] \/ Behind(p) <= q[2] \/ Behind(q) <= p[2]

StringsOK == /\ \A p \in held : Placed(p)
             /\ \A p, q \in held : p = q \/ Apart(p, q)

\* A block with its padding lies in the used part of its chunk.
BlockPlaced(b) ==
    /\ b.chunk \in 1 .. Len(meta)
    /\ b.off % Alignment = 0
    /\ b.off + BlockSize(b.size) <= meta[b.chunk].used

BlocksOK ==
    /\ \A i \in 1 .. Len(meta) : meta[i].used % Alignment = 0
    /\ \A b \in granted : BlockPlaced(b)
    /\ \A b, c \in granted :
        \/ b = c
        \/ b.chunk # c.chunk
        \/ b.off + BlockSize(b.size) <= c.off
        \/ c.off + BlockSize(c.size) <= b.off

-----------------------------------------------------------------------------
(* Strings: what Store does.                                               *)

\* The part of the type invariant that is about data chunks.
DataOK ==
    /\ data \in Seq(ChunkType)
    /\ ChunksOK(data)
    /\ bytes \in Seq(Seq(Byte))
    /\ Len(bytes) = Len(data)
    /\ \A i \in 1 .. Len(data) : Len(bytes[i]) = data[i].size
    /\ held \subseteq (Nat \ {0}) \X Nat
    /\ StringsOK

LEMMA TextStays ==
    ASSUME DataOK, NEW q \in held,
           NEW m2 \in Seq(Byte), Len(m2) = Len(bytes[q[1]]),
           \A k \in q[2] + 1 .. Behind(q) : m2[k] = bytes[q[1]][k]
    PROVE  IsText(m2, q[2], TextAt(q)) /\ TextIn(m2, q[2]) = TextAt(q)
<1>1. /\ q[2] \in Nat
      /\ q[1] \in 1 .. Len(bytes)
      /\ TextAt(q) \in Seq(Letter)
      /\ IsText(bytes[q[1]], q[2], TextAt(q))
  BY DEF DataOK, StringsOK, Placed
<1>2. bytes[q[1]] \in Seq(Byte)
  BY <1>1, ElementOfSeq DEF DataOK
<1>3. IsText(m2, q[2], TextAt(q))
  BY <1>1, <1>2, TextKept DEF Behind
<1> QED BY <1>1, <1>3, TextFound

LEMMA TextEnds ==
    ASSUME DataOK, NEW q \in held
    PROVE  /\ q[1] \in 1 .. Len(data) /\ q[2] \in Nat
           /\ TextAt(q) \in Seq(Letter) /\ Len(TextAt(q)) \in Nat
           /\ Behind(q) \in Nat
           /\ q[2] < Behind(q) /\ Behind(q) <= data[q[1]].used
           /\ data[q[1]] \in ChunkType
           /\ bytes[q[1]] \in Seq(Byte)
           /\ Len(bytes[q[1]]) = data[q[1]].size
<1>1. /\ q[2] \in Nat
      /\ q[1] \in 1 .. Len(data)
      /\ TextAt(q) \in Seq(Letter)
      /\ Behind(q) <= data[q[1]].used
  BY DEF DataOK, StringsOK, Placed
<1>2. Len(TextAt(q)) \in Nat  BY <1>1, LenProperties
<1>3. data[q[1]] \in ChunkType  BY <1>1, ElementOfSeq DEF DataOK
<1>4. /\ bytes[q[1]] \in Seq(Byte)
      /\ Len(bytes[q[1]]) = data[q[1]].size
  BY <1>1, ElementOfSeq DEF DataOK
<1>5. Behind(q) \in Nat /\ q[2] < Behind(q)  BY <1>1, <1>2 DEF Behind
<1> QED BY <1>1, <1>2, <1>3, <1>4, <1>5

\* What is allocated grew by what the chunks take more.
Charged(list, after) ==
    /\ SizeOf(list) \in Nat /\ SizeOf(after) \in Nat
    /\ allocated' + SizeOf(list) = allocated + SizeOf(after)

\* What a successful Store leaves: the new string r with its text, and the
\* kept strings with theirs.
Stored(s, kept) ==
    /\ DataOK'
    /\ data' # <<>>
    /\ allocated' \in Nat
    /\ mallocs' = mallocs + (Len(data') - Len(data))
    /\ Len(data') \in Nat /\ Len(data) <= Len(data')
    /\ ub' = ub
    /\ Charged(data, data')
    /\ \E r \in (Nat \ {0}) \X Nat :
        /\ r \notin held
        /\ held' = kept \cup {r}
        /\ TextAt(r)' = s
        /\ \A q \in kept : TextAt(q)' = TextAt(q)

LEMMA StoreKeeps ==
    ASSUME DataOK, data # <<>>, allocated \in Nat, mallocs \in Nat,
           NEW s \in Seq(Letter), NEW kept \in SUBSET held, Store(s, kept)
    PROVE  Stored(s, kept) \/ UNCHANGED <<data, bytes, ub, held, allocated, mallocs>>
<1> DEFINE n    == Need(s)
           i    == Place(data, n)
           list == WithSpace(data, n)
           m    == IF IsFull(data, n) THEN Append(bytes, Blank(NewSize(data, n))) ELSE bytes
           off  == list[i].used
           w    == Append(s, 0)
<1>s. SUFFICES ASSUME /\ data' = [list EXCEPT ![i].last = off, ![i].used = off + n]
                    /\ bytes' = [m EXCEPT ![i] = Written(m[i], off, w)]
                    /\ ub' = ub \cup Overflow(m[i], off, w)
                    /\ held' = kept \cup {<<i, off>>}
                    /\ Account(data, n)
             PROVE  Stored(s, kept)
  BY DEF Store
<1>1. Len(s) \in Nat /\ n = Len(s) + 1 /\ n \in Nat  BY LenProperties DEF Need
<1>2. /\ list \in Seq(ChunkType)
      /\ ChunksOK(list)
      /\ i \in 1 .. Len(list)
      /\ Room(list[i]) >= n
      /\ Len(list) = IF IsFull(data, n) THEN Len(data) + 1 ELSE Len(data)
      /\ \A j \in 1 .. Len(data) : list[j] = data[j]
      /\ IsFull(data, n) => /\ i = Len(data) + 1
                            /\ list[i] = Chunk(NewSize(data, n))
      /\ NewSize(data, n) \in Nat
  <2>1. data \in Seq(ChunkType) /\ ChunksOK(data)  BY DEF DataOK
  <2> QED BY <1>1, <2>1, SpaceFound
<1>3. Len(data) \in Nat /\ Len(list) \in Nat /\ i \in Nat /\ Len(data) <= Len(list)
  <2>1. Len(data) \in Nat /\ Len(list) \in Nat  BY <1>2, LenProperties DEF DataOK
  <2> QED BY <1>2, <2>1
<1>4. /\ m \in Seq(Seq(Byte))
      /\ Len(m) = Len(list)
      /\ \A j \in 1 .. Len(list) : Len(m[j]) = list[j].size
      /\ \A j \in 1 .. Len(data) : m[j] = bytes[j]
  <2> DEFINE z == Blank(NewSize(data, n))
  <2>1. CASE ~ IsFull(data, n)
    BY <1>2, <2>1 DEF DataOK
  <2>2. CASE IsFull(data, n)
    <3>1. z \in Seq(Byte) /\ Len(z) = NewSize(data, n)
      <4>1. z \in [1 .. NewSize(data, n) -> Byte]  BY <1>2 DEF Blank, Byte
      <4>2. NewSize(data, n) \in Nat  BY <1>2
      <4> HIDE DEF z, n
      <4> QED BY <4>1, <4>2
    <3>2. bytes \in Seq(Seq(Byte)) /\ Len(bytes) = Len(data)  BY DEF DataOK
    <3> HIDE DEF z
    <3>3. /\ Append(bytes, z) \in Seq(Seq(Byte))
          /\ Len(Append(bytes, z)) = Len(data) + 1
          /\ \A j \in 1 .. Len(data) : Append(bytes, z)[j] = bytes[j]
          /\ Append(bytes, z)[Len(data) + 1] = z
      BY <3>1, <3>2, AppendProperties
    <3>4. m = Append(bytes, z)  BY <2>2 DEF z
    <3>5. list[Len(data) + 1].size = NewSize(data, n)  BY <1>2, <2>2 DEF Chunk
    <3>6. ASSUME NEW j \in 1 .. Len(list) PROVE Len(m[j]) = list[j].size
      <4>1. CASE j = Len(data) + 1  BY <3>1, <3>3, <3>4, <3>5, <4>1
      <4>2. CASE j # Len(data) + 1
        BY <1>2, <1>3, <2>2, <3>3, <3>4, <4>2 DEF DataOK
      <4> QED BY <4>1, <4>2
    <3> QED BY <1>2, <2>2, <3>3, <3>4, <3>6
  <2> QED BY <2>1, <2>2
<1> HIDE DEF n, m, list, i
<1>5. /\ list[i] \in ChunkType /\ off \in Nat /\ off = list[i].used /\ m[i] \in Seq(Byte)
      /\ Len(m[i]) \in Nat /\ Len(m[i]) = list[i].size
      /\ off + n <= Len(m[i])
  <2>1. list[i] \in ChunkType  BY <1>2, ElementOfSeq
  <2>2. m[i] \in Seq(Byte)  BY <1>2, <1>4, ElementOfSeq
  <2>3. list[i].used \in Nat /\ list[i].size \in Nat  BY <2>1 DEF ChunkType
  <2>4. list[i].used <= list[i].size  BY <1>2 DEF ChunksOK
  <2>5. list[i].size - list[i].used >= n  BY <1>2 DEF Room
  <2>6. Len(m[i]) = list[i].size  BY <1>2, <1>4
  <2> QED BY <1>1, <2>1, <2>2, <2>3, <2>4, <2>5, <2>6
<1> HIDE DEF off
<1>n. off \in Nat /\ n \in Nat /\ Len(m[i]) \in Nat /\ off + n <= Len(m[i])
  BY <1>1, <1>5
<1>m. m[i] \in Seq(Byte)  BY <1>5
<1>r. PICK r \in (Nat \ {0}) \X Nat : r = <<i, off>>
  <2>1. i \in Nat \ {0} /\ off \in Nat  BY <1>2, <1>3, <1>5
  <2>2. <<i, off>> \in (Nat \ {0}) \X Nat  BY <2>1
  <2> QED BY <2>2, Zenon
<1>6. w \in Seq(Byte) /\ Len(w) = n  BY <1>1, LetterWithNul
<1>7. ub' = ub  BY <1>s, <1>1, <1>5, <1>6 DEF Overflow
<1> HIDE DEF w
<1>8. /\ Written(m[i], off, w) \in Seq(Byte)
      /\ Len(Written(m[i], off, w)) = Len(m[i])
      /\ \A k \in 1 .. Len(m[i]) : k <= off => Written(m[i], off, w)[k] = m[i][k]
  <2>1. /\ Written(m[i], off, w) \in Seq(Byte)
        /\ Len(Written(m[i], off, w)) = Len(m[i])
        /\ \A k \in 1 .. Len(m[i]) : ~ (off < k /\ k <= off + Len(w)) => Written(m[i], off, w)[k] = m[i][k]
    BY <1>m, <1>n, <1>6, WrittenAt
  <2> QED BY <2>1, <1>5
<1>9. /\ data' \in Seq(ChunkType)
      /\ Len(data') = Len(list)
      /\ \A j \in 1 .. Len(list) : j # i => data'[j] = list[j]
      /\ data'[i].used = off + n /\ data'[i].last = off /\ data'[i].size = list[i].size
      /\ \A j \in 1 .. Len(list) : data'[j].size = list[j].size
  <2> DEFINE c == [[list[i] EXCEPT !.last = off] EXCEPT !.used = off + n]
  <2>1. c \in ChunkType /\ c.used = off + n /\ c.last = off /\ c.size = list[i].size
    <3>1. list[i] \in ChunkType /\ off \in Nat /\ off + n \in Nat  BY <1>1, <1>5
    <3> QED BY <3>1 DEF ChunkType
  <2>2. data' = [list EXCEPT ![i] = c]
    BY <1>s, <1>2
  <2> HIDE DEF c
  <2>3. /\ data' \in Seq(ChunkType)
        /\ Len(data') = Len(list)
        /\ \A j \in 1 .. Len(list) : data'[j] = IF j = i THEN c ELSE list[j]
    BY <1>2, <2>1, <2>2, ExceptSeq
  <2> QED BY <1>2, <2>1, <2>3
<1>10. /\ bytes' \in Seq(Seq(Byte))
       /\ Len(bytes') = Len(list)
       /\ bytes'[i] = Written(m[i], off, w)
       /\ \A j \in 1 .. Len(list) : j # i => bytes'[j] = m[j]
       /\ \A j \in 1 .. Len(list) : Len(bytes'[j]) = list[j].size
  <2>1. bytes' = [m EXCEPT ![i] = Written(m[i], off, w)]  BY <1>s
  <2>2. /\ bytes' \in Seq(Seq(Byte))
        /\ Len(bytes') = Len(m)
        /\ \A j \in 1 .. Len(m) : bytes'[j] = IF j = i THEN Written(m[i], off, w) ELSE m[j]
    BY <1>2, <1>4, <1>8, <2>1, ExceptSeq
  <2>3. Len(Written(m[i], off, w)) = list[i].size  BY <1>5, <1>8
  <2> QED BY <1>2, <1>4, <2>2, <2>3
<1>11. ASSUME NEW q \in held, q[1] = i PROVE Behind(q) <= off
  <2>1. q[1] \in 1 .. Len(data) /\ Behind(q) <= data[q[1]].used  BY TextEnds
  <2>2. list[q[1]] = data[q[1]]  BY <1>2, <2>1
  <2> QED BY <1>5, <1>11, <2>1, <2>2
<1>12. ASSUME NEW q \in held
       PROVE  /\ TextAt(q)' = TextAt(q)
              /\ Behind(q)' = Behind(q)
              /\ IsText(bytes'[q[1]], q[2], TextAt(q))
              /\ q[1] \in 1 .. Len(list)
  <2>1. /\ q[1] \in 1 .. Len(data) /\ q[2] \in Nat /\ Behind(q) \in Nat
        /\ Behind(q) <= data[q[1]].used
        /\ bytes[q[1]] \in Seq(Byte) /\ Len(bytes[q[1]]) = data[q[1]].size
    BY TextEnds
  <2>2. q[1] \in 1 .. Len(list) /\ list[q[1]] = data[q[1]] /\ m[q[1]] = bytes[q[1]]
    <3>1. q[1] \in 1 .. Len(list)  BY <1>3, <2>1
    <3> QED BY <1>2, <1>4, <2>1, <3>1
  <2>3. bytes'[q[1]] \in Seq(Byte) /\ Len(bytes'[q[1]]) = Len(bytes[q[1]])
    <3>1. bytes'[q[1]] \in Seq(Byte)  BY <1>10, <2>2, ElementOfSeq
    <3> QED BY <1>10, <2>1, <2>2, <3>1
  <2>4. ASSUME NEW k \in q[2] + 1 .. Behind(q) PROVE bytes'[q[1]][k] = bytes[q[1]][k]
    <3>1. CASE q[1] # i  BY <1>10, <2>2, <3>1
    <3>2. CASE q[1] = i
      <4>0. Behind(q) <= off  BY <1>11, <3>2
      <4>1. k <= off /\ k \in 1 .. Len(m[i])  
        <5>1. q[2] \in Nat /\ Behind(q) \in Nat  BY <2>1
        <5>2. k \in Int /\ q[2] + 1 <= k /\ k <= Behind(q)  BY <2>4, <5>1
        <5> QED BY <1>n, <4>0, <5>1, <5>2
      <4> QED BY <1>8, <1>10, <2>2, <3>2, <4>1
    <3> QED BY <3>1, <3>2
  <2>5. IsText(bytes'[q[1]], q[2], TextAt(q)) /\ TextIn(bytes'[q[1]], q[2]) = TextAt(q)
    BY <2>3, <2>4, TextStays
  <2>6. TextAt(q)' = TextAt(q)  BY <2>5 DEF TextAt
  <2> QED BY <2>2, <2>5, <2>6 DEF Behind
<1>13. /\ r \in (Nat \ {0}) \X Nat /\ r[1] = i /\ r[2] = off
       /\ held' = kept \cup {r}
       /\ TextAt(r)' = s /\ Behind(r)' = off + n
       /\ IsText(bytes'[i], off, s)
  <2>1. r \in (Nat \ {0}) \X Nat /\ r[1] = i /\ r[2] = off /\ held' = kept \cup {r}  BY <1>s, <1>r
  <2>2. IsText(bytes'[i], off, s)
    <3>1. off + Len(s) + 1 <= Len(m[i])  BY <1>1, <1>n
    <3>2. IsText(Written(m[i], off, w), off, s)  BY <1>m, <1>n, <3>1, TextStored DEF w
    <3> QED BY <1>10, <3>2
  <2>3. bytes'[i] \in Seq(Byte)  BY <1>8, <1>10
  <2>4. TextIn(bytes'[i], off) = s  BY <1>5, <2>2, <2>3, TextFound
  <2>5. TextAt(r)' = s  BY <2>1, <2>4 DEF TextAt
  <2>6. Behind(r)' = off + n  BY <2>1, <2>4, <1>1, <1>5 DEF Behind, TextAt
  <2> QED BY <2>1, <2>2, <2>5, <2>6
<1>14. r \notin held
  <2>1. SUFFICES ASSUME r \in held PROVE FALSE  OBVIOUS
  <2>2. Behind(r) <= off  BY <1>11, <1>13, <2>1
  <2>3. r[2] < Behind(r) /\ Behind(r) \in Nat  BY <2>1, TextEnds
  <2> QED BY <1>5, <1>13, <2>2, <2>3
<1>15. held' \subseteq (Nat \ {0}) \X Nat
  BY <1>13 DEF DataOK
<1>16. ChunksOK(data')
  <2> SUFFICES ASSUME NEW j \in 1 .. Len(list) PROVE data'[j].used <= data'[j].size
    BY <1>9 DEF ChunksOK
  <2>1. CASE j = i  BY <1>5, <1>9, <2>1
  <2>2. CASE j # i  BY <1>2, <1>9, <2>2 DEF ChunksOK
  <2> QED BY <2>1, <2>2
<1>17. ASSUME NEW p \in held' PROVE Placed(p)'
  <2>1. CASE p = r
    <3>1. p[1] \in 1 .. Len(data')  BY <1>2, <1>9, <1>13, <2>1
    <3>2. TextAt(p)' \in Seq(Letter)  BY <1>13, <2>1
    <3>3. IsText(bytes'[p[1]], p[2], TextAt(p)')  BY <1>13, <2>1
    <3>4. Behind(p)' = data'[p[1]].used  BY <1>9, <1>13, <2>1
    <3>5. Behind(p)' <= data'[p[1]].used  BY <1>1, <1>5, <1>9, <1>13, <2>1
    <3> QED BY <3>1, <3>2, <3>3, <3>4, <3>5 DEF Placed
  <2>2. CASE p # r
    <3>1. p \in held  BY <1>13, <2>2
    <3>2. /\ TextAt(p)' = TextAt(p)
          /\ Behind(p)' = Behind(p)
          /\ IsText(bytes'[p[1]], p[2], TextAt(p))
          /\ p[1] \in 1 .. Len(list)
      BY <1>12, <3>1
    <3>3. /\ p[1] \in 1 .. Len(data) /\ p[2] \in Nat
          /\ TextAt(p) \in Seq(Letter)
          /\ Behind(p) \in Nat /\ p[2] < Behind(p) /\ Behind(p) <= data[p[1]].used
      BY <3>1, TextEnds
    <3>4. list[p[1]] = data[p[1]]  BY <1>2, <3>3
    <3>5. CASE p[1] = i
      <4>1. Behind(p) <= off  BY <1>11, <3>1, <3>5
      <4>2. Behind(p) <= data'[p[1]].used
        <5>1. data'[p[1]].used = off + n  BY <1>9, <3>5
        <5>2. Behind(p) \in Nat  BY <3>3
        <5> QED BY <1>n, <4>1, <5>1, <5>2
      <4>3. data'[p[1]].last # p[2]  BY <1>5, <1>9, <3>3, <3>5, <4>1
      <4> QED BY <1>9, <3>2, <3>3, <4>2, <4>3 DEF Placed
    <3>6. CASE p[1] # i
      <4>1. data'[p[1]] = data[p[1]]  BY <1>9, <3>2, <3>4, <3>6
      <4>2. data[p[1]].last = p[2] => Behind(p) = data[p[1]].used
        BY <3>1 DEF DataOK, StringsOK, Placed
      <4> QED BY <1>9, <3>2, <3>3, <4>1, <4>2 DEF Placed
    <3> QED BY <3>5, <3>6
  <2> QED BY <2>1, <2>2
<1>18. ASSUME NEW p \in held', NEW q \in held' PROVE p = q \/ Apart(p, q)'
  <2>1. ASSUME NEW x \in held, x[1] = i PROVE Behind(x)' <= r[2]
    BY <1>11, <1>12, <1>13, <2>1
  <2>2. CASE p \in held /\ q \in held
    <3>1. p = q \/ Apart(p, q)  BY <2>2 DEF DataOK, StringsOK
    <3>2. Behind(p)' = Behind(p) /\ Behind(q)' = Behind(q)  BY <1>12, <2>2
    <3> QED BY <3>1, <3>2 DEF Apart
  <2>3. CASE p = r /\ q \in held  BY <1>13, <2>1, <2>3 DEF Apart
  <2>4. CASE q = r /\ p \in held  BY <1>13, <2>1, <2>4 DEF Apart
  <2>5. p \in kept \cup {r} /\ q \in kept \cup {r}  BY <1>13
  <2> QED BY <2>2, <2>3, <2>4, <2>5
<1>19. StringsOK'  BY <1>17, <1>18 DEF StringsOK
<1>20. DataOK'
  BY <1>9, <1>10, <1>15, <1>16, <1>19 DEF DataOK
<1>21. /\ allocated' \in Nat
       /\ mallocs' = mallocs + (Len(data') - Len(data))
       /\ Len(data') \in Nat /\ Len(data) <= Len(data')
  <2>1. Len(data') \in Nat /\ Len(data) <= Len(data')  BY <1>3, <1>9
  <2>2. allocated' \in Nat
    <3>1. HeaderSize \in Nat /\ NewSize(data, n) \in Nat  BY <1>2, IkStackAssumption
    <3>2. allocated' = IF IsFull(data, n) THEN allocated + HeaderSize + NewSize(data, n) ELSE allocated
      BY <1>s DEF Account
    <3> QED BY <3>1, <3>2
  <2>3. mallocs' = mallocs + (Len(data') - Len(data))
    <3>1. mallocs' = IF IsFull(data, n) THEN mallocs + 1 ELSE mallocs  BY <1>s DEF Account
    <3>2. Len(data') = IF IsFull(data, n) THEN Len(data) + 1 ELSE Len(data)  BY <1>2, <1>9
    <3> QED BY <1>3, <3>1, <3>2
  <2> QED BY <2>1, <2>2, <2>3
<1>22. data' # <<>>  BY <1>2, <1>3, <1>9
<1>23. \E x \in (Nat \ {0}) \X Nat :
        /\ x \notin held
        /\ held' = kept \cup {x}
        /\ TextAt(x)' = s
        /\ \A q \in kept : TextAt(q)' = TextAt(q)
  <2>1. \A q \in kept : TextAt(q)' = TextAt(q)  BY <1>12
  <2> QED BY <1>13, <1>14, <2>1
<1>24. Charged(data, data')
  <2>1. /\ data \in Seq(ChunkType) /\ ChunksOK(data)
        /\ data' \in Seq(ChunkType) /\ Len(data') = Len(WithSpace(data, n))
        /\ \A j \in 1 .. Len(data') : data'[j].size = WithSpace(data, n)[j].size
    BY <1>9 DEF DataOK, list
  <2>2. /\ SizeOf(data) \in Nat
        /\ SizeOf(data') = IF IsFull(data, n) THEN SizeOf(data) + HeaderSize + NewSize(data, n)
                           ELSE SizeOf(data)
    BY <1>n, <2>1, SpaceAccounted
  <2>3. allocated' = IF IsFull(data, n) THEN allocated + HeaderSize + NewSize(data, n) ELSE allocated
    BY <1>s DEF Account
  <2>4. HeaderSize \in Nat /\ NewSize(data, n) \in Nat  BY <1>2, IkStackAssumption
  <2> QED BY <2>2, <2>3, <2>4 DEF Charged
<1> QED BY <1>7, <1>20, <1>21, <1>22, <1>23, <1>24 DEF Stored

\* What an append in place does, and what it leaves.
Grown(p, t) ==
    /\ data' = [data EXCEPT ![p[1]].used = @ + Len(t)]
    /\ bytes' = [bytes EXCEPT ![p[1]] = Written(@, p[2] + Len(TextAt(p)), Append(t, 0))]
    /\ ub' = ub \cup Overflow(bytes[p[1]], p[2] + Len(TextAt(p)), Append(t, 0))
    /\ held' = held

LEMMA GrowKeeps ==
    ASSUME DataOK, NEW p \in held, NEW t \in Seq(Letter), GrowsInPlace(p, t),
           Grown(p, t)
    PROVE  /\ DataOK'
           /\ ub' = ub
           /\ Len(data') = Len(data)
           /\ SizeOf(data') = SizeOf(data)
           /\ TextAt(p)' = TextAt(p) \o t
           /\ \A q \in held \ {p} : TextAt(q)' = TextAt(q)
<1> DEFINE i  == p[1]
           st == TextAt(p) \o t
           o2 == p[2] + Len(TextAt(p))
           w  == Append(t, 0)
           m2 == Written(bytes[i], o2, w)
<1>1. /\ i \in 1 .. Len(data) /\ p[2] \in Nat
      /\ TextAt(p) \in Seq(Letter) /\ Len(TextAt(p)) \in Nat
      /\ Behind(p) \in Nat
      /\ p[2] < Behind(p)
      /\ data[i] \in ChunkType
      /\ bytes[i] \in Seq(Byte)
      /\ Len(bytes[i]) = data[i].size
  BY TextEnds
<1>2. /\ Behind(p) = data[i].used /\ Behind(p) = o2 + 1
      /\ IsText(bytes[i], p[2], TextAt(p))
  BY DEF DataOK, StringsOK, Placed, GrowsInPlace, Behind
<1>3. data[i].size \in Nat /\ data[i].used \in Nat  BY <1>1 DEF ChunkType
<1>4. Len(t) \in Nat /\ o2 \in Nat  BY <1>1, LenProperties
<1>5. data[i].used + Len(t) < data[i].size
  <2>1. data[i].size - data[i].used > Len(t)  BY DEF GrowsInPlace, Room
  <2> QED BY <1>3, <1>4, <2>1
<1>a. /\ o2 \in Nat /\ Len(t) \in Nat /\ Len(bytes[i]) \in Nat /\ data[i].used \in Nat
      /\ data[i].used = o2 + 1
      /\ o2 + Len(t) + 1 < Len(bytes[i])
      /\ p[2] \in Nat /\ p[2] <= o2
  <2> HIDE DEF o2
  <2>1. data[i].used = o2 + 1  BY <1>2
  <2>2. p[2] <= o2  BY <1>1 DEF o2
  <2> QED BY <1>1, <1>3, <1>4, <1>5, <2>1, <2>2
<1>6. w \in Seq(Byte) /\ Len(w) = Len(t) + 1  BY LetterWithNul
<1>7. ub' = ub
  <2> HIDE DEF w, o2
  <2>1. o2 + Len(w) <= Len(bytes[i])  BY <1>6, <1>a
  <2>2. Overflow(bytes[i], o2, w) = {}  BY <1>a, <1>6, <2>1 DEF Overflow
  <2> QED BY <2>2 DEF Grown, w, o2
<1>8. IsText(m2, p[2], st)
  <2>1. p[2] + Len(TextAt(p)) + Len(t) + 1 <= Len(bytes[i])
    BY <1>a
  <2> QED BY <1>1, <1>2, <2>1, TextGrown
<1>9. st \in Seq(Letter) /\ Len(st) = Len(TextAt(p)) + Len(t)
  BY <1>1, ConcatProperties
<1> HIDE DEF w, st, o2
<1>10. /\ m2 \in Seq(Byte)
       /\ Len(m2) = Len(bytes[i])
       /\ \A k \in 1 .. Len(bytes[i]) : k <= o2 => m2[k] = bytes[i][k]
  <2>1. /\ m2 \in Seq(Byte)
        /\ Len(m2) = Len(bytes[i])
        /\ \A k \in 1 .. Len(bytes[i]) : ~ (o2 < k /\ k <= o2 + Len(w)) => m2[k] = bytes[i][k]
    BY <1>1, <1>4, <1>6, WrittenAt
  <2> QED BY <1>4, <2>1
<1>11. bytes' = [bytes EXCEPT ![i] = m2]  BY DEF w, o2, Grown
<1> HIDE DEF m2
<1>12. /\ bytes' \in Seq(Seq(Byte))
       /\ Len(bytes') = Len(bytes)
       /\ \A j \in 1 .. Len(bytes) : bytes'[j] = IF j = i THEN m2 ELSE bytes[j]
  <2>1. bytes \in Seq(Seq(Byte)) /\ i \in 1 .. Len(bytes)  BY <1>1 DEF DataOK
  <2> QED BY <1>10, <1>11, <2>1, ExceptSeq
<1>13. /\ data' \in Seq(ChunkType)
       /\ Len(data') = Len(data)
       /\ \A j \in 1 .. Len(data) : j # i => data'[j] = data[j]
       /\ data'[i].used = data[i].used + Len(t)
       /\ data'[i].last = data[i].last /\ data'[i].size = data[i].size
  <2> DEFINE c == [data[i] EXCEPT !.used = @ + Len(t)]
  <2>1. c \in ChunkType /\ c.used = data[i].used + Len(t) /\ c.last = data[i].last /\ c.size = data[i].size
    <3>1. data[i].used + Len(t) \in Nat  BY <1>3, <1>4
    <3> QED BY <1>1, <3>1 DEF ChunkType
  <2>2. data' = [data EXCEPT ![i] = c]  BY DEF Grown
  <2>3. data \in Seq(ChunkType)  BY DEF DataOK
  <2> HIDE DEF c
  <2>4. /\ data' \in Seq(ChunkType)
        /\ Len(data') = Len(data)
        /\ \A j \in 1 .. Len(data) : data'[j] = IF j = i THEN c ELSE data[j]
    BY <1>1, <2>1, <2>2, <2>3, ExceptSeq
  <2> QED BY <1>1, <2>1, <2>4
<1>14. Len(bytes) = Len(data)  BY DEF DataOK
<1>15. /\ TextAt(p)' = st
       /\ IsText(bytes'[i], p[2], TextAt(p)')
       /\ Behind(p)' = data'[i].used
  <2>1. bytes'[i] = m2  BY <1>1, <1>12, <1>14
  <2>2. TextIn(m2, p[2]) = st  BY <1>1, <1>8, <1>9, <1>10, TextFound DEF m2
  <2>3. TextAt(p)' = st  BY <2>1, <2>2 DEF TextAt
  <2>4. Behind(p)' = p[2] + Len(st) + 1  BY <2>1, <2>2 DEF Behind, TextAt
  <2>5. p[2] + Len(st) + 1 = data[i].used + Len(t)
    <3>1. o2 = p[2] + Len(TextAt(p))  BY DEF o2
    <3> QED BY <1>1, <1>9, <1>a, <3>1
  <2> QED BY <1>8, <1>13, <2>1, <2>3, <2>4, <2>5 DEF m2
<1>16. ASSUME NEW q \in held, q # p
       PROVE  /\ TextAt(q)' = TextAt(q)
              /\ Behind(q)' = Behind(q)
              /\ IsText(bytes'[q[1]], q[2], TextAt(q))
              /\ q[1] = i => Behind(q) <= p[2]
  <2>1. /\ q[1] \in 1 .. Len(data) /\ q[2] \in Nat /\ Behind(q) \in Nat
        /\ q[2] < Behind(q)
        /\ Behind(q) <= data[q[1]].used
        /\ bytes[q[1]] \in Seq(Byte) /\ Len(bytes[q[1]]) = data[q[1]].size
    BY TextEnds
  <2>2. ASSUME q[1] = i PROVE Behind(q) <= p[2]
    <3>1. Apart(p, q)  BY <1>16 DEF DataOK, StringsOK
    <3>2. ~ (Behind(p) <= q[2])
      <4>1. Behind(p) = data[i].used /\ Behind(q) <= data[i].used  BY <1>2, <2>1, <2>2
      <4> QED BY <1>1, <2>1, <4>1
    <3> QED BY <2>2, <3>1, <3>2 DEF Apart
  <2>3. bytes'[q[1]] \in Seq(Byte) /\ Len(bytes'[q[1]]) = Len(bytes[q[1]])
    BY <1>10, <1>12, <1>14, <2>1
  <2>4. ASSUME NEW k \in q[2] + 1 .. Behind(q) PROVE bytes'[q[1]][k] = bytes[q[1]][k]
    <3>1. CASE q[1] # i  BY <1>12, <1>14, <2>1, <3>1
    <3>2. CASE q[1] = i
      <4>3. k <= o2 /\ k \in 1 .. Len(bytes[i])
        <5>1. Behind(q) <= p[2]  BY <2>2, <3>2
        <5>2. k \in Int /\ q[2] + 1 <= k /\ k <= Behind(q)  BY <2>1, <2>4
        <5>3. q[2] \in Nat /\ Behind(q) \in Nat  BY <2>1
        <5> QED BY <1>a, <5>1, <5>2, <5>3
      <4> QED BY <1>1, <1>10, <1>12, <1>14, <3>2, <4>3
    <3> QED BY <3>1, <3>2
  <2>5. IsText(bytes'[q[1]], q[2], TextAt(q)) /\ TextIn(bytes'[q[1]], q[2]) = TextAt(q)
    BY <2>3, <2>4, TextStays
  <2>6. TextAt(q)' = TextAt(q)  BY <2>5 DEF TextAt
  <2>7. Behind(q)' = Behind(q)  BY <2>5 DEF Behind, TextAt
  <2> QED BY <2>2, <2>5, <2>6, <2>7
<1>17. ChunksOK(data')
  <2> SUFFICES ASSUME NEW j \in 1 .. Len(data) PROVE data'[j].used <= data'[j].size
    BY <1>13 DEF ChunksOK
  <2>1. CASE j = i
    <3>1. data'[i].used = data[i].used + Len(t) /\ data'[i].size = data[i].size  BY <1>13
    <3> QED BY <1>3, <1>4, <1>5, <2>1, <3>1
  <2>2. CASE j # i  BY <1>13, <2>2 DEF ChunksOK, DataOK
  <2> QED BY <2>1, <2>2
<1>18. ASSUME NEW q \in held PROVE Placed(q)'
  <2>1. CASE q = p
    <3>1. i \in 1 .. Len(data')  BY <1>1, <1>13
    <3>2. TextAt(p)' \in Seq(Letter)  BY <1>9, <1>15
    <3>3. data'[i].used \in Nat  BY <1>3, <1>4, <1>13
    <3> QED BY <1>15, <2>1, <3>1, <3>2, <3>3 DEF Placed
  <2>2. CASE q # p
    <3>1. /\ q[1] \in 1 .. Len(data) /\ q[2] \in Nat
          /\ TextAt(q) \in Seq(Letter)
          /\ Behind(q) \in Nat
          /\ Behind(q) <= data[q[1]].used
          /\ data[q[1]].last = q[2] => Behind(q) = data[q[1]].used
      BY TextEnds DEF DataOK, StringsOK, Placed
    <3>2. /\ TextAt(q)' = TextAt(q)
          /\ Behind(q)' = Behind(q)
          /\ IsText(bytes'[q[1]], q[2], TextAt(q))
          /\ q[1] = i => Behind(q) <= p[2]
      BY <1>16, <2>2
    <3>3. CASE q[1] = i
      <4>1. data'[i].used = data[i].used + Len(t) /\ data'[i].last = data[i].last  BY <1>13
      <4>2. data[i].last = p[2]  BY DEF GrowsInPlace
      <4>3. Behind(q) <= data'[q[1]].used  BY <1>3, <1>4, <3>1, <3>3, <4>1
      <4>4. q[2] # p[2]
        <5>1. q[2] < Behind(q)  BY TextEnds
        <5> QED BY <1>1, <3>1, <3>2, <3>3, <5>1
      <4> QED BY <1>13, <3>1, <3>2, <3>3, <4>1, <4>2, <4>3, <4>4 DEF Placed
    <3>4. CASE q[1] # i
      <4>1. data'[q[1]] = data[q[1]]  BY <1>13, <3>1, <3>4
      <4> QED BY <1>13, <3>1, <3>2, <4>1 DEF Placed
    <3> QED BY <3>3, <3>4
  <2> QED BY <2>1, <2>2
<1>19. ASSUME NEW q \in held, NEW r \in held PROVE q = r \/ Apart(q, r)'
  <2>1. CASE q # p /\ r # p
    <3>1. q = r \/ Apart(q, r)  BY DEF DataOK, StringsOK
    <3>2. Behind(q)' = Behind(q) /\ Behind(r)' = Behind(r)  BY <1>16, <2>1
    <3> QED BY <3>1, <3>2 DEF Apart
  <2>2. CASE q = p /\ r # p  BY <1>16, <2>2 DEF Apart
  <2>3. CASE r = p /\ q # p  BY <1>16, <2>3 DEF Apart
  <2> QED BY <2>1, <2>2, <2>3
<1>20. StringsOK'  BY <1>18, <1>19 DEF StringsOK, Grown
<1>21. DataOK'
  <2>1. \A j \in 1 .. Len(data') : Len(bytes'[j]) = data'[j].size
    BY <1>1, <1>10, <1>12, <1>13, <1>14 DEF DataOK
  <2>2. held' = held /\ held' \subseteq (Nat \ {0}) \X Nat  BY DEF DataOK, Grown
  <2> QED BY <1>12, <1>13, <1>14, <1>17, <1>20, <2>1, <2>2 DEF DataOK
<1>22. SizeOf(data') = SizeOf(data)
  <2>1. \A j \in 1 .. Len(data) : data'[j].size = data[j].size  BY <1>13
  <2>2. data \in Seq(ChunkType) /\ data' \in Seq(ChunkType) /\ Len(data') = Len(data)
    BY <1>13 DEF DataOK
  <2> QED BY <2>1, <2>2, SameSizes
<1> QED BY <1>7, <1>13, <1>15, <1>16, <1>21, <1>22 DEF st

-----------------------------------------------------------------------------
(* Blocks: what Alloc does.                                                *)

MetaOK ==
    /\ meta \in Seq(ChunkType)
    /\ ChunksOK(meta)
    /\ granted \subseteq [chunk : Nat \ {0}, off : Nat, size : BlockSizes]
    /\ BlocksOK

LEMMA BlockSizeFits ==
    ASSUME NEW n \in BlockSizes
    PROVE  /\ n \in Nat
           /\ BlockSize(n) \in Nat
           /\ n <= BlockSize(n)
           /\ BlockSize(n) % Alignment = 0
<1>1. n \in Nat /\ Alignment \in Nat  BY IkStackAssumption
<1>2. Larger(n, Alignment) \in Nat /\ n <= Larger(n, Alignment)  BY <1>1 DEF Larger
<1> QED BY <1>1, <1>2, AlignAligns DEF BlockSize

\* What a successful Alloc does.
Allocated(n) ==
    LET size == BlockSize(n)
        i    == Place(meta, size)
        list == WithSpace(meta, size)
    IN  /\ meta' = [list EXCEPT ![i].used = @ + size]
        /\ granted' = granted \cup {[chunk |-> i, off |-> list[i].used, size |-> n]}
        /\ Account(meta, size)

LEMMA AllocKeeps ==
    ASSUME MetaOK, meta # <<>>, NEW n \in BlockSizes, Allocated(n),
           allocated \in Nat, mallocs \in Nat
    PROVE  /\ MetaOK'
           /\ meta' # <<>>
           /\ allocated' \in Nat
           /\ Charged(meta, meta')
           /\ mallocs' = mallocs + (Len(meta') - Len(meta))
           /\ Len(meta') \in Nat /\ Len(meta) \in Nat /\ Len(meta) <= Len(meta')
<1> DEFINE size == BlockSize(n)
           i    == Place(meta, size)
           list == WithSpace(meta, size)
           off  == list[i].used
<1>1. n \in Nat /\ size \in Nat /\ n <= size /\ size % Alignment = 0  BY BlockSizeFits
<1> HIDE DEF size
<1>2. /\ list \in Seq(ChunkType)
      /\ ChunksOK(list)
      /\ i \in 1 .. Len(list)
      /\ Room(list[i]) >= size
      /\ Len(list) = IF IsFull(meta, size) THEN Len(meta) + 1 ELSE Len(meta)
      /\ \A j \in 1 .. Len(meta) : list[j] = meta[j]
      /\ IsFull(meta, size) => /\ i = Len(meta) + 1
                               /\ list[i] = Chunk(NewSize(meta, size))
      /\ NewSize(meta, size) \in Nat
  BY <1>1, SpaceFound DEF MetaOK
<1> HIDE DEF list, i
<1>s. /\ meta' = [list EXCEPT ![i].used = @ + size]
      /\ granted' = granted \cup {[chunk |-> i, off |-> off, size |-> n]}
      /\ Account(meta, size)
  BY DEF Allocated, size, i, list
<1>3. Len(meta) \in Nat /\ Len(list) \in Nat /\ i \in Nat \ {0} /\ Len(meta) <= Len(list)
  <2>1. Len(meta) \in Nat /\ Len(list) \in Nat  BY <1>2, LenProperties DEF MetaOK
  <2> QED BY <1>2, <2>1
<1>4. list[i] \in ChunkType /\ list[i].size \in Nat /\ off \in Nat
  <2>1. list[i] \in ChunkType  BY <1>2, ElementOfSeq
  <2> QED BY <2>1 DEF ChunkType
<1>5. off + size <= list[i].size
  <2>1. list[i].size - off >= size  BY <1>2 DEF Room
  <2> QED BY <1>1, <1>4, <2>1
<1>6. /\ meta' \in Seq(ChunkType)
      /\ Len(meta') = Len(list)
      /\ \A j \in 1 .. Len(list) : j # i => meta'[j] = list[j]
      /\ meta'[i].used = off + size /\ meta'[i].size = list[i].size
  <2> DEFINE c == [list[i] EXCEPT !.used = @ + size]
  <2>1. c \in ChunkType /\ c.used = off + size /\ c.size = list[i].size
    <3>1. off + size \in Nat  BY <1>1, <1>4
    <3> QED BY <1>4, <3>1 DEF ChunkType
  <2>2. meta' = [list EXCEPT ![i] = c]  BY <1>s
  <2> HIDE DEF c
  <2>3. /\ meta' \in Seq(ChunkType)
        /\ Len(meta') = Len(list)
        /\ \A j \in 1 .. Len(list) : meta'[j] = IF j = i THEN c ELSE list[j]
    BY <1>2, <2>1, <2>2, ExceptSeq
  <2> QED BY <1>2, <2>1, <2>3
<1>7. ASSUME NEW j \in 1 .. Len(meta), j = i PROVE meta[j].used = off
  BY <1>2, <1>7
<1>8. off % Alignment = 0
  <2>1. CASE IsFull(meta, size)
    <3>1. off = 0  BY <1>2, <2>1 DEF Chunk
    <3>2. Alignment \in Nat \ {0}  BY IkStackAssumption
    <3>3. 0 % Alignment = 0  BY <3>2
    <3> QED BY <3>1, <3>3
  <2>2. CASE ~ IsFull(meta, size)
    <3>1. i \in 1 .. Len(meta)  BY <1>2, <2>2
    <3> QED BY <1>2, <3>1 DEF MetaOK, BlocksOK
  <2> QED BY <2>1, <2>2
<1>9. PICK r \in [chunk : Nat \ {0}, off : Nat, size : BlockSizes] :
         /\ r.chunk = i /\ r.off = off /\ r.size = n
         /\ granted' = granted \cup {r}
  <2>1. [chunk |-> i, off |-> off, size |-> n] \in [chunk : Nat \ {0}, off : Nat, size : BlockSizes]
    BY <1>3, <1>4
  <2> QED BY <1>s, <2>1
<1> HIDE DEF off
<1>10. ChunksOK(meta')
  <2> SUFFICES ASSUME NEW j \in 1 .. Len(list) PROVE meta'[j].used <= meta'[j].size
    BY <1>6 DEF ChunksOK
  <2>1. CASE j = i  BY <1>5, <1>6, <2>1
  <2>2. CASE j # i  BY <1>2, <1>6, <2>2 DEF ChunksOK
  <2> QED BY <2>1, <2>2
<1>11. ASSUME NEW j \in 1 .. Len(meta') PROVE meta'[j].used % Alignment = 0
  <2>1. CASE j = i  BY <1>1, <1>4, <1>6, <1>8, <2>1, AlignedSum
  <2>2. CASE j # i
    <3>1. j \in 1 .. Len(meta)  BY <1>2, <1>3, <1>6, <2>2
    <3>2. meta'[j] = meta[j]  BY <1>2, <1>6, <2>2, <3>1
    <3> QED BY <3>1, <3>2 DEF MetaOK, BlocksOK
  <2> QED BY <2>1, <2>2
<1>12. ASSUME NEW b \in granted
       PROVE  /\ b.chunk \in 1 .. Len(meta) /\ b.off \in Nat /\ b.size \in BlockSizes
              /\ BlockSize(b.size) \in Nat
              /\ b.off % Alignment = 0
              /\ meta[b.chunk].used \in Nat
              /\ b.off + BlockSize(b.size) <= meta[b.chunk].used
  <2>1. BlockPlaced(b)  BY DEF MetaOK, BlocksOK
  <2>2. b \in [chunk : Nat \ {0}, off : Nat, size : BlockSizes]  BY DEF MetaOK
  <2>3. b.size \in BlockSizes  BY <2>2
  <2>4. BlockSize(b.size) \in Nat  BY <2>3, BlockSizeFits
  <2>5. b.chunk \in 1 .. Len(meta)  BY <2>1 DEF BlockPlaced
  <2>6. meta[b.chunk] \in ChunkType  BY <2>5, ElementOfSeq DEF MetaOK
  <2> QED BY <2>1, <2>2, <2>3, <2>4, <2>6 DEF BlockPlaced, ChunkType
<1>13. ASSUME NEW b \in granted, b.chunk = i PROVE b.off + BlockSize(b.size) <= off
  <2>1. meta[b.chunk].used = off  BY <1>7, <1>12, <1>13
  <2> QED BY <1>12, <2>1
<1>14. ASSUME NEW b \in granted' PROVE BlockPlaced(b)'
  <2>1. CASE b = r
    <3>1. r.off + BlockSize(r.size) = off + size  BY <1>9 DEF size
    <3>2. off + size <= meta'[i].used  BY <1>1, <1>4, <1>6 DEF off
    <3> QED BY <1>2, <1>6, <1>8, <1>9, <2>1, <3>1, <3>2 DEF BlockPlaced
  <2>2. CASE b # r
    <3>1. b \in granted  BY <1>9, <2>2
    <3>2. b.chunk \in 1 .. Len(meta')  BY <1>3, <1>6, <1>12, <3>1
    <3>3. b.off + BlockSize(b.size) <= meta'[b.chunk].used
      <4>1. CASE b.chunk = i
        <5>1. b.off + BlockSize(b.size) <= off  BY <1>13, <3>1, <4>1
        <5>2. meta'[b.chunk].used = off + size  BY <1>6, <4>1
        <5>3. b.off \in Nat /\ BlockSize(b.size) \in Nat /\ off \in Nat  BY <1>4, <1>12, <3>1 DEF off
        <5> QED BY <1>1, <5>1, <5>2, <5>3
      <4>2. CASE b.chunk # i
        <5>1. meta'[b.chunk] = meta[b.chunk]  BY <1>2, <1>6, <1>12, <3>1, <3>2, <4>2
        <5> QED BY <1>12, <3>1, <5>1
      <4> QED BY <4>1, <4>2
    <3> QED BY <1>12, <3>1, <3>2, <3>3 DEF BlockPlaced
  <2> QED BY <2>1, <2>2
<1>15. ASSUME NEW b \in granted', NEW c \in granted'
       PROVE  \/ b = c
              \/ b.chunk # c.chunk
              \/ b.off + BlockSize(b.size) <= c.off
              \/ c.off + BlockSize(c.size) <= b.off
  <2>1. b \in granted \cup {r} /\ c \in granted \cup {r}  BY <1>9
  <2>2. CASE b \in granted /\ c \in granted  BY <2>2 DEF MetaOK, BlocksOK
  <2>3. CASE b = r /\ c \in granted  BY <1>9, <1>13, <2>3
  <2>4. CASE c = r /\ b \in granted  BY <1>9, <1>13, <2>4
  <2> QED BY <2>1, <2>2, <2>3, <2>4
<1>16. BlocksOK'  BY <1>11, <1>14, <1>15 DEF BlocksOK
<1>17. MetaOK'
  <2>1. granted' \subseteq [chunk : Nat \ {0}, off : Nat, size : BlockSizes]
    BY <1>9 DEF MetaOK
  <2> QED BY <1>6, <1>10, <1>16, <2>1 DEF MetaOK
<1>18. allocated' \in Nat
  <2>1. HeaderSize \in Nat /\ NewSize(meta, size) \in Nat  BY <1>2, IkStackAssumption
  <2>2. allocated' = IF IsFull(meta, size) THEN allocated + HeaderSize + NewSize(meta, size) ELSE allocated
    BY <1>s DEF Account
  <2> QED BY <2>1, <2>2
<1>19. mallocs' = mallocs + (Len(meta') - Len(meta))
  <2>1. mallocs' = IF IsFull(meta, size) THEN mallocs + 1 ELSE mallocs  BY <1>s DEF Account
  <2>2. Len(meta') = IF IsFull(meta, size) THEN Len(meta) + 1 ELSE Len(meta)  BY <1>2, <1>6
  <2> QED BY <1>3, <2>1, <2>2
<1>20. meta' # <<>>  BY <1>2, <1>3, <1>6
<1>21. Charged(meta, meta')
  <2>1. /\ meta \in Seq(ChunkType) /\ ChunksOK(meta)
        /\ meta' \in Seq(ChunkType) /\ Len(meta') = Len(WithSpace(meta, size))
        /\ \A j \in 1 .. Len(meta') : meta'[j].size = WithSpace(meta, size)[j].size
    BY <1>6 DEF MetaOK, list
  <2>2. /\ SizeOf(meta) \in Nat
        /\ SizeOf(meta') = IF IsFull(meta, size) THEN SizeOf(meta) + HeaderSize + NewSize(meta, size)
                           ELSE SizeOf(meta)
    BY <1>1, <2>1, SpaceAccounted
  <2>3. allocated' = IF IsFull(meta, size) THEN allocated + HeaderSize + NewSize(meta, size) ELSE allocated
    BY <1>s DEF Account
  <2>4. HeaderSize \in Nat /\ NewSize(meta, size) \in Nat  BY <1>2, IkStackAssumption
  <2> QED BY <2>2, <2>3, <2>4 DEF Charged
<1> QED BY <1>3, <1>6, <1>17, <1>18, <1>19, <1>20, <1>21

-----------------------------------------------------------------------------
(* The inductive invariant.                                                *)

\* What iks_stack_stat calls allocated is what the chunks and the stack take.
Accounted == alive => allocated = StackSize + SizeOf(meta) + SizeOf(data)

IInv ==
    /\ alive \in BOOLEAN /\ calls \in 0 .. MaxCalls
    /\ alive => meta # <<>> /\ data # <<>>
    /\ DataOK
    /\ MetaOK
    /\ allocated \in Nat /\ mallocs \in Nat
    /\ NoOverflow
    /\ mallocs = IF alive THEN Freed ELSE 0
    /\ Accounted

LEMMA InitIInv == Init => IInv
<1> SUFFICES ASSUME Init PROVE IInv  OBVIOUS
<1>1. PICK mc \in ChunkSizes, dc \in ChunkSizes :
        LET ms == Align(Larger(mc, MinChunk))
            ds == Align(Larger(dc, MinChunk))
        IN  /\ meta = <<Chunk(ms)>> /\ data = <<Chunk(ds)>>
            /\ bytes = <<Blank(ds)>>
            /\ allocated = StackSize + ms + ds + 2 * HeaderSize
  BY DEF Init
<1> DEFINE ms == Align(Larger(mc, MinChunk))
           ds == Align(Larger(dc, MinChunk))
<1>2. ms \in Nat /\ ds \in Nat
  <2>1. MinChunk \in Nat /\ mc \in Nat /\ dc \in Nat
    BY IkStackAssumption DEF MinChunk
  <2>2. Larger(mc, MinChunk) \in Nat /\ Larger(dc, MinChunk) \in Nat  BY <2>1 DEF Larger
  <2> QED BY <2>2, AlignAligns
<1> HIDE DEF ms, ds
<1>3. /\ meta = <<Chunk(ms)>> /\ data = <<Chunk(ds)>> /\ bytes = <<Blank(ds)>>
      /\ allocated = StackSize + ms + ds + 2 * HeaderSize
  BY <1>1 DEF ms, ds
<1>4. Chunk(ms) \in ChunkType /\ Chunk(ds) \in ChunkType
  BY <1>2 DEF Chunk, ChunkType
<1>5. meta \in Seq(ChunkType) /\ data \in Seq(ChunkType) /\ Len(meta) = 1 /\ Len(data) = 1
  BY <1>3, <1>4
<1>6. Blank(ds) \in Seq(Byte) /\ Len(Blank(ds)) = ds
  <2>1. Blank(ds) \in [1 .. ds -> Byte]  BY <1>2 DEF Blank, Byte
  <2> QED BY <1>2, <2>1
<1>7. ChunksOK(meta) /\ ChunksOK(data)
  BY <1>2, <1>3 DEF ChunksOK, Chunk
<1>8. /\ bytes \in Seq(Seq(Byte)) /\ Len(bytes) = Len(data)
      /\ \A i \in 1 .. Len(data) : Len(bytes[i]) = data[i].size
  BY <1>3, <1>6 DEF Chunk
<1>9. held = {} /\ granted = {} /\ ub = {} /\ alive = TRUE /\ calls = 0 /\ mallocs = 1
  BY DEF Init
<1>10. DataOK  BY <1>5, <1>7, <1>8, <1>9 DEF DataOK, StringsOK
<1>11. MetaOK
  <2>1. Alignment \in Nat \ {0}  BY IkStackAssumption
  <2>2. 0 % Alignment = 0  BY <2>1
  <2>3. \A i \in 1 .. Len(meta) : meta[i].used % Alignment = 0
    BY <1>3, <2>2 DEF Chunk
  <2> QED BY <1>5, <1>7, <1>9, <2>3 DEF MetaOK, BlocksOK
<1>12. allocated \in Nat  BY <1>2, <1>3, IkStackAssumption
<1>13. mallocs = Freed  BY <1>5, <1>9 DEF Freed
<1>14. mallocs \in Nat /\ mallocs = IF alive THEN Freed ELSE 0  BY <1>9, <1>13
<1>15. alive \in BOOLEAN /\ calls \in 0 .. MaxCalls  BY <1>9, IkStackAssumption
<1>16. meta # <<>> /\ data # <<>>  BY <1>5
<1>17. Accounted
  <2>1. ASSUME NEW k \in Nat PROVE SizeOf(<<Chunk(k)>>) = HeaderSize + k
    <3>1. PICK h \in Nat : h = HeaderSize  BY IkStackAssumption
    <3>2. PICK s : s = [i \in 1 .. Len(<<Chunk(k)>>) |-> HeaderSize + <<Chunk(k)>>[i].size]  OBVIOUS
    <3>3. s = <<h + k>>
      <4>1. Len(<<Chunk(k)>>) = 1 /\ <<Chunk(k)>>[1].size = k  BY DEF Chunk
      <4>2. s = [i \in 1 .. 1 |-> h + k]  BY <3>1, <3>2, <4>1
      <4> QED BY <4>2
    <3>4. PICK f : Sums(f, s, 1) /\ SumOf(s) = f[1]
      <4>1. Len(s) = 1  BY <3>3
      <4> QED BY <4>1, SumFound
    <3>5. f[0] = 0 /\ f[1] = f[0] + s[1]  BY <3>4 DEF Sums
    <3>6. SumOf(s) = h + k  BY <3>1, <3>3, <3>4, <3>5
    <3> QED BY <3>1, <3>2, <3>6 DEF SizeOf
  <2>2. SizeOf(meta) = HeaderSize + ms /\ SizeOf(data) = HeaderSize + ds  BY <1>2, <1>3, <2>1
  <2>3. StackSize \in Nat /\ HeaderSize \in Nat  BY IkStackAssumption
  <2> QED BY <1>2, <1>3, <2>2, <2>3 DEF Accounted
<1> QED BY <1>9, <1>10, <1>11, <1>12, <1>14, <1>15, <1>16, <1>17 DEF IInv, NoOverflow

\* A call that charges what it adds keeps the account.
LEMMA AccountKept ==
    ASSUME IInv, alive, allocated' \in Nat,
           \/ Charged(meta, meta') /\ UNCHANGED data
           \/ Charged(data, data') /\ UNCHANGED meta
    PROVE  Accounted'
<1>1. SizeOf(meta) \in Nat /\ SizeOf(data) \in Nat
  BY UsedFits DEF IInv, MetaOK, DataOK
<1>2. allocated \in Nat /\ StackSize \in Nat /\ allocated = StackSize + SizeOf(meta) + SizeOf(data)
  BY IkStackAssumption DEF IInv, Accounted
<1>s. \A a, b, c, m, d, x \in Nat :
        /\ a = c + m + d /\ b + m = a + x => b = c + x + d
        /\ a = c + m + d /\ b + d = a + x => b = c + m + x
  OBVIOUS
<1>3. CASE Charged(meta, meta') /\ UNCHANGED data
  <2>1. /\ SizeOf(meta') \in Nat /\ SizeOf(data') = SizeOf(data)
        /\ allocated' + SizeOf(meta) = allocated + SizeOf(meta')
    BY <1>3 DEF Charged
  <2>2. allocated' = StackSize + SizeOf(meta') + SizeOf(data')
    BY <1>1, <1>2, <1>s, <2>1
  <2> QED BY <2>2 DEF Accounted
<1>4. CASE Charged(data, data') /\ UNCHANGED meta
  <2>1. /\ SizeOf(data') \in Nat /\ SizeOf(meta') = SizeOf(meta)
        /\ allocated' + SizeOf(data) = allocated + SizeOf(data')
    BY <1>4 DEF Charged
  <2>2. allocated' = StackSize + SizeOf(meta') + SizeOf(data')
    BY <1>1, <1>2, <1>s, <2>1
  <2> QED BY <2>2 DEF Accounted
<1> QED BY <1>3, <1>4

\* What the user may pass: texts of the pool, and strings held.
LEMMA TextsAreLetters == \A t \in Texts : t \in Seq(Letter)
<1> SUFFICES ASSUME NEW t \in Texts PROVE t \in Seq(Letter)  OBVIOUS
<1>1. t \in Seq(Nat \ {0})  BY IkStackAssumption
<1> QED BY <1>1, SeqMonotonic DEF Letter

LEMMA AllocStep ==
    ASSUME IInv, NEW n \in BlockSizes, Alloc(n)
    PROVE  IInv'
<1>1. /\ alive /\ alive' = alive /\ calls' \in 0 .. MaxCalls
      /\ UNCHANGED <<data, bytes, held, ub>>
  BY IkStackAssumption DEF Alloc, Call, IInv
<1>2. DataOK'
  BY <1>1 DEF IInv, DataOK, StringsOK, Placed, Apart, Behind, TextAt
<1>3. CASE Allocated(n)
  <2>1. /\ MetaOK' /\ meta' # <<>> /\ allocated' \in Nat
        /\ Charged(meta, meta')
        /\ mallocs' = mallocs + (Len(meta') - Len(meta))
        /\ Len(meta') \in Nat /\ Len(meta) \in Nat /\ Len(meta) <= Len(meta')
    BY <1>1, <1>3, AllocKeeps DEF IInv
  <2>2. mallocs' \in Nat /\ mallocs' = Freed'
    <3>1. Len(data) \in Nat  BY LenProperties DEF IInv, DataOK
    <3>2. mallocs = Freed /\ mallocs \in Nat  BY <1>1 DEF IInv
    <3> QED BY <1>1, <2>1, <3>1, <3>2 DEF Freed
  <2>3. Accounted'  BY <1>1, <2>1, AccountKept
  <2> QED BY <1>1, <1>2, <2>1, <2>2, <2>3 DEF IInv, NoOverflow
<1>4. CASE UNCHANGED <<meta, granted, allocated, mallocs>>
  <2>1. MetaOK'  BY <1>4 DEF IInv, MetaOK, BlocksOK, BlockPlaced
  <2>2. Accounted'  BY <1>1, <1>4 DEF IInv, Accounted
  <2> QED BY <1>1, <1>2, <1>4, <2>1, <2>2 DEF IInv, NoOverflow, Freed
<1> QED BY <1>3, <1>4 DEF Alloc, Allocated

\* Strdup, and Strcat when the string moves.
LEMMA StoreStep ==
    ASSUME IInv, NEW s \in Seq(Letter), NEW kept \in SUBSET held,
           Call, Store(s, kept), UNCHANGED <<meta, granted>>
    PROVE  /\ IInv'
           /\ Stored(s, kept) \/ UNCHANGED <<data, bytes, ub, held, allocated, mallocs>>
<1>1. alive /\ alive' = alive /\ calls' \in 0 .. MaxCalls
  BY IkStackAssumption DEF Call, IInv
<1>2. MetaOK'  BY DEF IInv, MetaOK, BlocksOK, BlockPlaced
<1>3. Stored(s, kept) \/ UNCHANGED <<data, bytes, ub, held, allocated, mallocs>>
  BY <1>1, StoreKeeps DEF IInv
<1>4. CASE Stored(s, kept)
  <2>1. mallocs' \in Nat /\ mallocs' = Freed'
    <3>1. Len(data) \in Nat /\ Len(meta) \in Nat  BY LenProperties DEF IInv, DataOK, MetaOK
    <3>2. mallocs = Freed /\ mallocs \in Nat  BY <1>1 DEF IInv
    <3>3. /\ mallocs' = mallocs + (Len(data') - Len(data))
          /\ Len(data') \in Nat /\ Len(data) <= Len(data')
      BY <1>4 DEF Stored
    <3> QED BY <3>1, <3>2, <3>3 DEF Freed
  <2>2. Accounted'
    <3>1. allocated' \in Nat /\ Charged(data, data')  BY <1>4 DEF Stored
    <3> QED BY <1>1, <3>1, AccountKept
  <2> QED BY <1>1, <1>2, <1>4, <2>1, <2>2 DEF IInv, NoOverflow, Stored
<1>5. CASE UNCHANGED <<data, bytes, ub, held, allocated, mallocs>>
  <2>1. DataOK'
    BY <1>5 DEF IInv, DataOK, StringsOK, Placed, Apart, Behind, TextAt
  <2>2. Accounted'  BY <1>1, <1>5 DEF IInv, Accounted
  <2> QED BY <1>1, <1>2, <1>5, <2>1, <2>2 DEF IInv, NoOverflow, Freed
<1> QED BY <1>3, <1>4, <1>5

LEMMA GrowStep ==
    ASSUME IInv, NEW p \in held, NEW t \in Texts, Strcat(p, t), GrowsInPlace(p, t)
    PROVE  /\ IInv'
           /\ held' = held
           /\ TextAt(p)' = TextAt(p) \o t
           /\ \A q \in held \ {p} : TextAt(q)' = TextAt(q)
<1>1. /\ alive /\ alive' = alive /\ calls' \in 0 .. MaxCalls
      /\ UNCHANGED <<meta, granted, allocated, mallocs>>
      /\ Grown(p, t)
  BY IkStackAssumption DEF Strcat, Call, IInv, Grown
<1>2. MetaOK'  BY <1>1 DEF IInv, MetaOK, BlocksOK, BlockPlaced
<1>3. /\ DataOK' /\ ub' = ub /\ Len(data') = Len(data) /\ SizeOf(data') = SizeOf(data)
      /\ TextAt(p)' = TextAt(p) \o t
      /\ \A q \in held \ {p} : TextAt(q)' = TextAt(q)
  BY <1>1, TextsAreLetters, GrowKeeps DEF IInv
<1>4. Len(data) # 0 /\ data' # <<>>
  <2>1. Len(data) # 0  BY <1>1, LenProperties, EmptySeq DEF IInv, DataOK
  <2> QED BY <1>3, <2>1
<1>5. Accounted'  BY <1>1, <1>3 DEF IInv, Accounted
<1> QED BY <1>1, <1>2, <1>3, <1>4, <1>5 DEF IInv, NoOverflow, Freed, Grown

LEMMA DeleteStep ==
    ASSUME IInv, Delete
    PROVE  IInv'
<1>1. DataOK'
  <2>1. data' = <<>> /\ bytes' = <<>> /\ held' = {}  BY DEF Delete
  <2> QED BY <2>1 DEF DataOK, StringsOK, ChunksOK
<1>2. MetaOK'
  <2>1. meta' = <<>> /\ granted' = {}  BY DEF Delete
  <2> QED BY <2>1 DEF MetaOK, BlocksOK, ChunksOK
<1>3. mallocs' = 0
  <2>1. mallocs = Freed /\ mallocs \in Nat /\ mallocs' = mallocs - Freed  BY DEF Delete, IInv
  <2> QED BY <2>1
<1>4. /\ alive' = FALSE /\ allocated' \in Nat /\ ub' = {}
      /\ calls' \in 0 .. MaxCalls
  BY DEF Delete, IInv, NoOverflow
<1>5. mallocs' \in Nat /\ mallocs' = IF alive' THEN Freed' ELSE 0  BY <1>3, <1>4
<1>6. Accounted'  BY <1>4 DEF Accounted
<1> QED BY <1>1, <1>2, <1>4, <1>5, <1>6 DEF IInv, NoOverflow

LEMMA AppendLetters ==
    ASSUME IInv, NEW p \in held, NEW t \in Texts
    PROVE  TextAt(p) \o t \in Seq(Letter)
<1>1. TextAt(p) \in Seq(Letter)  BY DEF IInv, DataOK, StringsOK, Placed
<1> QED BY <1>1, TextsAreLetters, ConcatProperties

LEMMA NextIInv == IInv /\ [Next]_vars => IInv'
<1> SUFFICES ASSUME IInv, [Next]_vars PROVE IInv'  OBVIOUS
<1>1. ASSUME NEW n \in BlockSizes, Alloc(n) PROVE IInv'
  BY <1>1, AllocStep
<1>2. ASSUME NEW t \in Texts, Strdup(t) PROVE IInv'
  BY <1>2, TextsAreLetters, StoreStep DEF Strdup
<1>3. ASSUME NEW p \in held, NEW t \in Texts, Strcat(p, t) PROVE IInv'
  <2>1. CASE GrowsInPlace(p, t)  BY <1>3, <2>1, GrowStep
  <2>2. CASE ~ GrowsInPlace(p, t)
    <3>1. /\ Call /\ Store(TextAt(p) \o t, held \ {p})
          /\ UNCHANGED <<meta, granted>>
      BY <1>3, <2>2 DEF Strcat
    <3> QED BY <1>3, <3>1, AppendLetters, StoreStep
  <2> QED BY <2>1, <2>2
<1>4. ASSUME Delete PROVE IInv'  BY <1>4, DeleteStep
<1>5. CASE UNCHANGED vars
  <2> USE <1>5 DEF vars
  <2>1. DataOK'
    BY DEF IInv, DataOK, StringsOK, Placed, Apart, Behind, TextAt
  <2>2. MetaOK'  BY DEF IInv, MetaOK, BlocksOK, BlockPlaced
  <2>3. Accounted'  BY DEF IInv, Accounted
  <2> QED BY <2>1, <2>2, <2>3 DEF IInv, NoOverflow, Freed
<1> QED BY <1>1, <1>2, <1>3, <1>4, <1>5 DEF Next

LEMMA Invariant == Spec => []IInv
<1> QED BY InitIInv, NextIInv, PTL DEF Spec

-----------------------------------------------------------------------------
(* The theorems.                                                           *)

\* Every variable keeps its type: the chunks and their memory agree on how many
\* there are and how large each is (find_space, iks_stack_new).
THEOREM TypeCorrect == Spec => []TypeOK
<1>1. IInv => TypeOK
  BY DEF IInv, DataOK, MetaOK, TypeOK, NoOverflow, Byte
<1> QED BY <1>1, Invariant, PTL

\* No copy and no append writes past the end of its chunk, the NUL included
\* (iks_stack_strdup, iks_stack_strcat).
THEOREM MemorySafe == Spec => []NoOverflow
<1>1. IInv => NoOverflow  BY DEF IInv
<1> QED BY <1>1, Invariant, PTL

\* Blocks for structures are aligned, lie inside their chunk and share no byte
\* with each other (iks_stack_alloc).
THEOREM BlocksSeparate == Spec => []BlocksApart
<1>1. ASSUME IInv, NEW b \in granted
      PROVE  /\ b.chunk \in 1 .. Len(meta) /\ b.off \in Nat /\ b.size \in Nat
             /\ b.off % Alignment = 0
             /\ BlockSize(b.size) \in Nat /\ b.size <= BlockSize(b.size)
             /\ b.off + b.size <= meta[b.chunk].size
  <2>1. b \in [chunk : Nat \ {0}, off : Nat, size : BlockSizes]  BY <1>1 DEF IInv, MetaOK
  <2>2. b.off \in Nat /\ b.size \in BlockSizes  BY <2>1
  <2>3. BlockPlaced(b)  BY <1>1 DEF IInv, MetaOK, BlocksOK
  <2>4. b.size \in Nat /\ BlockSize(b.size) \in Nat /\ b.size <= BlockSize(b.size)
    BY <2>2, BlockSizeFits
  <2>5. b.chunk \in 1 .. Len(meta)  BY <2>3 DEF BlockPlaced
  <2>6. /\ meta[b.chunk].used \in Nat /\ meta[b.chunk].size \in Nat
        /\ meta[b.chunk].used <= meta[b.chunk].size
    <3>1. meta[b.chunk] \in ChunkType  BY <1>1, <2>5, ElementOfSeq DEF IInv, MetaOK
    <3> QED BY <1>1, <2>5, <3>1 DEF IInv, MetaOK, ChunksOK, ChunkType
  <2>7. b.off % Alignment = 0 /\ b.off + BlockSize(b.size) <= meta[b.chunk].used
    BY <2>3 DEF BlockPlaced
  <2> QED BY <2>2, <2>4, <2>5, <2>6, <2>7
<1>2. ASSUME IInv, NEW b \in granted, NEW c \in granted \ {b}
      PROVE  b.chunk # c.chunk \/ b.off + b.size <= c.off \/ c.off + c.size <= b.off
  <2>1. \/ b.chunk # c.chunk
        \/ b.off + BlockSize(b.size) <= c.off
        \/ c.off + BlockSize(c.size) <= b.off
    BY <1>2 DEF IInv, MetaOK, BlocksOK
  <2>2. /\ b.off \in Nat /\ b.size \in Nat /\ BlockSize(b.size) \in Nat /\ b.size <= BlockSize(b.size)
        /\ c.off \in Nat /\ c.size \in Nat /\ BlockSize(c.size) \in Nat /\ c.size <= BlockSize(c.size)
    BY <1>1, <1>2
  <2> QED BY <2>1, <2>2
<1>3. IInv => BlocksApart
  BY <1>1, <1>2 DEF BlocksApart
<1> QED BY <1>3, Invariant, PTL

\* Deleting the stack frees each of its heap blocks once (iks_stack_delete).
THEOREM NothingLeaks == Spec => []AllFreed
<1>1. IInv => AllFreed  BY DEF IInv, AllFreed
<1> QED BY <1>1, Invariant, PTL

\* What iks_stack_stat reports as allocated is what the heap gave, whichever
\* allocations failed, and what it reports as used lies in it.
THEOREM StatisticsExact == Spec => []StatExact
<1>1. ASSUME IInv PROVE StatExact
  <2>1. /\ UsedOf(meta) \in Nat /\ SizeOf(meta) \in Nat /\ UsedOf(meta) <= SizeOf(meta)
        /\ UsedOf(data) \in Nat /\ SizeOf(data) \in Nat /\ UsedOf(data) <= SizeOf(data)
    BY <1>1, UsedFits DEF IInv, MetaOK, DataOK
  <2>2. StackSize \in Nat  BY IkStackAssumption
  <2>3. SUFFICES ASSUME alive PROVE allocated = StackSize + SizeOf(meta) + SizeOf(data) /\ Used <= allocated
    BY DEF StatExact
  <2>4. allocated = StackSize + SizeOf(meta) + SizeOf(data)  BY <1>1, <2>3 DEF IInv, Accounted
  <2> QED BY <2>1, <2>2, <2>4 DEF Used
<1> QED BY <1>1, Invariant, PTL

\* The object stack implements the pool of strings: no copy, append, block,
\* chunk or failed allocation changes the text of a string it is not about
\* (iks_stack_strdup, iks_stack_strcat).
THEOREM KeepsStrings == Spec => ImplementsPool
<1> DEFINE strings == [p \in held |-> TextAt(p)]
<1>1. Init => Pool!Init
  <2> SUFFICES ASSUME Init PROVE Pool!Init  OBVIOUS
  <2>1. held = {} /\ alive = TRUE  BY DEF Init
  <2> QED BY <2>1 DEF Pool!Init
<1>2. ASSUME IInv, [Next]_vars PROVE [Pool!Next]_(Pool!vars)
  <2>1. ASSUME alive, alive' = alive, NEW t \in Texts, Stored(t, held)
        PROVE  Pool!Next
    <3>1. PICK r \in (Nat \ {0}) \X Nat :
            /\ r \notin held /\ held' = held \cup {r}
            /\ TextAt(r)' = t
            /\ \A q \in held : TextAt(q)' = TextAt(q)
      BY <2>1 DEF Stored
    <3>2. Pool!Copy
      BY <3>1 DEF Pool!Copy, Pool!New, Pool!Kept
    <3> QED BY <2>1, <3>2 DEF Pool!Next
  <2>2. ASSUME alive, alive' = alive, NEW p \in held, NEW t \in Texts,
               Stored(TextAt(p) \o t, held \ {p})
        PROVE  Pool!Next
    <3>1. PICK r \in (Nat \ {0}) \X Nat :
            /\ r \notin held /\ held' = (held \ {p}) \cup {r}
            /\ TextAt(r)' = TextAt(p) \o t
            /\ \A q \in held \ {p} : TextAt(q)' = TextAt(q)
      BY <2>2 DEF Stored
    <3>2. Pool!Extend(p)
      BY <3>1 DEF Pool!Extend, Pool!New, Pool!Kept
    <3> QED BY <2>2, <3>2 DEF Pool!Next
  <2>3. ASSUME alive, alive' = alive, NEW p \in held, NEW t \in Texts,
               held' = held, TextAt(p)' = TextAt(p) \o t,
               \A q \in held \ {p} : TextAt(q)' = TextAt(q)
        PROVE  Pool!Next
    <3>1. Pool!Extend(p)
      BY <2>3 DEF Pool!Extend, Pool!New, Pool!Kept
    <3> QED BY <2>3, <3>1 DEF Pool!Next
  <2>4. ASSUME UNCHANGED <<bytes, held, alive>> PROVE UNCHANGED Pool!vars
    BY <2>4 DEF Pool!vars, TextAt
  <2>5. ASSUME NEW n \in BlockSizes, Alloc(n) PROVE UNCHANGED Pool!vars
    BY <2>4, <2>5 DEF Alloc, Call
  <2>6. ASSUME NEW t \in Texts, Strdup(t) PROVE [Pool!Next]_(Pool!vars)
    <3>1. /\ Call /\ Store(t, held) /\ UNCHANGED <<meta, granted>>
          /\ alive /\ alive' = alive
      BY <2>6 DEF Strdup, Call
    <3>2. Stored(t, held) \/ UNCHANGED <<data, bytes, ub, held, allocated, mallocs>>
      BY <1>2, <3>1, TextsAreLetters, StoreStep
    <3> QED BY <2>1, <2>4, <3>1, <3>2
  <2>7. ASSUME NEW p \in held, NEW t \in Texts, Strcat(p, t) PROVE [Pool!Next]_(Pool!vars)
    <3>1. Call /\ alive /\ alive' = alive  BY <2>7 DEF Strcat, Call
    <3>2. CASE GrowsInPlace(p, t)
      BY <1>2, <2>3, <2>7, <3>1, <3>2, GrowStep
    <3>3. CASE ~ GrowsInPlace(p, t)
      <4>1. Store(TextAt(p) \o t, held \ {p}) /\ UNCHANGED <<meta, granted>>
        BY <2>7, <3>3 DEF Strcat
      <4>2. \/ Stored(TextAt(p) \o t, held \ {p})
            \/ UNCHANGED <<data, bytes, ub, held, allocated, mallocs>>
        BY <1>2, <3>1, <4>1, AppendLetters, StoreStep
      <4> QED BY <2>2, <2>4, <3>1, <4>2
    <3> QED BY <3>2, <3>3
  <2>8. ASSUME Delete PROVE Pool!Next
    <3>1. alive /\ alive' = FALSE /\ held' = {}  BY <2>8 DEF Delete
    <3> QED BY <3>1 DEF Pool!Next, Pool!Delete
  <2>9. CASE UNCHANGED vars  BY <2>4, <2>9 DEF vars
  <2> QED BY <1>2, <2>5, <2>6, <2>7, <2>8, <2>9 DEF Next
<1> QED BY <1>1, <1>2, Invariant, PTL DEF Spec, ImplementsPool, Pool!Spec
=============================================================================
