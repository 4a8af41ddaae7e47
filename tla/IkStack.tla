------------------------------ MODULE IkStack ------------------------------
(***************************************************************************)
(* The object stack of src/src/ikstack.c, the allocator behind every XML   *)
(* tree, filter and JID: a list of chunks for structures (meta) and one    *)
(* for strings (data), each chunk filled from its beginning.  The memory   *)
(* of the data chunks is modelled byte by byte, so that a string the user  *)
(* holds is what a C program would read behind its pointer.                *)
(***************************************************************************)
EXTENDS Integers, Sequences

CONSTANTS
    Alignment,    \* DEFAULT_ALIGNMENT
    StackSize,    \* sizeof (ikstack)
    HeaderSize,   \* sizeof (ikschunk)
    ChunkSizes,   \* arguments of iks_stack_new
    BlockSizes,   \* arguments of iks_stack_alloc
    Texts,        \* strings copied and appended
    MallocMayFail,
    MaxCalls      \* bound: calls made on the stack

ASSUME IkStackAssumption ==
    /\ Alignment \in Nat \ {0}
    /\ StackSize \in Nat /\ HeaderSize \in Nat
    /\ ChunkSizes \subseteq Nat /\ BlockSizes \subseteq Nat
    /\ Texts \subseteq Seq(Nat \ {0})
    /\ MallocMayFail \in BOOLEAN
    /\ MaxCalls \in Nat

VARIABLES
    alive,       \* iks_stack_delete was not called
    meta, data,  \* the chunks, in the order of their next pointers
    bytes,       \* contents of the data chunks
    allocated,   \* as iks_stack_stat reports it
    mallocs,     \* blocks of the heap that belong to the stack
    granted,     \* blocks of structures handed out
    held,        \* strings the user may use: <<chunk, offset>>
    ub,          \* writes past the end of a chunk
    calls

vars == <<alive, meta, data, bytes, allocated, mallocs, granted, held, ub, calls>>

NoLast == -1     \* (size_t) -1
Junk == -1       \* memory that was never written

Larger(x, y) == IF x < y THEN y ELSE x

Align(n) == IF n % Alignment = 0 THEN n ELSE n + (Alignment - (n % Alignment))

MinChunk == Alignment * 8

Chunk(size) == [size |-> size, used |-> 0, last |-> NoLast]
Blank(size) == [k \in 1 .. size |-> Junk]

-----------------------------------------------------------------------------
(* find_space: the first chunk with enough room, or a new one behind the   *)
(* last, twice as large as that one unless more is needed.                 *)

Room(c) == c.size - c.used

Fitting(list, n) == {i \in 1 .. Len(list) : Room(list[i]) >= n}

IsFull(list, n) == Fitting(list, n) = {}

Place(list, n) ==
    IF IsFull(list, n) THEN Len(list) + 1
    ELSE CHOOSE i \in Fitting(list, n) : \A j \in Fitting(list, n) : i <= j

NewSize(list, n) == Larger(2 * list[Len(list)].size, n)

WithSpace(list, n) ==
    IF IsFull(list, n) THEN Append(list, Chunk(NewSize(list, n))) ELSE list

MayFail(list, n) == MallocMayFail /\ IsFull(list, n)

AccountPayload(list, n) ==
    /\ allocated' = IF IsFull(list, n) THEN allocated + NewSize(list, n) ELSE allocated
    /\ mallocs' = IF IsFull(list, n) THEN mallocs + 1 ELSE mallocs

\* What the allocation of a new chunk is accounted as.
Account(list, n) ==
    /\ allocated' = IF IsFull(list, n) THEN allocated + HeaderSize + NewSize(list, n) ELSE allocated
    /\ mallocs' = IF IsFull(list, n) THEN mallocs + 1 ELSE mallocs

-----------------------------------------------------------------------------
(* Memory of the data chunks.                                              *)

\* s written at an offset of a chunk's memory.
Written(m, off, s) ==
    [k \in 1 .. Len(m) |-> IF off < k /\ k <= off + Len(s) THEN s[k - off] ELSE m[k]]

Overflow(m, off, s) == IF off + Len(s) > Len(m) THEN {"overflow"} ELSE {}

\* The string behind an offset ends before the first NUL.
Zeros(m, off) == {k \in off + 1 .. Len(m) : m[k] = 0}
EndOf(m, off) == CHOOSE k \in Zeros(m, off) : \A j \in Zeros(m, off) : k <= j
TextIn(m, off) == IF Zeros(m, off) = {} THEN <<>> ELSE SubSeq(m, off + 1, EndOf(m, off) - 1)

TextAt(p) == TextIn(bytes[p[1]], p[2])

NeedTooLittle(s) == Len(s)
Need(s) == Len(s) + 1

\* A string put behind everything else in the first chunk with room for it.
Store(s, kept) ==
    LET n    == Need(s)
        i    == Place(data, n)
        list == WithSpace(data, n)
        m    == IF IsFull(data, n) THEN Append(bytes, Blank(NewSize(data, n))) ELSE bytes
        off  == list[i].used
    IN  \/ /\ data' = [list EXCEPT ![i].last = off, ![i].used = off + n]
           /\ bytes' = [m EXCEPT ![i] = Written(m[i], off, Append(s, 0))]
           /\ ub' = ub \cup Overflow(m[i], off, Append(s, 0))
           /\ held' = kept \cup {<<i, off>>}
           /\ Account(data, n)
        \/ /\ MayFail(data, n)
           /\ UNCHANGED <<data, bytes, ub, held, allocated, mallocs>>

-----------------------------------------------------------------------------
(* The operations.                                                         *)

\* iks_stack_new.
Init ==
    /\ alive = TRUE
    /\ \E m, d \in ChunkSizes :
        LET ms == Align(Larger(m, MinChunk))
            ds == Align(Larger(d, MinChunk))
        IN  /\ meta = <<Chunk(ms)>> /\ data = <<Chunk(ds)>>
            /\ bytes = <<Blank(ds)>>
            /\ allocated = StackSize + ms + ds + 2 * HeaderSize
    /\ mallocs = 1
    /\ granted = {} /\ held = {} /\ ub = {} /\ calls = 0

Call == alive /\ calls < MaxCalls /\ calls' = calls + 1 /\ UNCHANGED alive

UnalignedSize(n) == Larger(n, Alignment)
BlockSize(n) == Align(Larger(n, Alignment))

\* iks_stack_alloc.
Alloc(n) ==
    /\ Call
    /\ LET size == BlockSize(n)
           i    == Place(meta, size)
           list == WithSpace(meta, size)
       IN  \/ /\ meta' = [list EXCEPT ![i].used = @ + size]
              /\ granted' = granted \cup {[chunk |-> i, off |-> list[i].used, size |-> n]}
              /\ Account(meta, size)
           \/ /\ MayFail(meta, size)
              /\ UNCHANGED <<meta, granted, allocated, mallocs>>
    /\ UNCHANGED <<data, bytes, held, ub>>

\* iks_stack_strdup, also iks_stack_strcat with no old string.
Strdup(t) == Call /\ Store(t, held) /\ UNCHANGED <<meta, granted>>

\* The old string is the last of its chunk, and what follows it fits.
GrowsAnywhere(p, t) == Room(data[p[1]]) > Len(t)
GrowsInPlace(p, t) == data[p[1]].last = p[2] /\ Room(data[p[1]]) > Len(t)

\* iks_stack_strcat.
Strcat(p, t) ==
    /\ Call
    /\ LET i == p[1]
       IN IF GrowsInPlace(p, t)
          THEN /\ data' = [data EXCEPT ![i].used = @ + Len(t)]
               /\ bytes' = [bytes EXCEPT ![i] = Written(@, p[2] + Len(TextAt(p)), Append(t, 0))]
               /\ ub' = ub \cup Overflow(bytes[i], p[2] + Len(TextAt(p)), Append(t, 0))
               /\ UNCHANGED <<held, allocated, mallocs>>
          ELSE Store(TextAt(p) \o t, held \ {p})
    /\ UNCHANGED <<meta, granted>>

FreedFromHead == Len(meta) + Len(data)
\* Both loops start behind the first chunk, which belongs to the first block.
Freed == (Len(meta) - 1) + (Len(data) - 1) + 1

\* iks_stack_delete.
Delete ==
    /\ alive /\ alive' = FALSE
    /\ mallocs' = mallocs - Freed
    /\ meta' = <<>> /\ data' = <<>> /\ bytes' = <<>>
    /\ granted' = {} /\ held' = {}
    /\ UNCHANGED <<allocated, ub, calls>>

Next == \/ \E n \in BlockSizes : Alloc(n)
        \/ \E t \in Texts : Strdup(t)
        \/ \E p \in held, t \in Texts : Strcat(p, t)
        \/ Delete

Spec == Init /\ [][Next]_vars

\* iks_stack_stat: what it reports as used.
SumOf(s) ==
    LET sum[n \in 0 .. Len(s)] == IF n = 0 THEN 0 ELSE sum[n - 1] + s[n]
    IN  sum[Len(s)]
UsedOf(list) == SumOf([i \in 1 .. Len(list) |-> list[i].used])
Used == UsedOf(meta) + UsedOf(data)

-----------------------------------------------------------------------------
(* Properties.                                                             *)

ChunkType == [size : Nat, used : Nat, last : {NoLast} \cup Nat]

\* Chunks are filled up to a point inside them, and the last string of a data
\* chunk ends there (find_space, used and last of ikschunk).
TypeOK ==
    /\ alive \in BOOLEAN /\ calls \in 0 .. MaxCalls
    /\ meta \in Seq(ChunkType) /\ data \in Seq(ChunkType)
    /\ alive => meta # <<>> /\ data # <<>>
    /\ bytes \in Seq(Seq(Nat \cup {Junk}))
    /\ Len(bytes) = Len(data)
    /\ \A i \in 1 .. Len(data) : Len(bytes[i]) = data[i].size
    /\ allocated \in Nat /\ mallocs \in Nat
    /\ granted \subseteq [chunk : Nat \ {0}, off : Nat, size : BlockSizes]
    /\ held \subseteq (Nat \ {0}) \X Nat
    /\ ub \subseteq {"overflow"}

\* No string is written past the end of its chunk (iks_stack_strdup,
\* iks_stack_strcat: the NUL needs its byte too).
NoOverflow == ub = {}

\* "Allocated space is aligned on platform's default alignment boundary": the
\* blocks of iks_stack_alloc lie inside their chunk, aligned, and no two of
\* them share a byte.
BlocksApart ==
    \A b \in granted :
        /\ b.chunk \in 1 .. Len(meta)
        /\ b.off % Alignment = 0
        /\ b.off + b.size <= meta[b.chunk].size
        /\ \A c \in granted \ {b} :
            b.chunk # c.chunk \/ b.off + b.size <= c.off \/ c.off + c.size <= b.off

\* What iks_stack_stat calls allocated is what was allocated, and everything
\* used lies in it, whichever allocations failed.
SizeOf(list) == SumOf([i \in 1 .. Len(list) |-> HeaderSize + list[i].size])
StatExact ==
    alive => /\ allocated = StackSize + SizeOf(meta) + SizeOf(data)
             /\ Used <= allocated

\* "Gives all memory associated with object stack to the system", and none of
\* it twice (iks_stack_delete).
AllFreed == ~alive => mallocs = 0

\* A string keeps its text until it is appended to, and the result of an append
\* is the old text followed by the new one, whether it grew in place or moved,
\* and whatever shares the chunk with it (iks_stack_strdup, iks_stack_strcat).
Pool == INSTANCE StringPool WITH strings <- [p \in held |-> TextAt(p)]
ImplementsPool == Pool!Spec
=============================================================================
