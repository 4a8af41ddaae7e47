------------------------------ MODULE Filter ------------------------------
(***************************************************************************)
(* The packet filter of src/src/filter.c.  Rules are records of a heap in  *)
(* the order they were made, in a doubly linked list from first (rules) to *)
(* last (last_rule).  iks_filter_packet stops where it calls a hook: what  *)
(* the hook does are actions, and Pass and Eat are its return.             *)
(***************************************************************************)
EXTENDS Links, SequencesExt

CONSTANTS
    Packets,       \* functions from kinds of criteria to values, or NoValue
    ArgLists,      \* what iks_filter_add_rule is given: sequences of kind and value
    Hooks,         \* hook functions
    RemovesAndPasses,   \* a hook that removed its own rule may return IKS_FILTER_PASS
    MaxDepth,      \* bound: calls of iks_filter_packet inside each other
    MaxRules,      \* bound: rules ever made
    MaxPackets     \* bound: packets ever filtered

Kinds == {"ID", "TYPE", "SUBTYPE", "FROM", "PARTIAL", "NS"}

ASSUME FilterAssumption ==
    /\ \A args \in ArgLists : args \in Seq({c \in ToSet(args) : c.kind \in Kinds})
    /\ RemovesAndPasses \in BOOLEAN
    /\ {MaxDepth, MaxRules, MaxPackets} \subseteq Nat

VARIABLES
    heap,      \* the rules
    first, last,
    frames,    \* calls of iks_filter_packet: their packet and max_rule, whose hook runs
    packets,   \* packets filtered so far
    ub         \* undefined behaviour

vars == <<heap, first, last, frames, packets, ub>>

NoValue == "NULL"    \* a pointer to a string that is not there

-----------------------------------------------------------------------------
(* Rules.                                                                  *)

\* IKS_RULE_ID and the others.
Bit(kind) == CASE kind = "ID"      -> 1
               [] kind = "TYPE"    -> 2
               [] kind = "SUBTYPE" -> 4
               [] kind = "FROM"    -> 8
               [] kind = "PARTIAL" -> 16
               [] kind = "NS"      -> 32

\* Where the value of a kind is kept: both kinds of sender in the same place.
Field(kind) == IF kind = "PARTIAL" THEN "FROM" ELSE kind

\* Zeroed, but for the hook; args is kept for the mapping below only.
Rule(hook, args) ==
    [next |-> NULL, prev |-> NULL, hook |-> hook, args |-> args, freed |-> FALSE,
     rules |-> 0, score |-> 0, value |-> [k \in Kinds |-> NoValue]]

\* A freed rule: nothing in it can be relied on.
Gone(r) == [Rule(r.hook, <<>>) EXCEPT !.freed = TRUE]

NewRule(hook, args) ==
    LET told[n \in 0 .. Len(args)] ==
            IF n = 0 THEN Rule(hook, args)
            ELSE [told[n - 1] EXCEPT !.rules = @ + Bit(args[n].kind),
                                     !.value = [@ EXCEPT ![Field(args[n].kind)] = args[n].value]]
    IN  told[Len(args)]

Asks(r, kind) == (r.rules \div Bit(kind)) % 2 = 1

Points(kind) == CASE kind = "TYPE"                -> 1
                  [] kind = "SUBTYPE"             -> 2
                  [] kind = "ID"                  -> 16
                  [] kind = "NS"                  -> 4
                  [] kind \in {"FROM", "PARTIAL"} -> 8

\* iks_strcmp finds NULL different from everything.
Fits(r, p, kind) == p[kind] # NoValue /\ r.value[Field(kind)] = p[kind]

Worth(r) ==
    LET for(kind) == IF Asks(r, kind) THEN Points(kind) ELSE 0
    IN  for("TYPE") + for("SUBTYPE") + for("ID") + for("NS") + for("FROM") + for("PARTIAL")

Score(r, p) == IF \A k \in Kinds : Asks(r, k) => Fits(r, p, k) THEN Worth(r) ELSE 0

-----------------------------------------------------------------------------
(* The list.                                                               *)

List == [heap |-> heap, first |-> first, last |-> last, ub |-> ub]

\* iks_filter_remove_rule.
UnlinkedKeepingFirst(l, x) ==
    LET r == l.heap[x]
    IN  [heap  |-> [Bypassed(l.heap, x) EXCEPT ![x] = Gone(r)],
         first |-> l.first,
         last  |-> IF l.last = x THEN r.prev ELSE l.last,
         ub    |-> l.ub \cup (IF r.freed THEN {"rule freed twice"} ELSE {})]
UnlinkedKeepingLast(l, x) ==
    LET r == l.heap[x]
    IN  [heap  |-> [Bypassed(l.heap, x) EXCEPT ![x] = Gone(r)],
         first |-> IF l.first = x THEN r.next ELSE l.first,
         last  |-> l.last,
         ub    |-> l.ub \cup (IF r.freed THEN {"rule freed twice"} ELSE {})]
Unlinked(l, x) ==
    LET r == l.heap[x]
    IN  [heap  |-> [Bypassed(l.heap, x) EXCEPT ![x] = Gone(r)],
         first |-> IF l.first = x THEN r.next ELSE l.first,
         last  |-> IF l.last = x THEN r.prev ELSE l.last,
         ub    |-> l.ub \cup (IF r.freed THEN {"rule freed twice"} ELSE {})]

Becomes(l) == heap' = l.heap /\ first' = l.first /\ last' = l.last /\ ub' = l.ub

-----------------------------------------------------------------------------
(* iks_filter_packet.                                                      *)

\* The first of the rules with the highest score, if that is not zero.
BestNewest(h, s) ==
    LET max[n \in 0 .. Len(s)] ==
            IF n = 0 THEN NULL
            ELSE IF h[s[n]].score >= (IF max[n - 1] = NULL THEN 1 ELSE h[max[n - 1]].score)
                 THEN s[n] ELSE max[n - 1]
    IN  max[Len(s)]
Best(h, s) ==
    LET max[n \in 0 .. Len(s)] ==
            IF n = 0 THEN NULL
            ELSE IF h[s[n]].score > (IF max[n - 1] = NULL THEN 0 ELSE h[max[n - 1]].score)
                 THEN s[n] ELSE max[n - 1]
    IN  max[Len(s)]

\* The hook of the best rule is called, or the function returns.
Continue(outer, p, h, s) ==
    /\ heap' = h
    /\ frames' = IF Best(h, s) = NULL THEN outer ELSE Append(outer, [packet |-> p, max |-> Best(h, s)])

Freed(s) == \E i \in 1 .. Len(s) : heap[s[i]].freed

Filter(p) ==
    LET s == Chain(heap, first, "next")
        h == [x \in 1 .. Len(heap) |->
                IF x \in ToSet(s) THEN [heap[x] EXCEPT !.score = Score(heap[x], p)] ELSE heap[x]]
    IN  /\ packets < MaxPackets /\ Len(frames) < MaxDepth
        /\ packets' = packets + 1
        /\ Continue(frames, p, h, s)
        /\ ub' = ub \cup (IF Freed(s) THEN {"freed rule in the list"} ELSE {})
        /\ UNCHANGED <<first, last>>

\* max_rule->score is written after the hook has returned.
Pass ==
    LET s == Chain(heap, first, "next")
        f == frames[Len(frames)]
    IN  /\ frames # <<>>
        /\ RemovesAndPasses \/ ~heap[f.max].freed
        /\ Continue(Front(frames), f.packet, [heap EXCEPT ![f.max].score = 0], s)
        /\ ub' = ub \cup (IF heap[f.max].freed THEN {"score of a freed rule"} ELSE {})
                    \cup (IF Freed(s) THEN {"freed rule in the list"} ELSE {})
        /\ UNCHANGED <<first, last, packets>>

Eat == frames # <<>> /\ frames' = Front(frames) /\ UNCHANGED <<heap, first, last, packets, ub>>

-----------------------------------------------------------------------------
(* Calls of the application, from outside or from a hook.                  *)

Live == {x \in 1 .. Len(heap) : ~heap[x].freed}

AddRule(hook, args) ==
    LET r == NewRule(hook, args)
        x == Len(heap) + 1
        h == Append(heap, [r EXCEPT !.prev = last])
    IN  /\ Len(heap) < MaxRules
        /\ first' = IF first = NULL THEN x ELSE first
        /\ heap' = IF last = NULL THEN h ELSE [h EXCEPT ![last].next = x]
        /\ last' = x
        /\ UNCHANGED <<frames, packets, ub>>

RemoveRule(x) == Becomes(Unlinked(List, x)) /\ UNCHANGED <<frames, packets>>

RemoveHook(hook) ==
    LET s == Chain(heap, first, "next")
        after[n \in 0 .. Len(s)] ==
            IF n = 0 THEN List
            ELSE IF heap[s[n]].hook = hook THEN Unlinked(after[n - 1], s[n]) ELSE after[n - 1]
    IN  Becomes(after[Len(s)]) /\ UNCHANGED <<frames, packets>>

\* The filter and its rules are freed; an empty list stands for no filter.
Delete ==
    LET s == Chain(heap, first, "next")
    IN  /\ frames = <<>> /\ s # <<>>
        /\ heap' = [x \in 1 .. Len(heap) |->
                      IF x \in ToSet(s) THEN Gone(heap[x]) ELSE heap[x]]
        /\ first' = NULL /\ last' = NULL
        /\ ub' = ub \cup (IF Freed(s) THEN {"rule freed twice"} ELSE {})
        /\ UNCHANGED <<frames, packets>>

Init ==
    /\ heap = <<>> /\ first = NULL /\ last = NULL
    /\ frames = <<>> /\ packets = 0 /\ ub = {}

Next ==
    \/ \E p \in Packets : Filter(p)
    \/ Pass \/ Eat
    \/ \E hook \in Hooks : RemoveHook(hook) \/ \E args \in ArgLists : AddRule(hook, args)
    \/ \E x \in Live : RemoveRule(x)
    \/ Delete

Spec == Init /\ [][Next]_vars

-----------------------------------------------------------------------------
(* Properties.                                                             *)

InList == Chain(heap, first, "next")
Running == frames # <<>>

Added(x) == [id |-> x, wants |-> ToSet(heap[x].args), hook |-> heap[x].hook]

Promise == INSTANCE Routing WITH
    Ids     <- 1 .. MaxRules,
    Wishes  <- {ToSet(args) : args \in ArgLists},
    rules   <- {Added(x) : x \in ToSet(InList)},
    routed  <- IF Running THEN {frames[1].packet} ELSE {},
    pending <- IF Running THEN {x \in ToSet(InList) : heap[x].score > 0} \ {frames[1].max} ELSE {},
    running <- IF Running THEN frames[1].max ELSE NULL

TypeOK ==
    /\ \A x \in 1 .. Len(heap) :
        /\ {heap[x].next, heap[x].prev} \subseteq 0 .. Len(heap)
        /\ heap[x].hook \in Hooks /\ heap[x].freed \in BOOLEAN
        /\ heap[x].score \in 0 .. 39 /\ heap[x].rules \in Nat
    /\ {first, last} \subseteq 0 .. Len(heap)
    /\ \A i \in 1 .. Len(frames) : frames[i].packet \in Packets /\ frames[i].max \in 1 .. Len(heap)
    /\ packets \in 0 .. MaxPackets

\* The hooks of the matching rules are called for a packet, the best rule first
\* and each rule once, whatever rules the hooks add and remove meanwhile
\* (iks_filter_packet and the score it leaves in the rules).
ImplementsRouting == Promise!Spec

\* From either end the list has the rules that are not removed, in the order they
\* were added (iks_filter_add_rule, iks_filter_remove_rule).
ListInOrder ==
    /\ ToSet(InList) = Live
    /\ \A i, j \in 1 .. Len(InList) : i < j => InList[i] < InList[j]
    /\ Reverse(Chain(heap, last, "prev")) = InList

\* No rule is freed twice or looked at after it was freed, by hooks that remove
\* rules and by the loop that goes on behind them (iks_filter_packet).
NoUseOfFreed == ub = {}

\* A hook is called only with packets that match its rule, also when a hook
\* filters another packet (iks_filter_packet overwrites the scores).
CalledIfMatches == \A i \in 1 .. Len(frames) : Score(heap[frames[i].max], frames[i].packet) > 0
=============================================================================
