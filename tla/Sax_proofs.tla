----------------------------- MODULE Sax_proofs -----------------------------
(***************************************************************************)
(* The memory of the SAX parser is safe for every document, every way of   *)
(* cutting it, every stack size and every failing allocation but one: the  *)
(* growth of the attribute array, which leaves attmax too large (see the   *)
(* run sax_grow_nomem).  The user is assumed to reset the parser after an  *)
(* error (the property SilentAfterError of Sax does not hold).             *)
(***************************************************************************)
EXTENDS Sax, SequenceTheorems, TLAPS

-----------------------------------------------------------------------------
(* The inductive invariant.                                                *)

\* The parser may be given more data.
Working == phase # "deleted" /\ ret = "OK"

StackFits == Len(stack) <= stackMax

ArrayFits == atts = <<>> \/ (Len(atts) = 2 * attmax /\ attmax >= AttStep)

\* Between the first byte of an attribute's name and its closing quote.
InAttribute == \/ context \in {"ATTRIBUTE_1", "VALUE", "VALUE_APOS", "VALUE_QUOT"}
               \/ context = "WHITESPACE" /\ oldcontext = "ATTRIBUTE_1"
\* Behind a closing quote.
BehindAttribute == \/ context = "ATTRIBUTE_2"
                   \/ context = "WHITESPACE" /\ oldcontext = "ATTRIBUTE_2"
\* Before the first attribute.
BeforeAttributes == \/ context \in {"TAG_START", "TAG"}
                    \/ context = "WHITESPACE" /\ oldcontext \in {"TAG_END", "ATTRIBUTE"}

ContextOK ==
    /\ context = "ENTITY" => Len(entity) <= 7
    /\ context = "WHITESPACE" =>
         oldcontext \in {"TAG_END", "ATTRIBUTE", "ATTRIBUTE_1", "ATTRIBUTE_2"}
    /\ context = "ATTRIBUTE" /\ attcur # 0 => In("ATTRIBUTE") /\ Char \notin {SLASH, GT}

\* Attributes are open only inside a tag, in a part of the array that leaves
\* room for the next pair and for the NULL behind it.
AttsOK ==
    /\ attcur % 2 = 0
    /\ attflag => atts # <<>>
    /\ attcur # 0 => attflag /\ attcur < Len(atts)
    /\ BeforeAttributes => attcur = 0
    /\ InAttribute => attflag /\ attcur + 2 < Len(atts)
    /\ BehindAttribute => attflag /\ attcur < Len(atts)
    /\ context = "TAG_END" /\ attcur # 0 => atts[attcur + 1] = NULL

\* What has been read of the tag is there as strings.
StringsOK ==
    /\ context \in InsideTag \cup {"TAG_START"} => tagName \in 0 .. Len(stack)
    /\ context \in InsideTag \ {"TAG"} => CString(stack, tagName)
    /\ \A i \in 1 .. attcur : CString(stack, atts[i])
    /\ context = "ATTRIBUTE_1" => atts[attcur + 1] \in 0 .. Len(stack)
    /\ InAttribute /\ context # "ATTRIBUTE_1" => CString(stack, atts[attcur + 1])
    /\ context \in {"VALUE_APOS", "VALUE_QUOT"} => atts[attcur + 2] \in 0 .. Len(stack)

\* Only inside a tag does a buffer hold bytes for the stack.
NothingPending == stackOld # NoStackOld => phase = "core" /\ context \in InsideTag

IInv ==
    /\ TypeOK
    /\ NothingPending
    /\ ub = {}
    /\ phase = "core" => ret = "OK"
    /\ phase # "core" => len = 0
    /\ StackFits
    /\ ArrayFits
    /\ CleanBetweenTags
    /\ Working => ContextOK /\ AttsOK /\ StringsOK

-----------------------------------------------------------------------------
(* The growth of the stack.                                                *)

\* STACK_PUSH leaves room for what it pushes, whatever the sizes are.
LEMMA RoomForFits ==
    ASSUME NEW max \in Nat, NEW top \in 0 .. max, NEW n \in Nat
    PROVE  RoomFor(max, top, n) \in Nat /\ RoomFor(max, top, n) >= top + n
BY DEF RoomFor, Enlarged

\* STACK_PUSH_END leaves room for the NUL.
LEMMA RoomForEndFits ==
    ASSUME NEW max \in Nat, NEW top \in 0 .. max
    PROVE  RoomForEnd(max, top) \in Nat /\ RoomForEnd(max, top) >= top + 1
BY DEF RoomForEnd, Enlarged


\* The pending bytes are bytes of the document.
LEMMA PendingType ==
    ASSUME TypeOK
    PROVE  Pending \in Seq(Byte)
<1>1. CASE stackOld = NoStackOld
  BY <1>1 DEF Pending
<1>2. CASE stackOld # NoStackOld
  <2> DEFINE lo == fed + stackOld + 1
             hi == fed + pos
  <2>1. doc \in Seq(Byte) /\ lo \in 1 .. hi /\ hi <= Len(doc) /\ hi \in Nat
    BY <1>2, SaxAssumption DEF TypeOK, NoStackOld
  <2>2. \A i \in lo .. hi : doc[i] \in Byte
    BY <2>1, ElementOfSeq
  <2> HIDE DEF lo, hi
  <2>3. SubSeq(doc, lo, hi) \in Seq(Byte)
    BY <2>1, <2>2, SubSeqProperties
  <2> QED BY <1>2, <2>3 DEF Pending, lo, hi
<1> QED BY <1>1, <1>2

\* What a push leaves on the stack: the old content, more bytes, within the size.
Extends(o) ==
    /\ o.done \in BOOLEAN
    /\ o.stack \in Seq(Byte) /\ o.max \in Nat /\ Len(o.stack) <= o.max
    /\ Len(stack) <= Len(o.stack)
    /\ \A i \in 1 .. Len(stack) : o.stack[i] = stack[i]

LEMMA PushedFacts ==
    ASSUME TypeOK, StackFits
    PROVE  /\ stack \o Pending \in Seq(Byte)
           /\ Len(stack \o Pending) = Len(stack) + Len(Pending)
           /\ Len(Pending) \in Nat /\ Len(stack) \in Nat
           /\ \A i \in 1 .. Len(stack) : (stack \o Pending)[i] = stack[i]
           /\ FlushMax \in Nat /\ FlushMax >= Len(stack \o Pending)
<1>1. stack \in Seq(Byte) /\ Pending \in Seq(Byte) /\ stackMax \in Nat
  BY PendingType DEF TypeOK
<1>2. Len(Pending) \in Nat /\ Len(stack) \in 0 .. stackMax
  BY <1>1, LenProperties DEF StackFits
<1>3. /\ stack \o Pending \in Seq(Byte)
      /\ Len(stack \o Pending) = Len(stack) + Len(Pending)
      /\ \A i \in 1 .. Len(stack) : (stack \o Pending)[i] = stack[i]
  BY <1>1, <1>2, ConcatProperties
<1>4. FlushMax \in Nat /\ FlushMax >= Len(stack) + Len(Pending)
  <2>1. CASE stackOld = NoStackOld
    BY <2>1, <1>1, <1>2 DEF FlushMax, Pending
  <2>2. CASE stackOld # NoStackOld
    BY <2>2, <1>1, <1>2, RoomForFits DEF FlushMax
  <2> QED BY <2>1, <2>2
<1> QED BY <1>1, <1>2, <1>3, <1>4

LEMMA FlushFacts ==
    ASSUME TypeOK, StackFits, NEW o \in Flush
    PROVE  Extends(o)
<1>1. CASE o = Outcome(TRUE, stack \o Pending, FlushMax)
  BY <1>1, PushedFacts DEF Outcome, Extends
<1>2. CASE o = Outcome(FALSE, stack, stackMax)
  BY <1>2 DEF Outcome, Extends, TypeOK, StackFits
<1> QED BY <1>1, <1>2 DEF Flush, FlushFailures

LEMMA TerminateFacts ==
    ASSUME TypeOK, StackFits, NEW o \in Terminate
    PROVE  /\ Extends(o)
           /\ o.done => Len(stack) < Len(o.stack) /\ o.stack[Len(o.stack)] = 0
<1> DEFINE s == stack \o Pending
           t == s \o <<0>>
<1>1. s \in Seq(Byte) /\ <<0>> \in Seq(Byte) /\ Len(s) \in Nat /\ Len(<<0>>) = 1
  BY PushedFacts DEF Byte
<1>2. CASE o = Outcome(TRUE, t, TermMax)
  <2>1. /\ s \o <<0>> \in Seq(Byte) /\ Len(s \o <<0>>) = Len(s) + 1
        /\ \A i \in 1 .. Len(s) + 1 : (s \o <<0>>)[i] = IF i <= Len(s) THEN s[i] ELSE <<0>>[i - Len(s)]
    BY <1>1, ConcatProperties
  <2>2. TermMax \in Nat /\ TermMax >= Len(s) + 1
    BY PushedFacts, RoomForEndFits DEF TermMax
  <2>3. t[Len(s) + 1] = 0
    BY <2>1, <1>1
  <2>4. \A i \in 1 .. Len(stack) : t[i] = stack[i]
    BY <2>1, PushedFacts
  <2>5. Len(stack) \in Nat /\ Len(stack) <= Len(s)
    BY PushedFacts
  <2> HIDE DEF s, t
  <2>6. t \in Seq(Byte) /\ Len(t) = Len(s) + 1
    BY <2>1 DEF t
  <2>7. o.done = TRUE /\ o.stack = t /\ o.max = TermMax
    BY <1>2 DEF Outcome
  <2>8. Len(t) <= TermMax /\ Len(stack) < Len(t)
    BY <2>2, <2>5, <2>6, <1>1
  <2>9. Extends(o)
    <3>1. o.done \in BOOLEAN /\ o.stack \in Seq(Byte) /\ o.max \in Nat
      BY <2>2, <2>6, <2>7
    <3>2. Len(o.stack) <= o.max /\ Len(stack) <= Len(o.stack)
      BY <2>5, <2>6, <2>7, <2>8, <1>1
    <3>3. \A i \in 1 .. Len(stack) : o.stack[i] = stack[i]
      BY <2>4, <2>7
    <3> QED BY <3>1, <3>2, <3>3 DEF Extends
  <2>10. o.stack[Len(o.stack)] = 0
    BY <2>3, <2>6, <2>7
  <2> QED BY <2>7, <2>8, <2>9, <2>10
<1>3. CASE o = Outcome(FALSE, s, FlushMax)
  BY <1>3, PushedFacts DEF Outcome, Extends
<1>4. CASE o = Outcome(FALSE, stack, stackMax)
  BY <1>4 DEF Outcome, Extends, TypeOK, StackFits
<1>5. \/ o = Outcome(TRUE, t, TermMax)
      \/ o = Outcome(FALSE, s, FlushMax)
      \/ o = Outcome(FALSE, stack, stackMax)
  BY Zenon DEF Terminate, FlushFailures
<1> QED BY <1>2, <1>3, <1>4, <1>5

Pointer == {NULL, DANGLING} \cup Nat

LEMMA MovedFacts ==
    ASSUME TypeOK
    PROVE  /\ Moved(atts) \in Seq(Pointer) /\ Len(Moved(atts)) = Len(atts)
           /\ attflag => Moved(atts) = atts
<1>1. atts \in Seq(Pointer) /\ Len(atts) \in Nat /\ attflag \in BOOLEAN
  BY LenProperties DEF TypeOK, Pointer
<1>2. CASE attflag
  BY <1>1, <1>2 DEF Moved
<1>3. CASE ~attflag
  <2>1. \A i \in 1 .. Len(atts) : atts[i] \in Pointer
    BY <1>1, ElementOfSeq
  <2>2. Moved(atts) = [i \in 1 .. Len(atts) |-> IF atts[i] >= 0 THEN DANGLING ELSE atts[i]]
    BY <1>3 DEF Moved
  <2>3. Moved(atts) \in [1 .. Len(atts) -> Pointer]
    BY <2>1, <2>2 DEF Pointer
  <2> QED BY <1>1, <1>3, <2>2, <2>3
<1> QED BY <1>1, <1>2, <1>3

\* The stack after a push, as the rest of the invariant needs to know it.
Grown == /\ stack' \in Seq(Byte) /\ stackMax' \in Nat /\ StackFits'
         /\ Len(stack) <= Len(stack')
         /\ \A i \in 1 .. Len(stack) : stack'[i] = stack[i]
         /\ tagName' = tagName
         /\ atts' \in Seq(Pointer) /\ Len(atts') = Len(atts)
         /\ attflag => atts' = atts

LEMMA StoreFacts ==
    ASSUME TypeOK, StackFits, NEW o, Extends(o), Store(o)
    PROVE  /\ Grown
           /\ ub' \subseteq ub \cup {"atts"}
           /\ ub = {} /\ (attflag => 2 * attmax <= Len(atts)) => ub' = {}
<1>1. /\ stack' = o.stack /\ stackMax' = o.max /\ tagName' = tagName
      /\ Len(o.stack) <= o.max
  BY DEF Store, Extends
<1>2. stack' \in Seq(Byte) /\ stackMax' \in Nat /\ StackFits'
  BY <1>1 DEF Extends, StackFits
<1>3. /\ Len(stack) <= Len(stack')
      /\ \A i \in 1 .. Len(stack) : stack'[i] = stack[i]
  BY <1>1 DEF Extends
<1>4. /\ atts' \in Seq(Pointer) /\ Len(atts') = Len(atts)
      /\ attflag => atts' = atts
  BY MovedFacts DEF Store, TypeOK, Pointer
<1>5. ub' = ub \cup (IF o.max # stackMax /\ attflag /\ 2 * attmax > Len(atts)
                     THEN {"atts"} ELSE {})
  <2>1. ~(Len(o.stack) > o.max)
    BY <1>1 DEF Extends
  <2> QED BY <2>1 DEF Store
<1>6. attmax \in Nat /\ Len(atts) \in Nat
  BY LenProperties DEF TypeOK
<1>7. ub' \subseteq ub \cup {"atts"}
  BY <1>5
<1>8. ub = {} /\ (attflag => 2 * attmax <= Len(atts)) => ub' = {}
  BY <1>5, <1>6
<1> QED BY <1>1, <1>2, <1>3, <1>4, <1>7, <1>8 DEF Grown

\* A string on the stack stays one when the stack grows, ...
LEMMA StringKept ==
    ASSUME NEW s \in Seq(Byte), NEW t \in Seq(Byte), Len(s) <= Len(t),
           \A i \in 1 .. Len(s) : t[i] = s[i],
           NEW p \in Int, CString(s, p)
    PROVE  CString(t, p)
<1>1. PICK k \in p + 1 .. Len(s) : s[k] = 0 /\ p >= 0
  BY DEF CString, Ends
<1>2. Len(s) \in Nat /\ Len(t) \in Nat
  BY LenProperties
<1>3. k \in p + 1 .. Len(t) /\ t[k] = 0
  BY <1>1, <1>2
<1> QED BY <1>1, <1>3 DEF CString, Ends

\* ... and what was being collected becomes one when its NUL is pushed.
LEMMA StringMade ==
    ASSUME NEW s \in Seq(Byte), NEW t \in Seq(Byte), NEW p \in 0 .. Len(s),
           Len(s) < Len(t), t[Len(t)] = 0
    PROVE  CString(t, p)
<1>1. Len(s) \in Nat /\ Len(t) \in Nat
  BY LenProperties
<1>2. Len(t) \in p + 1 .. Len(t) /\ p >= 0
  BY <1>1
<1> QED BY <1>2 DEF CString, Ends

\* A string begins inside the stack.
LEMMA StringInside ==
    ASSUME NEW s \in Seq(Byte), NEW p \in Int, CString(s, p)
    PROVE  p \in 0 .. Len(s) /\ p # NULL
BY LenProperties DEF CString, Ends, NULL

-----------------------------------------------------------------------------
(* Types.                                                                  *)

\* The byte under the loop of sax_core is a byte of the document.
LEMMA CharType ==
    ASSUME TypeOK, Round
    PROVE  /\ Char \in Byte
           /\ pos \in Nat /\ pos < len /\ pos + 1 \in 0 .. len
           /\ stackOld \in {NoStackOld} \cup (0 .. len)
<1>1. doc \in Seq(Byte) /\ fed + pos + 1 \in 1 .. Len(doc)
  BY SaxAssumption DEF TypeOK, Round
<1>2. Char \in Byte
  BY <1>1, ElementOfSeq DEF Char
<1> QED BY <1>2 DEF TypeOK, Round

USE DEF NoStackOld

LocalsOK ==
    /\ phase \in {"caller", "core", "deleted"} /\ ret \in Results
    /\ doc \in Docs /\ fed \in Nat /\ len \in Nat /\ fed + len <= Len(doc)
    /\ pos \in 0 .. len /\ old \in 0 .. len
    /\ stackOld \in {NoStackOld} \cup (0 .. len) /\ stackOld < pos
    /\ nrBytes \in Nat /\ nrLines \in Nat /\ resets \in 0 .. MaxResets

GrammarOK ==
    /\ context \in Contexts /\ oldcontext \in Contexts
    /\ tagtype \in {"OPEN", "CLOSE", "SINGLE"}

HeapOK ==
    /\ stack \in Seq(Byte) /\ stackMax \in Nat /\ tagName \in {NULL} \cup Nat
    /\ atts \in Seq(Pointer)
    /\ attmax \in Nat /\ attcur \in Nat /\ attflag \in BOOLEAN
    /\ entity \in Seq(Byte)
    /\ ub \subseteq {"stack", "atts", "entity", "string"}

LEMMA TypeParts == TypeOK <=> LocalsOK /\ GrammarOK /\ HeapOK
BY DEF TypeOK, LocalsOK, GrammarOK, HeapOK, Pointer

LEMMA AdvanceLocals ==
    ASSUME LocalsOK, Round, Advance, old' \in 0 .. len,
           stackOld' \in {NoStackOld} \cup (0 .. pos)
    PROVE  LocalsOK'
BY DEF LocalsOK, Round, Advance, caller, result

LEMMA RedoLocals ==
    ASSUME LocalsOK, Redo, old' = old, stackOld' \in {stackOld, NoStackOld}
    PROVE  LocalsOK'
BY DEF LocalsOK, Redo, caller, result, counts

LEMMA ReturnLocals ==
    ASSUME LocalsOK, NEW e \in Results, Return(e)
    PROVE  LocalsOK'
BY DEF LocalsOK, Return, Leave, counts

\* The same when the hook has reset the counts.
LEMMA AdvanceFromZeroLocals ==
    ASSUME LocalsOK, Round, AdvanceFromZero, old' \in 0 .. len
    PROVE  LocalsOK'
BY DEF LocalsOK, Round, AdvanceFromZero, caller, result

LEMMA LeaveLocals ==
    ASSUME LocalsOK, NEW e \in Results, Leave(e), nrBytes' = 0, nrLines' = 0
    PROVE  LocalsOK'
BY DEF LocalsOK, Leave

LEMMA LocalsStep ==
    ASSUME LocalsOK, Core
    PROVE  LocalsOK'
<1> USE AdvanceLocals, RedoLocals, ReturnLocals DEF Results
<1>0. Round => /\ pos \in 0 .. len /\ pos + 1 \in 0 .. len /\ pos \in 0 .. pos
               /\ old \in 0 .. len /\ stackOld \in {NoStackOld} \cup (0 .. pos)
  BY DEF LocalsOK, Round
<1>1. CASE Utf8Byte
  BY <1>0, <1>1 DEF Utf8Byte
<1>2. CASE Utf8Bad
  BY <1>0, <1>2 DEF Utf8Bad, BadXml
<1>3. CASE CDataChar
  BY <1>0, <1>3 DEF CDataChar, In, Step, Keep
<1>4. CASE CDataAmp
  BY <1>0, <1>4 DEF CDataAmp, In, Step, Keep
<1>5. CASE CDataLt
  BY <1>0, <1>5 DEF CDataLt, In, Step, Keep
<1>6. CASE TagStart
  BY <1>0, <1>6 DEF TagStart, In
<1>7. CASE TagSpace
  BY <1>0, <1>7 DEF TagSpace, In, Ended
<1>8. CASE TagSlash
  BY <1>0, <1>8 DEF TagSlash, In, BadXml, Ended
<1>9. CASE TagGt
  BY <1>0, <1>9 DEF TagGt, In, Ended
<1>10. CASE TagChar
  BY <1>0, <1>10 DEF TagChar, In, Mark
<1>11. CASE TagEnd
  <2>1. CASE Return("HOOK")
    BY <2>1
  <2>2. CASE /\ UNCHANGED <<caller, result>>
             /\ pos' = pos + 1 /\ old' = pos + 1 /\ stackOld' = NoStackOld
             /\ nrBytes' \in {nrBytes + 1, 1} /\ nrLines' \in {nrLines, 0}
    BY <1>0, <1>11, <2>2 DEF TagEnd, In, Round, LocalsOK, caller, result
  <2> QED BY <1>11, <2>1, <2>2 DEF TagEnd
<1>12. CASE TagEndBad
  BY <1>0, <1>12 DEF TagEndBad, In, BadXml
<1>13. CASE AttributeEnd
  BY <1>0, <1>13 DEF AttributeEnd, In, Keep
<1>14. CASE AttributeFirst
  BY <1>0, <1>14 DEF AttributeFirst, In, BeginAttribute
<1>15. CASE AttributeNext
  BY <1>0, <1>15 DEF AttributeNext, In, BeginAttribute
<1>16. CASE Attribute1End
  BY <1>0, <1>16 DEF Attribute1End, In, Ended
<1>17. CASE Attribute1Char
  BY <1>0, <1>17 DEF Attribute1Char, In, Mark
<1>18. CASE Attribute2
  BY <1>0, <1>18 DEF Attribute2, In, Keep
<1>19. CASE ValueSpace
  BY <1>0, <1>19 DEF ValueSpace, In, Step, Keep
<1>20. CASE ValueStart
  BY <1>0, <1>20 DEF ValueStart, In, Step, BadXml, Keep
<1>21. CASE ValueEnd
  BY <1>0, <1>21 DEF ValueEnd, In
<1>22. CASE ValueChar
  BY <1>0, <1>22 DEF ValueChar, In, Mark
<1>23. CASE Whitespace
  BY <1>0, <1>23 DEF Whitespace, In, Keep
<1>24. CASE EntityChr
  BY <1>0, <1>24 DEF EntityChr, In, BadXml, Step, Keep
<1>25. CASE EntityEnd
  BY <1>0, <1>25 DEF EntityEnd, In, ToCData
<1>26. CASE Comment
  BY <1>0, <1>26 DEF Comment, In, Step, BadXml, Keep
<1>27. CASE CommentEnd
  BY <1>0, <1>27 DEF CommentEnd, In, ToCData, BadXml
<1>28. CASE Markup
  BY <1>0, <1>28 DEF Markup, In, Step, ToCData, Keep
<1>29. CASE Sect
  BY <1>0, <1>29 DEF Sect, In, BadXml
<1>30. CASE SectC
  BY <1>0, <1>30 DEF SectC, In, Step, Keep
<1>31. CASE SectE
  BY <1>0, <1>31 DEF SectE, In, Step, Keep
<1>32. CASE SectE2
  BY <1>0, <1>32 DEF SectE2, In, ToCData
<1>33. CASE Pi
  BY <1>0, <1>33 DEF Pi, In
<1>34. CASE EndOfBuffer
  BY <1>0, <1>34 DEF EndOfBuffer
<1>35. CASE CDataReset
  BY <1>0, <1>35, AdvanceFromZeroLocals, LeaveLocals DEF CDataReset, In
<1>36. CASE EntityReset
  BY <1>0, <1>36, AdvanceFromZeroLocals DEF EntityReset, In
<1>37. CASE SectReset
  BY <1>0, <1>37, AdvanceFromZeroLocals DEF SectReset, In
<1>38. CASE EndReset
  BY <1>38, LeaveLocals DEF EndReset
<1> QED BY <1>1, <1>2, <1>3, <1>4, <1>5, <1>6, <1>7, <1>8, <1>9, <1>10, <1>11, <1>12, <1>13,
    <1>14, <1>15, <1>16, <1>17, <1>18, <1>19, <1>20, <1>21, <1>22, <1>23, <1>24, <1>25,
    <1>26, <1>27, <1>28, <1>29, <1>30, <1>31, <1>32, <1>33, <1>34, <1>35,
    <1>36, <1>37, <1>38 DEF Core

LEMMA GrammarStep ==
    ASSUME GrammarOK, Core
    PROVE  GrammarOK'
<1> USE DEF GrammarOK, Contexts
<1>1. CASE Utf8Byte
  BY <1>1 DEF Utf8Byte, grammar
<1>2. CASE Utf8Bad
  BY <1>2 DEF Utf8Bad, BadXml, grammar
<1>3. CASE CDataChar
  BY <1>3 DEF CDataChar, In, Step, GoTo
<1>4. CASE CDataAmp
  BY <1>4 DEF CDataAmp, In, Step, grammar, GoTo
<1>5. CASE CDataLt
  BY <1>5 DEF CDataLt, In, Step, grammar, GoTo
<1>6. CASE TagStart
  BY <1>6 DEF TagStart, In
<1>7. CASE TagSpace
  BY <1>7 DEF TagSpace, In, Ended
<1>8. CASE TagSlash
  BY <1>8 DEF TagSlash, In, BadXml, Ended, grammar
<1>9. CASE TagGt
  BY <1>9 DEF TagGt, In, Ended
<1>10. CASE TagChar
  BY <1>10 DEF TagChar, In, grammar
<1>11. CASE TagEnd
  BY <1>11 DEF TagEnd, In, grammar
<1>12. CASE TagEndBad
  BY <1>12 DEF TagEndBad, In, BadXml, grammar
<1>13. CASE AttributeEnd
  BY <1>13 DEF AttributeEnd, In
<1>14. CASE AttributeFirst
  BY <1>14 DEF AttributeFirst, In, BeginAttribute, grammar, GoTo
<1>15. CASE AttributeNext
  BY <1>15 DEF AttributeNext, In, BeginAttribute, grammar, GoTo
<1>16. CASE Attribute1End
  BY <1>16 DEF Attribute1End, In, Ended
<1>17. CASE Attribute1Char
  BY <1>17 DEF Attribute1Char, In, grammar
<1>18. CASE Attribute2
  BY <1>18 DEF Attribute2, In, GoTo
<1>19. CASE ValueSpace
  BY <1>19 DEF ValueSpace, In, Step, GoTo
<1>20. CASE ValueStart
  BY <1>20 DEF ValueStart, In, Step, BadXml, GoTo, grammar
<1>21. CASE ValueEnd
  BY <1>21 DEF ValueEnd, In
<1>22. CASE ValueChar
  BY <1>22 DEF ValueChar, In, grammar
<1>23. CASE Whitespace
  BY <1>23 DEF Whitespace, In
<1>24. CASE EntityChr
  BY <1>24 DEF EntityChr, In, BadXml, Step, grammar, GoTo
<1>25. CASE EntityEnd
  BY <1>25 DEF EntityEnd, In, ToCData, grammar, GoTo
<1>26. CASE Comment
  BY <1>26 DEF Comment, In, Step, BadXml, GoTo, grammar
<1>27. CASE CommentEnd
  BY <1>27 DEF CommentEnd, In, ToCData, BadXml, GoTo, grammar
<1>28. CASE Markup
  BY <1>28 DEF Markup, In, Step, ToCData, GoTo
<1>29. CASE Sect
  BY <1>29 DEF Sect, SectOpening, In, BadXml, GoTo, grammar
<1>30. CASE SectC
  BY <1>30 DEF SectC, In, Step, GoTo
<1>31. CASE SectE
  BY <1>31 DEF SectE, In, Step, GoTo, grammar
<1>32. CASE SectE2
  BY <1>32 DEF SectE2, In, ToCData, GoTo
<1>33. CASE Pi
  BY <1>33 DEF Pi, In, GoTo
<1>34. CASE EndOfBuffer
  BY <1>34 DEF EndOfBuffer, grammar
<1>35. CASE CDataReset
  BY <1>35 DEF CDataReset, ResetByHook
<1>36. CASE EntityReset
  BY <1>36 DEF EntityReset, ResetByHook
<1>37. CASE SectReset
  BY <1>37 DEF SectReset, ResetByHook
<1>38. CASE EndReset
  BY <1>38 DEF EndReset, ResetByHook
<1> QED BY <1>1, <1>2, <1>3, <1>4, <1>5, <1>6, <1>7, <1>8, <1>9, <1>10, <1>11, <1>12, <1>13,
    <1>14, <1>15, <1>16, <1>17, <1>18, <1>19, <1>20, <1>21, <1>22, <1>23, <1>24, <1>25,
    <1>26, <1>27, <1>28, <1>29, <1>30, <1>31, <1>32, <1>33, <1>34, <1>35,
    <1>36, <1>37, <1>38 DEF Core

\* A pointer stored in the array is one, and the array keeps its size.
LEMMA PutAttFacts ==
    ASSUME NEW a \in Seq(Pointer), NEW i \in Nat, NEW p \in Pointer
    PROVE  /\ PutAtt(a, i, p) \in Seq(Pointer) /\ Len(PutAtt(a, i, p)) = Len(a)
           /\ i < Len(a) => PutAtt(a, i, p)[i + 1] = p
           /\ \A j \in 1 .. Len(a) : j # i + 1 => PutAtt(a, i, p)[j] = a[j]
<1>1. Len(a) \in Nat
  BY LenProperties
<1>2. CASE i < Len(a)
  <2>1. i + 1 \in 1 .. Len(a)
    BY <1>1, <1>2
  <2> QED BY <1>2, <2>1, ExceptSeq DEF PutAtt
<1>3. CASE ~(i < Len(a))
  BY <1>1, <1>3 DEF PutAtt
<1> QED BY <1>2, <1>3

\* A fresh array begins with the attributes of the old one.
LEMMA EnlargedArray ==
    ASSUME HeapOK, NEW n \in Nat, attcur <= Len(atts), attcur <= n,
           NEW a, a = [i \in 1 .. n |-> IF i <= attcur THEN atts[i] ELSE NULL]
    PROVE  /\ a \in Seq(Pointer) /\ Len(a) = n
           /\ \A i \in 1 .. attcur : a[i] = atts[i]
<1>1. atts \in Seq(Pointer) /\ attcur \in Nat /\ Len(atts) \in Nat
  BY LenProperties DEF HeapOK
<1>2. \A i \in 1 .. Len(atts) : atts[i] \in Pointer
  BY <1>1, ElementOfSeq
<1>3. a \in [1 .. n -> Pointer]
  BY <1>1, <1>2 DEF Pointer
<1> QED BY <1>1, <1>3

LEMMA EndedHeap ==
    ASSUME TypeOK, StackFits, NEW o \in Terminate \cup Flush, Store(o),
           UNCHANGED <<attmax, attflag, entity>>, attcur' \in Nat
    PROVE  HeapOK'
<1>1. Grown /\ ub' \subseteq ub \cup {"atts"}
  BY FlushFacts, TerminateFacts, StoreFacts
<1>2. HeapOK
  BY TypeParts
<1> QED BY <1>1, <1>2 DEF Grown, HeapOK

LEMMA BegunHeap ==
    ASSUME HeapOK, NEW a \in Seq(Pointer), NEW cur \in Nat, BeginAttribute(a, cur),
           attmax' \in Nat, UNCHANGED <<stack, stackMax, tagName, entity>>
    PROVE  HeapOK'
<1>1. Len(stack) \in Pointer
  BY LenProperties DEF HeapOK, Pointer
<1>2. atts' \in Seq(Pointer)
  BY <1>1, PutAttFacts DEF BeginAttribute
<1>3. attcur' \in Nat /\ attflag' \in BOOLEAN /\ ub' \subseteq ub \cup {"atts"}
  BY DEF BeginAttribute, AttFault
<1> QED BY <1>2, <1>3 DEF HeapOK

LEMMA ResetHeap ==
    ASSUME HeapOK, ResetByHook, stackMax' \in Nat, tagName' \in {NULL} \cup Nat,
           ub' \subseteq {"stack", "atts", "entity", "string"}
    PROVE  HeapOK'
<1>1. /\ stack' = <<>> /\ entity' = <<>> /\ attcur' = 0 /\ attflag' = FALSE
      /\ UNCHANGED <<atts, attmax>>
  BY DEF ResetByHook, ClearTag
<1>2. stack' \in Seq(Byte) /\ entity' \in Seq(Byte)
  BY <1>1, EmptySeq
<1> QED BY <1>1, <1>2 DEF HeapOK

LEMMA HeapStep ==
    ASSUME TypeOK, StackFits, Core, attcur <= Len(atts)
    PROVE  HeapOK'
<1> USE DEF HeapOK
<1>0. /\ HeapOK /\ <<>> \in Seq(Byte)
      /\ Len(stack) \in Nat /\ Len(stack) \in Pointer
      /\ Round => Char \in Byte
  BY TypeParts, CharType, LenProperties, EmptySeq DEF Pointer
<1>1. CASE Utf8Byte
  BY <1>0, <1>1 DEF Utf8Byte, heap, attvars
<1>2. CASE Utf8Bad
  BY <1>0, <1>2 DEF Utf8Bad, heap, attvars
<1>3. CASE CDataChar
  BY <1>0, <1>3 DEF CDataChar, In, Untouched, heap, attvars
<1>4. CASE CDataAmp
  <2>1. entity' \in {<<>>, entity} /\ UNCHANGED <<heap, attvars, ub>>
    BY <1>4 DEF CDataAmp
  <2>2. entity' \in Seq(Byte)
    BY <1>0, <2>1
  <2> QED BY <1>0, <2>1, <2>2 DEF heap, attvars
<1>5. CASE CDataLt
  <2>1. /\ stackMax' \in {StackInit, stackMax} /\ tagName' \in {Len(stack), tagName}
        /\ UNCHANGED <<stack, atts, attvars, entity, ub>>
    BY <1>5 DEF CDataLt, heap
  <2> QED BY <1>0, <2>1, SaxAssumption DEF attvars
<1>6. CASE TagStart
  BY <1>0, <1>6 DEF TagStart, In, Untouched, heap, attvars
<1>7. CASE TagSpace
  <2>1. PICK o \in Terminate : Store(o)
    BY <1>7 DEF TagSpace, Ended
  <2> QED BY <1>0, <1>7, <2>1, EndedHeap DEF TagSpace, attvars
<1>8. CASE TagSlash
  <2>1. CASE tagtype = "CLOSE"
    BY <1>0, <1>8, <2>1 DEF TagSlash, heap, attvars
  <2>2. CASE tagtype # "CLOSE"
    <3>1. PICK o \in Terminate : Store(o)
      BY <1>8, <2>2 DEF TagSlash, Ended
    <3> QED BY <1>0, <1>8, <3>1, EndedHeap DEF TagSlash, attvars
  <2> QED BY <2>1, <2>2
<1>9. CASE TagGt
  <2>1. PICK o \in Terminate : Store(o)
    BY <1>9 DEF TagGt, Ended
  <2> QED BY <1>0, <1>9, <2>1, EndedHeap DEF TagGt, attvars
<1>10. CASE TagChar
  BY <1>0, <1>10 DEF TagChar, In, Untouched, heap, attvars
<1>11. CASE TagEnd
  <2>1. /\ stack' \in {<<>>, stack} /\ entity' \in {<<>>, entity}
        /\ attcur' \in {0, attcur} /\ attflag' \in {FALSE, attflag}
        /\ UNCHANGED <<stackMax, tagName, atts, attmax>>
    <3>1. CASE UNCHANGED <<heap, attvars, entity>>
      BY <3>1 DEF heap, attvars
    <3>2. CASE ClearTag /\ UNCHANGED <<stackMax, tagName, atts, attmax>> /\ entity' \in {<<>>, entity}
      BY <3>2 DEF ClearTag
    <3> QED BY <1>11, <3>1, <3>2 DEF TagEnd
  <2>2. ub' \subseteq {"stack", "atts", "entity", "string"}
    BY <1>0, <1>11 DEF TagEnd, HookFaults
  <2>3. stack' \in Seq(Byte)
    BY <1>0, <2>1
  <2>4. entity' \in Seq(Byte)
    BY <1>0, <2>1
  <2>5. attcur' \in Nat
    BY <1>0, <2>1
  <2>6. attflag' \in BOOLEAN
    BY <1>0, <2>1, Zenon
  <2> QED BY <1>0, <2>1, <2>2, <2>3, <2>4, <2>5, <2>6
<1>12. CASE TagEndBad
  BY <1>0, <1>12 DEF TagEndBad, In, Untouched, heap, attvars
<1>13. CASE AttributeEnd
  BY <1>0, <1>13 DEF AttributeEnd, In, Untouched, heap, attvars
<1>14. CASE AttributeFirst
  <2> DEFINE a == [i \in 1 .. 2 * AttStep |-> NULL]
  <2>1. a \in Seq(Pointer) /\ attmax' \in Nat /\ AttStep \in Nat
    BY <1>14, SaxAssumption DEF AttributeFirst, Pointer
  <2>2. CASE BeginAttribute(a, 0)
    BY <1>0, <1>14, <2>1, <2>2, BegunHeap DEF AttributeFirst
  <2>3. CASE UNCHANGED <<atts, attcur, attflag, ub>>
    BY <1>0, <1>14, <2>1, <2>3 DEF AttributeFirst
  <2> QED BY <1>14, <2>2, <2>3 DEF AttributeFirst
<1>15. CASE AttributeNext
  <2> DEFINE a == [i \in 1 .. 2 * (attmax + AttStep) |-> IF i <= attcur THEN atts[i] ELSE NULL]
  <2>1. AttStep \in Nat /\ attmax' \in Nat /\ attcur \in Nat
    BY <1>0, <1>15, SaxAssumption DEF AttributeNext
  <2>2. CASE BeginAttribute(a, attcur)
    <3>1. 2 * (attmax + AttStep) \in Nat
      BY <1>0, <2>1
    <3>2. a \in Seq(Pointer)
      <4>1. atts \in Seq(Pointer) /\ Len(atts) \in Nat
        BY <1>0, LenProperties
      <4>2. \A i \in 1 .. Len(atts) : atts[i] \in Pointer
        BY <4>1, ElementOfSeq
      <4>3. a \in [1 .. 2 * (attmax + AttStep) -> Pointer]
        BY <1>0, <2>1, <4>1, <4>2 DEF Pointer
      <4> QED BY <3>1, <4>3
    <3> QED BY <1>0, <1>15, <2>1, <2>2, <3>2, BegunHeap DEF AttributeNext
  <2>3. CASE BeginAttribute(atts, attcur)
    BY <1>0, <1>15, <2>1, <2>3, BegunHeap DEF AttributeNext
  <2>4. CASE UNCHANGED <<atts, attcur, attflag, ub>>
    BY <1>0, <1>15, <2>1, <2>4 DEF AttributeNext
  <2> QED BY <1>15, <2>2, <2>3, <2>4 DEF AttributeNext
<1>16. CASE Attribute1End
  <2>1. PICK o \in Terminate : Store(o)
    BY <1>16 DEF Attribute1End, Ended
  <2> QED BY <1>0, <1>16, <2>1, EndedHeap DEF Attribute1End, attvars
<1>17. CASE Attribute1Char
  BY <1>0, <1>17 DEF Attribute1Char, In, Untouched, heap, attvars
<1>18. CASE Attribute2
  <2>1. /\ atts' \in {PutAtt(atts, attcur, NULL), atts} /\ ub' \subseteq ub \cup {"atts"}
        /\ UNCHANGED <<stack, stackMax, tagName, attvars, entity>>
    BY <1>18 DEF Attribute2, AttFault
  <2>2. atts' \in Seq(Pointer)
    BY <1>0, <2>1, PutAttFacts DEF Pointer
  <2> QED BY <1>0, <2>1, <2>2 DEF attvars
<1>19. CASE ValueSpace
  BY <1>0, <1>19 DEF ValueSpace, In, Untouched, heap, attvars
<1>20. CASE ValueStart
  <2>1. /\ atts' = PutAtt(atts, attcur + 1, Len(stack)) /\ ub' \subseteq ub \cup {"atts"}
        /\ UNCHANGED <<stack, stackMax, tagName, attvars, entity>>
    BY <1>20 DEF ValueStart, AttFault
  <2>2. atts' \in Seq(Pointer)
    BY <1>0, <2>1, PutAttFacts DEF Pointer
  <2> QED BY <1>0, <2>1, <2>2 DEF attvars
<1>21. CASE ValueEnd
  <2>1. PICK o \in Terminate : Store(o) /\ attcur' \in {attcur, attcur + 2}
    BY <1>21 DEF ValueEnd
  <2> QED BY <1>0, <1>21, <2>1, EndedHeap DEF ValueEnd
<1>22. CASE ValueChar
  BY <1>0, <1>22 DEF ValueChar, In, Untouched, heap, attvars
<1>23. CASE Whitespace
  BY <1>0, <1>23 DEF Whitespace, In, Untouched, heap, attvars
<1>24. CASE EntityChr
  BY <1>0, <1>24 DEF EntityChr, In, heap, attvars
<1>25. CASE EntityEnd
  BY <1>0, <1>25 DEF EntityEnd, In, heap, attvars
<1>26. CASE Comment
  BY <1>0, <1>26 DEF Comment, In, Untouched, heap, attvars
<1>27. CASE CommentEnd
  BY <1>0, <1>27 DEF CommentEnd, In, Untouched, heap, attvars
<1>28. CASE Markup
  BY <1>0, <1>28 DEF Markup, In, Untouched, heap, attvars
<1>29. CASE Sect
  BY <1>0, <1>29 DEF Sect, In, Untouched, heap, attvars
<1>30. CASE SectC
  BY <1>0, <1>30 DEF SectC, In, heap, attvars
<1>31. CASE SectE
  BY <1>0, <1>31 DEF SectE, In, heap, attvars
<1>32. CASE SectE2
  BY <1>0, <1>32 DEF SectE2, In, heap, attvars
<1>33. CASE Pi
  BY <1>0, <1>33 DEF Pi, In, Untouched, heap, attvars
<1>34. CASE EndOfBuffer
  <2>1. PICK o \in Flush : Store(o)
    BY <1>34 DEF EndOfBuffer
  <2> QED BY <1>0, <1>34, <2>1, EndedHeap DEF EndOfBuffer, attvars
<1>35. CASE CDataReset
  <2>1. /\ ResetByHook /\ stackMax' \in {StackInit, stackMax} /\ tagName' \in {0, tagName}
        /\ UNCHANGED ub
    BY <1>35 DEF CDataReset
  <2> QED BY <1>0, <2>1, ResetHeap, SaxAssumption
<1>36. CASE EntityReset
  <2>1. /\ ResetByHook /\ UNCHANGED <<stackMax, tagName>> /\ ub' \subseteq ub \cup {"entity"}
    BY <1>36 DEF EntityReset
  <2> QED BY <1>0, <2>1, ResetHeap
<1>37. CASE SectReset
  BY <1>0, <1>37, ResetHeap DEF SectReset
<1>38. CASE EndReset
  BY <1>0, <1>38, ResetHeap DEF EndReset
<1> QED BY <1>1, <1>2, <1>3, <1>4, <1>5, <1>6, <1>7, <1>8, <1>9, <1>10, <1>11, <1>12, <1>13,
    <1>14, <1>15, <1>16, <1>17, <1>18, <1>19, <1>20, <1>21, <1>22, <1>23, <1>24, <1>25,
    <1>26, <1>27, <1>28, <1>29, <1>30, <1>31, <1>32, <1>33, <1>34, <1>35,
    <1>36, <1>37, <1>38 DEF Core

-----------------------------------------------------------------------------
(* Memory.                                                                 *)

Good ==
    /\ StackFits /\ ArrayFits /\ ub = {} /\ CleanBetweenTags
    /\ Working => ContextOK /\ AttsOK /\ StringsOK

\* What the invariant gives a round of sax_core.
LEMMA RoundFacts ==
    ASSUME IInv, phase = "core"
    PROVE  /\ TypeOK /\ StackFits /\ ArrayFits /\ ub = {} /\ CleanBetweenTags
           /\ ContextOK /\ AttsOK /\ StringsOK /\ ret = "OK"
           /\ attcur \in Nat /\ Len(atts) \in Nat /\ attcur <= Len(atts)
           /\ attmax \in Nat /\ AttStep \in Nat /\ AttStep >= 2
           /\ attflag \in BOOLEAN /\ (attflag => Len(atts) = 2 * attmax /\ attmax >= 2)
           /\ atts \in Seq(Pointer) /\ stack \in Seq(Byte) /\ Len(stack) \in Nat
<1>1. /\ TypeOK /\ StackFits /\ ArrayFits /\ ub = {} /\ CleanBetweenTags
      /\ ContextOK /\ AttsOK /\ StringsOK /\ ret = "OK"
  BY DEF IInv, Working
<1>2. /\ attcur \in Nat /\ Len(atts) \in Nat /\ attmax \in Nat /\ attflag \in BOOLEAN
      /\ atts \in Seq(Pointer) /\ stack \in Seq(Byte) /\ Len(stack) \in Nat
  BY <1>1, LenProperties DEF TypeOK, Pointer
<1>3. AttStep \in Nat /\ AttStep >= 2
  BY SaxAssumption
<1>4. attcur <= Len(atts)
  BY <1>1, <1>2 DEF AttsOK
<1>5. attflag => Len(atts) = 2 * attmax /\ attmax >= 2
  BY <1>1, <1>2, <1>3 DEF AttsOK, ArrayFits
<1> QED BY <1>1, <1>2, <1>3, <1>4, <1>5

\* Rounds outside of tags.
LEMMA OutsideGood ==
    ASSUME IInv, phase = "core", context \notin InsideTag \cup {"TAG_START"},
           UNCHANGED <<heap, attvars, ub>>,
           context' \notin InsideTag \cup {"TAG_START"},
           ret' = "OK" /\ context' = "ENTITY" => Len(entity') <= 7
    PROVE  Good'
<1> USE RoundFacts DEF heap, attvars
<1>1. stack = <<>> /\ attcur = 0 /\ ~attflag
  BY DEF CleanBetweenTags
<1>2. StackFits' /\ ArrayFits' /\ ub' = {}
  BY DEF StackFits, ArrayFits
<1>3. CleanBetweenTags'
  BY <1>1 DEF CleanBetweenTags
<1>4. ContextOK' \/ ret' # "OK"
  BY <1>1 DEF ContextOK, InsideTag
<1>5. AttsOK'
  BY <1>1 DEF AttsOK, InAttribute, BehindAttribute, BeforeAttributes, InsideTag
<1>6. StringsOK'
  BY <1>1 DEF StringsOK, InAttribute, InsideTag
<1> QED BY <1>2, <1>3, <1>4, <1>5, <1>6 DEF Good, Working

\* Rounds that stay in their context.
LEMMA SameGood ==
    ASSUME IInv, phase = "core",
           UNCHANGED <<heap, attvars, ub, context, oldcontext, entity>>,
           context # "ATTRIBUTE" \/ attcur = 0 \/ ret' # "OK"
    PROVE  Good'
<1> USE RoundFacts DEF heap, attvars
<1>1. StackFits' /\ ArrayFits' /\ ub' = {} /\ CleanBetweenTags'
  BY DEF StackFits, ArrayFits, CleanBetweenTags
<1>2. ContextOK' \/ ret' # "OK"
  BY DEF ContextOK
<1>3. AttsOK'
  BY DEF AttsOK, InAttribute, BehindAttribute, BeforeAttributes
<1>4. StringsOK'
  BY DEF StringsOK, InAttribute
<1> QED BY <1>1, <1>2, <1>3, <1>4 DEF Good, Working

\* Rounds that end in an error.
LEMMA FailedGood ==
    ASSUME ret' # "OK", StackFits', ArrayFits', ub' = {}, CleanBetweenTags'
    PROVE  Good'
BY DEF Good, Working

\* The attributes the tagHook walks through end at attcur.
LEMMA HookSafe ==
    ASSUME IInv, In("TAG_END")
    PROVE  HookFaults = {}
<1> USE RoundFacts
<1>0. phase = "core" /\ context = "TAG_END"
  BY DEF In, Round
<1>1. CString(stack, tagName)
  BY <1>0 DEF StringsOK, InsideTag
<1>2. CASE attcur # 0
  <2> DEFINE c == attcur \div 2
             Stops(k) == 2 * k >= Len(atts) \/ atts[2 * k + 1] = NULL
             Least(k) == Stops(k) /\ \A j \in 0 .. k - 1 : ~Stops(j)
  <2>1. attcur < Len(atts) /\ atts[attcur + 1] = NULL /\ attcur % 2 = 0
    BY <1>0, <1>2 DEF AttsOK
  <2>2. \A i \in 1 .. attcur : CString(stack, atts[i])
    BY <1>0 DEF StringsOK
  <2>3. c \in 0 .. Len(atts) /\ 2 * c = attcur
    BY <1>0, <2>1
  <2>4. \A i \in 1 .. attcur : atts[i] # NULL
    BY <2>2 DEF CString, NULL
  <2> HIDE DEF c
  <2>5. Stops(c)
    BY <2>1, <2>3
  <2>6. \A j \in 0 .. c - 1 : ~Stops(j)
    BY <1>0, <2>1, <2>3, <2>4
  <2>7. \A k \in 0 .. Len(atts) : Least(k) => k = c
    BY <1>0, <2>3, <2>5, <2>6
  <2> DEFINE AC == CHOOSE k \in 0 .. Len(atts) : Least(k)
  <2>8. Least(c)
    BY <2>5, <2>6
  <2>9. AC = c
    <3> HIDE DEF Least
    <3> QED BY <2>3, <2>7, <2>8
  <2>10. AttCount = c
    BY <2>9 DEF AttCount
  <2> QED BY <1>0, <1>1, <2>1, <2>2, <2>3, <2>10 DEF HookFaults
<1>3. CASE attcur = 0
  BY <1>1, <1>3 DEF HookFaults
<1> QED BY <1>2, <1>3

\* A push moves no string that is still needed.
LEMMA GrownKeeps ==
    ASSUME IInv, phase = "core", Grown
    PROVE  /\ stack' \in Seq(Byte) /\ Len(stack') \in Nat
           /\ \A p \in Int : CString(stack, p) => CString(stack', p)
           /\ \A p \in Pointer : CString(stack, p) => CString(stack', p)
           /\ \A p : p \in 0 .. Len(stack) => p \in 0 .. Len(stack')
           /\ \A i \in 1 .. Len(atts) : atts[i] \in Pointer
           /\ tagName' = tagName /\ Len(atts') = Len(atts)
           /\ attflag => atts' = atts
<1> USE RoundFacts
<1>1. stack' \in Seq(Byte) /\ Len(stack') \in Nat /\ Len(stack) <= Len(stack')
  BY LenProperties DEF Grown
<1>2. \A p \in Int : CString(stack, p) => CString(stack', p)
  BY <1>1, StringKept DEF Grown
<1>3. \A p \in Pointer : p \in Int
  BY DEF Pointer, NULL, DANGLING
<1>4. \A i \in 1 .. Len(atts) : atts[i] \in Pointer
  BY ElementOfSeq
<1>5. tagName' = tagName /\ Len(atts') = Len(atts) /\ (attflag => atts' = atts)
  BY DEF Grown
<1> QED BY <1>1, <1>2, <1>3, <1>4, <1>5

\* What a push at the end of a name or value gives.
LEMMA EndedFacts ==
    ASSUME IInv, phase = "core", NEW o \in Terminate \cup Flush, Store(o)
    PROVE  /\ Grown /\ StackFits' /\ ub' = {}
           /\ UNCHANGED attmax => ArrayFits'
           /\ o \in Terminate /\ o.done =>
                \A p \in 0 .. Len(stack) : CString(stack', p)
<1> USE RoundFacts
<1>1. Extends(o)
  BY FlushFacts, TerminateFacts
<1>2. Grown /\ ub' = {}
  <2>1. attflag => 2 * attmax <= Len(atts)
    OBVIOUS
  <2> QED BY <1>1, <2>1, StoreFacts
<1>3. StackFits'
  BY <1>2 DEF Grown
<1>4. UNCHANGED attmax => ArrayFits'
  <2>1. Len(atts') = Len(atts) /\ atts' \in Seq(Pointer)
    BY <1>2 DEF Grown
  <2>2. atts = <<>> => atts' = <<>>
    BY <2>1, EmptySeq
  <2> QED BY <2>1, <2>2 DEF ArrayFits
<1>5. o \in Terminate /\ o.done => \A p \in 0 .. Len(stack) : CString(stack', p)
  <2> HAVE o \in Terminate /\ o.done
  <2>1. Len(stack) < Len(o.stack) /\ o.stack[Len(o.stack)] = 0 /\ stack' = o.stack
    BY TerminateFacts DEF Store
  <2>2. stack' \in Seq(Byte)
    BY <1>2 DEF Grown
  <2> QED BY <2>1, <2>2, StringMade
<1> QED BY <1>2, <1>3, <1>4, <1>5

LEMMA HeapKept ==
    ASSUME IInv, UNCHANGED <<heap, attvars>>
    PROVE  StackFits' /\ ArrayFits'
BY DEF IInv, StackFits, ArrayFits, heap, attvars

LEMMA CDataLtGood ==
    ASSUME IInv, CDataLt
    PROVE  Good'
<1> USE RoundFacts
<1>0. phase = "core" /\ context = "CDATA" /\ stack = <<>> /\ attcur = 0 /\ ~attflag
  BY DEF CDataLt, In, Round, CleanBetweenTags, InsideTag
<1>1. /\ UNCHANGED <<stack, atts, attvars, ub>>
      /\ stackMax' \in {stackMax, StackInit} /\ (stackMax' # stackMax => stackMax = 0)
  BY DEF CDataLt, heap
<1>2. StackFits' /\ ArrayFits' /\ ub' = {}
  BY <1>0, <1>1, SaxAssumption DEF StackFits, ArrayFits, attvars, TypeOK
<1>3. CleanBetweenTags'
  BY <1>0, <1>1 DEF CleanBetweenTags, attvars
<1>4. CASE context' = "TAG_START" /\ tagName' = Len(stack)
  <2>1. ContextOK'
    BY <1>4 DEF ContextOK
  <2>2. AttsOK'
    BY <1>0, <1>1, <1>4 DEF AttsOK, attvars, InAttribute, BehindAttribute, BeforeAttributes
  <2>3. StringsOK'
    BY <1>0, <1>1, <1>4 DEF StringsOK, attvars, InAttribute, InsideTag
  <2> QED BY <1>2, <1>3, <2>1, <2>2, <2>3 DEF Good
<1>5. CASE ret' # "OK"
  BY <1>2, <1>3, <1>5, FailedGood
<1> QED BY <1>4, <1>5 DEF CDataLt, Step, GoTo, Return, Leave

LEMMA TagStartGood ==
    ASSUME IInv, TagStart
    PROVE  Good'
<1> USE RoundFacts
<1>0. phase = "core" /\ context = "TAG_START" /\ stack = <<>> /\ attcur = 0 /\ ~attflag
  BY DEF TagStart, In, Round, CleanBetweenTags, InsideTag
<1>1. UNCHANGED <<heap, attvars, ub>> /\ context' \in {"PI", "MARKUP", "TAG"}
  BY DEF TagStart, Untouched
<1>2. StackFits' /\ ArrayFits' /\ ub' = {}
  BY <1>0, <1>1, HeapKept
<1>3. CleanBetweenTags' /\ ContextOK'
  BY <1>0, <1>1 DEF CleanBetweenTags, ContextOK, heap, attvars
<1>4. AttsOK'
  BY <1>0, <1>1 DEF AttsOK, heap, attvars, InAttribute, BehindAttribute, BeforeAttributes
<1>5. tagName \in 0 .. Len(stack)
  BY <1>0 DEF StringsOK
<1>6. StringsOK'
  BY <1>0, <1>1, <1>5 DEF StringsOK, heap, attvars, InAttribute, InsideTag
<1> QED BY <1>2, <1>3, <1>4, <1>6 DEF Good

\* The end of a tag's name: to WHITESPACE or to TAG_END.
LEMMA TagNameGood ==
    ASSUME IInv, phase = "core", context = "TAG", UNCHANGED attvars,
           NEW o \in Terminate, Store(o), o.done \/ ret' # "OK",
           \/ context' = "TAG_END"
           \/ context' = "WHITESPACE" /\ oldcontext' \in {"TAG_END", "ATTRIBUTE"}
    PROVE  Good'
<1> USE RoundFacts DEF attvars
<1>1. Grown /\ StackFits' /\ ub' = {} /\ ArrayFits'
  BY EndedFacts
<1>2. attcur = 0
  BY DEF AttsOK, BeforeAttributes
<1>3. CleanBetweenTags'
  BY DEF CleanBetweenTags, InsideTag
<1>4. CASE o.done
  <2>1. CString(stack', tagName') /\ tagName' \in 0 .. Len(stack')
    <3>1. tagName \in 0 .. Len(stack) /\ tagName' = tagName
      BY <1>1 DEF StringsOK, InsideTag, Grown
    <3> QED BY <1>1, <1>4, <3>1, EndedFacts, GrownKeeps
  <2>2. ContextOK'
    BY <1>2 DEF ContextOK
  <2>3. AttsOK'
    <3>1. attflag' => atts' # <<>>
      BY <1>1, GrownKeeps DEF AttsOK
    <3> QED BY <1>2, <3>1 DEF AttsOK, InAttribute, BehindAttribute, BeforeAttributes
  <2>4. StringsOK'
    BY <1>2, <2>1 DEF StringsOK, InAttribute
  <2> QED BY <1>1, <1>3, <2>2, <2>3, <2>4 DEF Good
<1>5. CASE ret' # "OK"
  BY <1>1, <1>3, <1>5, FailedGood
<1> QED BY <1>4, <1>5

LEMMA TagEndGood ==
    ASSUME IInv, TagEnd
    PROVE  Good'
<1> USE RoundFacts
<1>0. phase = "core" /\ context = "TAG_END" /\ ub' = {}
  BY HookSafe DEF TagEnd, In, Round
<1>1. CASE Return("HOOK") /\ UNCHANGED <<grammar, heap, attvars>>
  <2>1. StackFits' /\ ArrayFits' /\ CleanBetweenTags'
    BY <1>0, <1>1, HeapKept DEF CleanBetweenTags, grammar, heap, attvars
  <2> QED BY <1>0, <1>1, <2>1, FailedGood DEF Return, Leave
<1>2. CASE context' = "CDATA" /\ ClearTag /\ UNCHANGED <<stackMax, tagName, atts, attmax>>
  <2>0. stack' = <<>> /\ attcur' = 0 /\ ~attflag'
    BY <1>2 DEF ClearTag
  <2>1. StackFits'
    <3>1. Len(stack') = 0 /\ stackMax' = stackMax /\ stackMax \in Nat
      BY <1>0, <1>2, <2>0 DEF TypeOK
    <3> QED BY <3>1 DEF StackFits
  <2>5. ArrayFits'
    BY <1>0, <1>2 DEF ArrayFits
  <2>2. CleanBetweenTags' /\ ContextOK'
    BY <1>2, <2>0 DEF CleanBetweenTags, ContextOK
  <2>3. AttsOK'
    BY <1>2, <2>0 DEF AttsOK, InAttribute, BehindAttribute, BeforeAttributes
  <2>4. StringsOK'
    BY <1>2, <2>0 DEF StringsOK, InAttribute, InsideTag
  <2> QED BY <1>0, <2>1, <2>2, <2>3, <2>4, <2>5 DEF Good
<1> QED BY <1>1, <1>2 DEF TagEnd

LEMMA AttributeEndGood ==
    ASSUME IInv, AttributeEnd
    PROVE  Good'
<1> USE RoundFacts
<1>0. /\ phase = "core" /\ context = "ATTRIBUTE" /\ In("ATTRIBUTE")
      /\ Char \in {SLASH, GT} /\ UNCHANGED <<heap, attvars, ub>> /\ context' = "TAG_END"
  BY DEF AttributeEnd, In, Round, Untouched
<1>1. attcur = 0
  BY <1>0 DEF ContextOK
<1>2. StackFits' /\ ArrayFits' /\ ub' = {}
  BY <1>0, HeapKept
<1>3. CleanBetweenTags' /\ ContextOK'
  BY <1>0 DEF CleanBetweenTags, ContextOK, InsideTag
<1>4. AttsOK'
  BY <1>0, <1>1 DEF AttsOK, heap, attvars, InAttribute, BehindAttribute, BeforeAttributes
<1>5. tagName \in 0 .. Len(stack) /\ CString(stack, tagName)
  BY <1>0 DEF StringsOK, InsideTag
<1>6. StringsOK'
  BY <1>0, <1>1, <1>5 DEF StringsOK, heap, attvars, InAttribute
<1> QED BY <1>2, <1>3, <1>4, <1>6 DEF Good

\* A new attribute, in an array that has room for it.
LEMMA BegunGood ==
    ASSUME IInv, phase = "core", context = "ATTRIBUTE",
           NEW a \in Seq(Pointer), Len(a) = 2 * attmax', attmax' \in Nat, attmax' >= AttStep,
           attcur + 2 < Len(a), \A i \in 1 .. attcur : a[i] = atts[i],
           BeginAttribute(a, attcur), UNCHANGED <<stack, stackMax, tagName>>
    PROVE  Good'
<1> USE RoundFacts
<1>1. /\ Len(stack) \in Pointer
      /\ Len(atts') = Len(a) /\ atts' \in Seq(Pointer)
      /\ atts'[attcur + 1] = Len(stack)
      /\ \A i \in 1 .. attcur : atts'[i] = atts[i]
      /\ ub' = {} /\ attcur' = attcur /\ attflag' = TRUE /\ context' = "ATTRIBUTE_1"
  <2>0. Len(a) \in Nat
    BY LenProperties
  <2>4. Len(stack) \in Pointer
    BY DEF Pointer
  <2>7. attcur \in Nat
    OBVIOUS
  <2>1. Len(stack) \in Pointer /\ attcur < Len(a) /\ Len(a) \in Nat /\ attcur \in Nat
    <3>1. \A x, y \in Nat : x + 2 < y => x < y
      OBVIOUS
    <3>2. attcur < Len(a)
      BY <2>0, <2>7, <3>1, Zenon
    <3> QED BY <2>0, <2>4, <2>7, <3>2, Zenon
  <2>2. atts' = PutAtt(a, attcur, Len(stack)) /\ ub' = ub
    BY <2>1 DEF BeginAttribute, AttFault
  <2>3. /\ atts' \in Seq(Pointer) /\ Len(atts') = Len(a) /\ atts'[attcur + 1] = Len(stack)
        /\ \A j \in 1 .. Len(a) : j # attcur + 1 => atts'[j] = a[j]
    BY <2>1, <2>2, PutAttFacts
  <2>5. \A i \in 1 .. attcur : atts'[i] = atts[i]
    <3> SUFFICES ASSUME NEW i \in 1 .. attcur PROVE atts'[i] = atts[i]
      OBVIOUS
    <3>1. i \in 1 .. Len(a) /\ i # attcur + 1
      <4>1. \A x, y \in Nat : x < y => \A j \in 1 .. x : j \in 1 .. y /\ j # x + 1
        OBVIOUS
      <4> QED BY <2>1, <4>1, Zenon
    <3> QED BY <2>3, <3>1
  <2>6. attcur' = attcur /\ attflag' = TRUE /\ context' = "ATTRIBUTE_1"
    BY DEF BeginAttribute, GoTo
  <2> QED BY <2>2, <2>3, <2>4, <2>5, <2>6
<1>2. StackFits' /\ ArrayFits' /\ CleanBetweenTags'
  BY <1>1 DEF StackFits, ArrayFits, CleanBetweenTags, InsideTag
<1>3. ContextOK'
  BY <1>1 DEF ContextOK
<1>4. AttsOK'
  <2>1. atts' # <<>>
    BY <1>1
  <2> QED BY <1>1, <2>1 DEF AttsOK, InAttribute, BehindAttribute, BeforeAttributes
<1>5. tagName \in 0 .. Len(stack) /\ CString(stack, tagName)
      /\ \A i \in 1 .. attcur : CString(stack, atts[i])
  BY DEF StringsOK, InsideTag
<1>6. StringsOK'
  <2>1. \A i \in 1 .. attcur' : CString(stack', atts'[i])
    BY <1>1, <1>5
  <2>2. /\ tagName' \in 0 .. Len(stack') /\ CString(stack', tagName')
        /\ atts'[attcur' + 1] \in 0 .. Len(stack')
    BY <1>1, <1>5
  <2> QED BY <1>1, <2>1, <2>2 DEF StringsOK, InAttribute
<1> QED BY <1>1, <1>2, <1>3, <1>4, <1>6 DEF Good

LEMMA AttributeFirstGood ==
    ASSUME IInv, AttributeFirst
    PROVE  Good'
<1> USE RoundFacts
<1> DEFINE a == [i \in 1 .. 2 * AttStep |-> NULL]
<1>0. /\ phase = "core" /\ context = "ATTRIBUTE" /\ atts = <<>> /\ attmax' = AttStep
      /\ UNCHANGED <<stack, stackMax, tagName>>
  BY DEF AttributeFirst, In, Round
<1>1. attcur = 0 /\ ~attflag
  BY <1>0 DEF AttsOK
<1>2. CASE BeginAttribute(a, 0)
  <2>1. a \in Seq(Pointer) /\ Len(a) = 2 * AttStep
    BY <1>0 DEF Pointer
  <2>2. attcur + 2 < Len(a) /\ \A i \in 1 .. attcur : a[i] = atts[i]
    BY <1>0, <1>1, <2>1
  <2>3. BeginAttribute(a, attcur)
    BY <1>1, <1>2
  <2> HIDE DEF a
  <2> QED BY <1>0, <2>1, <2>2, <2>3, BegunGood
<1>3. CASE Return("NOMEM") /\ UNCHANGED <<grammar, atts, attcur, attflag, ub>>
  <2>1. StackFits' /\ ArrayFits' /\ CleanBetweenTags'
    BY <1>0, <1>3 DEF StackFits, ArrayFits, CleanBetweenTags, grammar
  <2> QED BY <1>0, <1>3, <2>1, FailedGood DEF Return, Leave
<1> QED BY <1>2, <1>3 DEF AttributeFirst

LEMMA AttributeNextGood ==
    ASSUME IInv, AttributeNext, "grow" \notin AllocMayFail
    PROVE  Good'
<1> USE RoundFacts
<1>0. /\ phase = "core" /\ context = "ATTRIBUTE" /\ atts # <<>>
      /\ UNCHANGED <<stack, stackMax, tagName>>
  BY DEF AttributeNext, In, Round
<1>1. Len(atts) = 2 * attmax /\ attmax >= AttStep
  BY <1>0 DEF ArrayFits
<1>2. attcur % 2 = 0 /\ (attcur # 0 => attcur < Len(atts))
  BY <1>0 DEF AttsOK
<1>3. CASE attcur >= (attmax - 1) * 2
  <2> DEFINE n == 2 * (attmax + AttStep)
             a == [i \in 1 .. n |-> IF i <= attcur THEN atts[i] ELSE NULL]
  <2>1. attmax' = attmax + AttStep /\ BeginAttribute(a, attcur)
    BY <1>3 DEF AttributeNext
  <2>2. HeapOK /\ n \in Nat /\ attcur <= n
    BY <1>0, <1>1, <1>2, TypeParts
  <2>3. a \in Seq(Pointer) /\ Len(a) = n /\ \A i \in 1 .. attcur : a[i] = atts[i]
    <3> HIDE DEF n
    <3> QED BY <1>0, <2>2, EnlargedArray
  <2>4. attcur + 2 < n /\ attmax' \in Nat /\ attmax' >= AttStep /\ n = 2 * attmax'
    BY <1>0, <1>1, <1>2, <2>1
  <2> HIDE DEF n, a
  <2> QED BY <1>0, <2>1, <2>3, <2>4, BegunGood
<1>4. CASE ~(attcur >= (attmax - 1) * 2)
  <2>1. attmax' = attmax /\ BeginAttribute(atts, attcur)
    BY <1>4 DEF AttributeNext
  <2>2. attcur + 2 < Len(atts)
    BY <1>0, <1>1, <1>2, <1>4
  <2> QED BY <1>0, <1>1, <2>1, <2>2, BegunGood
<1> QED BY <1>3, <1>4

LEMMA Attribute1EndGood ==
    ASSUME IInv, Attribute1End
    PROVE  Good'
<1> USE RoundFacts
<1>0. /\ phase = "core" /\ context = "ATTRIBUTE_1" /\ UNCHANGED attvars
      /\ context' \in {"VALUE", "WHITESPACE", "ATTRIBUTE_1"}
      /\ context' = "WHITESPACE" => oldcontext' = "ATTRIBUTE_1"
  BY DEF Attribute1End, In, Round, Ended
<1>1. PICK o \in Terminate : Store(o) /\ (o.done => context' # "ATTRIBUTE_1") /\ (~o.done => ret' # "OK")
  BY <1>0 DEF Attribute1End, Ended, Return, Leave
<1>2. Grown /\ StackFits' /\ ub' = {} /\ ArrayFits'
  BY <1>0, <1>1, EndedFacts DEF attvars
<1>3. CleanBetweenTags'
  BY <1>0 DEF CleanBetweenTags, InsideTag
<1>4. /\ attflag /\ attcur + 2 < Len(atts) /\ attcur % 2 = 0 /\ atts # <<>>
      /\ tagName \in 0 .. Len(stack) /\ CString(stack, tagName)
      /\ atts[attcur + 1] \in 0 .. Len(stack)
      /\ \A i \in 1 .. attcur : CString(stack, atts[i])
  BY <1>0 DEF AttsOK, StringsOK, InAttribute, InsideTag
<1>5. /\ atts' = atts /\ attcur' = attcur /\ attflag' = attflag /\ tagName' = tagName
      /\ tagName \in 0 .. Len(stack') /\ CString(stack', tagName)
      /\ \A i \in 1 .. attcur : CString(stack', atts[i])
  <2>1. \A i \in 1 .. attcur : CString(stack', atts[i])
    <3> SUFFICES ASSUME NEW i \in 1 .. attcur PROVE CString(stack', atts[i])
      OBVIOUS
    <3>1. i \in 1 .. Len(atts)
      BY <1>0
    <3> QED BY <1>0, <1>2, <1>4, <3>1, GrownKeeps
  <2>2. tagName \in Pointer
    BY <1>4 DEF Pointer
  <2> QED BY <1>0, <1>2, <1>4, <2>1, <2>2, GrownKeeps DEF attvars
<1>6. CASE o.done
  <2>1. CString(stack', atts[attcur + 1])
    BY <1>0, <1>1, <1>4, <1>6, EndedFacts
  <2>2. ContextOK'
    BY <1>0, <1>1, <1>6 DEF ContextOK
  <2>3. AttsOK'
    BY <1>0, <1>1, <1>4, <1>5, <1>6 DEF AttsOK, InAttribute, BehindAttribute, BeforeAttributes
  <2>4. StringsOK'
    BY <1>0, <1>1, <1>5, <1>6, <2>1 DEF StringsOK, InAttribute
  <2> QED BY <1>2, <1>3, <2>2, <2>3, <2>4 DEF Good
<1>7. CASE ~o.done
  BY <1>1, <1>2, <1>3, <1>7, FailedGood
<1> QED BY <1>6, <1>7

LEMMA Attribute2Good ==
    ASSUME IInv, Attribute2
    PROVE  Good'
<1> USE RoundFacts
<1>0. /\ phase = "core" /\ context = "ATTRIBUTE_2" /\ In("ATTRIBUTE_2")
      /\ UNCHANGED <<stack, stackMax, tagName, attvars>>
  BY DEF Attribute2, In, Round
<1>1. /\ attflag /\ attcur < Len(atts) /\ attcur % 2 = 0 /\ atts # <<>>
      /\ tagName \in 0 .. Len(stack) /\ CString(stack, tagName)
      /\ \A i \in 1 .. attcur : CString(stack, atts[i])
  BY <1>0 DEF AttsOK, StringsOK, InAttribute, BehindAttribute, InsideTag
<1>2. attcur' = attcur /\ attflag' = attflag /\ stack' = stack /\ stackMax' = stackMax
      /\ attmax' = attmax /\ tagName' = tagName
  BY <1>0 DEF attvars
<1>3. CASE Char \in {SLASH, GT}
  <2>1. atts' = PutAtt(atts, attcur, NULL) /\ ub' = {} /\ context' = "TAG_END"
    BY <1>0, <1>1, <1>3 DEF Attribute2, AttFault
  <2>2. /\ Len(atts') = Len(atts) /\ atts'[attcur + 1] = NULL /\ atts' \in Seq(Pointer)
        /\ \A j \in 1 .. Len(atts) : j # attcur + 1 => atts'[j] = atts[j]
    <3>1. NULL \in Pointer
      BY DEF Pointer
    <3> QED BY <1>0, <1>1, <2>1, <3>1, PutAttFacts
  <2>3. StackFits' /\ ArrayFits'
    BY <1>0, <1>1, <1>2, <2>2 DEF StackFits, ArrayFits
  <2>4. CleanBetweenTags' /\ ContextOK'
    BY <2>1 DEF CleanBetweenTags, ContextOK, InsideTag
  <2>5. AttsOK'
    <3>1. atts' # <<>>
      BY <1>0, <1>1, <2>2
    <3> QED BY <1>0, <1>1, <1>2, <2>1, <2>2, <3>1
            DEF AttsOK, InAttribute, BehindAttribute, BeforeAttributes
  <2>6. StringsOK'
    <3>1. \A i \in 1 .. attcur : atts'[i] = atts[i]
      BY <1>0, <1>1, <2>2
    <3> QED BY <1>0, <1>1, <1>2, <2>1, <3>1 DEF StringsOK, InAttribute
  <2> QED BY <2>1, <2>3, <2>4, <2>5, <2>6 DEF Good
<1>4. CASE Char \notin {SLASH, GT}
  <2>1. /\ atts' = atts /\ ub' = {} /\ context' = "ATTRIBUTE"
        /\ UNCHANGED <<doc, fed, pos, len, phase, uni>>
    <3>1. Char # SLASH
      BY <1>4
    <3> QED BY <1>0, <1>4, <3>1 DEF Attribute2, GoTo, Redo, caller, result
  <2>2. StackFits' /\ ArrayFits' /\ CleanBetweenTags'
    BY <1>0, <1>2, <2>1 DEF StackFits, ArrayFits, CleanBetweenTags, InsideTag
  <2>3. ContextOK'
    <3>1. In("ATTRIBUTE")' /\ Char' = Char
      BY <1>0, <2>1 DEF In, Round, Char
    <3> QED BY <1>4, <2>1, <3>1 DEF ContextOK
  <2>4. AttsOK'
    BY <1>0, <1>1, <1>2, <2>1 DEF AttsOK, InAttribute, BehindAttribute, BeforeAttributes
  <2>5. StringsOK'
    BY <1>1, <1>2, <2>1 DEF StringsOK, InAttribute
  <2> QED BY <2>1, <2>2, <2>3, <2>4, <2>5 DEF Good
<1> QED BY <1>3, <1>4

LEMMA ValueStartGoes ==
    ASSUME ValueStart
    PROVE  context' \in {"VALUE_APOS", "VALUE_QUOT"} \/ (ret' # "OK" /\ context' = context)
<1>1. Step("VALUE_APOS") \/ Step("VALUE_QUOT") \/ BadXml
  BY DEF ValueStart
<1> QED BY <1>1 DEF Step, GoTo, BadXml, Return, Leave, grammar

LEMMA ValueStartGood ==
    ASSUME IInv, ValueStart
    PROVE  Good'
<1> USE RoundFacts
<1>0. /\ phase = "core" /\ context = "VALUE"
      /\ UNCHANGED <<stack, stackMax, tagName, attvars>>
  BY DEF ValueStart, In, Round
<1>1. /\ attflag /\ attcur + 2 < Len(atts) /\ attcur % 2 = 0
      /\ tagName \in 0 .. Len(stack) /\ CString(stack, tagName)
      /\ CString(stack, atts[attcur + 1])
      /\ \A i \in 1 .. attcur : CString(stack, atts[i])
  BY <1>0 DEF AttsOK, StringsOK, InAttribute, InsideTag
<1>2. attcur' = attcur /\ attflag' = attflag /\ stack' = stack /\ stackMax' = stackMax
      /\ attmax' = attmax /\ tagName' = tagName
  BY <1>0 DEF attvars
<1>3. atts' = PutAtt(atts, attcur + 1, Len(stack)) /\ ub' = {}
  BY <1>0, <1>1 DEF ValueStart, AttFault
<1>4. /\ Len(atts') = Len(atts) /\ atts'[attcur + 2] = Len(stack) /\ atts' \in Seq(Pointer)
      /\ \A i \in 1 .. attcur + 1 : atts'[i] = atts[i]
  <2>1. Len(stack) \in Pointer /\ attcur + 1 \in Nat
    BY <1>0 DEF Pointer
  <2>2. /\ Len(atts') = Len(atts) /\ atts'[(attcur + 1) + 1] = Len(stack) /\ atts' \in Seq(Pointer)
        /\ \A j \in 1 .. Len(atts) : j # (attcur + 1) + 1 => atts'[j] = atts[j]
    <3> DEFINE i == attcur + 1
    <3>1. i < Len(atts) /\ i \in Nat
      BY <1>0, <1>1
    <3>2. atts' = PutAtt(atts, i, Len(stack))
      BY <1>3
    <3> HIDE DEF i
    <3>3. /\ Len(atts') = Len(atts) /\ atts'[i + 1] = Len(stack) /\ atts' \in Seq(Pointer)
          /\ \A j \in 1 .. Len(atts) : j # i + 1 => atts'[j] = atts[j]
      BY <1>0, <2>1, <3>1, <3>2, PutAttFacts
    <3> QED BY <3>3 DEF i
  <2> QED BY <1>0, <1>1, <2>2
<1>5. StackFits' /\ ArrayFits'
  BY <1>0, <1>1, <1>2, <1>4 DEF StackFits, ArrayFits
<1>6. context' \in {"VALUE_APOS", "VALUE_QUOT"} \/ (ret' # "OK" /\ context' = context)
  BY ValueStartGoes, Zenon
<1>7. CleanBetweenTags'
  BY <1>0, <1>6 DEF CleanBetweenTags, InsideTag
<1>8. CASE context' \in {"VALUE_APOS", "VALUE_QUOT"}
  <2>1. ContextOK'
    BY <1>8 DEF ContextOK
  <2>2. AttsOK'
    <3>1. atts' # <<>>
      BY <1>0, <1>1, <1>4
    <3> QED BY <1>0, <1>1, <1>2, <1>4, <1>8, <3>1
            DEF AttsOK, InAttribute, BehindAttribute, BeforeAttributes
  <2>3. StringsOK'
    <3>1. atts'[attcur + 1] = atts[attcur + 1] /\ \A i \in 1 .. attcur : atts'[i] = atts[i]
      BY <1>0, <1>4
    <3>2. atts'[attcur + 2] \in 0 .. Len(stack)
      BY <1>0, <1>4
    <3> QED BY <1>0, <1>1, <1>2, <1>8, <3>1, <3>2 DEF StringsOK, InAttribute
  <2> QED BY <1>3, <1>5, <1>7, <2>1, <2>2, <2>3 DEF Good
<1>9. CASE ret' # "OK"
  BY <1>3, <1>5, <1>7, <1>9, FailedGood
<1> QED BY <1>6, <1>8, <1>9

LEMMA ValueEndGood ==
    ASSUME IInv, ValueEnd
    PROVE  Good'
<1> USE RoundFacts
<1>0. phase = "core" /\ context \in {"VALUE_APOS", "VALUE_QUOT"}
  BY DEF ValueEnd, In, Round
<1>1. PICK o \in Terminate :
        /\ Store(o) /\ UNCHANGED <<attmax, attflag>>
        /\ o.done => context' = "WHITESPACE" /\ oldcontext' = "ATTRIBUTE_2" /\ attcur' = attcur + 2
        /\ ~o.done => ret' # "OK" /\ context' = context
  BY DEF ValueEnd, Return, Leave
<1>2. Grown /\ StackFits' /\ ub' = {} /\ ArrayFits'
  BY <1>0, <1>1, EndedFacts
<1>3. CleanBetweenTags'
  BY <1>0, <1>1 DEF CleanBetweenTags, InsideTag
<1>4. /\ attflag /\ attcur + 2 < Len(atts) /\ attcur % 2 = 0 /\ atts # <<>>
      /\ tagName \in 0 .. Len(stack) /\ CString(stack, tagName)
      /\ CString(stack, atts[attcur + 1])
      /\ atts[attcur + 2] \in 0 .. Len(stack)
      /\ \A i \in 1 .. attcur : CString(stack, atts[i])
  BY <1>0 DEF AttsOK, StringsOK, InAttribute, InsideTag
<1>5. CASE o.done
  <2>1. atts' = atts /\ attflag' = attflag /\ tagName' = tagName
    BY <1>0, <1>1, <1>2, <1>4, GrownKeeps
  <2>2. CString(stack', tagName) /\ tagName \in 0 .. Len(stack')
    <3>1. tagName \in Pointer
      BY <1>4 DEF Pointer
    <3> QED BY <1>0, <1>2, <1>4, <3>1, GrownKeeps
  <2>3. \A i \in 1 .. attcur + 2 : CString(stack', atts[i])
    <3> SUFFICES ASSUME NEW i \in 1 .. attcur + 2 PROVE CString(stack', atts[i])
      OBVIOUS
    <3>1. i \in 1 .. Len(atts) /\ (i \in 1 .. attcur \/ i = attcur + 1 \/ i = attcur + 2)
      BY <1>0, <1>4
    <3>2. CASE i = attcur + 2
      BY <1>0, <1>1, <1>4, <1>5, <3>2, EndedFacts
    <3>3. CASE i # attcur + 2
      BY <1>0, <1>2, <1>4, <3>1, <3>3, GrownKeeps
    <3> QED BY <3>2, <3>3
  <2>4. ContextOK'
    BY <1>1, <1>5 DEF ContextOK
  <2>5. AttsOK'
    <3>1. (attcur + 2) % 2 = 0
      BY <1>0, <1>4
    <3> QED BY <1>0, <1>1, <1>4, <1>5, <2>1, <3>1
            DEF AttsOK, InAttribute, BehindAttribute, BeforeAttributes
  <2>6. StringsOK'
    BY <1>1, <1>5, <2>1, <2>2, <2>3 DEF StringsOK, InAttribute
  <2> QED BY <1>2, <1>3, <2>4, <2>5, <2>6 DEF Good
<1>6. CASE ~o.done
  BY <1>1, <1>2, <1>3, <1>6, FailedGood
<1> QED BY <1>5, <1>6

\* White space hands the byte behind it to the context it was entered for.
LEMMA WhitespaceGood ==
    ASSUME IInv, Whitespace
    PROVE  Good'
<1> USE RoundFacts
<1>0. /\ phase = "core" /\ context = "WHITESPACE"
      /\ UNCHANGED <<heap, attvars, ub, entity, oldcontext>>
      /\ context' \in {context, oldcontext}
  BY DEF Whitespace, In, Round, Untouched
<1>1. CASE context' = context
  BY <1>0, <1>1, SameGood
<1>2. CASE context' = oldcontext
  <2>1. oldcontext \in {"TAG_END", "ATTRIBUTE", "ATTRIBUTE_1", "ATTRIBUTE_2"}
    BY <1>0 DEF ContextOK
  <2>2. /\ oldcontext \in {"TAG_END", "ATTRIBUTE"} => attcur = 0
        /\ oldcontext = "ATTRIBUTE_1" => attflag /\ attcur + 2 < Len(atts) /\ CString(stack, atts[attcur + 1])
        /\ oldcontext = "ATTRIBUTE_2" => attflag /\ attcur < Len(atts)
        /\ tagName \in 0 .. Len(stack) /\ CString(stack, tagName)
        /\ \A i \in 1 .. attcur : CString(stack, atts[i])
    BY <1>0 DEF AttsOK, StringsOK, BeforeAttributes, InAttribute, BehindAttribute, InsideTag
  <2>3. StackFits' /\ ArrayFits' /\ ub' = {}
    BY <1>0, HeapKept
  <2>4. /\ stack' = stack /\ atts' = atts /\ tagName' = tagName
        /\ attcur' = attcur /\ attflag' = attflag
    BY <1>0 DEF heap, attvars
  <2>5. CleanBetweenTags'
    BY <1>2, <2>1 DEF CleanBetweenTags, InsideTag
  <2>6. ContextOK'
    BY <1>2, <2>1, <2>2, <2>4 DEF ContextOK
  <2>7. AttsOK'
    <3>1. attcur % 2 = 0 /\ (attflag => atts # <<>>) /\ (attcur # 0 => attflag /\ attcur < Len(atts))
      BY <1>0 DEF AttsOK
    <3> QED BY <1>2, <2>1, <2>2, <2>4, <3>1 DEF AttsOK, InAttribute, BehindAttribute, BeforeAttributes
  <2>8. StringsOK'
    <3>1. oldcontext = "ATTRIBUTE_1" => atts[attcur + 1] \in 0 .. Len(stack)
      <4> SUFFICES ASSUME oldcontext = "ATTRIBUTE_1" PROVE atts[attcur + 1] \in 0 .. Len(stack)
        OBVIOUS
      <4>1. attcur + 1 \in 1 .. Len(atts)
        BY <1>0, <2>2
      <4>2. atts[attcur + 1] \in Pointer
        BY <1>0, <4>1, ElementOfSeq
      <4>3. atts[attcur + 1] \in Int
        BY <4>2 DEF Pointer, NULL, DANGLING
      <4> QED BY <1>0, <2>2, <4>3, StringInside
    <3> QED BY <1>2, <2>1, <2>2, <2>4, <3>1 DEF StringsOK, InAttribute
  <2> QED BY <2>3, <2>5, <2>6, <2>7, <2>8 DEF Good
<1> QED BY <1>0, <1>1, <1>2

\* What is pending at the end of a buffer joins the stack.
LEMMA EndOfBufferGood ==
    ASSUME IInv, EndOfBuffer
    PROVE  Good'
<1> USE RoundFacts
<1>0. phase = "core" /\ pos = len /\ UNCHANGED <<grammar, attvars, entity>>
  BY DEF EndOfBuffer
<1>1. PICK o \in Flush : Store(o)
  BY DEF EndOfBuffer
<1>2. Grown /\ StackFits' /\ ub' = {} /\ ArrayFits'
  BY <1>0, <1>1, EndedFacts DEF attvars
<1>3. /\ context' = context /\ oldcontext' = oldcontext /\ entity' = entity
      /\ attcur' = attcur /\ attflag' = attflag
  BY <1>0 DEF grammar, attvars
<1>4. CASE context \notin InsideTag
  <2>1. stack = <<>> /\ attcur = 0 /\ ~attflag /\ stackOld = NoStackOld
    BY <1>0, <1>4 DEF CleanBetweenTags, IInv, NothingPending
  <2>2. stack' = <<>>
    <3>1. \A x \in Flush : x.stack = <<>>
      <4>1. stack \o Pending = <<>>
        BY <2>1 DEF Pending
      <4> QED BY <2>1, <4>1 DEF Flush, FlushFailures, Outcome
    <3> QED BY <1>1, <3>1 DEF Store
  <2>3. CleanBetweenTags'
    BY <1>3, <2>1, <2>2 DEF CleanBetweenTags
  <2>4. ContextOK'
    BY <1>0, <1>3, <1>4 DEF ContextOK, InsideTag
  <2>5. AttsOK'
    BY <1>3, <1>4, <2>1 DEF AttsOK, InAttribute, BehindAttribute, InsideTag
  <2>6. StringsOK'
    <3>1. context = "TAG_START" => tagName' \in 0 .. Len(stack')
      BY <1>0, <1>2, GrownKeeps DEF StringsOK
    <3> QED BY <1>3, <1>4, <2>1, <3>1 DEF StringsOK, InAttribute, InsideTag
  <2> QED BY <1>2, <2>3, <2>4, <2>5, <2>6 DEF Good
<1>5. CASE context \in InsideTag
  <2>1. CleanBetweenTags'
    BY <1>3, <1>5 DEF CleanBetweenTags
  <2>2. ContextOK'
    <3>1. ~In("ATTRIBUTE")
      BY <1>0 DEF In, Round, TypeOK
    <3> QED BY <1>0, <1>3, <3>1 DEF ContextOK
  <2>3. AttsOK /\ Len(atts') = Len(atts) /\ (attflag => atts' = atts)
    BY <1>0, <1>2, GrownKeeps
  <2>4. AttsOK'
    BY <1>0, <1>3, <2>3 DEF AttsOK, InAttribute, BehindAttribute, BeforeAttributes
  <2>5. tagName' \in 0 .. Len(stack') /\ (context # "TAG" => CString(stack', tagName'))
    <3>1. tagName \in 0 .. Len(stack) /\ tagName \in Pointer /\ (context # "TAG" => CString(stack, tagName))
      BY <1>0, <1>5 DEF StringsOK, Pointer
    <3> QED BY <1>0, <1>2, <3>1, GrownKeeps
  <2>6. ASSUME attflag PROVE StringsOK'
    <3>1. \A i \in 1 .. attcur : CString(stack', atts[i])
      <4> SUFFICES ASSUME NEW i \in 1 .. attcur PROVE CString(stack', atts[i])
        OBVIOUS
      <4>1. i \in 1 .. Len(atts) /\ CString(stack, atts[i])
        BY <1>0 DEF StringsOK
      <4> QED BY <1>0, <1>2, <4>1, GrownKeeps
    <3>2. context = "ATTRIBUTE_1" => atts[attcur + 1] \in 0 .. Len(stack')
      BY <1>0, <1>2, GrownKeeps DEF StringsOK
    <3>3. InAttribute /\ context # "ATTRIBUTE_1" => CString(stack', atts[attcur + 1])
      <4> SUFFICES ASSUME InAttribute, context # "ATTRIBUTE_1" PROVE CString(stack', atts[attcur + 1])
        OBVIOUS
      <4>1. attcur + 1 \in 1 .. Len(atts)
        BY <1>0 DEF AttsOK
      <4>2. CString(stack, atts[attcur + 1])
        BY <1>0 DEF StringsOK
      <4> QED BY <1>0, <1>2, <4>1, <4>2, GrownKeeps
    <3>4. context \in {"VALUE_APOS", "VALUE_QUOT"} => atts[attcur + 2] \in 0 .. Len(stack')
      BY <1>0, <1>2, GrownKeeps DEF StringsOK
    <3>5. atts' = atts
      BY <2>3, <2>6
    <3> QED BY <1>3, <2>5, <3>1, <3>2, <3>3, <3>4, <3>5 DEF StringsOK, InAttribute, InsideTag
  <2>7. ASSUME ~attflag PROVE StringsOK'
    <3>1. attcur = 0 /\ ~InAttribute
      BY <1>0, <2>7 DEF AttsOK
    <3>2. context # "ATTRIBUTE_1" /\ context \notin {"VALUE_APOS", "VALUE_QUOT"}
      BY <3>1 DEF InAttribute
    <3> QED BY <1>3, <2>5, <3>1, <3>2 DEF StringsOK, InAttribute, InsideTag
  <2> QED BY <1>2, <2>1, <2>2, <2>4, <2>6, <2>7 DEF Good
<1> QED BY <1>4, <1>5

\* Bytes are pending only in the buffer of the current call, inside a tag.
LEMMA PendingStep ==
    ASSUME IInv, Core
    PROVE  NothingPending'
<1> USE DEF NothingPending, InsideTag
<1>0. NothingPending /\ (phase = "core" => ContextOK)
  BY DEF IInv, Working
<1>1. CASE Utf8Byte
  BY <1>0, <1>1 DEF Utf8Byte, LeadMarks, grammar, Advance, result, Round
<1>2. CASE Utf8Bad
  BY <1>0, <1>2 DEF Utf8Bad, BadXml, Return, Leave
<1>3. CASE CDataChar
  BY <1>0, <1>3 DEF CDataChar, In, Step, Keep, GoTo
<1>4. CASE CDataAmp
  BY <1>0, <1>4 DEF CDataAmp, In, Step, Keep, GoTo, Return, Leave
<1>5. CASE CDataLt
  BY <1>0, <1>5 DEF CDataLt, In, Step, Keep, GoTo, Return, Leave
<1>6. CASE TagStart
  BY <1>0, <1>6 DEF TagStart, In, Untouched, Round, Advance, result
<1>7. CASE TagSpace
  BY <1>0, <1>7 DEF TagSpace, Ended, Return, Leave
<1>8. CASE TagSlash
  BY <1>0, <1>8 DEF TagSlash, Ended, BadXml, Return, Leave
<1>9. CASE TagGt
  BY <1>0, <1>9 DEF TagGt, Ended, Return, Leave
<1>10. CASE TagChar
  BY <1>0, <1>10 DEF TagChar, In, Round, Advance, result, grammar
<1>11. CASE TagEnd
  BY <1>0, <1>11 DEF TagEnd, Return, Leave
<1>12. CASE TagEndBad
  BY <1>0, <1>12 DEF TagEndBad, BadXml, Return, Leave
<1>13. CASE AttributeEnd
  BY <1>0, <1>13 DEF AttributeEnd, In, Keep, Advance, Redo, result, Round
<1>14. CASE AttributeFirst
  BY <1>0, <1>14 DEF AttributeFirst, BeginAttribute, In, Round, Advance, result, GoTo, Return, Leave
<1>15. CASE AttributeNext
  BY <1>0, <1>15 DEF AttributeNext, BeginAttribute, In, Round, Advance, result, GoTo, Return, Leave
<1>16. CASE Attribute1End
  BY <1>0, <1>16 DEF Attribute1End, Ended, Return, Leave
<1>17. CASE Attribute1Char
  BY <1>0, <1>17 DEF Attribute1Char, In, Round, Advance, result, grammar
<1>18. CASE Attribute2
  BY <1>0, <1>18 DEF Attribute2, In, Round, Keep, Advance, Redo, result, GoTo
<1>19. CASE ValueSpace
  BY <1>0, <1>19 DEF ValueSpace, In, Round, Step, Keep, Advance, result, GoTo
<1>20. CASE ValueStart
  <2>1. Step("VALUE_APOS") \/ Step("VALUE_QUOT") \/ BadXml
    BY <1>20 DEF ValueStart
  <2>2. phase = "core"
    BY <1>20 DEF ValueStart, In, Round
  <2> QED BY <1>0, <2>1, <2>2 DEF Step, Keep, GoTo, BadXml, Return, Leave, Advance, result
<1>21. CASE ValueEnd
  BY <1>0, <1>21 DEF ValueEnd, In, Round, Advance, result, Return, Leave
<1>22. CASE ValueChar
  BY <1>0, <1>22 DEF ValueChar, In, Round, Advance, result, grammar
<1>23. CASE Whitespace
  BY <1>0, <1>23 DEF Whitespace, ContextOK, In, Round, Keep, Advance, Redo, result
<1>24. CASE EntityChr
  BY <1>0, <1>24 DEF EntityChr, In, Step, Keep, GoTo, BadXml, Return, Leave
<1>25. CASE EntityEnd
  BY <1>0, <1>25 DEF EntityEnd, In, ToCData, GoTo, Return, Leave
<1>26. CASE Comment
  BY <1>0, <1>26 DEF Comment, In, Step, Keep, GoTo, BadXml, Return, Leave
<1>27. CASE CommentEnd
  BY <1>0, <1>27 DEF CommentEnd, In, ToCData, BadXml, Return, Leave
<1>28. CASE Markup
  BY <1>0, <1>28 DEF Markup, In, Step, Keep, GoTo, ToCData
<1>29. CASE Sect
  BY <1>0, <1>29 DEF Sect, In, SectOpening, GoTo, BadXml, Return, Leave
<1>30. CASE SectC
  BY <1>0, <1>30 DEF SectC, In, Step, Keep, GoTo, Return, Leave
<1>31. CASE SectE
  BY <1>0, <1>31 DEF SectE, In, Step, Keep, GoTo, Return, Leave
<1>32. CASE SectE2
  BY <1>0, <1>32 DEF SectE2, In, ToCData, GoTo, Return, Leave
<1>33. CASE Pi
  BY <1>0, <1>33 DEF Pi, In, GoTo
<1>34. CASE EndOfBuffer
  BY <1>0, <1>34 DEF EndOfBuffer, Return, Leave
<1>35. CASE CDataReset
  BY <1>0, <1>35 DEF CDataReset, In, AdvanceFromZero, Leave
<1>36. CASE EntityReset
  BY <1>0, <1>36 DEF EntityReset, In, AdvanceFromZero
<1>37. CASE SectReset
  BY <1>0, <1>37 DEF SectReset, In, AdvanceFromZero
<1>38. CASE EndReset
  BY <1>38 DEF EndReset, Leave
<1> QED BY <1>1, <1>2, <1>3, <1>4, <1>5, <1>6, <1>7, <1>8, <1>9, <1>10, <1>11, <1>12,
    <1>13, <1>14, <1>15, <1>16, <1>17, <1>18, <1>19, <1>20, <1>21, <1>22, <1>23, <1>24, <1>25,
    <1>26, <1>27, <1>28, <1>29, <1>30, <1>31, <1>32, <1>33, <1>34, <1>35,
    <1>36, <1>37, <1>38 DEF Core

\* A reset by the cdataHook leaves an empty stack and no open attribute; at
\* most the name of a tag begins behind it.
LEMMA ResetGood ==
    ASSUME IInv, phase = "core", ResetByHook, ub' = {}, stackMax' \in {stackMax, StackInit},
           \/ context' \in {"CDATA", "SECT_CDATA_C", "ENTITY"}
           \/ context' = "TAG_START" /\ tagName' = 0
    PROVE  Good'
<1> USE RoundFacts
<1>1. /\ stack' = <<>> /\ entity' = <<>> /\ attcur' = 0 /\ ~attflag'
      /\ UNCHANGED <<atts, attmax>>
  BY DEF ResetByHook, ClearTag
<1>2. Len(stack') = 0 /\ Len(entity') = 0
  BY <1>1
<1>3. stackMax' \in Nat
  BY SaxAssumption DEF TypeOK
<1>4. StackFits' /\ ArrayFits' /\ CleanBetweenTags'
  BY <1>1, <1>2, <1>3 DEF StackFits, ArrayFits, CleanBetweenTags
<1>5. ContextOK'
  BY <1>1, <1>2 DEF ContextOK
<1>6. AttsOK'
  BY <1>1 DEF AttsOK, InAttribute, BehindAttribute, BeforeAttributes
<1>7. StringsOK'
  BY <1>1, <1>2 DEF StringsOK, InAttribute, InsideTag
<1> QED BY <1>4, <1>5, <1>6, <1>7 DEF Good

\* No round of sax_core breaks the memory part of the invariant.
LEMMA GoodStep ==
    ASSUME IInv, Core, "grow" \notin AllocMayFail
    PROVE  Good'
<1>0. ContextOK \/ phase # "core"
  BY DEF IInv, Working
<1>1. CASE Utf8Byte
  <2>1. phase = "core" /\ UNCHANGED <<heap, attvars, ub, context, oldcontext, entity>>
    BY <1>1 DEF Utf8Byte, Round, grammar
  <2>2. context # "ATTRIBUTE" \/ attcur = 0
    BY <1>0, <1>1, <2>1 DEF Utf8Byte, ContextOK, In
  <2> QED BY <2>1, <2>2, SameGood
<1>2. CASE Utf8Bad
  BY <1>2, SameGood DEF Utf8Bad, Round, BadXml, Return, Leave, grammar
<1>3. CASE CDataChar
  BY <1>3, SameGood DEF CDataChar, In, Round, Step, GoTo, Untouched
<1>4. CASE CDataAmp
  <2>1. /\ phase = "core" /\ context = "CDATA" /\ UNCHANGED <<heap, attvars, ub>>
        /\ \/ context' = "ENTITY" /\ entity' = <<>>
           \/ context' = "CDATA"
    BY <1>4 DEF CDataAmp, In, Round, Step, GoTo, grammar
  <2> QED BY <2>1, OutsideGood DEF InsideTag
<1>5. CASE CDataLt
  BY <1>5, CDataLtGood
<1>6. CASE TagStart
  BY <1>6, TagStartGood
<1>7. CASE TagSpace
  <2>1. /\ phase = "core" /\ context = "TAG" /\ UNCHANGED attvars
        /\ context' = "WHITESPACE" /\ oldcontext' \in {"TAG_END", "ATTRIBUTE"}
    BY <1>7 DEF TagSpace, In, Round, Ended
  <2>2. PICK o \in Terminate : Store(o) /\ (o.done \/ ret' # "OK")
    BY <1>7 DEF TagSpace, Ended, Return, Leave
  <2> QED BY <2>1, <2>2, TagNameGood
<1>8. CASE TagSlash
  <2>1. CASE tagtype = "CLOSE"
    BY <1>8, <2>1, SameGood DEF TagSlash, In, Round, BadXml, Return, Leave, grammar
  <2>2. CASE tagtype # "CLOSE"
    <3>1. phase = "core" /\ context = "TAG" /\ UNCHANGED attvars /\ context' = "TAG_END"
      BY <1>8, <2>2 DEF TagSlash, In, Round, Ended
    <3>2. PICK o \in Terminate : Store(o) /\ (o.done \/ ret' # "OK")
      BY <1>8, <2>2 DEF TagSlash, Ended, Return, Leave
    <3> QED BY <3>1, <3>2, TagNameGood
  <2> QED BY <2>1, <2>2
<1>9. CASE TagGt
  <2>1. phase = "core" /\ context = "TAG" /\ UNCHANGED attvars /\ context' = "TAG_END"
    BY <1>9 DEF TagGt, In, Round, Ended
  <2>2. PICK o \in Terminate : Store(o) /\ (o.done \/ ret' # "OK")
    BY <1>9 DEF TagGt, Ended, Return, Leave
  <2> QED BY <2>1, <2>2, TagNameGood
<1>10. CASE TagChar
  BY <1>10, SameGood DEF TagChar, In, Round, Untouched, grammar
<1>11. CASE TagEnd
  BY <1>11, TagEndGood
<1>12. CASE TagEndBad
  BY <1>12, SameGood DEF TagEndBad, In, Round, BadXml, Return, Leave, Untouched, grammar
<1>13. CASE AttributeEnd
  BY <1>13, AttributeEndGood
<1>14. CASE AttributeFirst
  BY <1>14, AttributeFirstGood
<1>15. CASE AttributeNext
  BY <1>15, AttributeNextGood
<1>16. CASE Attribute1End
  BY <1>16, Attribute1EndGood
<1>17. CASE Attribute1Char
  BY <1>17, SameGood DEF Attribute1Char, In, Round, Untouched, grammar
<1>18. CASE Attribute2
  BY <1>18, Attribute2Good
<1>19. CASE ValueSpace
  BY <1>19, SameGood DEF ValueSpace, In, Round, Step, GoTo, Untouched
<1>20. CASE ValueStart
  BY <1>20, ValueStartGood
<1>21. CASE ValueEnd
  BY <1>21, ValueEndGood
<1>22. CASE ValueChar
  BY <1>22, SameGood DEF ValueChar, In, Round, Untouched, grammar
<1>23. CASE Whitespace
  BY <1>23, WhitespaceGood
<1>24. CASE EntityChr
  <2>1. phase = "core" /\ context = "ENTITY" /\ Len(entity) <= 7
    BY <1>0, <1>24 DEF EntityChr, In, Round, ContextOK
  <2>2. entity \in Seq(Byte) /\ Char \in Byte
    BY <1>24, CharType DEF EntityChr, In, IInv, TypeOK
  <2>3. Len(entity') = Len(entity) + 1 /\ Len(entity) \in Nat
    BY <1>24, <2>2, LenProperties, AppendProperties DEF EntityChr
  <2>4. UNCHANGED <<heap, attvars, ub>> /\ context' = "ENTITY" /\ (ret' = "OK" => Len(entity') <= 7)
    <3>1. CASE Len(entity) + 1 > 7
      BY <1>24, <2>1, <2>2, <2>3, <3>1 DEF EntityChr, BadXml, Return, Leave, grammar
    <3>2. CASE ~(Len(entity) + 1 > 7)
      BY <1>24, <2>1, <2>2, <2>3, <3>2 DEF EntityChr, Step, GoTo
    <3> QED BY <3>1, <3>2
  <2> QED BY <2>1, <2>4, OutsideGood DEF InsideTag
<1>25. CASE EntityEnd
  <2>1. /\ phase = "core" /\ context = "ENTITY" /\ UNCHANGED <<heap, attvars, ub>>
        /\ context' = "CDATA" \/ (context' = "ENTITY" /\ ret' # "OK")
    BY <1>0, <1>25 DEF EntityEnd, In, Round, ToCData, GoTo, grammar, ContextOK, Return, Leave
  <2> QED BY <2>1, OutsideGood DEF InsideTag
<1>26. CASE Comment
  <2>1. /\ phase = "core" /\ context \notin InsideTag \cup {"TAG_START"}
        /\ UNCHANGED <<heap, attvars, ub>>
        /\ context' \notin InsideTag \cup {"TAG_START", "ENTITY"}
    BY <1>26 DEF Comment, InsideTag, In, Round, Step, GoTo, BadXml, Return, Leave, Untouched, grammar
  <2> QED BY <2>1, OutsideGood
<1>27. CASE CommentEnd
  <2>1. /\ phase = "core" /\ context \notin InsideTag \cup {"TAG_START"}
        /\ UNCHANGED <<heap, attvars, ub>>
        /\ context' \notin InsideTag \cup {"TAG_START", "ENTITY"}
    BY <1>27 DEF CommentEnd, InsideTag, In, Round, ToCData, GoTo, BadXml, Return, Leave, Untouched, grammar
  <2> QED BY <2>1, OutsideGood
<1>28. CASE Markup
  <2>1. /\ phase = "core" /\ context \notin InsideTag \cup {"TAG_START"}
        /\ UNCHANGED <<heap, attvars, ub>>
        /\ context' \notin InsideTag \cup {"TAG_START", "ENTITY"}
    BY <1>28 DEF Markup, InsideTag, In, Round, Step, GoTo, ToCData, Untouched
  <2> QED BY <2>1, OutsideGood
<1>29. CASE Sect
  <2>1. /\ phase = "core" /\ context \notin InsideTag \cup {"TAG_START"}
        /\ UNCHANGED <<heap, attvars, ub>>
        /\ context' \notin InsideTag \cup {"TAG_START", "ENTITY"}
    BY <1>29 DEF Sect, InsideTag, In, Round, SectOpening, GoTo, BadXml, Return, Leave, Untouched, grammar
  <2> QED BY <2>1, OutsideGood
<1>30. CASE SectC
  <2>1. /\ phase = "core" /\ context \notin InsideTag \cup {"TAG_START"}
        /\ UNCHANGED <<heap, attvars, ub>>
        /\ context' \notin InsideTag \cup {"TAG_START", "ENTITY"}
    BY <1>30 DEF SectC, InsideTag, In, Round, Step, GoTo, Return, Leave
  <2> QED BY <2>1, OutsideGood
<1>31. CASE SectE
  <2>1. /\ phase = "core" /\ context \notin InsideTag \cup {"TAG_START"}
        /\ UNCHANGED <<heap, attvars, ub>>
        /\ context' \notin InsideTag \cup {"TAG_START", "ENTITY"}
    BY <1>31 DEF SectE, InsideTag, In, Round, Step, GoTo, Return, Leave, grammar
  <2> QED BY <2>1, OutsideGood
<1>32. CASE SectE2
  <2>1. /\ phase = "core" /\ context \notin InsideTag \cup {"TAG_START"}
        /\ UNCHANGED <<heap, attvars, ub>>
        /\ context' \notin InsideTag \cup {"TAG_START", "ENTITY"}
    BY <1>32 DEF SectE2, InsideTag, In, Round, ToCData, GoTo, Return, Leave
  <2> QED BY <2>1, OutsideGood
<1>33. CASE Pi
  <2>1. /\ phase = "core" /\ context \notin InsideTag \cup {"TAG_START"}
        /\ UNCHANGED <<heap, attvars, ub>>
        /\ context' \notin InsideTag \cup {"TAG_START", "ENTITY"}
    BY <1>33 DEF Pi, InsideTag, In, Round, GoTo, Untouched
  <2> QED BY <2>1, OutsideGood
<1>34. CASE EndOfBuffer
  BY <1>34, EndOfBufferGood
<1>35. CASE CDataReset
  <2>1. /\ phase = "core" /\ ResetByHook /\ UNCHANGED ub /\ stackMax' \in {stackMax, StackInit}
        /\ \/ context' \in {"CDATA", "ENTITY"}
           \/ context' = "TAG_START" /\ tagName' = 0
    BY <1>35 DEF CDataReset, In, Round
  <2> QED BY <2>1, ResetGood DEF IInv
<1>36. CASE EntityReset
  <2>1. /\ phase = "core" /\ ResetByHook /\ UNCHANGED <<stackMax, ub>> /\ context' = "CDATA"
    BY <1>0, <1>36 DEF EntityReset, In, Round, ContextOK
  <2> QED BY <2>1, ResetGood DEF IInv
<1>37. CASE SectReset
  <2>1. /\ phase = "core" /\ ResetByHook /\ UNCHANGED <<stackMax, ub>>
        /\ context' \in {"CDATA", "SECT_CDATA_C"}
    BY <1>37 DEF SectReset, In, Round
  <2> QED BY <2>1, ResetGood DEF IInv
<1>38. CASE EndReset
  <2>1. /\ phase = "core" /\ ResetByHook /\ UNCHANGED <<stackMax, ub>> /\ context' = "CDATA"
    BY <1>38 DEF EndReset
  <2> QED BY <2>1, ResetGood DEF IInv
<1> QED BY <1>1, <1>2, <1>3, <1>4, <1>5, <1>6, <1>7, <1>8, <1>9, <1>10, <1>11, <1>12,
    <1>13, <1>14, <1>15, <1>16, <1>17, <1>18, <1>19, <1>20, <1>21, <1>22, <1>23, <1>24, <1>25,
    <1>26, <1>27, <1>28, <1>29, <1>30, <1>31, <1>32, <1>33, <1>34, <1>35,
    <1>36, <1>37, <1>38 DEF Core

\* A round leaves the call alone or returns from it.
LEMMA RunsOrReturns ==
    ASSUME Core
    PROVE  UNCHANGED <<caller, result>> \/ (phase' = "caller" /\ len' = 0)
<1>1. CASE Utf8Byte
  BY <1>1 DEF Utf8Byte, Advance
<1>2. CASE Utf8Bad
  BY <1>2 DEF Utf8Bad, BadXml, Return, Leave
<1>3. CASE CDataChar
  BY <1>3 DEF CDataChar, Step, Advance
<1>4. CASE CDataAmp
  BY <1>4 DEF CDataAmp, Step, Advance, Return, Leave
<1>5. CASE CDataLt
  BY <1>5 DEF CDataLt, Step, Advance, Return, Leave
<1>6. CASE TagStart
  BY <1>6 DEF TagStart, Advance
<1>7. CASE TagSpace
  BY <1>7 DEF TagSpace, Ended, Advance, Return, Leave
<1>8. CASE TagSlash
  BY <1>8 DEF TagSlash, Ended, Advance, BadXml, Return, Leave
<1>9. CASE TagGt
  BY <1>9 DEF TagGt, Ended, Redo, Return, Leave
<1>10. CASE TagChar
  BY <1>10 DEF TagChar, Advance
<1>11. CASE TagEnd
  BY <1>11 DEF TagEnd, Return, Leave
<1>12. CASE TagEndBad
  BY <1>12 DEF TagEndBad, BadXml, Return, Leave
<1>13. CASE AttributeEnd
  BY <1>13 DEF AttributeEnd, Advance, Redo
<1>14. CASE AttributeFirst
  BY <1>14 DEF AttributeFirst, BeginAttribute, Advance, Return, Leave
<1>15. CASE AttributeNext
  BY <1>15 DEF AttributeNext, BeginAttribute, Advance, Return, Leave
<1>16. CASE Attribute1End
  BY <1>16 DEF Attribute1End, Ended, Advance, Return, Leave
<1>17. CASE Attribute1Char
  BY <1>17 DEF Attribute1Char, Advance
<1>18. CASE Attribute2
  BY <1>18 DEF Attribute2, Advance, Redo
<1>19. CASE ValueSpace
  BY <1>19 DEF ValueSpace, Step, Advance
<1>20. CASE ValueStart
  <2>1. Step("VALUE_APOS") \/ Step("VALUE_QUOT") \/ BadXml
    BY <1>20 DEF ValueStart
  <2> QED BY <2>1 DEF Step, BadXml, Return, Leave, Advance
<1>21. CASE ValueEnd
  BY <1>21 DEF ValueEnd, Advance, Return, Leave
<1>22. CASE ValueChar
  BY <1>22 DEF ValueChar, Advance
<1>23. CASE Whitespace
  BY <1>23 DEF Whitespace, Advance, Redo
<1>24. CASE EntityChr
  BY <1>24 DEF EntityChr, BadXml, Step, Advance, Return, Leave
<1>25. CASE EntityEnd
  BY <1>25 DEF EntityEnd, ToCData, Advance, Return, Leave
<1>26. CASE Comment
  BY <1>26 DEF Comment, Step, Advance, BadXml, Return, Leave
<1>27. CASE CommentEnd
  BY <1>27 DEF CommentEnd, ToCData, Advance, BadXml, Return, Leave
<1>28. CASE Markup
  BY <1>28 DEF Markup, Step, ToCData, Advance
<1>29. CASE Sect
  BY <1>29 DEF Sect, Advance, BadXml, Return, Leave
<1>30. CASE SectC
  BY <1>30 DEF SectC, Step, Advance, Return, Leave
<1>31. CASE SectE
  BY <1>31 DEF SectE, Step, Advance, Return, Leave
<1>32. CASE SectE2
  BY <1>32 DEF SectE2, ToCData, Advance, Return, Leave
<1>33. CASE Pi
  BY <1>33 DEF Pi, Advance
<1>34. CASE EndOfBuffer
  BY <1>34 DEF EndOfBuffer, Return, Leave
<1>35. CASE CDataReset
  BY <1>35 DEF CDataReset, AdvanceFromZero, Leave
<1>36. CASE EntityReset
  BY <1>36 DEF EntityReset, AdvanceFromZero
<1>37. CASE SectReset
  BY <1>37 DEF SectReset, AdvanceFromZero
<1>38. CASE EndReset
  BY <1>38 DEF EndReset, Leave
<1> QED BY <1>1, <1>2, <1>3, <1>4, <1>5, <1>6, <1>7, <1>8, <1>9, <1>10, <1>11, <1>12,
    <1>13, <1>14, <1>15, <1>16, <1>17, <1>18, <1>19, <1>20, <1>21, <1>22, <1>23, <1>24, <1>25,
    <1>26, <1>27, <1>28, <1>29, <1>30, <1>31, <1>32, <1>33, <1>34, <1>35,
    <1>36, <1>37, <1>38 DEF Core

-----------------------------------------------------------------------------
(* The invariant holds, and with it its parts.                             *)

\* The user resets the parser after an error, and the array always grows.
Careful == ~ResumeAfterError /\ "grow" \notin AllocMayFail

LEMMA CoreStep ==
    ASSUME IInv, Core, Careful
    PROVE  IInv'
<1>1. phase = "core" /\ TypeOK /\ StackFits
  BY DEF IInv, Core, Utf8Byte, Utf8Bad, CDataChar, CDataAmp, CDataLt, TagStart, TagSpace,
    TagSlash, TagGt, TagChar, TagEnd, TagEndBad, AttributeEnd, AttributeFirst, AttributeNext,
    Attribute1End, Attribute1Char, Attribute2, ValueSpace, ValueStart, ValueEnd, ValueChar,
    Whitespace, EntityChr, EntityEnd, Comment, CommentEnd, Markup, Sect, SectC, SectE, SectE2,
    Pi, EndOfBuffer, CDataReset, EntityReset, SectReset, EndReset, In, Round
<1>2. ret = "OK" /\ attcur <= Len(atts)
  BY <1>1, RoundFacts
<1>3. TypeOK'
  <2>1. LocalsOK' /\ GrammarOK' /\ HeapOK'
    BY <1>1, <1>2, TypeParts, LocalsStep, GrammarStep, HeapStep
  <2> QED BY <2>1 DEF TypeOK, LocalsOK, GrammarOK, HeapOK, Pointer
<1>4. Good'
  BY GoodStep DEF Careful
<1>5. NothingPending'
  BY PendingStep
<1>6. phase' = "core" => ret' = "OK"
  BY <1>2, RunsOrReturns DEF result
<1>7. phase' # "core" => len' = 0
  BY <1>1, RunsOrReturns DEF result
<1> QED BY <1>3, <1>4, <1>5, <1>6, <1>7 DEF IInv, Good

LEMMA ParseStep ==
    ASSUME IInv, NEW k \in 1 .. Len(doc), Parse(k), Careful
    PROVE  IInv'
<1>1. ret = "OK" /\ phase = "caller" /\ fed + k <= Len(doc)
  BY DEF Parse, Careful
<1>2. /\ phase' = "core" /\ len' = k /\ pos' = 0 /\ old' = 0 /\ stackOld' = NoStackOld
      /\ UNCHANGED <<ret, doc, fed, resets, grammar, counts, seen>>
      /\ UNCHANGED <<heap, attvars, entity, uni, ub>>
  BY DEF Parse
<1>3. TypeOK /\ ContextOK /\ AttsOK /\ StringsOK
  BY <1>1 DEF IInv, Working
<1>4. TypeOK'
  <2>1. LocalsOK'
    <3>1. LocalsOK /\ Len(doc) \in Nat
      BY <1>3, TypeParts, SaxAssumption, LenProperties DEF LocalsOK
    <3> QED BY <1>1, <1>2, <3>1 DEF LocalsOK, counts
  <2>2. GrammarOK'
    BY <1>2, <1>3, TypeParts DEF GrammarOK, grammar
  <2>3. HeapOK'
    BY <1>2, <1>3, TypeParts DEF HeapOK, heap, attvars
  <2> QED BY <2>1, <2>2, <2>3 DEF TypeOK, LocalsOK, GrammarOK, HeapOK, Pointer
<1>5. ContextOK'
  <2>1. ~In("ATTRIBUTE")
    BY <1>1 DEF In, Round
  <2> QED BY <1>2, <1>3, <2>1 DEF ContextOK, grammar, attvars
<1>6. AttsOK'
  BY <1>2, <1>3 DEF AttsOK, grammar, heap, attvars, InAttribute, BehindAttribute, BeforeAttributes
<1>7. StringsOK'
  BY <1>2, <1>3 DEF StringsOK, grammar, heap, attvars, InAttribute
<1>8. StackFits' /\ ArrayFits'
  BY <1>2, HeapKept
<1>9. NothingPending' /\ ub' = {} /\ CleanBetweenTags'
  BY <1>2 DEF IInv, NothingPending, CleanBetweenTags, grammar, heap, attvars
<1> QED BY <1>1, <1>2, <1>4, <1>5, <1>6, <1>7, <1>8, <1>9 DEF IInv

LEMMA ResetStep ==
    ASSUME IInv, NEW d \in Again, Reset(d)
    PROVE  IInv'
<1>1. /\ phase = "caller" /\ resets < MaxResets /\ resets' = resets + 1
      /\ doc' = d /\ fed' = 0 /\ ret' = "OK" /\ entity' = <<>>
      /\ context' = "CDATA" /\ oldcontext' = "CDATA" /\ tagtype' = "OPEN"
      /\ stack' = <<>> /\ attcur' = 0 /\ attflag' = FALSE
      /\ nrBytes' = 0 /\ nrLines' = 0
      /\ UNCHANGED <<phase, len, locals, stackMax, tagName, atts, attmax, ub>>
  BY DEF Reset, ClearGrammar, ClearTag
<1>2. TypeOK /\ StackFits /\ ArrayFits /\ ub = {} /\ NothingPending
  BY DEF IInv
<1>7. len = 0
  BY <1>1 DEF IInv
<1>3. CleanBetweenTags' /\ ContextOK' /\ AttsOK' /\ StringsOK'
  BY <1>1 DEF CleanBetweenTags, ContextOK, AttsOK, StringsOK, InAttribute, BehindAttribute,
             BeforeAttributes, InsideTag
<1>4. stack' \in Seq(Byte) /\ entity' \in Seq(Byte) /\ Len(stack') = 0
  BY <1>1, EmptySeq
<1>5. StackFits' /\ ArrayFits' /\ NothingPending'
  BY <1>1, <1>2, <1>4 DEF StackFits, ArrayFits, NothingPending, TypeOK, locals
<1>6. TypeOK'
  <2>1. LocalsOK'
    <3>1. LocalsOK /\ d \in Seq(Byte) /\ Len(d) \in Nat
      BY <1>2, TypeParts, SaxAssumption, LenProperties
    <3> QED BY <1>1, <1>7, <3>1, SaxAssumption DEF LocalsOK, locals, Results
  <2>2. GrammarOK'
    BY <1>1 DEF GrammarOK, Contexts
  <2>3. HeapOK'
    BY <1>1, <1>2, <1>4, TypeParts DEF HeapOK
  <2> QED BY <2>1, <2>2, <2>3 DEF TypeOK, LocalsOK, GrammarOK, HeapOK, Pointer
<1> QED BY <1>1, <1>2, <1>3, <1>5, <1>6, <1>7 DEF IInv

LEMMA DeleteStep ==
    ASSUME IInv, Delete
    PROVE  IInv'
<1>1. /\ phase = "caller" /\ phase' = "deleted"
      /\ stack' = <<>> /\ stackMax' = 0 /\ atts' = <<>>
      /\ UNCHANGED <<caller, ret, locals, grammar, tagName, attvars, entity, counts, ub>>
  BY DEF Delete
<1>2. TypeOK /\ CleanBetweenTags /\ ub = {} /\ NothingPending /\ len = 0
  BY <1>1 DEF IInv
<1>3. stack' \in Seq(Byte) /\ atts' \in Seq(Pointer) /\ Len(stack') = 0
  BY <1>1, EmptySeq
<1>4. TypeOK'
  <2>1. LocalsOK'
    BY <1>1, <1>2, TypeParts DEF LocalsOK, caller, locals, counts
  <2>2. GrammarOK'
    BY <1>1, <1>2, TypeParts DEF GrammarOK, grammar
  <2>3. HeapOK'
    BY <1>1, <1>2, <1>3, TypeParts DEF HeapOK, attvars
  <2> QED BY <2>1, <2>2, <2>3 DEF TypeOK, LocalsOK, GrammarOK, HeapOK, Pointer
<1>5. StackFits' /\ ArrayFits' /\ NothingPending'
  BY <1>1, <1>2, <1>3 DEF StackFits, ArrayFits, NothingPending, locals
<1>6. CleanBetweenTags'
  BY <1>1, <1>2 DEF CleanBetweenTags, grammar, attvars
<1> QED BY <1>1, <1>2, <1>4, <1>5, <1>6 DEF IInv, Working, caller

LEMMA InitInv ==
    ASSUME Init
    PROVE  IInv
<1>1. CleanBetweenTags /\ ContextOK /\ AttsOK /\ StringsOK
  BY DEF Init, CleanBetweenTags, ContextOK, AttsOK, StringsOK, InAttribute, BehindAttribute,
             BeforeAttributes, InsideTag
<1>2. <<>> \in Seq(Byte) /\ <<>> \in Seq(Pointer) /\ Len(<<>>) = 0
  BY EmptySeq
<1>3. TypeOK
  <2>1. LocalsOK
    <3>1. doc \in Seq(Byte) /\ Len(doc) \in Nat
      BY SaxAssumption, LenProperties DEF Init
    <3> QED BY <3>1, SaxAssumption DEF Init, LocalsOK, Results
  <2>2. GrammarOK
    BY DEF Init, GrammarOK, Contexts
  <2>3. HeapOK
    BY <1>2 DEF Init, HeapOK
  <2> QED BY <2>1, <2>2, <2>3 DEF TypeOK, LocalsOK, GrammarOK, HeapOK, Pointer
<1>4. StackFits /\ ArrayFits /\ NothingPending
  BY <1>2 DEF Init, StackFits, ArrayFits, NothingPending
<1> QED BY <1>1, <1>3, <1>4 DEF Init, IInv

LEMMA InvStep ==
    ASSUME IInv, [Next]_vars, Careful
    PROVE  IInv'
<1>1. CASE Core
  BY <1>1, CoreStep
<1>2. CASE \E k \in 1 .. Len(doc) : Parse(k)
  BY <1>2, ParseStep
<1>3. CASE \E d \in Again : Reset(d)
  BY <1>3, ResetStep
<1>4. CASE Delete
  BY <1>4, DeleteStep
<1>5. CASE UNCHANGED vars
  BY <1>5 DEF vars, caller, result, locals, grammar, heap, attvars, counts,
    IInv, TypeOK, NothingPending, StackFits, ArrayFits, CleanBetweenTags, Working, ContextOK,
    AttsOK, StringsOK, InAttribute, BehindAttribute, BeforeAttributes, In, Round, Char
<1> QED BY <1>1, <1>2, <1>3, <1>4, <1>5 DEF Next

\* The inductive invariant holds in every reachable state.
LEMMA Invariant == Careful => (Spec => []IInv)
<1> SUFFICES ASSUME Careful PROVE Spec => []IInv
  OBVIOUS
<1>1. Init => IInv
  BY InitInv
<1>2. IInv /\ [Next]_vars => IInv'
  BY InvStep
<1> QED BY <1>1, <1>2, PTL DEF Spec

\* Every variable of the parser keeps its type, and the pending bytes of a name
\* lie in the buffer of the current call (the locals of sax_core).
THEOREM TypeCorrect == Careful => (Spec => []TypeOK)
<1>1. IInv => TypeOK
  BY DEF IInv
<1> QED BY <1>1, Invariant, PTL

\* No byte is written past the end of the stack, of the attribute array or of
\* entity[8], and every string and attribute list a tagHook gets is terminated
\* (stack_expand, STACK_PUSH, STACK_PUSH_END, C_ATTRIBUTE, C_ENTITY, C_TAG_END).
THEOREM MemorySafe == Careful => (Spec => []NoUndefinedBehaviour)
<1>1. IInv => NoUndefinedBehaviour
  BY DEF IInv, NoUndefinedBehaviour
<1> QED BY <1>1, Invariant, PTL

\* Between two tags the stack is empty and no attribute is open (C_TAG_END).
THEOREM StackDrained == Careful => (Spec => []CleanBetweenTags)
<1>1. IInv => CleanBetweenTags
  BY DEF IInv
<1> QED BY <1>1, Invariant, PTL
=============================================================================
