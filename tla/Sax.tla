-------------------------------- MODULE Sax --------------------------------
(***************************************************************************)
(* The SAX parser of src/src/sax.c.  One step of the model is one round of *)
(* the loop of sax_core: it looks at one byte of the buffer of the current *)
(* iks_parse call and either consumes it or leaves it to another context   *)
(* (re = 1 in the code).  The user of the parser cuts the document into    *)
(* calls of any size, resets the parser, and its hooks may fail.           *)
(*                                                                         *)
(* Memory is modelled: the stack that collects names and values has a      *)
(* capacity and moves when it grows, the attribute array has a capacity,   *)
(* allocations may fail.  Undefined behaviour adds its kind to ub.         *)
(***************************************************************************)
EXTENDS Xml, Utf8

CONSTANTS
    Docs,              \* documents the parser may be given
    Again,             \* those it may be given after a reset
    StackInit,         \* first size of the stack (128 in the code)
    AttStep,           \* attributes the array grows by (12 in the code)
    AllocMayFail,      \* allocations that may fail: "init", "expand", "atts", "grow"
    HookResults,       \* what a hook may do: "ok", "error", "reset" the parser
    Uncut,             \* documents the user never cuts inside a character
    ResumeAfterError,  \* the user calls iks_parse again after an error
    MaxResets          \* bound: number of iks_parser_reset calls

Allocations == {"init", "expand", "atts", "grow"}

ASSUME SaxAssumption ==
    /\ Docs \subseteq Seq(Byte) /\ Again \subseteq Docs
    /\ StackInit \in Nat \ {0}
    /\ AttStep \in Nat /\ AttStep >= 2
    /\ AllocMayFail \subseteq Allocations
    /\ HookResults \subseteq {"ok", "error", "reset"}
    /\ Uncut \subseteq Docs /\ ResumeAfterError \in BOOLEAN
    /\ MaxResets \in Nat

VARIABLES
    phase,       \* "caller", inside "core" (sax_core), or "deleted"
    ret,         \* result of the last iks_parse
    doc, fed,    \* the document; bytes of it in earlier calls
    len,         \* bytes in the buffer of this call
    pos, old, stackOld,              \* locals of sax_core, offsets in the buffer
    context, oldcontext, tagtype,    \* where in the grammar
    stack, stackMax,                 \* stack[0 .. stack_pos), its size (0: NULL)
    tagName,                         \* pointer into the stack
    atts, attmax, attcur, attflag,   \* attribute pointers and their bookkeeping
    entity,                          \* entity[0 .. entpos)
    uni,                             \* uni_max, uni_len, uni_char
    nrBytes, nrLines,
    resets,      \* iks_parser_reset calls so far
    seen,        \* what the hooks were told since the user's last reset
    ub           \* kinds of undefined behaviour met

caller  == <<doc, fed, len, resets>>
result  == <<phase, ret>>
locals  == <<pos, old, stackOld>>
grammar == <<context, oldcontext, tagtype>>
heap    == <<stack, stackMax, tagName, atts>>
attvars == <<attmax, attcur, attflag>>
counts  == <<nrBytes, nrLines>>
vars == <<caller, result, locals, grammar, heap, attvars, entity, uni, counts, seen, ub>>

\* A pointer is an offset into the current stack, or one of these.
NULL     == -1
DANGLING == -2

NoStackOld == -1

-----------------------------------------------------------------------------
(* The stack and the attribute array.                                      *)

Enlarged(max, top, n) ==
    LET need == n - (max - top)
    IN  IF need < max THEN max * 2 ELSE max + ((need * 6) \div 5)

\* STACK_PUSH and STACK_PUSH_END: the size they leave the stack with.
RoomFor(max, top, n) == IF max - top <= n THEN Enlarged(max, top, n) ELSE max
RoomForEnd(max, top) == IF top >= max THEN Enlarged(max, top, 1) ELSE max

Pending == IF stackOld = NoStackOld THEN <<>>
           ELSE SubSeq(doc, fed + stackOld + 1, fed + pos)

FlushMax == IF stackOld = NoStackOld THEN stackMax
            ELSE RoomFor(stackMax, Len(stack), Len(Pending))
TermMax  == RoomForEnd(FlushMax, Len(stack) + Len(Pending))

Outcome(done, s, max) == [done |-> done, stack |-> s, max |-> max]

FlushFailures == IF "expand" \in AllocMayFail /\ FlushMax # stackMax
                 THEN {Outcome(FALSE, stack, stackMax)} ELSE {}

\* STACK_PUSH of the pending bytes, and the same followed by STACK_PUSH_END.
Flush == {Outcome(TRUE, stack \o Pending, FlushMax)} \cup FlushFailures

Terminate ==
    {Outcome(TRUE, stack \o Pending \o <<0>>, TermMax)} \cup FlushFailures \cup
    IF "expand" \in AllocMayFail /\ TermMax # FlushMax
    THEN {Outcome(FALSE, stack \o Pending, FlushMax)} ELSE {}

\* stack_expand moves the stack: pointers follow only if attflag is set.
MovedNever(a) == [i \in 1 .. Len(a) |-> IF a[i] >= 0 THEN DANGLING ELSE a[i]]
Moved(a) == IF attflag THEN a
            ELSE [i \in 1 .. Len(a) |-> IF a[i] >= 0 THEN DANGLING ELSE a[i]]

Store(o) ==
    /\ stack' = o.stack /\ stackMax' = o.max
    /\ atts' = IF o.max = stackMax THEN atts ELSE Moved(atts)
    /\ ub' = ub \cup (IF Len(o.stack) > o.max THEN {"stack"} ELSE {})
                \cup (IF o.max # stackMax /\ attflag /\ 2 * attmax > Len(atts)
                      THEN {"atts"} ELSE {})
    /\ UNCHANGED tagName

PutAtt(a, i, p) == IF i < Len(a) THEN [a EXCEPT ![i + 1] = p] ELSE a
AttFault(a, i)  == IF i < Len(a) THEN {} ELSE {"atts"}

-----------------------------------------------------------------------------
(* Strings as the hooks read them: up to the first NUL.                    *)

Ends(s, p) == {k \in p + 1 .. Len(s) : s[k] = 0}
CString(s, p) == p >= 0 /\ Ends(s, p) # {}
String(s, p) ==
    IF CString(s, p)
    THEN SubSeq(s, p + 1, (CHOOSE k \in Ends(s, p) : \A j \in Ends(s, p) : k <= j) - 1)
    ELSE <<>>

\* Number of attributes up to the NULL that ends the list.
AttCount ==
    LET Stops(k) == 2 * k >= Len(atts) \/ atts[2 * k + 1] = NULL
    IN  CHOOSE k \in 0 .. Len(atts) : Stops(k) /\ \A j \in 0 .. k - 1 : ~Stops(j)

HookAtts == IF attcur = 0 THEN <<>>
            ELSE [i \in 1 .. AttCount |-> <<String(stack, atts[2 * i - 1]), String(stack, atts[2 * i])>>]

HookFaults ==
    (IF CString(stack, tagName) THEN {} ELSE {"string"}) \cup
    (IF attcur = 0 THEN {}
     ELSE (IF 2 * AttCount >= Len(atts) THEN {"atts"} ELSE {}) \cup
          (IF \A i \in 1 .. 2 * AttCount : CString(stack, atts[i]) THEN {} ELSE {"string"}))

-----------------------------------------------------------------------------
(* Rounds of the loop.                                                     *)

Char == doc[fed + pos + 1]

Round == phase = "core" /\ pos < len

In(x) == Round /\ ~UniBad(uni, Char) /\ ~Multibyte(uni, Char) /\ context = x

Advance ==
    /\ pos' = pos + 1
    /\ nrBytes' = nrBytes + 1
    /\ nrLines' = IF Char = NL THEN nrLines + 1 ELSE nrLines
    /\ UNCHANGED <<caller, result>>

\* re = 1: the same byte again in the new context.
Redo == UNCHANGED <<pos, counts, caller, result>>

\* return from sax_core: its locals and the rest of the buffer are gone.
Leave(e) ==
    /\ phase' = "caller" /\ ret' = e
    /\ fed' = fed + len /\ len' = 0
    /\ pos' = 0 /\ old' = 0 /\ stackOld' = NoStackOld
    /\ UNCHANGED <<doc, resets>>

Return(e) == Leave(e) /\ UNCHANGED counts

Keep == UNCHANGED <<old, stackOld>>

GoTo(x) == context' = x /\ UNCHANGED <<oldcontext, tagtype>>

Step(x) == Advance /\ Keep /\ GoTo(x)

BadXml == Return("BADXML") /\ UNCHANGED grammar

Buffered == IF old < pos THEN SubSeq(doc, fed + old + 1, fed + pos) ELSE <<>>

\* A cdataHook is not called for no data.  What happens when it resets the
\* parser is in CDataReset, EntityReset, SectReset and EndReset.
CdataResults(data) == IF data = <<>> THEN {"ok"} ELSE HookResults \ {"reset"}

Tell(data) == seen' = Say(seen, data)

Untouched == UNCHANGED <<heap, attvars, entity, uni, seen, ub>>

\* Contexts in which the lead byte of a character starts something pending.
LeadMarks == {"TAG", "ATTRIBUTE_1", "VALUE_APOS", "VALUE_QUOT"}

Utf8Byte ==
    /\ Round /\ ~UniBad(uni, Char) /\ Multibyte(uni, Char)
    /\ uni' = UniStep(uni, Char)
    /\ stackOld' = IF ~InSequence(uni) /\ stackOld = NoStackOld /\ context \in LeadMarks
                   THEN pos ELSE stackOld
    /\ Advance
    /\ UNCHANGED <<old, grammar, heap, attvars, entity, seen, ub>>

Utf8Bad ==
    /\ Round /\ UniBad(uni, Char)
    /\ uni' = UniAfterBad(uni, Char)
    /\ BadXml
    /\ UNCHANGED <<heap, attvars, entity, seen, ub>>

CDataChar ==
    /\ In("CDATA") /\ Char \notin {AMP, LT}
    /\ Step("CDATA") /\ Untouched

CDataAmp ==
    /\ In("CDATA") /\ Char = AMP
    /\ Tell(Buffered)
    /\ \E h \in CdataResults(Buffered) :
        IF h = "ok" THEN Step("ENTITY") /\ entity' = <<>>
        ELSE Return("HOOK") /\ UNCHANGED <<grammar, entity>>
    /\ UNCHANGED <<heap, attvars, uni, ub>>

\* The first '<' allocates the stack (STACK_INIT).
CDataLt ==
    /\ In("CDATA") /\ Char = LT
    /\ Tell(Buffered)
    /\ \E h \in CdataResults(Buffered) :
        \/ /\ h = "ok"
           /\ Step("TAG_START")
           /\ stackMax' = IF stackMax = 0 THEN StackInit ELSE stackMax
           /\ tagName' = Len(stack)
           /\ UNCHANGED <<stack, atts>>
        \/ /\ h = "ok" /\ stackMax = 0 /\ "init" \in AllocMayFail
           /\ Return("NOMEM") /\ UNCHANGED <<grammar, heap>>
        \/ /\ h = "error"
           /\ Return("HOOK") /\ UNCHANGED <<grammar, heap>>
    /\ UNCHANGED <<attvars, entity, uni, ub>>

TagStart ==
    /\ In("TAG_START") /\ Advance
    /\ UNCHANGED <<old, oldcontext>> /\ Untouched
    /\ context' = CASE Char = QMARK -> "PI"
                    [] Char = BANG  -> "MARKUP"
                    [] OTHER        -> "TAG"
    /\ tagtype' = CASE Char \in {QMARK, BANG} -> tagtype
                    [] Char = SLASH           -> "CLOSE"
                    [] OTHER                  -> "OPEN"
    /\ stackOld' = IF Char \in {QMARK, BANG, SLASH} THEN stackOld ELSE pos

\* The end of a name or value: what is pending goes to the stack with a NUL.
\* The context is assigned before (done or not) or only after the pushes.
Ended(x, onlyIfDone, step) ==
    \E o \in Terminate :
        /\ Store(o)
        /\ context' = IF onlyIfDone /\ ~o.done THEN context ELSE x
        /\ IF o.done THEN step /\ stackOld' = NoStackOld /\ UNCHANGED old
           ELSE Return("NOMEM")

TagSpace ==
    /\ In("TAG") /\ IsSpace(Char)
    /\ Ended("WHITESPACE", FALSE, Advance)
    /\ oldcontext' = IF tagtype = "CLOSE" THEN "TAG_END" ELSE "ATTRIBUTE"
    /\ UNCHANGED <<tagtype, attvars, entity, uni, seen>>

TagSlash ==
    /\ In("TAG") /\ Char = SLASH
    /\ IF tagtype = "CLOSE" THEN BadXml /\ UNCHANGED <<heap, ub>>
       ELSE Ended("TAG_END", FALSE, Advance) /\ tagtype' = "SINGLE" /\ UNCHANGED oldcontext
    /\ UNCHANGED <<attvars, entity, uni, seen>>

TagGt ==
    /\ In("TAG") /\ Char = GT
    /\ Ended("TAG_END", FALSE, Redo)
    /\ UNCHANGED <<oldcontext, tagtype, attvars, entity, uni, seen>>

Mark == stackOld' = (IF stackOld = NoStackOld THEN pos ELSE stackOld) /\ UNCHANGED old

TagChar ==
    /\ In("TAG") /\ ~IsSpace(Char) /\ Char \notin {SLASH, GT}
    /\ Advance /\ Mark /\ UNCHANGED grammar /\ Untouched

ClearTagKeepingStack == stack' = stack /\ attcur' = 0 /\ attflag' = FALSE
ClearTag == stack' = <<>> /\ attcur' = 0 /\ attflag' = FALSE

\* The tagHook may call iks_parser_reset: the assignments after it still run.
TagEnd ==
    /\ In("TAG_END") /\ Char = GT
    /\ seen' = Append(seen, Tag(tagtype, String(stack, tagName), HookAtts))
    /\ ub' = ub \cup HookFaults
    /\ \E h \in HookResults :
        IF h = "error"
        THEN Return("HOOK") /\ UNCHANGED <<grammar, heap, attvars, entity, uni>>
        ELSE /\ pos' = pos + 1 /\ old' = pos + 1 /\ stackOld' = NoStackOld
             /\ context' = "CDATA"
             /\ ClearTag
             /\ IF h = "ok"
                THEN /\ nrBytes' = nrBytes + 1
                     /\ UNCHANGED <<nrLines, oldcontext, tagtype, entity, uni>>
                ELSE /\ nrBytes' = 1 /\ nrLines' = 0
                     /\ oldcontext' = "CDATA" /\ tagtype' = "OPEN"
                     /\ entity' = <<>> /\ uni' = UniInit
             /\ UNCHANGED <<caller, result, stackMax, tagName, atts, attmax>>

TagEndBad ==
    /\ In("TAG_END") /\ Char # GT
    /\ BadXml /\ Untouched

AttributeEnd ==
    /\ In("ATTRIBUTE") /\ Char \in {SLASH, GT}
    /\ context' = "TAG_END" /\ UNCHANGED oldcontext
    /\ IF Char = SLASH THEN Advance /\ tagtype' = "SINGLE" ELSE Redo /\ UNCHANGED tagtype
    /\ Keep /\ Untouched

\* A new attribute begins in the array a, at the current end of the stack.
BeginAttribute(a, cur) ==
    /\ atts' = PutAtt(a, cur, Len(stack))
    /\ ub' = ub \cup AttFault(a, cur)
    /\ attcur' = cur /\ attflag' = TRUE
    /\ stackOld' = pos
    /\ Advance /\ GoTo("ATTRIBUTE_1") /\ UNCHANGED old

AttributeFirst ==
    /\ In("ATTRIBUTE") /\ Char \notin {SLASH, GT} /\ atts = <<>>
    /\ attmax' = AttStep
    /\ \/ BeginAttribute([i \in 1 .. 2 * AttStep |-> NULL], 0)
       \/ /\ "atts" \in AllocMayFail
          /\ Return("NOMEM") /\ UNCHANGED <<grammar, atts, attcur, attflag, ub>>
    /\ UNCHANGED <<stack, stackMax, tagName, entity, uni, seen>>

AttributeNext ==
    /\ In("ATTRIBUTE") /\ Char \notin {SLASH, GT} /\ atts # <<>>
    /\ IF attcur >= (attmax - 1) * 2
       THEN /\ attmax' = attmax + AttStep
            /\ \/ BeginAttribute([i \in 1 .. 2 * (attmax + AttStep) |->
                                    IF i <= attcur THEN atts[i] ELSE NULL], attcur)
               \/ /\ "grow" \in AllocMayFail
                  /\ Return("NOMEM") /\ UNCHANGED <<grammar, atts, attcur, attflag, ub>>
       ELSE BeginAttribute(atts, attcur) /\ UNCHANGED attmax
    /\ UNCHANGED <<stack, stackMax, tagName, entity, uni, seen>>

Attribute1End ==
    /\ In("ATTRIBUTE_1") /\ (Char = EQ \/ IsSpace(Char))
    /\ Ended(IF Char = EQ THEN "VALUE" ELSE "WHITESPACE", TRUE, Advance)
    /\ oldcontext' = IF context' = "WHITESPACE" THEN "ATTRIBUTE_1" ELSE oldcontext
    /\ UNCHANGED <<tagtype, attvars, entity, uni, seen>>

Attribute1Char ==
    /\ In("ATTRIBUTE_1") /\ Char # EQ /\ ~IsSpace(Char)
    /\ Advance /\ Mark /\ UNCHANGED grammar /\ Untouched

Attribute2 ==
    /\ In("ATTRIBUTE_2")
    /\ IF Char \in {SLASH, GT}
       THEN /\ atts' = PutAtt(atts, attcur, NULL)
            /\ ub' = ub \cup AttFault(atts, attcur)
            /\ context' = "TAG_END" /\ UNCHANGED oldcontext
            /\ tagtype' = IF Char = SLASH THEN "SINGLE" ELSE tagtype
       ELSE GoTo("ATTRIBUTE") /\ UNCHANGED <<atts, ub>>
    /\ IF Char = SLASH THEN Advance ELSE Redo
    /\ Keep /\ UNCHANGED <<stack, stackMax, tagName, attvars, entity, uni, seen>>

ValueSpace ==
    /\ In("VALUE") /\ IsSpace(Char)
    /\ Step("VALUE") /\ Untouched

ValueStart ==
    /\ In("VALUE") /\ ~IsSpace(Char)
    /\ atts' = PutAtt(atts, attcur + 1, Len(stack))
    /\ ub' = ub \cup AttFault(atts, attcur + 1)
    /\ CASE Char = APOS -> Step("VALUE_APOS")
         [] Char = QUOT -> Step("VALUE_QUOT")
         [] OTHER       -> BadXml
    /\ UNCHANGED <<stack, stackMax, tagName, attvars, entity, uni, seen>>

Delimiter == IF context = "VALUE_APOS" THEN APOS ELSE QUOT

\* The closing quote is itself left pending: what gets pushed for it, at the
\* end of the buffer, lands behind the NUL of the value.
ValueEnd ==
    /\ In("VALUE_APOS") \/ In("VALUE_QUOT")
    /\ Char = Delimiter
    /\ \E o \in Terminate :
        /\ Store(o)
        /\ IF o.done
           THEN /\ Advance /\ stackOld' = pos /\ UNCHANGED old
                /\ context' = "WHITESPACE" /\ oldcontext' = "ATTRIBUTE_2"
                /\ attcur' = attcur + 2
           ELSE Return("NOMEM") /\ UNCHANGED <<context, oldcontext, attcur>>
    /\ UNCHANGED <<tagtype, attmax, attflag, entity, uni, seen>>

ValueChar ==
    /\ In("VALUE_APOS") \/ In("VALUE_QUOT")
    /\ Char # Delimiter
    /\ Advance /\ Mark /\ UNCHANGED grammar /\ Untouched

WhitespaceStuck ==
    /\ In("WHITESPACE")
    /\ IF IsSpace(Char) THEN Advance ELSE Redo
    /\ Keep /\ UNCHANGED grammar /\ Untouched

Whitespace ==
    /\ In("WHITESPACE")
    /\ IF IsSpace(Char) THEN Advance /\ UNCHANGED context ELSE Redo /\ context' = oldcontext
    /\ Keep /\ UNCHANGED <<oldcontext, tagtype>> /\ Untouched

\* Back in character data, which begins behind this byte.
ToCData == Advance /\ old' = pos + 1 /\ UNCHANGED stackOld /\ GoTo("CDATA")

EntityChr ==
    /\ In("ENTITY") /\ Char # SEMI
    /\ entity' = Append(entity, Char)
    /\ ub' = ub \cup (IF Len(entity) > 7 THEN {"entity"} ELSE {})
    /\ IF Len(entity) + 1 > 7 THEN BadXml ELSE Step("ENTITY")
    /\ UNCHANGED <<heap, attvars, uni, seen>>

EntityEnd ==
    /\ In("ENTITY") /\ Char = SEMI
    /\ Tell(<<EntityChar(entity)>>)
    /\ ub' = ub \cup (IF Len(entity) > 7 THEN {"entity"} ELSE {})
    /\ \E h \in HookResults \ {"reset"} :
        IF h = "ok" THEN ToCData
        ELSE Return("HOOK") /\ UNCHANGED grammar
    /\ UNCHANGED <<heap, attvars, entity, uni>>

Comment ==
    /\ \/ In("COMMENT")   /\ IF Char = DASH THEN Step("COMMENT_1") ELSE BadXml
       \/ In("COMMENT_1") /\ Step(IF Char = DASH THEN "COMMENT_2" ELSE "COMMENT_1")
       \/ In("COMMENT_2") /\ Step(IF Char = DASH THEN "COMMENT_3" ELSE "COMMENT_1")
    /\ Untouched

CommentEnd ==
    /\ In("COMMENT_3")
    /\ IF Char = GT THEN ToCData ELSE BadXml
    /\ Untouched

Markup ==
    /\ \/ In("MARKUP") /\ CASE Char = LSQ  -> Step("SECT")
                            [] Char = DASH -> Step("COMMENT")
                            [] Char = GT   -> ToCData
                            [] OTHER       -> Step("MARKUP_1")
       \/ In("MARKUP_1") /\ IF Char = GT THEN ToCData ELSE Step("MARKUP_1")
    /\ Untouched

\* "<![CDATA[", one context per letter.
SectOpening == [SECT |-> <<cC, "SECT_CDATA">>, SECT_CDATA |-> <<cD, "SECT_CDATA_1">>,
    SECT_CDATA_1 |-> <<cA, "SECT_CDATA_2">>, SECT_CDATA_2 |-> <<cT, "SECT_CDATA_3">>,
    SECT_CDATA_3 |-> <<cA, "SECT_CDATA_4">>, SECT_CDATA_4 |-> <<LSQ, "SECT_CDATA_C">>]

Sect ==
    /\ \E x \in DOMAIN SectOpening :
        /\ In(x)
        /\ IF Char # SectOpening[x][1] THEN BadXml
           ELSE /\ Advance /\ GoTo(SectOpening[x][2]) /\ UNCHANGED stackOld
                /\ old' = IF x = "SECT_CDATA_4" THEN pos + 1 ELSE old
    /\ Untouched

\* The context is assigned before the hook is called.
SectC ==
    /\ In("SECT_CDATA_C")
    /\ IF Char # RSQ THEN Step("SECT_CDATA_C") /\ UNCHANGED seen
       ELSE /\ Tell(Buffered)
            /\ \E h \in CdataResults(Buffered) :
                IF h = "ok" THEN Step("SECT_CDATA_E")
                ELSE Return("HOOK") /\ GoTo("SECT_CDATA_E")
    /\ UNCHANGED <<heap, attvars, entity, uni, ub>>

SectE ==
    /\ In("SECT_CDATA_E")
    /\ IF Char = RSQ THEN Step("SECT_CDATA_E2") /\ UNCHANGED seen
       ELSE /\ Tell(<<RSQ>>)
            /\ \E h \in HookResults \ {"reset"} :
                IF h = "ok"
                THEN Advance /\ old' = pos /\ UNCHANGED stackOld /\ GoTo("SECT_CDATA_C")
                ELSE Return("HOOK") /\ UNCHANGED grammar
    /\ UNCHANGED <<heap, attvars, entity, uni, ub>>

SectE2 ==
    /\ In("SECT_CDATA_E2")
    /\ IF Char = GT THEN ToCData /\ UNCHANGED seen
       ELSE LET x == IF Char = RSQ THEN context ELSE "SECT_CDATA_C"
            IN  /\ Tell(IF Char = RSQ THEN <<RSQ>> ELSE <<RSQ, RSQ>>)
                /\ GoTo(x)
                /\ \E h \in HookResults \ {"reset"} :
                    IF h = "ok" THEN Advance /\ old' = pos /\ UNCHANGED stackOld
                    ELSE Return("HOOK")
    /\ UNCHANGED <<heap, attvars, entity, uni, ub>>

Pi ==
    /\ In("PI") /\ Advance
    /\ old' = pos + 1 /\ UNCHANGED stackOld
    /\ GoTo(IF Char = GT THEN "CDATA" ELSE "PI")
    /\ Untouched

\* Behind the loop: what is pending is saved for the next buffer, and the
\* character data of this one is handed over.
EndOfBuffer ==
    /\ phase = "core" /\ pos = len
    /\ LET tail == IF context \in {"CDATA", "SECT_CDATA_C"} THEN Buffered ELSE <<>>
       IN  \E o \in Flush :
            /\ Store(o)
            /\ IF ~o.done THEN Return("NOMEM") /\ UNCHANGED seen
               ELSE /\ Tell(tail)
                    /\ \E h \in CdataResults(tail) : Return(IF h = "ok" THEN "OK" ELSE "HOOK")
    /\ UNCHANGED <<grammar, attvars, entity, uni>>

-----------------------------------------------------------------------------
(* A cdataHook that calls iks_parser_reset and returns IKS_OK: sax_core    *)
(* goes on with its locals and with what it assigns behind the call.       *)

ResetByHook ==
    /\ "reset" \in HookResults
    /\ ClearTag /\ entity' = <<>> /\ uni' = UniInit
    /\ oldcontext' = "CDATA" /\ tagtype' = "OPEN"
    /\ UNCHANGED <<atts, attmax>>

AdvanceFromZero ==
    /\ pos' = pos + 1
    /\ nrBytes' = 1 /\ nrLines' = IF Char = NL THEN 1 ELSE 0
    /\ UNCHANGED <<stackOld, caller, result>>

\* The byte that ended the data opens an entity or a tag all the same.
CDataReset ==
    /\ In("CDATA") /\ Char \in {AMP, LT} /\ Buffered # <<>>
    /\ Tell(Buffered) /\ ResetByHook
    /\ \/ /\ Char = AMP /\ context' = "ENTITY"
          /\ AdvanceFromZero /\ UNCHANGED <<old, stackMax, tagName>>
       \/ /\ Char = LT /\ context' = "TAG_START"
          /\ stackMax' = IF stackMax = 0 THEN StackInit ELSE stackMax
          /\ tagName' = 0
          /\ AdvanceFromZero /\ UNCHANGED old
       \/ /\ Char = LT /\ context' = "CDATA"
          /\ stackMax = 0 /\ "init" \in AllocMayFail
          /\ Leave("NOMEM") /\ nrBytes' = 0 /\ nrLines' = 0
          /\ UNCHANGED <<stackMax, tagName>>
    /\ UNCHANGED ub

EntityReset ==
    /\ In("ENTITY") /\ Char = SEMI
    /\ Tell(<<EntityChar(entity)>>) /\ ResetByHook
    /\ ub' = ub \cup (IF Len(entity) > 7 THEN {"entity"} ELSE {})
    /\ context' = "CDATA" /\ old' = pos + 1
    /\ AdvanceFromZero /\ UNCHANGED <<stackMax, tagName>>

\* In a section the reset wins where the context is assigned before the call:
\* the rest of the section is character data, and is told again from old.
SectReset ==
    /\ \/ /\ In("SECT_CDATA_C") /\ Char = RSQ /\ Buffered # <<>>
          /\ Tell(Buffered)
          /\ context' = "CDATA" /\ UNCHANGED old
       \/ /\ In("SECT_CDATA_E") /\ Char # RSQ
          /\ Tell(<<RSQ>>)
          /\ context' = "SECT_CDATA_C" /\ old' = pos
       \/ /\ In("SECT_CDATA_E2") /\ Char # GT
          /\ Tell(IF Char = RSQ THEN <<RSQ>> ELSE <<RSQ, RSQ>>)
          /\ context' = "CDATA" /\ old' = pos
    /\ ResetByHook /\ AdvanceFromZero /\ UNCHANGED <<stackMax, tagName, ub>>

\* Character data is never handed over with bytes pending for the stack.
EndReset ==
    /\ phase = "core" /\ pos = len
    /\ context \in {"CDATA", "SECT_CDATA_C"} /\ Buffered # <<>>
    /\ Tell(Buffered) /\ ResetByHook
    /\ context' = "CDATA"
    /\ Leave("OK") /\ nrBytes' = 0 /\ nrLines' = 0
    /\ UNCHANGED <<stackMax, tagName, ub>>

-----------------------------------------------------------------------------
(* The user of the parser.                                                 *)

\* iks_sax_new or iks_sax_extend: a zeroed structure.
Init ==
    /\ phase = "caller" /\ ret = "OK"
    /\ doc \in Docs /\ fed = 0 /\ len = 0
    /\ pos = 0 /\ old = 0 /\ stackOld = NoStackOld
    /\ context = "CDATA" /\ oldcontext = "CDATA" /\ tagtype = "OPEN"
    /\ stack = <<>> /\ stackMax = 0 /\ tagName = NULL
    /\ atts = <<>> /\ attmax = 0 /\ attcur = 0 /\ attflag = FALSE
    /\ entity = <<>> /\ uni = UniInit
    /\ nrBytes = 0 /\ nrLines = 0
    /\ resets = 0 /\ seen = <<>> /\ ub = {}

\* iks_parse with the next k bytes; its argument finish is not looked at.
Parse(k) ==
    /\ phase = "caller" /\ (ret = "OK" \/ ResumeAfterError)
    /\ fed + k <= Len(doc)
    /\ fed + k < Len(doc) /\ Continuation(doc[fed + k + 1]) => doc \notin Uncut
    /\ phase' = "core" /\ len' = k
    /\ pos' = 0 /\ old' = 0 /\ stackOld' = NoStackOld
    /\ UNCHANGED <<ret, doc, fed, resets, grammar, counts, seen>>
    /\ UNCHANGED <<heap, attvars, entity, uni, ub>>

ClearGrammarPartly == oldcontext' = "CDATA" /\ tagtype' = "OPEN" /\ UNCHANGED context
ClearGrammar == context' = "CDATA" /\ oldcontext' = "CDATA" /\ tagtype' = "OPEN"

\* iks_parser_reset, for another document.
Reset(d) ==
    /\ phase = "caller" /\ resets < MaxResets
    /\ resets' = resets + 1
    /\ doc' = d /\ fed' = 0 /\ ret' = "OK" /\ seen' = <<>>
    /\ ClearGrammar /\ ClearTag
    /\ entity' = <<>> /\ uni' = UniInit
    /\ nrBytes' = 0 /\ nrLines' = 0
    /\ UNCHANGED <<phase, len, locals, stackMax, tagName, atts, attmax, ub>>

\* iks_parser_delete frees the stack and the array.
Delete ==
    /\ phase = "caller" /\ phase' = "deleted"
    /\ stack' = <<>> /\ stackMax' = 0 /\ atts' = <<>>
    /\ UNCHANGED <<caller, ret, locals, grammar, tagName, attvars, entity, uni, counts, seen, ub>>

Core == \/ Utf8Byte \/ Utf8Bad
        \/ CDataChar \/ CDataAmp \/ CDataLt
        \/ TagStart \/ TagSpace \/ TagSlash \/ TagGt \/ TagChar \/ TagEnd \/ TagEndBad
        \/ AttributeEnd \/ AttributeFirst \/ AttributeNext
        \/ Attribute1End \/ Attribute1Char \/ Attribute2
        \/ ValueSpace \/ ValueStart \/ ValueEnd \/ ValueChar \/ Whitespace
        \/ EntityChr \/ EntityEnd \/ Comment \/ CommentEnd \/ Markup
        \/ Sect \/ SectC \/ SectE \/ SectE2 \/ Pi
        \/ EndOfBuffer
        \/ CDataReset \/ EntityReset \/ SectReset \/ EndReset

Next == \/ Core
        \/ \E k \in 1 .. Len(doc) : Parse(k)
        \/ \E d \in Again : Reset(d)
        \/ Delete

Spec == Init /\ [][Next]_vars

\* sax_core is a sequential loop: once entered it keeps running.
FairSpec == Spec /\ WF_vars(Core)

-----------------------------------------------------------------------------
(* Properties.                                                             *)

Contexts == {"CDATA", "TAG_START", "TAG", "TAG_END", "ATTRIBUTE", "ATTRIBUTE_1",
    "ATTRIBUTE_2", "VALUE", "VALUE_APOS", "VALUE_QUOT", "WHITESPACE", "ENTITY",
    "COMMENT", "COMMENT_1", "COMMENT_2", "COMMENT_3", "MARKUP", "MARKUP_1",
    "SECT", "SECT_CDATA", "SECT_CDATA_1", "SECT_CDATA_2", "SECT_CDATA_3",
    "SECT_CDATA_4", "SECT_CDATA_C", "SECT_CDATA_E", "SECT_CDATA_E2", "PI"}

InsideTag == {"TAG", "TAG_END", "ATTRIBUTE", "ATTRIBUTE_1", "ATTRIBUTE_2", "VALUE",
              "VALUE_APOS", "VALUE_QUOT", "WHITESPACE"}

Results == {"OK", "BADXML", "NOMEM", "HOOK"}

\* Every variable of the parser has its type; the pending bytes of a name lie
\* in the buffer of the current call (locals old, stack_old, pos of sax_core).
TypeOK ==
    /\ phase \in {"caller", "core", "deleted"} /\ ret \in Results
    /\ doc \in Docs /\ fed \in Nat /\ len \in Nat /\ fed + len <= Len(doc)
    /\ pos \in 0 .. len /\ old \in 0 .. len
    /\ stackOld \in {NoStackOld} \cup (0 .. len) /\ stackOld < pos
    /\ context \in Contexts /\ oldcontext \in Contexts
    /\ tagtype \in {"OPEN", "CLOSE", "SINGLE"}
    /\ stack \in Seq(Byte) /\ stackMax \in Nat
    /\ tagName \in {NULL} \cup Nat
    /\ atts \in Seq({NULL, DANGLING} \cup Nat)
    /\ attmax \in Nat /\ attcur \in Nat /\ attflag \in BOOLEAN
    /\ entity \in Seq(Byte)
    /\ nrBytes \in Nat /\ nrLines \in Nat
    /\ resets \in 0 .. MaxResets
    /\ ub \subseteq {"stack", "atts", "entity", "string"}

\* No byte is written past the end of the stack, of the attribute array or of
\* entity[8], and every name and value handed to the tagHook is a terminated
\* string in the live stack (stack_expand, STACK_PUSH, C_ATTRIBUTE, C_TAG_END).
NoUndefinedBehaviour == ub = {}

\* Between two tags nothing is left on the stack and no attribute is open, so
\* the memory of the parser of an endless XML stream is bounded by its longest
\* tag (C_TAG_END, iks_parser_reset), whatever was cut, skipped or refused.
CleanBetweenTags ==
    context \notin InsideTag =>
        stack = <<>> /\ attcur = 0 /\ ~attflag

\* The loop of sax_core never spins on a byte (re = 1 hands it from context to
\* context): every iks_parse call returns.
ParseReturns == phase = "core" ~> phase # "core"

\* "once an error is detected, the processor must not continue normal
\* processing (i.e. it must not pass character data or markup information to
\* the application)": no event follows a syntax error before a reset.
SilentAfterError == [][ret = "BADXML" /\ ret' = "BADXML" => seen' = seen]_vars

\* "If you want to parse another document with your parser again, you should use
\* [iks_parser_reset]": after it no attribute is stored outside the array.
UsableAfterReset == resets > 0 => "atts" \notin ub
=============================================================================
