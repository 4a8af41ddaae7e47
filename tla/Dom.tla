-------------------------------- MODULE Dom --------------------------------
(***************************************************************************)
(* The DOM parser of src/src/dom.c: hooks that build a tree (IksHeap) from *)
(* the calls of the SAX parser, and iks_tree and iks_load, which own such  *)
(* a parser for one document.  A document is a sequence of tokens, each a  *)
(* call of a hook or a syntax error; a tree has one object stack, so it is *)
(* deleted as a whole and its root stands for it.                          *)
(***************************************************************************)
EXTENDS IksHeap

CONSTANTS
    Docs,           \* sequences of tokens
    FileBuf,        \* tokens in a full buffer of iks_load (FILE_IO_BUF_SIZE)
    ReadMayFail,    \* fread may stop with an error
    NodesMayFail,   \* iks_insert may find no memory
    MaxDocs         \* bound: documents ever parsed

ASSUME DomAssumption ==
    /\ FileBuf \in Nat \ {0} /\ MaxDocs \in Nat
    /\ {ReadMayFail, NodesMayFail} \subseteq BOOLEAN

VARIABLES
    dom,     \* heap, trees that are not deleted, current, result (*iksptr) and err
    job,     \* the function the application called, and what it still has to parse
    read,    \* tokens parsed so far
    docs     \* documents so far

vars == <<dom, job, read, docs>>

-----------------------------------------------------------------------------
(* The hooks, as functions of dom.                                         *)

TreeOf(h, x) == IF x = NULL THEN NULL ELSE LET up == Chain(h, x, "parent") IN up[Len(up)]

Started(d, t) ==
    IF d.current = NULL
    THEN [d EXCEPT !.heap = Append(@, TagNode(t.name)), !.trees = @ \cup {Made(d.heap)}]
    ELSE [d EXCEPT !.heap = InsertedTag(@, d.current, t.name)]

Opened(d, t) ==
    LET x == Made(d.heap)
    IN  [Started(d, t) EXCEPT
            !.current = x,
            !.heap = FoldLeft(LAMBDA h, a : InsertedAttrib(h, x, a.name, a.value), @, t.atts)]

\* The new node is NULL, and becomes the current one.
Lost(d) == [d EXCEPT !.current = NULL]

ClosesAny(d, name) ==
    LET up == IF d.current = NULL THEN NULL ELSE d.heap[d.current].parent
    IN  CASE d.current = NULL -> [d EXCEPT !.err = "BADXML"]
          [] up # NULL        -> [d EXCEPT !.current = up]
          [] OTHER            -> [d EXCEPT !.result = d.current, !.current = NULL]
\* The name is compared with that of the node, and NULL with nothing.
Closed(d, name) ==
    LET up == IF d.current = NULL THEN NULL ELSE d.heap[d.current].parent
    IN  IF d.current = NULL \/ d.heap[d.current].name # name THEN [d EXCEPT !.err = "BADXML"]
        ELSE IF up # NULL THEN [d EXCEPT !.current = up]
        ELSE [d EXCEPT !.result = d.current, !.current = NULL]

WithText(d, t) ==
    IF d.current = NULL THEN d ELSE [d EXCEPT !.heap = InsertedText(@, d.current, t.text)]

\* What dom may be after a token.
Opens(d, t) ==
    {Opened(d, t)} \cup (IF NodesMayFail /\ d.current # NULL THEN {Lost(d)} ELSE {})
After(d, t) ==
    CASE t.kind = "open"   -> Opens(d, t)
      [] t.kind = "single" -> {Closed(e, t.name) : e \in Opens(d, t)}
      [] t.kind = "close"  -> {Closed(d, t.name)}
      [] t.kind = "text"   -> {WithText(d, t)}
      [] t.kind = "bad"    -> {[d EXCEPT !.err = "BADXML"]}

DeletedNever(d) == [d EXCEPT !.current = NULL]
\* deleteHook, called by iks_parser_reset and iks_parser_delete.
Deleted(d) ==
    [d EXCEPT !.current = NULL, !.trees = @ \ {TreeOf(d.heap, d.current)}]

-----------------------------------------------------------------------------
(* iks_parse, over the tokens of a buffer.                                 *)

Hook ==
    /\ job.phase = "parsing" /\ job.buf # <<>> /\ dom.err = "OK"
    /\ dom' \in After(dom, Head(job.buf))
    /\ read' = Append(read, Head(job.buf))
    /\ job' = [job EXCEPT !.buf = Tail(@)] /\ UNCHANGED docs

\* Back to the application, to the end of iks_tree, or to the loop of iks_load.
Return ==
    /\ job.buf = <<>> \/ dom.err # "OK"
    /\ job.phase = "parsing"
    /\ job' = IF job.caller = "load" /\ dom.err = "OK" /\ ~job.done
              THEN [job EXCEPT !.phase = "reading"]
              ELSE [job EXCEPT !.ret = dom.err,
                               !.phase = IF job.caller = "parse" THEN "app" ELSE "closing"]
    /\ UNCHANGED <<dom, read, docs>>

-----------------------------------------------------------------------------
(* iks_load.  A buffer that is not full is the end of the file or an error.*)

ReadShortAsEnd(j, n, eof) ==
    IF n = 0 THEN [j EXCEPT !.done = TRUE, !.ret = "OK", !.phase = "closing"]
    ELSE [j EXCEPT !.done = TRUE, !.buf = SubSeq(j.rest, 1, n),
                   !.rest = SubSeq(j.rest, n + 1, Len(j.rest)), !.phase = "parsing"]
ReadShort(j, n, eof) ==
    CASE ~eof          -> [j EXCEPT !.ret = "FILE_RWERR", !.phase = "closing"]
      [] eof /\ n = 0  -> [j EXCEPT !.done = TRUE, !.ret = "OK", !.phase = "closing"]
      [] OTHER         -> [j EXCEPT !.done = TRUE, !.buf = SubSeq(j.rest, 1, n),
                                    !.rest = SubSeq(j.rest, n + 1, Len(j.rest)), !.phase = "parsing"]

ReadFull(j) ==
    [j EXCEPT !.buf = SubSeq(j.rest, 1, FileBuf),
              !.rest = SubSeq(j.rest, FileBuf + 1, Len(j.rest)), !.phase = "parsing"]

ReadFile ==
    /\ job.phase = "reading"
    /\ \/ Len(job.rest) >= FileBuf /\ job' = ReadFull(job)
       \/ Len(job.rest) < FileBuf /\ job' = ReadShort(job, Len(job.rest), TRUE)
       \/ ReadMayFail /\ \E n \in 0 .. FileBuf - 1 :
            n <= Len(job.rest) /\ job' = ReadShort(job, n, FALSE)
    /\ UNCHANGED <<dom, read, docs>>

\* iks_parser_delete, at the end of iks_tree and iks_load or by the application.
Close ==
    /\ job.phase \in {"closing", "app"}
    /\ dom' = Deleted(dom) /\ job' = [job EXCEPT !.phase = "idle"]
    /\ UNCHANGED <<read, docs>>

-----------------------------------------------------------------------------
(* The application.  It deletes the tree it was given before it parses     *)
(* another document, and parses nothing behind an error.                   *)

NewJob(caller, doc) ==
    [caller |-> caller, doc |-> doc, done |-> caller = "tree",
     buf  |-> IF caller = "tree" THEN doc ELSE <<>>,
     rest |-> IF caller = "tree" THEN <<>> ELSE doc,
     ret  |-> IF caller = "load" THEN "NOMEM" ELSE "OK",
     phase |-> CASE caller = "parse" -> "app"
                 [] caller = "tree"  -> "parsing"
                 [] caller = "load"  -> "reading"]

Takes(d) == [d EXCEPT !.trees = @ \ {d.result}, !.result = NULL, !.err = "OK"]

\* iks_dom_new, iks_tree or iks_load.
Start(caller, doc) ==
    /\ job.phase = "idle" /\ docs < MaxDocs /\ docs' = docs + 1
    /\ dom' = [Takes(dom) EXCEPT !.current = NULL]
    /\ job' = NewJob(caller, doc) /\ read' = <<>>

Feed(n) ==
    /\ job.phase = "app" /\ dom.err = "OK"
    /\ job' = [job EXCEPT !.buf = SubSeq(job.rest, 1, n),
                          !.rest = SubSeq(job.rest, n + 1, Len(job.rest)), !.phase = "parsing"]
    /\ UNCHANGED <<dom, read, docs>>

\* iks_parser_reset, and a new document.
Reset(doc) ==
    /\ job.phase = "app" /\ docs < MaxDocs /\ docs' = docs + 1
    /\ dom' = Takes(Deleted(dom))
    /\ job' = NewJob("parse", doc) /\ read' = <<>>

Init ==
    /\ dom = [heap |-> <<>>, trees |-> {}, current |-> NULL, result |-> NULL, err |-> "OK"]
    /\ job = [caller |-> "parse", doc |-> <<>>, done |-> FALSE, buf |-> <<>>, rest |-> <<>>,
              ret |-> "OK", phase |-> "idle"]
    /\ read = <<>> /\ docs = 0

Next ==
    \/ Hook \/ Return \/ ReadFile \/ Close
    \/ \E doc \in Docs : Reset(doc) \/ \E caller \in {"parse", "tree", "load"} : Start(caller, doc)
    \/ \E n \in 1 .. Len(job.rest) : Feed(n)

Spec == Init /\ [][Next]_vars

-----------------------------------------------------------------------------
(* Properties.                                                             *)

NoDocument == <<>>

\* The document that was read so far, as iks_string would write it: elements that
\* are open, the last root, and whether the tags do not match.
StartTag(t) ==
    FoldLeft(LAMBDA s, a : s \o <<" ">> \o a.name \o <<"=", "'">> \o EscapeText(a.value) \o <<"'">>,
             <<"<">> \o t.name, t.atts)
Within(p, s) ==
    IF p.open = <<>> THEN p ELSE [p EXCEPT !.open[Len(p.open)].inner = @ \o s]
Ends(p) ==
    LET e     == Last(p.open)
        outer == [p EXCEPT !.open = Front(@)]
        s     == IF e.inner = <<>> THEN e.start \o <<"/", ">">>
                 ELSE e.start \o <<">">> \o e.inner \o <<"<", "/">> \o e.name \o <<">">>
    IN  IF outer.open = <<>> THEN [outer EXCEPT !.whole = s] ELSE Within(outer, s)
Begins(p, t) == [p EXCEPT !.open = Append(@, [start |-> StartTag(t), name |-> t.name, inner |-> <<>>])]
Matching(p, t) == p.open # <<>> /\ Last(p.open).name = t.name
Reads(p, t) ==
    CASE t.kind = "open"   -> Begins(p, t)
      [] t.kind = "single" -> Ends(Begins(p, t))
      [] t.kind = "text"   -> Within(p, EscapeText(t.text))
      [] t.kind = "close" /\ Matching(p, t) -> Ends(p)
      [] OTHER             -> [p EXCEPT !.broken = TRUE]
Document == FoldLeft(Reads, [open |-> <<>>, whole |-> NoDocument, broken |-> FALSE], read)

TypeOK ==
    /\ dom.trees \subseteq 1 .. Len(dom.heap) /\ dom.err \in {"OK", "BADXML"}
    /\ dom.current \in 0 .. Len(dom.heap)
    /\ dom.result # NULL => IsTag(dom.heap, dom.result) /\ dom.heap[dom.result].parent = NULL
    /\ job.phase \in {"idle", "app", "reading", "parsing", "closing"}
    /\ job.caller \in {"parse", "tree", "load"} /\ job.done \in BOOLEAN
    /\ job.ret \in {"OK", "BADXML", "NOMEM", "FILE_RWERR"}
    /\ docs \in 0 .. MaxDocs

\* iks_string of the tree is the document that was parsed, and tags that do not
\* match are refused, in a parser that is new and in one that was reset.
TreeIsDocument ==
    IF Document.broken THEN dom.err = "BADXML"
    ELSE /\ dom.err = "OK"
         /\ Document.whole = IF dom.result = NULL THEN NoDocument ELSE String(dom.heap, dom.result)

\* A tree is being built, is the result, or is deleted: none is lost at an error, a
\* reset or the end, and none is deleted while it is built or after it was handed out.
TreesOwned ==
    dom.trees = {TreeOf(dom.heap, dom.current), dom.result} \ {NULL}

\* iks_load returns IKS_OK only if all of the file was read and parsed, and if it
\* was, then nothing else.
LoadTellsAll ==
    job.caller = "load" /\ job.phase = "idle" =>
        (job.ret = "OK" <=> read = job.doc /\ job.done /\ ~Document.broken)

\* iks_tree "returns the parsed tree, or NULL if there is an error".
TreeOrError == job.caller = "tree" /\ job.phase = "idle" /\ job.ret # "OK" => dom.result = NULL
=============================================================================
