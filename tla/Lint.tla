-------------------------------- MODULE Lint --------------------------------
(***************************************************************************)
(* tools/ikslint.c and tools/hash.c: a document is judged by the events    *)
(* its parser reports; several documents are judged one after the other.   *)
(* A name is a sequence of numbers, one for each character.                *)
(***************************************************************************)
EXTENDS Integers, Sequences, FiniteSets, SequencesExt

CONSTANTS TagSize,   \* the first size of the list of open tags, 128
          Buckets    \* the size of the table of names, 367

-----------------------------------------------------------------------------
(* hash.c, with the names and counts of a chain of items in their order.   *)

\* Names are too short for the sum to leave the 32 bits of the code.
hash_str(name) == FoldLeft(LAMBDA h, c : 31 * h + c, 0, name)
Bucket(name) == (hash_str(name) % Buckets) + 1
hash_new == [b \in 1 .. Buckets |-> <<>>]

hash_insert(table, name) ==
    LET b == Bucket(name)
        t == SelectInSeq(table[b], LAMBDA item : item.name = name)
    IN  IF t # 0 THEN [table EXCEPT ![b][t].count = @ + 1]
        ELSE [table EXCEPT ![b] = Append(@, [name |-> name, count |-> 1])]

\* hash_print, which leaves the order of equal counts to qsort.
Sorted(items) == SortSeq(items, LAMBDA x, y : x.count > y.count)
hash_print(table) == Sorted(FlattenSeq(table))

-----------------------------------------------------------------------------
(* The list of open tags, kept from one document to the next; its names    *)
(* are those of the table, which is not.                                   *)

NoList == [tags |-> <<>>, size |-> 0, pos |-> 0]
StartOfList == [tags |-> <<>>, size |-> TagSize, pos |-> 0]

\* Writing at the place pos; the list is twice as long when it is full.
Allocated(l) == IF l.size = 0 THEN StartOfList ELSE l
Pushed(l, tag) == [l EXCEPT !.tags = Append(SubSeq(@, 1, l.pos), tag), !.pos = @ + 1]
GrownLate(l) == IF l.pos > l.size THEN [l EXCEPT !.size = 2 * @] ELSE l
Grown(l) == IF l.pos = l.size THEN [l EXCEPT !.size = 2 * @] ELSE l
tag_push(l, tag) == Grown(Pushed(Allocated(l), tag))

-----------------------------------------------------------------------------
(* A document is a sequence of events [type, name, len], with an error of  *)
(* the parser as the last one if it has one.                               *)

NoStats == [level |-> 0, max_depth |-> 0, nr_tags |-> 0, nr_stags |-> 0, cdata_size |-> 0]

Max2(x, y) == IF x > y THEN x ELSE y

Opened(j, e) ==
    LET l == Allocated(j.list)
    IN  [j EXCEPT !.list = tag_push(@, [name |-> e.name, file |-> j.file]),
                  !.table = hash_insert(@, e.name),
                  !.st.level = @ + 1, !.st.max_depth = Max2(@, j.st.level + 1),
                  !.verdict = IF l.pos < l.size THEN @ ELSE "overrun"]

\* A tag that is not there, or whose name went with the table of its document, is
\* read all the same.
Closed(j, e) ==
    LET l == [j.list EXCEPT !.pos = @ - 1]
        tag == l.tags[l.pos + 1]
    IN  CASE j.list.pos = 0 -> [j EXCEPT !.verdict = "undefined"]
          [] j.list.pos > 0 /\ tag.file # j.file -> [j EXCEPT !.verdict = "undefined"]
          [] j.list.pos > 0 /\ tag.file = j.file /\ tag.name # e.name -> [j EXCEPT !.list = l, !.verdict = "mismatch"]
          [] OTHER -> [j EXCEPT !.list = l, !.st.level = @ - 1, !.st.nr_tags = @ + 1]

tagHook(j, e) ==
    CASE e.type = "OPEN"   -> Opened(j, e)
      [] e.type = "CLOSE"  -> Closed(j, e)
      [] e.type = "SINGLE" -> [j EXCEPT !.table = hash_insert(@, e.name), !.st.nr_stags = @ + 1]

cdataHook(j, e) == [j EXCEPT !.st.cdata_size = @ + e.len]

\* iks_parse, until a hook or the parser refuses.
Judged(j, e) ==
    IF j.verdict # "reading" THEN j
    ELSE CASE e.type = "CDATA"  -> cdataHook(j, e)
           [] e.type = "BADXML" -> [j EXCEPT !.verdict = "badxml"]
           [] OTHER             -> tagHook(j, e)

\* The document is passed, and reported on, when nothing refused it: whether its
\* elements are closed is not asked.
check_file(j, events) ==
    LET end == FoldLeft(Judged, [j EXCEPT !.st = NoStats, !.table = hash_new], events)
    IN  IF end.verdict # "reading" THEN end
        ELSE [end EXCEPT !.file = @ + 1,
                         !.reports = Append(@, [st |-> end.st, histogram |-> hash_print(end.table)])]

Start == [file |-> 1, list |-> NoList, st |-> NoStats, table |-> hash_new,
          reports |-> <<>>, verdict |-> "reading"]

\* The documents of the command line, until one makes the program exit.
main(files) ==
    FoldLeft(LAMBDA j, events : IF j.verdict = "reading" THEN check_file(j, events) ELSE j, Start, files)

-----------------------------------------------------------------------------
(* What the tool promises, without a list of open tags.                    *)

Of(events, types) == {k \in DOMAIN events : events[k].type \in types}
Upto(places, k) == Cardinality({i \in places : i <= k})
Level(events, k) == Upto(Of(events, {"OPEN"}), k) - Upto(Of(events, {"CLOSE"}), k)

\* The opening tag the end tag k closes: the last one of its level.
Opener(events, k) ==
    LET before == {i \in Of(events, {"OPEN"}) : i < k /\ Level(events, i) = Level(events, k) + 1}
    IN  CHOOSE i \in before : \A o \in before : o <= i

ClosesWhatItDidNotOpen(events) == \E k \in DOMAIN events : Level(events, k) < 0
Wrong(events) ==
    {k \in Of(events, {"CLOSE"}) : events[k].name # events[Opener(events, k)].name}
      \cup Of(events, {"BADXML"})

SizeOfText(events) == FoldLeft(LAMBDA n, e : IF e.type = "CDATA" THEN n + e.len ELSE n, 0, events)

Occurrences(events) ==
    LET tags == Of(events, {"OPEN", "SINGLE"})
    IN  {[name |-> events[k].name, count |-> Cardinality({i \in tags : events[i].name = events[k].name})] :
            k \in tags}

TellsAbout(report, events) ==
    /\ report.st.nr_tags = Cardinality(Of(events, {"CLOSE"}))
    /\ report.st.nr_stags = Cardinality(Of(events, {"SINGLE"}))
    /\ report.st.cdata_size = SizeOfText(events)
    /\ report.st.max_depth \in {Level(events, k) : k \in 0 .. Len(events)}
    /\ \A k \in DOMAIN events : Level(events, k) <= report.st.max_depth
    /\ ToSet(report.histogram) = Occurrences(events)
    /\ Len(report.histogram) = Cardinality(Occurrences(events))
    /\ \A i, k \in DOMAIN report.histogram :
         i < k => report.histogram[i].count >= report.histogram[k].count

\* Documents are judged until the first wrong one, and each that is passed is told
\* about alone, even behind one whose elements are left open; the wrong one is
\* refused for its first fault.
JudgesDocuments(files) ==
    LET end == main(files)
        bad == {k \in DOMAIN files : Wrong(files[k]) # {}}
        n   == IF bad = {} THEN Len(files) ELSE (CHOOSE k \in bad : \A i \in bad : k <= i) - 1
        worst == files[n + 1]
        fault == CHOOSE k \in Wrong(worst) : \A i \in Wrong(worst) : k <= i
    IN  (\A k \in DOMAIN files : ~ClosesWhatItDidNotOpen(files[k])) =>
            /\ Len(end.reports) = n
            /\ \A k \in 1 .. n : TellsAbout(end.reports[k], files[k])
            /\ end.verdict = IF bad = {} THEN "reading"
                             ELSE IF worst[fault].type = "BADXML" THEN "badxml" ELSE "mismatch"
=============================================================================
