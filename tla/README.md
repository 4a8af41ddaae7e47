# A verification of iksemel

iksemel is an XML and XMPP (Jabber) library in C. This directory models it in TLA+,
checks the models with TLC and proves theorems about them with TLAPS. Paths in this
text are relative to the repository; `doc/iksemel.texi` is its manual.

## 1. The system

```
   application
     |  hooks                    |  iks_new, iks_insert, iks_find, iks_string
     v                           v
 stream.c (XMPP) --- filter.c   iks.c (tree)          python/  tools/
     |         \        |        |      \
     |          \   jabber.c     |     dom.c
     |           \     |         v      /
 io-posix.c,    sax.c  +---> ikstack.c (memory of a tree)
 tls-*.c       (parser)          |
                                 v
              base64.c, sha.c, md5.c, utility.c (iks_malloc, iks_strcat, ...)
```

* A transport (`io-posix.c` or a user's `ikstransport`) and below it a TLS back end give
  bytes to `iks_recv` (`stream.c`), which hands them to `iks_parse` (`sax.c`) in buffers
  cut anywhere.
* `sax.c` calls the tagHook and cdataHook of its owner: of an application, of the DOM
  parser (`dom.c`) or of the XMPP stream (`stream.c`). Those build trees (`iks.c`) whose
  nodes, attributes and texts live in one object stack (`ikstack.c`) per tree.
* The stream gives every complete stanza to the application's hook; the application
  usually makes an `ikspak` of it (`jabber.c`) and runs it through a filter (`filter.c`),
  whose rules call back into the application.
* Callbacks close the loop: a hook may send, delete the tree, remove filter rules, or call
  `iks_disconnect`, which is `iks_parser_reset`, which calls the stream's deleteHook, all
  of it while `iks_recv` and `sax_core` are still on the C stack.

There are no threads. What is concurrent is the environment: how the input is cut, what
the allocator answers, what hooks do and when the peer closes the connection.

### Inventory

| Component | State | Operations | Hard behaviour | What makes it correct |
|---|---|---|---|---|
| **SAX parser** `src/sax.c` | context of the grammar (28 values) and what to return to; stack of pending names and values with its size; attribute array of pointers into that stack; entity buffer; UTF-8 state; byte and line counters | `iks_parse`, `iks_parser_reset`, `iks_parser_delete`, one round of `sax_core` per context | a document cut anywhere; a stack that moves under pointers; failing allocations between two pushes; a reset from inside a hook; multibyte characters that bypass the grammar | the events do not depend on the cut; no write outside a buffer; errors end processing; reset makes a new parser; the loop ends |
| **Object stack** `src/ikstack.c` | two lists of chunks (structures, strings), `last` string of every chunk, allocation counter | `iks_stack_alloc`, `_strdup`, `_strcat`, `_stat`, `_delete` | appending in place or by copy; a chunk exactly full; alignment; failure in the middle | strings keep their text; blocks do not overlap; everything is freed |
| **XML tree** `src/iks.c` | doubly linked children, attributes as a list, parent pointers, character data | 12 constructors, `iks_hide`, traversal, `iks_find*`, `iks_string`, `iks_copy_within` | hidden nodes keep their links; two passes over the tree in `iks_string` must agree; nodes of two stacks in one tree | the links stay a tree; the string has the length that was allocated for it; a copy is equal |
| **DOM parser** `src/dom.c` | current node, result, chunk size | three hooks, `iks_tree`, `iks_load`, `iks_save` | errors in the middle; several roots; a read that fails | a tree equals the document; nothing leaks |
| **XMPP stream** `src/stream.c` | current stanza, transport and its data, flags (SECURE, TRY_SECURE, SASL, ...), authentication user and password | hooks, `iks_connect_*`, `iks_recv`, `iks_send*`, `iks_start_tls`, `iks_start_sasl`, `iks_disconnect` | disconnecting in a hook; reconnecting; TLS negotiation inside parsing; partial connects | every stanza once and in order; NODE_STOP at the end; nothing of an old connection in a new one |
| **Filter** `src/filter.c` | list of rules and the last rule | `iks_filter_add_rule`, `_remove_rule`, `_remove_hook`, `_packet`, `_delete` | a hook that removes rules while the packet is being matched | the best rule is called, ties by age; unlinked rules are never called |
| **Packets and JIDs** `src/jabber.c` | none (pure) | `iks_id_new`, `iks_id_cmp`, `iks_packet`, `iks_make_*`, `iks_stream_features` | missing parts of a JID; texts between tags | parsing and comparing agree; what was made is recognised |
| **Utilities** `src/utility.c`, **Base64** `src/base64.c`, **SHA-1** `src/sha.c`, **MD5** `src/md5.c` | digest state | escaping, encode/decode, update in pieces | signed `char`; length counters; a padding block more | reference definitions |
| **Default transport** `src/io-posix.c` | one socket; the addresses not yet tried | `io_connect`, `io_send`, `io_recv`, `io_close` | short sends, a full socket, several addresses, a peer that closes, a timeout | all bytes once, in order; one socket or none |
| **TLS** `src/tls-*.c` | a session | handshake, send, recv | what the library returns is not what `iks_recv` expects | only at its interface |
| **Python binding** `python/` | the node a Document shows, the node an Iter stands on; a Reference per tree, shared by its Documents and counted by them alone | making Documents, moving, inserting, deleting, iterating, the stanza hook | deleting while iterating; objects that outlive the tree | a tree lives as long as a Document of it; nothing freed is used; a deleted node is not met again |
| **Tools** `tools/iksroster.c`, `tools/ikslint.c` | `struct session`, `my_roster`, a counter; the list of open tags and the table of names, kept over files | two sessions and a file; judging documents | a timeout that counts calls; hooks that meet answers in any order; a list that grows | the roster is what was saved; nothing in the clear; the program ends; what is passed is well nested |
| **Tests, headers, build** `test/`, `include/` | – | – | – | – |

`PROJECT.json` names each with its status, and under "hazards" every place of the code that
is hard to test, with the properties that cover it (or why none does yet).

## 2. Plan

The order is by how much depends on a part: everything that iksemel receives goes through
the SAX parser, everything it builds lives in the object stack.

| Step | Modules | Abstract specification | Runs | Theorems |
|---|---|---|---|---|
| 1 (done) | `Utf8`, `Xml`, `XmlTok`, `Sax`, `SaxRefines` | `XmlTok`: a tokenizer without buffers | section 4 | types, memory safety, drained stack |
| 2 (done) | `StringPool`, `IkStack` | `StringPool`: a set of independent strings | section 4 | types, memory safety, separation, statistics, refinement |
| 3 (done) | `Stanzas`, `Stream` | `Stanzas`: the events of a stream read as a whole | section 4 | one socket, nothing missing is used, the TLS session is the connection's, what is read is parsed, events are told in order |
| 4 (done) | `OrderedTree`, `Links`, `IksHeap`, `Iks`, `Dom` | `OrderedTree`: nodes with sequences of children | section 4 | the lists of children and attributes stay whole, refinement |
| 5 (done) | `Routing`, `Links`, `Filter` | `Routing`: rules that match, from the best to the worst | section 4 | the list of rules, no use of a freed rule, the refinement |
| 6 (done) | `Utf8`, `Base64`, `Escape`, `Jabber`, `Digest`; `Packets`, `Lint` | reference definitions beside each | one run over their inputs | – (recursion over data) |
| 7 (done) | `Transport`, `Roster` | `BytePipe`: bytes on their way, no calls | `roster` | the refinement, for any program and peer; what `iksroster` restores and what it sends in the clear |
| 8 (done) | `PyReference`, `PyDocument` | `PyReference`: who owns a tree, without nodes | `python` | ownership, that Documents keep to it, that what is deleted is not met again, and the order of iteration |
| 9 | more proofs: the trees of a DOM parser (`TreesOwned`); `Sax` implements `XmlTok` for documents of single-byte characters | | | |

Where a run only exhibited a finding that needs no run of its own, the finding is in the list at the
end of section 6 with the constants that show it.

Modules meant for proofs declare no RECURSIVE operator; parameters are CONSTANTS with a
named assumption; there is one action per operation of the code.

## 3. The modules

### SAX parser

* **`Utf8`** – the validator of `sax_core` (sax.c:211-247): `UniBad`, `UniStep` work on the
  record `[max, len, char]` of the code's `uni_max`, `uni_len`, `uni_char`, with the same
  limits, in the same order.
* **`Xml`** – bytes, events and the predefined entities (`EntityChar`, sax.c C_ENTITY).
  An event is a tag with its attributes or a run of text. Adjacent runs of text are one
  event (`Say`): the code's cdataHook is allowed to be called with pieces.
* **`Sax`** – the parser. One step is one round of the loop of `sax_core`: `Advance` is the
  end of the loop body (`pos++`, counters), `Redo` is `re = 1`, `Return` leaves the function.
  The action of a context is named after it (`TagStart` is C_TAG_START ...), split where its
  branches differ in what they change. `EndOfBuffer` is the code behind the loop, `Parse`,
  `Reset` and `Delete` are the user's calls. Memory: `stack` with `stackMax`, moved by every
  enlargement (`Enlarged` is the code's formula); `Store` turns pointers into `DANGLING` unless
  the code relocates them; `atts` has a length and `attmax` is what the code thinks it is; a
  write outside adds to `ub`. What the hooks read (`String`) goes through the pointers, so a
  wrong offset or a missing NUL changes the event.
* **`XmlTok`** – what the parser promises: one character at a time, nothing is pending,
  memory is never short. It does not contain the cut into calls.
* **`SaxRefines`** – the refinement mapping from `Sax` to `XmlTok`: what was accumulated is
  the stack plus the pending bytes of the buffer.

A cdataHook or tagHook that resets the parser and returns IKS_OK lets `sax_core` go on with its locals
and with what it assigns behind the call: `CDataReset`, `EntityReset`, `SectReset`, `EndReset` and a branch of
`TagEnd`.

Left out: hooks that reset and return an error, or that delete the parser or call `iks_parse` themselves;
user data and its allocation, the texts of error messages, the name of an entity
beyond the eight bytes of the code's buffer. `Uncut` names documents that the user does not cut
inside a multibyte character, `Again` the documents a reset parser is given.

### Object stack

* **`StringPool`** – a pool of strings: duplicate adds one, append makes a new one that is the
  old text with the added text, nothing else changes.
* **`IkStack`** – two lists of chunks with size, use and `last`; `Strdup`, `Strcat`, `Alloc`,
  `Delete` and the allocator. The bytes of the data chunks are modelled, so an overlap destroys
  a text. `iks_stack_strdup` with a length and `memcpy` are modelled by their effect on the bytes; the
  padding formula, the growth of chunk sizes and the test for "is the last string" are the code's. The loops of
  `iks_stack_stat` are the sum `SumOf`.

### XMPP stream

* **`Stanzas`** – what the stream promises, without increments: a stream is a sequence of
  tokens; `Events` finds the header, the first level elements (the parts between two points of
  level zero, each with its tree) and the end. What kind of element it was is read from the tag that
  ends it, as `Completed` of `Stream` does (stream.c:232).
* **`Stream`** – `stream.c`. `data` is `struct stream_data`: transport, socket, server name,
  flags, TLS session and `current`, the node under construction (its tree in document order and
  how deep the open element is). One action is one call of tagHook or cdataHook with everything
  the application's hook does inside it: `TlsProceed`, `TlsFailure`, `StreamStart`,
  `StanzaStart`, `ChildStart`, `Close`, `CData`. `Recv`, `ReadData`, `ReadNothing`, `ReadClosed`
  and `ParseDone` are the loop of `iks_recv`, the rest are calls of the application.
  Functions that call each other pass on the whole state (`World`, `Result`), so a send that fails
  inside a hook inside the parser has its effects in the code's order. The tokens are the calls
  that `Sax` makes; a token "bad" is a syntax error.

The peer answers a message with a burst of tokens (`Peers`), and may close the connection at any
time. The application is a careful one: it polls while connected and nothing failed, starts TLS
once per connection, and does not send from a hook after it has disconnected. What its hook may do
is `HookActs`; "quit" disconnects and returns an error, "disconnect" disconnects and returns
IKS_OK. External, and modelled as the code uses them: the TLS libraries (a session is granted or
not; a read gives data, silence or, at the end of a gnutls session, a length of zero) and the server. Left
out: the contents of SASL messages, the log hook, an `iks_string` that fails.

### XML tree

* **`OrderedTree`** – what a tree promises: every node has a sequence of children and one of attributes, and no
  pointers; inserting, appending, prepending and hiding change exactly one sequence, and a node is in
  no other when it is inserted.
* **`Links`** – doubly linked lists in a heap: the records from one on along a link (`Chain`), and a record
  taken out of its list (`Bypassed`), as both `iks_hide` and the removal of a filter rule do it.
* **`IksHeap`** – `iks.c` as functions from one heap of nodes to the next, a node being the record of
  `struct iks_struct` and its two variants with all its pointers. `LinkLast`, `LinkBehind`, `LinkBefore`
  and `Hidden` are the assignments of the code. `SizeRound` and `WriteRound` are one round of each
  loop of `iks_string`, `CopyRound` one of `iks_copy_within`. Look-ups return the first node of a chain for which
  a test holds (`FirstIn`).
* **`Iks`** – the calls as actions, the properties, and the refinement of `OrderedTree`: what the application sees of
  the nodes through `iks_child`, `iks_next` and `iks_attrib` (`Label`, `Kids`, `Attrs`).

The look-ups (`iks_find`, `iks_find_cdata`, `iks_next_tag`, `iks_root` ...) change nothing; they are
operators of `IksHeap` that `Packets` and `PyDocument` use. Left out: `iks_find_with_attrib`, functions that
return a field, and the heap of a second object stack. A failed allocation is allowed where the code
looks at it (`AllocMayFail`).

### DOM parser

* **`Dom`** – `dom.c` over `IksHeap`. A document is a sequence of hook calls or a syntax error; `After`
  is what one of them makes of the tree, `Deleted` is deleteHook. `Start` is `iks_dom_new`, `iks_tree`
  or `iks_load`, `Feed` and `Reset` are the application's `iks_parse` and `iks_parser_reset`,
  `ReadFile` one round of the loop of `iks_load`. Every tree has an object stack of its own, so
  `dom.trees` is the memory that is not freed. An attribute occurs once in a tag of `Docs`.

### Packet filter

* **`Routing`** – what a filter promises: of the rules there are when a packet arrives, those that match
  and are not removed meanwhile are asked from the best to the worst until one eats the packet.
* **`Filter`** – `filter.c`: the list with its `rules` and `last_rule`, the scores that are kept in
  the rules, and `iks_filter_packet` as the steps between calls of hooks (`Filter`, `Continue`),
  because a hook adds, removes and filters. The strings of a rule are taken to be allocated.

### Pure functions

* **`Base64`**, **`Escape`**, **`Jabber`**, **`Digest`** – `base64.c` on byte values, letters being their
  index; `iks_escape` and `iks_unescape` on characters; JIDs as sequences of characters; the blocks
  that SHA-1 and MD5 compress, with a length of two words that count as a byte each. The compression
  functions are not modelled.
* **`Packets`** – the rest of `jabber.c`, over the trees of `IksHeap`: what every `iks_make_` function builds,
  and how `iks_packet`, `iks_stream_features` and `iks_sasl_mechanisms` find their way through a tree.
* **`Lint`** – `tools/ikslint.c` with `tools/hash.c`: `tagHook` and `cdataHook` on the events of a parser, the list of
  open tags with its size and what is behind its end, the table with its chains. A tag remembers the
  document whose table its name is in, because the table goes with the document and the list does not.

### Default transport and iksroster

* **`BytePipe`** – what a transport promises: bytes on their way in two directions, of which a send in
  progress still has some to hand over; how many sockets are open.
* **`Transport`** – `io-posix.c`. One action is one system call, `call` holds the local variables of the function
  that makes it, so the peer (external) takes, gives and closes between any two. A call that
  ends with EAGAIN or EINTR is made again and is no step. A select that is interrupted counts as silence.
* **`Roster`** – `tools/iksroster.c` as the program over that transport: `main` and `j_connect` are steps of `pc`, `on_stream`
  and the three hooks of its filter are functions of a message (`on_features`, `on_result`, `on_roster` ...),
  what they send goes through `CallSend` one message after the other. Of the stream there is what
  other modules show of it: a stanza is there when its bytes are; what `iks_start_tls` and the answers to
  SASL challenges do is `Answers`. The server is external: it follows the protocol, may refuse each step, keep silent
  or close.

### Python binding

* **`PyReference`** – who owns a tree: `count` is `ob_refcnt` of the Reference, `ref` the Documents that hold it,
  `iref` the iterators that only point to it, `leaked` the Documents `on_stream` makes and never gives back.
  `Careless` is the set of things the program does although the binding does not bear them.
* **`PyDocument`** – `document.c`: the methods of Document and Iter over the trees of `IksHeap`, each with its part in
  `PyReference`. `got` and `due` of an iterator are only there to say what it yielded.

## 4. What the runs show

### `MCSax`

`Docs` is a set of byte strings; TLC picks one and the user cuts it into calls of any size.

| Run | Question | Bounds, and why they suffice |
|---|---|---|
| `sax_refines` | Are the events, the verdict and the position those of `XmlTok` for every cut, failing allocation and reset? Does every call return? | Documents that take each context through its normal exits and its errors; `StackInit = 2`, so the stack moves in the middle of names, between names, and at the NUL; `AttStep = 2`, so the second attribute makes the array grow; one reset at any byte, then one of the three documents that use every buffer: what a reset leaves behind does not depend on more |
| `sax_memory` | Memory with failing allocations, failing hooks, hooks that reset, a second document | documents that use every buffer and a section, so that every call of a hook meets a reset; one reset from outside; all allocations but the growth of the array may fail (sax.c:372 in section 6 is why not that one) |
| `sax_cut_utf8` | the finding of section 6 | |

In `sax_refines` the documents with multibyte characters in names and values are not cut inside a
character (`Uncut`), and none begins a name with one: the finding and sax.c:259 in section 6 are
what happens then.

The initial sizes 128 and 12 of the code become constants: what happens depends on where the
limits fall in a name, and small limits fall everywhere in short documents.

Fairness: `FairSpec` is weak fairness of `Core`, the rounds of `sax_core`. A C function that was
called goes on running; nothing is assumed about the user, who may never call again.

### `MCFunctions`

`functions`: each input is one initial state.

* Code points around every change of length, in their shortest and in every longer encoding up to six
  bytes, are fed to `UniBad`/`UniStep` byte by byte: the shortest is accepted and decoded, and a longer
  one is accepted only for the code points that section 6 lists under sax.c:219.
* Strings of up to four 7-bit bytes with the smallest, a middle and the largest value, and one of each length
  up to ten, are encoded and decoded: three lengths in a row meet every padding, ten meet the
  block of exactly the size of the letters.
* Texts of up to four characters out of those that make `&lt;` and two others are escaped and unescaped.
* All pairs of 32 identifiers, with missing and empty resources, resources with / and @, users that
  differ in case.
* Every kind of packet the library makes, with and without the parts that may be NULL.
* Features of up to three children: tags of four names, lists of mechanisms, and texts with white
  space or the name of a feature, in every order a parser makes.
* One or two documents for ikslint: up to four events of three names, two of which share a bucket of the
  table, and three open elements with up to three tags behind them. With a list of two, the third
  open tag makes it grow, and a second document finds the list the first one left.
* Messages in three calls of up to 9 bytes each, for blocks of 8: every position of the end in a block,
  full blocks at a call's end, calls without data, and lengths whose upper word is not zero; longs as
  wide as a word and twice as wide.

### `MCIkStack`

`ikstack`: do strings keep their text, do writes stay in their chunk, do blocks overlap, are the
statistics exact, is everything freed? Texts and blocks leave a chunk exactly full, one byte short,
or are too long for it; first chunk sizes are 0 and 17; four calls are enough to append in place,
be overtaken by another string, and append by copy into an earlier or a new chunk. `Alignment = 2`
stands for `sizeof (void *)`-like padding: with 2 there are padded and unpadded sizes. There is
no fairness and no liveness: each operation is one step.

### `MCStream`

| Run | Question | Bounds, and why they suffice |
|---|---|---|
| `stream_session` | Is the hook told every first level element once, complete and in order; is what was read parsed; does a TLS session belong to its connection; is a close noticed? | four servers: mixed content with an error and an end, SASL with two challenges and a second header, TLS granted, TLS refused; two connections, so that what the first leaves behind meets the second; every cut into buffers; sends fail, the peer closes |
| `stream_failures` | Is a socket closed once, and nothing used that is not there? | the three ways of connecting on two connections; failing sends, nodes, hooks and handshakes, bad XML, the openssl back end, which makes `iks_recv` parse bytes of an earlier read |

Fairness (`stream_session`): `Library`, because a function that was called goes on, and `Recv`,
because a client polls (`tools/iksroster.c`, `j_connect`). Nothing is assumed about the peer or
about other calls. `CloseNoticed` speaks of connections in the clear; for secure ones see
tls_recv in section 6.

### `MCIks`

`tree`: every sequence of five calls, so every way to insert, append, prepend, hide and move among up to
five nodes, with the texts that iks_insert_cdata allocates missing or not. Five are enough to hide each
of three siblings and insert next to the gap. A node that is moved is a root (`MoveHidden = FALSE`;
iks.c:174 in section 6 is what happens otherwise).

### `MCDom`

`dom`: two of eight documents one after the other, the second in a parser that is reset or new: mixed
content with attributes, a tree of three levels, text outside the root, tags that do not match, errors
in and behind the root, an empty one. `FileBuf = 2`: a file is shorter than, as long as and longer than full buffers.

### `MCFilter`

`filter`: three rules that differ in what they ask for and in type, two packets, two hooks that may pass, eat, remove
themselves and add rules. Three rules make a first, a middle and a last one to unlink. The hooks are
interchangeable (symmetry); the run has no liveness property.

### `MCRoster`

`roster`: every legal command line of iksroster with one or two accounts and a file, a server that offers both
logins or none, binding with or without a session, and that may at each step refuse, keep silent or
close. Is what was saved restored, is nothing said in the clear that should not be, does the program end,
and is the transport a byte pipe meanwhile? A message has two bytes and a send or a read may take any
part of them, so one message is cut, and the room of three bytes and the buffer of three fall in
the middle of the second. Two addresses: one may be refused before the other answers. A timeout of
two counts down and starts again with every stanza (iksroster.c:114); the modelled server says a finite number
of them. One that pushed stanzas for ever would keep the program running, and is outside of `SessionEnds`.

Fairness: weak fairness of `Program`, because a process that runs goes on, and of `ServerReads`: what
was sent is taken from the socket, by TCP if not by the server. It need not answer, and need not close.
The second assumption is needed (io-posix.c:102 in section 6).

### `MCPyDocument`

`python`: two Documents at a time, one iterator, one tree of two shapes, two calls that change it. A tree
with two elements and a text between them has a first, a middle and a last node to delete while
an iterator stands on it. The counting does not depend on the number of objects: it is proved for every number
(section 5). The program parses what is not XML and raises in its hook, too; `Alive` becomes false
then (document.c:636 in section 6). The Documents are interchangeable (symmetry); there is no liveness
property.

## 5. What is proved

tlapm proves these for every value of the constants, within the assumptions the modules name.

`Sax_proofs`, all of the form `Careful => (Spec => []P)`:

* `TypeCorrect` (`TypeOK`), `MemorySafe` (`NoUndefinedBehaviour`), `StackDrained`
  (`CleanBetweenTags`).
* `Careful` says that the user does not parse on after an error and that the attribute array
  can grow. Both are needed: without the first a call resumes in a context whose invariant
  the error left broken (sax.c:209 in section 6), without the second the array is shorter than `attmax`
  (finding 2). All other allocations may fail, and a tagHook or cdataHook may fail, or reset the parser and go on. For
  arbitrary documents, cuts, sizes and numbers of resets.
* The invariant `IInv` is inductive and TLC checked it first. `NoUndefinedBehaviour` alone is
  not inductive: that a name is terminated when `C_TAG_END` reads it needs to know, in each context,
  where the terminators are (`ContextOK`, `StringsOK`), which slots of the array point where
  (`AttsOK`, `ArrayFits`), and that a byte of reserve is left whenever STACK_PUSH_END runs
  (`StackFits`). Steps are grouped into lemmas by what they touch; each action has its step.

`IkStack_proofs`:

* `TypeCorrect`, `MemorySafe` (`NoOverflow`), `BlocksSeparate` (`BlocksApart`), `NothingLeaks`
  (`AllFreed`), `StatisticsExact` (`StatExact`), and `KeepsStrings`: `Spec => ImplementsPool`, the refinement of `StringPool`.
* The invariant places every string in its chunk, terminated, apart from all others, and says that
  the string `last` points to ends at the end of the used part. The last clause is what makes
  appending in place safe.

`Stream_proofs`, for any servers, hooks, ways of connecting, TLS back end and failures:

* `StreamStaysGood`, `Spec => []IInv`, and from it `SocketClosedOnce` (`OneSocket`) without any assumption,
  `NothingMissingIsUsed` (`NoUndefinedBehaviour`), `SessionIsOurs` (`SessionOfThisConnection`) and
  `WhatIsReadIsParsed` (`ReadIsProcessed`).
* The last three have one assumption each. `TellsItsEnd`: a hook that disconnects does not return IKS_OK; one that does
  is called on, and may send through a transport that is NULL. `Introduced`: a connection is made by name and not
  inside a hook; a hook that makes one and overlooks that its header failed starts TLS with the name of the
  last server, and so does `iks_connect_fd` with a server that does not wait for a header. TLC violates the first
  property with the act `disconnect`, the second with `reconnect`. `Countable`: the TLS back end hands over what it
  reads (tls-openssl.c:165 in section 6 does not), and no hook makes a connection: of one that does, `iks_recv`
  first parses the rest of the buffer that came from the old connection. TLC violates the third property in
  either case.
* The functions of `stream.c` pass a world on to each other, and so do the lemmas: each says that what
  its function leaves is `Good` if what it was given was. `Good` is what the properties alone do not
  say: flags exist only with a transport, a session belongs to the socket and is never asked for twice. `IInv` adds
  that a buffer with something left in it means a connection, which is what `iks_recv` relies on, and that
  the tokens parsed and those in the buffer are as many as were read.
* `EventsInOrder` (`DeliversInOrder`): `Spec => []DeliversInOrder`, if `Orderly`. What the hook was told, which `Stream`
  builds token by token, is what `Stanzas` finds in the whole of the tokens parsed. `Orderly` is what the
  run *session* has, and each part of it is needed, TLC violates the property without it: `WholeElements` (a burst of a
  server is balanced, has its header and end tag outside of elements, and `<proceed/>` is one tag: with
  `Peers <- TwoTagPeer` the closing tag is told as the end); no node is missing for want of memory;
  `TellsItsEnd`; and no hook connects again, for the rest of the old buffer would be told as part of the new stream.
* `Stanzas` describes the n-th event and the n-th item of a tree by the places of numbers in a set. `GreatestIsLast`
  shows that a greatest number takes the last place and moves no other; from it follow `EventsGrow` (one token more
  tells one event more or none) and `TreeAppends`, `TreeKeeps` and `TreeGrowsText` (it adds an item to the open element,
  leaves its items, or makes its last text longer), provided that what is complete does not change (`ToldSame`).
* The invariant `DInv` adds two things to the property. `Building`: the node under construction is the tree
  of the element that is open, its `depth` the number of tags open in it, and its last item is the one at the `Tip`,
  to which a text may be added. `Coming`: from the present level, the rest of the buffer and what
  is on its way run back to level zero (`RunsFrom`), and every token is where a server may send it, wherever
  `iks_recv` cuts the stream (`RunsApart`) and whatever a call adds to it (`RunsTogether`).

`Roster_proofs`, for any command lines, servers, timeout, sizes of the buffers and number of addresses:

* `TransportIsPipe`, `TransportSpec => ImplementsPipe`, the refinement of `BytePipe`.
* `TransportSpec` is the transport with any program that makes one call at a time and connects only
  when it has no connection, and with any peer; for every size of the buffers and every number of addresses.
* The invariant `TInv` says for each function which of its local variables mean something, and that outside
  of `io_connect` the open sockets are at most the one it gave: that is why a refused address may not leave
  its socket open.
* `RosterIsRestored` (`RestoresBackup`), `NothingIsSentInClear` (`NothingInClear`) and `RosterUsesPipe`
  (`ImplementsPipe`), all of the form `Spec => P` without a hypothesis. The last shows that every step of iksroster
  is one of `TransportSpec`: it connects only when the socket of the job before is closed.
* The invariant `RInv` says of every byte under way, in either direction, in the buffers of the two and in what is
  left of a call, that it belongs to a message that may be said (`Talk`): by the program only a header or starttls
  before there is TLS, and no roster but the one to restore; by the server no result for the roster before it
  keeps that roster (`ProgramSays`, `ServerSays`). The two sets grow when TLS comes up or the server takes the
  roster, and never shrink within a session (`SaysMore`), so what was on its way stays permitted. `Jobs` and
  `Copies` say for every place of `main` whose roster is where. Both properties alone speak of one place, `call.left`
  and the end, and are far from inductive.

`Heap_proofs` holds the lemmas about heaps of linked records that the next three need:

* for one doubly linked list, what `Chain` returns when the links of some records are those of a sequence
  (`Linked`), what a link that is set, a record that is inserted and one that is bypassed make of that
  sequence, and where the first record with a property is;
* for the nodes of a tree, which fields each call of iks.c leaves in every node (`LinkLastEffect` ...) and what
  becomes of the lists of children and attributes (`Whole`);
* for links of any shape, that a walk stays among records that are closed under the link (`WalkStays`), which
  needs no list and holds for cycles too.

`Iks_proofs`, for any names, texts, number of nodes and calls:

* `LinksStayRight` (`LinksAgree`): every node's children and attributes are a doubly linked list from its first to its
  last, in which every node with that parent that was not hidden occurs once.
* `KeepsTheTree`, `Spec => ImplementsTree`: the refinement of `OrderedTree`.
* Both have the hypothesis `~MoveHidden`: a node that is moved is a root that was never hidden. A hidden one
  brings its old links along, and the lists break (iks.c:174 in section 6).
* The invariant `Whole` gives every tag, for children and for attributes, a sequence whose links, ends and parents
  the nodes have, and which is complete. `LinksAgree` alone would do in principle, but says it through `Chain`, of
  which nothing follows about a changed heap. A call is first described by the fields it leaves in every node
  (`LinkLastEffect` ...), then by what becomes of the sequences, and for the refinement by what an
  application sees. That a node is in only one sequence is what keeps all the others as they were.

`Filter_proofs`, for any rules, packets, hooks and depth of calls:

* `RulesInOrder` (`ListInOrder`), without hypothesis: the rules that are not freed are one list, from the oldest to the
  newest, whatever hooks add, remove and filter meanwhile.
* `NothingFreedIsUsed` (`NoUseOfFreed`), with the hypothesis `~RemovesAndPasses`: a hook that removes its own rule eats
  the packet. The code writes the score of the rule it called (filter.c:155 in section 6).
* `FilterRoutes` (`ImplementsRouting`), the refinement of `Routing`, with the hypothesis `Plain`: no hook filters a packet
  (filter.c:146 in section 6) or passes after it removed its own rule, and a rule asks for something and for each
  criterion once. The code adds the bits of the criteria up, so that one named twice becomes another, it keeps
  both kinds of sender in one place, and a rule that asks for nothing scores 0 and is never called.
* `RInv` says of every rule in the list that its bits and values are those `iks_filter_add_rule` gave it (`Suits`), and that its
  score is 0 or what it is worth. So the highest score that is left is that of the best rule not yet called
  (`BestFound`), and what is left is exactly `pending`. That the list is in the order of age makes the first of equals the oldest.

`PyDocument_proofs`, for every number of objects and trees:

* `TypeCorrect`, for any program; `NothingFreedIsUsed` (`NoUseOfFreed`) and `TreesLive`
  (`TreeLivesWithDocuments`), of the form `Careful => (OwnSpec => []P)`. `Careful` says that the program keeps
  a Document while it iterates, and keeps nothing from the hook of a stream. Without either there is a
  counterexample (section 6).
* The invariant counts the Documents of every tree (`Counted`), and says that an iterator's tree has one that
  is not its own (`ShownOK`) and where leaked Documents may be (`LeaksOK`): the count alone says
  nothing about iterators, which are not counted.
* `ImplementsOwnership`: whatever `PyDocument` does with nodes, it does to ownership what `PyReference`
  says; `DocumentsUseNothingFreed` and `DocumentsKeepTrees` follow.
* `DeletedNotMet` (`DeletedStaysDeleted`): no link of a node that is still in its tree leads to a deleted one, for any
  number of Documents and iterators that change, walk and delete, in trees of any size. It needs neither
  half of `Careful`. Its hypotheses are that the program does not insert beside a deleted node (document.c:625
  in section 6), and `DocumentsAreSound`: the trees that Documents begin with are trees as iks.c makes them.
  A lone tag is one (`AloneIsSound`), each call of iks.c makes another of it, and so are the trees of the run
  `python`.
* Its invariant `DocInv` says that every tree is `Sound`, which is `Whole` of the nodes that are not deleted,
  with no deleted node among the children of any tag, and with links from nodes to nodes, never to attributes; and
  that Documents and iterators are at nodes. This holds of the lists below a deleted tag as well, where a
  Document may still be at work.
* `IteratesInOrder` (`IterationInOrder`), under the same two hypotheses: an iterator yields the children in the order
  of the document and none twice, and when it ends it has yielded each one it was made for that was not deleted.
* An iterator may stand on a node that was deleted, whose next one was deleted later, and so on.
  `DocInv` therefore has for each iterator the way it still has to go through deleted nodes, and the place
  where this way comes back to the list of children (`Stands`); what was yielded is deleted or before
  that place (`GotOK`), and what is owed is deleted, yielded or behind it (`DueOK`). A call changes at most one list,
  by one node (`Steps`), and leaves deleted nodes their links: `FollowsOn` shows that the way then still
  leads back, with at most one more deleted node on it.

Types of `Sax` and `IkStack` are proved and therefore in no run.

The library's theorems of induction cannot be used here, because they take an operator as a parameter. Where a proof
needs induction it takes the least number for which a statement fails (`Least` in `Heap_proofs`), and refutes
it; recursive functions (`Chain`, `SumOf`) are shown to be what their definition says in the same way. What
is defined with a fold, or by recursion over trees, is not proved.

Only model-checked: `ParseReturns`, `CloseNoticed` and `SessionEnds` (liveness, out of the prover's reach); the refinement
of `XmlTok` by `Sax`; the two passes of `iks_string`
(`StringIsDocument`) and `iks_copy_within` (`CopyIsEqual`) of `Iks`, and all of `Dom`, which follow recursive
definitions of trees; the pure functions.

## 6. Findings

The run `sax_cut_utf8` is one that TLC refutes: a buffer that ends inside a multibyte character of a
name or value loses the rest of the character (sax.c:230, 254-258). XMPP stanzas arrive cut anywhere.

The models show these as well; there is no run for them. Change a configuration as described and TLC
finds the property violated.

| Place | What the code does | How to see it |
|---|---|---|
| sax.c:209 | an error is not remembered: the next `iks_parse` reports events, against doc/iksemel.texi:286-288 | `MCSax_cut_utf8.cfg` with `Docs <- ErrorDocs`, `ResumeAfterError = TRUE`, `PROPERTIES SilentAfterError` |
| sax.c:219 | "avoid overlong sequences" lets the last code point of two and more bytes through in one byte too many, because `<` should be `<=` | `ShortestIsAccepted` in `MCFunctions` without its exception for `LastOfLength` |
| sax.c:259 | a multibyte character that begins a tag or attribute name is dropped | `MCSax_cut_utf8.cfg` with `Docs <- LeadingUtf8Docs`, `Uncut <- LeadingUtf8Docs` |
| sax.c:372 | `attmax` is raised before the allocation; after a failure and a reset, attributes are stored past the array | `MCSax_memory.cfg` with `StackInit = 8`, `AllocMayFail = {"grow"}`, `HookResults = {"ok"}`, `INVARIANTS UsableAfterReset` |
| tls-openssl.c:165 | `tls_recv` returns IKS_OK or IKS_NET_RWERR instead of a length: what is read on a secure connection is dropped | *plain* with `Peers <- TlsPeer`, `HookActs = {"ok", "starttls"}`, `Tls = "openssl"`, `INVARIANTS ReadIsProcessed` |
| stream.c:263 | `iks_disconnect` closes the socket given to `iks_connect_fd`, against doc/iksemel.texi:907-909; SF_FOREIGN (stream.c:390) is never tested | *plain* with `Connects = {"fd"}`, `INVARIANTS ForeignStaysOpen` |
| stream.c:426 | a hook that disconnects and returns IKS_OK is called again with what is left of the buffer | *plain* with `HookActs = {"ok", "disconnect"}`, `PROPERTIES ToldOfThisConnection` |
| stream.c:196 | `<proceed></proceed>` as two tags makes the closing one IKS_NODE_STOP | *plain* with `Peers <- TwoTagPeer`, `HookActs = {"ok", "starttls"}`, `Tls = "gnutls"`, `INVARIANTS StopMeansEnd` |
| stream.c:420 | when the connection is closed the hook is not told IKS_NODE_STOP, against doc/iksemel.texi:869-870 | *plain* with `PeerMayClose = TRUE`, `INVARIANTS CloseIsToldAsStop` |
| stream.c:209 | the rest of a buffer behind a disconnect leaves a node under construction that swallows the next stream | *plain* with `Peers <- ShortPeer`, `HookActs = {"ok", "disconnect"}`, `MaxConnects = 2`, `INVARIANTS DeliversInOrder` |
| stream.c:210 | a node that cannot be allocated: its children become first level elements, or a node is NULL | *plain* with `TreeMayFail = TRUE`, `INVARIANTS DeliversInOrder` |
| stream.c:421 | the end of a gnutls session is the length zero, which `iks_recv` takes for silence | `MCStream_session.cfg` without `Secure(data)` in `CloseNoticed` |
| iks.c:174 | a node that was hidden is inserted with the links to its old siblings | `MCIks.cfg` with `MoveHidden = TRUE` |
| iks.c:117, 158 | a text whose growth, or a value whose copy, cannot be allocated leaves a length without a text, or a value that is NULL | `MCIks.cfg` with `AllocMayFail = {"append", "value"}`, `INVARIANTS NothingBroken` |
| filter.c:146 | a hook that filters another packet overwrites the scores the outer search goes on with | `MCFilter.cfg` with `MaxDepth = 2`, `INVARIANTS CalledIfMatches`, no PROPERTIES |
| filter.c:155 | a hook that removes its own rule and passes: the score is written to freed memory | `MCFilter.cfg` with `RemovesAndPasses = TRUE` |
| dom.c:45 | of a document with several roots all trees but the last are lost | `MCDom.cfg` with `Docs <- TwoRoots` |
| dom.c:23, 36 | a node that cannot be allocated becomes the current one, and the tree is lost | `MCDom.cfg` with `Docs <- Truncated`, `NodesMayFail = TRUE` |
| dom.c:106 | an error behind the root: `iks_tree` returns the tree with the error, against doc/iksemel.texi:781 ("Returns the parsed tree, or NULL if there is an error") | `MCDom.cfg` with `INVARIANTS TreeOrError` |
| document.c:264 | an iterator does not count: when the last Document of its tree goes, it goes on in freed memory | `MCPyDocument.cfg` with `Careless = {"orphan"}` |
| document.c:636 | a Document whose text is not XML never had a Reference; `Document_dealloc` gives back NULL | `MCPyDocument.cfg` with `Careless = {"text"}`, `INVARIANTS Alive` |
| python/stream.c:234 | a hook that raises returns NULL, which is given back | `MCPyDocument.cfg` with `Careless = {"raise"}`, `INVARIANTS Alive` |
| python/stream.c:239 | the stanza is deleted although a Document that the hook kept shows it, against the comment document.c:665 ("prevent XML tree from deletion as long as new object exists") | `MCPyDocument.cfg` with `Careless = {"stanza"}` |
| document.c:625 | a deleted node keeps its links: inserting beside it makes it, or what is inserted, part of the tree again | `MCPyDocument.cfg` with `Careless = {"deleted"}`, `INVARIANTS DeletedStaysDeleted` |
| io-posix.c:102 | nothing limits the time of a send: with a server that does not read, `SessionEnds` fails | `MCRoster.cfg`, `FairSpec` without `WF_vars(ServerReads)` |
| jabber.c:320 | of features that begin with a text, the text is looked at as if it were a tag | `FeaturesAreThoseOffered` in `Packets` without `ahead` |
| ikslint.c:87 | a closing tag with none open, or one that closes an element of an earlier document, reads what is not there; a document with open elements passes, against ikslint.c:40 ("checks the well-formedness") | `LintJudges` in `MCFunctions` as `L!main(input.files).verdict # "undefined"` |
| base64.c:75 | where char is signed, a byte above 127 is looked up in front of the alphabet | `MCFunctions.cfg` with `Inputs <- Latin` |
| md5.c:100 | the carry into the upper word is lost where long is wider than 32 bits | `Md5Pads` in `Digest` without its assumption |
| jabber.c:33, 43 | a length of zero copies all of the string: the identifier /r has the partial /r, @s the user @s | `MCFunctions.cfg` with `<<>>` in `Users` |

*plain* is `MCStream_failures.cfg` with `Peers <- PlainPeer`, `HookActs = {"ok"}`, `Connects = {"tcp"}`,
`Tls = "none"`, `SendMayFail`, `TreeMayFail` and `PeerMayClose` FALSE, `MaxConnects = 1`, and the change given.

Three things that reading `tools/` and `python/` for the models showed and no property states: the timeout of
iksroster counts calls of `iks_recv` that bring nothing, and every stanza starts it again, so it is not the time of
iksroster.c:78 ("connection time outs if nothing comes for this much seconds") when a call is
interrupted; a server that answers the roster request with an error, or offers binding without a
session, is only noticed by the timeout; and a Python Stream with its default `use_tls` never logs in, because
nothing starts TLS (python/stream.c:154).

## 7. Not modelled, and limits

* `finish` of `iks_parse` is ignored by the code, so a truncated document is IKS_OK; the model
  does the same and `XmlTok` promises nothing about the end of a document.
* The TLS libraries and the kernel are modelled at their interface. `iksperf` measures time. The Stream object of
  the Python binding passes calls on to `stream.c`, but for its hook of a stanza (`OnStanza`); `jid.c` wraps an
  `iksid`.
* `iks_save`, `iks_set_size_hint`, `iks_find_with_attrib`; compression functions of the digests.
* The name an iterator over tags looks for is a pointer into a Python string it does not keep
  (document.c:293); the model takes the string as kept.
* `Stream` takes the parser as a source of tokens: a token is a whole call of a hook, and a
  reset inside a hook (iks_disconnect) leaves the parser as `Sax` says: the buffer goes on.
* Numbers have no width in `Sax` and `IkStack`: `nr_bytes`, sizes and offsets are taken not to
  overflow `size_t` or `int`.
