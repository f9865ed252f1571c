# A formal model of EmeraldDB

TLA+ modules that model the storage engine, the run-time layer, the thread
manager, the wire protocol, the start of server and shell, and the BSON library
of EmeraldDB, TLC configurations that check them on small instances, and TLAPS
proofs of the properties that matter most for instances of any size.
`PROJECT.json` maps every definition to the lines it models and lists the runs,
the mutants that show each property can fail, the findings, the hazards and the
theorems. Paths below are relative to the repository.

## 1. Inventory

EmeraldDB is a server for BSON documents that are found by their `_id`. One
process: a listener thread accepts connections, an agent thread serves each of
them, and all agents share one data file and one index.

| Component | State | Operations | Hard behaviour |
|---|---|---|---|
| Data page (`src/dms/dms.cpp`, `src/include/dms.hpp`) | page header `_numSlots`, `_slotOffset`, `_freeSpace`, `_freeOffset`; slots that grow upwards, record images that grow downwards | store a record, empty a slot, read a record, `_recoverSpace` | the page is memory-mapped and the server stops by `abort()`: a crash keeps the stores made so far; byte arithmetic of compaction |
| Data file (`src/dms/dms.cpp`, `src/oss/ossMmapFile.cpp`) | file header `_size`, mapped segments `_body`, `_freeSpaceMap`, `_mutex`, `_extendMutex` | `insert` with its extend-and-retry loop, `remove`, `find`, `_extendSegment`, `_loadData` | several agents; an extension that runs outside `_mutex`; failures after the file grew; restart |
| `_id` index (`src/ixm/ixmBucket.cpp`) | buckets of (document, rid) entries, a latch each | `isIDExist`, `createIndex`, `findIndex`, `removeIndex` | entries hold pointers into mapped pages; rebuilt at every start |
| Run-time layer (`src/rtn/rtn.cpp`) | none of its own | `rtnInsert`, `rtnFind`, `rtnRemove`: two or three latched calls each | nothing joins these calls: other agents, and crashes, fall between them |
| EDU manager (`src/pmd/pmdEDUMgr.cpp`, `pmdEDU.cpp`, `src/include/ossQueue.hpp`) | run and idle queue of units, next id, latch; per unit a control block, its status and event queue | `startEDU`, `activateEDU`, `waitEDU`, `returnEDU`; thread entry point | pool, timeouts of waiting threads, control blocks freed by one thread and used by another |
| Listener and agent (`src/pmd/pmdTcpListener.cpp`, `pmdAgent.cpp`, `pmdMain.cpp`) | listening socket and retries; client socket and buffers | accept, start a unit; receive, handle, reply | failing accepts, clients that go away at any moment |
| Request handlers (`src/pmd/pmdCommand.cpp`) | none | decode, one call of the run-time layer | none of their own |
| Wire protocol, sockets (`src/msg/msg.cpp`, `src/oss/ossSocket.cpp`) | bytes in flight | build and extract messages, send, receive | partial transfers, timeouts between length and body |
| Client shell (`src/client/*`) | one connection, a line buffer, a reply buffer | read a line, split it, look up and execute the command | lines and replies larger than the buffers, return codes nobody reads |
| Options and start (`src/pmd/pmdOptions.cpp`, `pmd.cpp`, `pmdMain.cpp`) | two sets of given options, their fields, the status of the control block | `readCmd`, `readConfigureFile`, `importVM`, `init`; signal handler | precedence of two sources; signals at any moment, a handler that raises its own signal |
| BSON comparison (`src/bson/src/bsonobj.cpp`, `bson-inl.h`, `bsontypes.h`) | none | `woCompare` of elements and documents, with keys, masks and sort patterns; names with digits and dots | mixed numeric types, NaN, types that compare as each other: an order must be an order |
| BSON fields (`bsonobj.cpp`, `util/embedded_builder.h`) | stack of open documents in `EmbeddedBuilder` | lookups by path, projections, renamings, `dotted2nested`, `nested2dotted` | assumptions on the order of names |
| BSON builders and bytes (`bsonobjbuilder.h`, `util/builder.h`, `bson-inl.h`, `bsonelement.h`) | one buffer, builders nested on it, the value stream's pending field | append of every type, nested builders, `asTempObj`, `obj`; `valid`, `toString`, iteration | growing while outer builders have room reserved; the size limit; damaged bytes |
| JSON text (`util/json.cpp`, `jsonString` in `bsonobj.cpp`, `lib/base64.cpp`, `util/hex.h`) | `ObjectBuilder` fed by the actions of a backtracking grammar | `fromjson`, `jsonString` in three formats | actions of alternatives that are given up; escapes; numeric types |
| Log, latches, file operations | file handles | wrappers of system calls | - |

How they interact: the listener hands a socket to a unit through the unit's
event queue; the agent calls the handlers, these the run-time layer, which calls
index and file in turn. The file's load at start-up calls back into the index.
Shared state is the file with its map and mappings, the index buckets, and the
queues of the EDU manager, each under its own latch. The server is never shut
down in order: signals end in `abort()`, so every restart is a crash restart.

What makes each component correct:

* page: a record id leads to exactly the document stored under it until it is
  removed; a removed record does not come back; `_freeSpace` is not optimistic;
* file: the same through growth and restart, on pages that nothing has damaged;
  the free-space map describes the pages; operations end;
* layer and index: entries and records correspond, `_id`s are unique, an
  acknowledged insert is there after a restart; as a whole, an atomic map;
* units: no thread works on a unit that is freed or offered for reuse; every
  connection has one owner and is served;
* messages: the server does what the user asked, once, in order on each connection,
  and answered commands in order over all of them; the shell reports what the
  server answered to that very request;
* start and end: the command line wins over the file, a shutdown is final, a
  line reaches its command as it was typed;
* BSON: comparisons are orders and agree with each other, as far as doubles and
  keys reach; nesting and dotting, projecting and putting back lose nothing but
  what the names and missing fields make them lose; builders that share a buffer do
  not disturb each other; what `valid` accepts can be used; a document keeps
  through text what the text can say.

## 2. Modules

| Module | Models |
|---|---|
| `DmsPage` | one page, store by store, with a crash between any two stores |
| `DmsFile` | the file: threads in `insert` and `remove`, extension, map, restart |
| `Rtn` | run-time layer over index and file, call by call |
| `KVStore` | abstract specification: what the layer promises its agents |
| `EduMgr` | EDU manager, unit threads, listener, agent loop |
| `Wire` | shell, streams, agents' request loop and handlers |
| `Startup` | the server process: options, control block, listener's outer loop, signals |
| `Shell` | the shell: connect, read a line, split, look up, execute |
| `Session` | a server and a shell beside it (`Startup` and `Shell` composed) |
| `BsonTypes` | elements and documents as values, the accessors all BSON modules share |
| `BsonOrder` | comparison, as used by an ordered set and a sorted iterator |
| `BsonFields` | lookups, projections, dotted and nested names |
| `BsonNested` | documents inside documents: sizes, lookups by path |
| `BsonBuilder` | builders nested over one growing buffer, as bytes |
| `BsonBuffer` | reading such bytes, damaged ones too: validation, printing, decoding |
| `Json` | text to document and back |
| `DmsPageProofs`, `DmsFileProofs`, `RtnProofs`, `EduMgrProofs`, `WireProofs`, `SessionProofs`, `BsonBuilderProofs` | theorems about these modules and their proofs |
| `NaturalFacts` | induction, recursion, division and flattened sequences in a form the provers can use |
| `MC...` | instances for TLC |

The three storage modules describe one system at three grains. `DmsPage` shows
what the bytes of a page do, and that slots are never reused. `DmsFile` keeps
of a page its free space, the two offsets and what its slots lead to, and adds
threads, latches, segments and the file. `Rtn` takes from the file that every insert
gets a new rid and that an emptied slot stays empty, and adds the index and the
order of calls. `EduMgr` is independent: it says which threads exist. `Wire` is
what happens between a user and such a thread, with the layer as one step;
`Session` is what comes before: both programs start and a line is typed. The BSON
modules are below all of them: `BsonTypes` has the values, each other module one
aspect of the library. `BsonBuffer` extends `BsonBuilder`; what recurses over
sub-documents is in `BsonNested` and `BsonBuffer`, so that the builders can be
proved about.

Definitions named as slips of the code (`NeedWithoutSlot`, `ErasedNever`, ...)
belong to no specification. Each is a plausible error put in the place of the
definition that follows it, to see that the property it is paired with in
`PROJECT.json` notices.

### DmsPage

State: the words of the page, the slot list, the four header fields, the place
of the operation that holds `_mutex`, its locals, the rids the index knows, and
histories. The unit of size is the 4-byte word; a word of the data area records
which image wrote it and which word of that image it is, so overwriting and
shifting are visible. Actions follow the stores of `dmsFile::insert`
(`InsertBegin`, `CheckSpace`, `AppendSlot`, `CopyRecord`, `CountSlot`,
`AdvanceSlotOffset`, `LowerFreeOffset`, `ChargeFreeSpace`), of `_recoverSpace`
(`RecoverHole`, `RecoverRecord`, `RecoverEnd`) and of `remove` (`RemoveSlot`,
`DropRecord`, `CreditFreeSpace`); `Find` is one step, `Crash` ends what is in
progress and reloads. `CopyRecord` is one step for the stores of header and
document: until `_numSlots` counts the slot nothing reads them.

Two things in the code damage a page, and the model records them in `damage`:
`"compacted"`, when `_recoverSpace` meets a live record (it measures images
without their 8-byte header), and `"torn"`, when a crash falls between
`_numSlots++` and the header stores that follow. The safety properties speak
of pages without damage; the run `page_compaction` shows what the first kind
does. After the second, `_numSlots` and `_slotOffset` disagree: the next insert
hands out a rid whose slot is not the one it wrote, or writes over the record the
crash interrupted.

### DmsFile

A page is its magic, `_freeSpace`, the ends of slots and images, and the document each
slot leads to. A thread's `insert` is `InsertStart`, `InsertLock`, `FindPage`, `ReadPage`,
then `MoveImages` and `RecoverSpace` where there are holes (`_recoverSpace`: its moves, its
last store), `AppendRecord` (the check, slot, image and `_numSlots++`), `SetOffsets`,
`EraseEntry`, `ReenterEntry`; where no page fits, `TryExtend` or `WaitExtend` and the
stages of `_extendSegment`: `GrowFile`, `FormatPages`, `MeasureMap`, `ListPage`,
`PushSegment`, `CountPages`, with `MapFails` and, where a write fails, `GrowFails`. A
remove is `RemoveStart`, `EmptySlot` and the same update of the map. `Crash`
maps the segments the header counts, at the places `_loadData` computes.

The two kinds of damage `DmsPage` shows in words are one field here: `whole`. A
recovery of space around live records and a crash between `_numSlots++` and the
offsets (`Torn`) end it. On a page that is not whole a slot is empty or `Stray`: it leads
to its document or to any other bytes. What the code makes of such a page is left
open: whether it finds holes, whether there is room, which size a remove gives back
(`Sizes`), whether the start of the server fails, or a store goes astray (`Wander`).

`_extendSegment` changes `_freeSpaceMap` and `_body` without `_mutex`. Where
another thread is inside the same container at that moment (`Collide`), the
outcome is undefined; `status` becomes `"wild"` and the process is not followed.
Steps of an extension that fall between those of other threads are followed.

Histories: `lost` (a segment, or part of one, is in the file and not in the header), and
`misnumbered` (the new pages were numbered from the size of the map while an
entry was out of it).

### Rtn and KVStore

Each call into index or file is one step under its latch. `MayInsert` says which
client inserts which `_id`s; uniqueness needs them disjoint, the rest does not.
Where the index has several entries for an `_id`, a lookup takes any of them
(the code takes the oldest). `Reject` is a request whose `_id` is absent or of
the wrong type. `Crash` rebuilds the index from the file, and the server does not
start when two records have the same `_id`.

`KVStore` says what agents may rely on: an update takes effect once, between
call and answer; an answer was true at some moment of the call; a crash keeps
every binding, and binds a free `_id` only to the document of an update it
interrupted. The refinement maps the index to the abstract store: an insert
takes effect in `CreateIndex`, a remove in `RemoveIndex`. The history `seen` collects
what the `_id` of a pending call was bound to since the call began.

### EduMgr

Every critical section of the manager's latch is one step of the listener or of
the thread of a unit. `Accept` and the read of `_idleQueue.begin()` are one step,
`Pick` uses that iterator under the latch, `Post` pushes the event after the
latch was given back: in between, the unit's thread may wait one second in vain
(`IdleTooLong`), return its unit, and free it. `ThreadFails` leaves the latch
taken; only the listener gets past it, because glibc answers `EDEADLK` to the
owner and the code ignores the answer. `lpc = "wild"` marks the dereference of
`end()` and the use of freed memory; nothing is followed from there.

### Wire

A stream is a sequence of 4-byte words; a header word has the value the code
reads, a word of a document names the document and the place in it. Read as a
length, a document's first word is its size, the others are larger than any
buffer (a type byte and letters of a name). The shell is at its prompt, sending
(`SendSome`, in chunks that end where `Cuts` says), waiting for a length
(`ReadLength`) or for the rest (`ReadBody`). Its failures are those of the code:
`SendTimesOut` before the first word only, `SendFails`, `ReplyUnreachable`
(`isConnected`), `ReceiveFails`; a receive that times out is repeated (`Await`). Each may
come from a fault of the network: the shell's end of the connection is then gone,
with the words its send did not get rid of (`cut`), and the agent, which knows
nothing of it, goes on with what has reached it. `gaveUp` has the commands that ended
without the server's answer; these may take effect late, and `ExecutedInOrder` excepts
no others.
An agent reads (`AgentLength`, `AgentBody`), executes and builds the reply
(`Handle`), sends (`AgentSend`), or ends at any moment (`AgentEnds`). `connect`
opens a new connection while the agent of the old one may still be at work.

Asked for less than zero bytes, `ossSocket::recv` waits until something can be
read, takes nothing and succeeds; `BodyWords` and `Readable` say so. `skewed`
records that a reply was too long for the shell and stayed in the stream.

### Startup, Shell and Session

The value of an option is where it came from: command line, file, default or
nowhere. `readCmd`, `readConfigureFile`, `ImportOptions` (both imports, in the order
of `pmdOptions::init`), `KrcbInit` and `StartListener` are the steps of `main`, with each
error they return; `MainLoopEnds` is its sleeping loop. A signal may reach `main` or the
listener between any two steps (`pmdSignalHandler`). `EDB_SHUTDOWN_DB` calls `abort()`, which
raises SIGABRT, whose handler is the same function: the thread goes down its own
stack (`Abort`, `MaxFrames` levels) until the kernel ends the process, and the other threads
go on meanwhile.

`Shell` reads characters: each turn of the loop of `Edb::_readInput` is a step (`EndOfLine`,
`BackSlant`, `StoreChar`), with continuation lines, tabs, the full buffer and the stray
backslash; `Dispatch` is the rest of `prompt`: `_split`, a loop that cuts at each
delimiter (`Cut`), `getCommandProcessor` and the command. `LineReachesCommand` compares
with what the typed characters stand for (`Used`, `Meaning`, `LineOf`), which is defined
without the loop. An overlong line leaves the buffer unterminated: `Dispatch` then sees any of
`Tails` behind it. Command names have one letter. `Connects` has the results of
`ConnectCommand`: no socket, no connection although somebody listens, a connection that
is reported as failed because its addresses cannot be read. `Session` joins the two over
the port the listener has open; `port` and `SVCNAME` are the constants of the two programs.

### BsonTypes and BsonOrder

An element is a record of type, name, number, string, second string (regular
expression options, the id of a DBRef) and sub-document; the fields a type does not
use are empty. Doubles are integers with `Mantissa` significant bits, so that "a
long that a double cannot hold" happens at 17 instead of 2^53; the codes above
`MaxDouble` are the infinities and NaN. `MinLong` is the least long, whose sign cannot be
turned (`Magnitude`), and `ToInt` keeps the low bits.

`woCompareElt`, `compareElementValues`, `woCompareKey`, `woCompareOrdering`, `woSortOrder`, `lexNumCmp` and
`compareDottedFieldNames` are translated with their early exits. The states are those of a
`BSONElementSet` (a `std::set` ordered by `woCompare`) and of the name list of a
sorted iterator: they reach every order of insertion, so an intransitive
comparison shows as a set that is out of order. A key's iterator gives the EOO behind
its fields once and asserts when it is asked again (`Asserted`).

### BsonFields

`AddField`, `Sort`, `AppendAs`, `Done` are `dotted2nested`: `bson2map`, then the loop over the map with
`EmbeddedBuilder::prepareContext`, `splitDot`, `addBuilder` and `popBuilder`; `"thrown"` is
the exception of `substr`. Lookups (`getFieldDotted`, `getFieldDottedOrArray`,
`getFieldsDotted`), projections (`extractFields`, `extractFieldsUnDotted`, `filterFieldsUndotted`,
`addFields`) and renamings (`replaceFieldNames`, `appendKeys`, `getFieldUsingIndexNames`) are
operators that the properties apply to every input and every result.

### BsonBuilder and BsonBuffer

A buffer is its bytes, length and size; `grow` reallocates and throws as the code
does (the length is advanced first), `Write` notes any store outside the memory.
Builders are a stack over that buffer. One action per operation of a builder:
`AppendElement`, `ArrayAppend` (with `fill`), `SubStart`, `SubDone`, `StreamName`, `StreamValue`,
`StreamLabel` (`builder << "a" << GT << 1`), `AsTempObj`, `Obj`; `Unwind` is what the
destructors do after a throw. An element that holds a document has it as bytes
here, as the builder copies it. `DamageByte` changes one byte of a finished object; `valid`,
`toString` and `Decode` of `BsonBuffer` read memory whose bytes beyond the object are all 0 or all 1.
`Walk` is the loop of `valid`: how it ends, true, false or never, and whether it met a
BinData of negative length, which nothing refuses and which leads backwards.

### Json

A text is a sequence of tokens, quoted strings with the characters as written. The
grammar is one operator per rule over a parser state (position, `ObjectBuilder`);
rules that refer to each other go through `Rule`. Actions change the builder when their
parser matches; `Back` resets the position and not the builder. With `pure` it resets
both: the reference for `BacktrackingHarmless`. `jsonString` writes a document in
the three formats, with `escape`, base64 and hexadecimal as they are. A double is
written with 16 digits: `FractionWritten` and `WholeWritten` say what is left of it, and
`jsonNumber` writes it like an integer where nothing but digits is left. `AsRead` is the
document a reader of that text should get; `HasText` leaves out what the grammar refuses.

## 3. Runs

| Run | Result | What it shows |
|---|---|---|
| `page` | pass | on undamaged pages: `PageInvariant`, records stay readable, removed ones stay away, `_freeSpace` is sound, `find` is exact |
| `page_compaction` | violation | `_recoverSpace` shifts images by the wrong size: the rid of a live record no longer leads to it |
| `file` | pass | rids name slots of their own and, on pages that stayed whole, locate their records; the map describes the pages unless they were misnumbered; every operation returns |
| `rtn` | pass | `StoreInvariant`: index, file, calls in progress and the answers they may still give fit together; index and file agree, acknowledged records stay indexed, `_id`s are unique where clients' `_id`s are disjoint, a remove meets its record, and the layer implements `KVStore`, crashes included |
| `rtn_unique` | violation | two inserts of one `_id` both pass the check |
| `edu` | pass | queues, control blocks and threads fit together; events go to live units; a connection has one owner, and is served unless its unit has no thread |
| `wire` | pass | requests are handled whole and once, in order on their connection, and out of order only after the shell gave one up; until a reply is too long for it the shell reports the server's answer to its own request; messages fit their buffers; commands end |
| `bson_order` | pass | over the elements of the run an ordered set is in order, and only a double beside longs beyond its mantissa equals two of them; names with digits are ordered, and dotted ones as paths; keys that do not run out, `Ordering`s and sort patterns agree; type bounds and numbers the builder makes compare as they should, but for the named exceptions |
| `bson_fields` | pass | over the names of the run: nesting never throws; where names can be nested each path leads back and dotting again gives the input; the result may be stored unless a dot follows an empty component; lookups agree on paths without a trailing dot; index keys keep names up to the first missing field; projections keep theirs when a wanted field is there |
| `bson_buffer` | pass | no write outside the buffer, a builder that threw stays unusable; the bytes are those of what was appended at every moment; with one byte damaged, and no BinData of negative length met, what `valid` accepts is the encoding of a document and prints without an assertion |
| `json` | pass | a document that has a text is read back with the losses of `AsRead` (numeric types, digits after the 16th, options other than g, i, m) and no others, a typed one too; alternatives that are given up leave no trace |
| `session` | pass | the command line wins, a shutdown is not forgotten and the process ends, each line that fits reaches its command, the server listens on the shell's port exactly when its command line names no service |

### Bounds, and why they are enough

* `page`: 26 words, documents of 3 and 5 words, at most 5 slots, one crash.
  Two or three records fill the page, so inserts meet full pages, holes, a
  compaction with and without live records, and a crash at each store, after
  which further operations run on what is left.
* `file`: two threads, two pages to a segment, two segments, one crash, pages of 11
  words, four documents: two of them share a page and leave it two words; the
  third fits these bare, but not with header and slot, and fits in place of a removed
  one, so that space is recovered with and without a live record beside it; the
  fourth no page can hold, which drives the retry loop to the full disk. Two threads
  are enough for each pair of critical sections to interleave; no step involves
  three. `IntUnits` is large here, so that file offsets do not overflow.
* `rtn`: two agents, two `_id`s, two values (symmetric), three rids, one crash:
  an `_id` can be inserted, removed and inserted again while another call on it
  is pending, and a crash meets every pair of places of two calls.
* `edu`: three connections, three agents, `MaxPool` 3, one retry. A lone agent is
  destroyed and one of two is pooled, so both ends of `returnEDU` happen, and a
  third connection meets the idle queue.
* `wire`: three commands, two connections, one `_id`, and one document in the
  file. Buffers are scaled: the reply with the stored document exceeds
  the shell's buffer, the request of an insert is exactly one page of the agent's,
  so the final `'\0'` decides. A send may pause with four words left, which is
  inside every message. Three
  commands are one to leave a reply behind and two to meet what it left.
* `bson_order`: sets of three, as transitivity speaks of three elements; over forty
  elements with every type, each canonical class with several, numbers of one
  value in three types, two longs and the double both become, the least long;
  twenty names over letters, digits, dots, bytes above 127.
* `bson_fields`: documents of three fields over thirteen names: a path and its
  prefixes, a name that sorts between a prefix and its dot, empty components in
  front, in the middle and at the end, with and without a dot behind them, a
  position in an array, `$` and `_id`; values are numbers, empty objects and arrays,
  one with members that are equal.
* `bson_buffer`: a buffer of 12 bytes that may grow to 64: three elements pass each
  reallocation and the limit, in one builder or two. The objects that are damaged
  have one element, nested up to three levels; the new values of a byte are
  length 0, 1, 2, 5 and 8, the largest, a negative one, and the types with these
  codes: an int turned into a BinData has a negative length.
* `json`: documents of two fields, wrapped twice, in three formats, with doubles on
  both sides of 16 digits (scaled to 1), fractions that these hold, cut or show as
  none, an option only one format keeps; texts of five
  phrases, each a token or the beginning of a construct, so that every construct
  of the grammar is completed and is broken off at every phrase.
* `session`: one retry, two frames, a buffer of six characters; lines that are
  shorter, exactly as long, and longer, with continuations and stray backslashes.

Deadlock is not checked: clients may stop calling, bounds may be used up, and
a server that does not start again has stopped.

### Fairness

`DmsFile!FairSpec` has weak fairness of each thread's steps: an operation in
progress is run by its thread, and the latches are pthread locks whose holders
do no blocking I/O but the extension itself. Calls, crashes, collisions and what becomes of a damaged page are
not fair. `EduMgr!FairSpec` has weak fairness of the listener inside
`startEDU` and of each unit's thread; the arrival of requests, hang-ups,
timeouts and failing accepts are not assumed. `Wire!FairSpec` has weak fairness of
the shell inside a command (`ClientProgress`: its failures only once the other side is
gone, when a receive returns in any case) and of each agent; commands and faults of
the network are not assumed. `Session!Spec` has weak fairness of `main`'s steps, of the listener until its
socket is open, and of a thread inside the handler; signals, failing accepts and
the shell's steps are not assumed. Weak fairness suffices since a
thread that can take its next step keeps being able to until it does.

### Where the code departs from its documents

The two violation runs show one departure each. The following ones can be seen with
configurations that are kept beside the modules and are expected to end in a
counterexample (`tlc -config <cfg> <module>`):

| Configuration | Module | Violated | What happens |
|---|---|---|---|
| `MCDmsFileFull.cfg` | `MCDmsFile` | `FullFileIsExtended` | `_findPage` looks for the bare document size: a page with room for it but not for header and slot makes `insert` fail for good instead of extending |
| `MCDmsFileRestart.cfg` | `MCDmsFile` | `RidLocatesAfterRestart` | a segment the header does not count shifts the segments behind it at the next start |
| `MCRtnRestart.cfg` | `MCRtn` | `ServerStartsAgain` | a remove, a new insert of the same `_id` and a crash leave two records with one `_id`; the server does not start again |
| `MCEduMgrIdle.cfg` | `MCEduMgr` | `StartedUnitHasThread` | `returnEDU` reports a pooled unit as destroyed, so its thread ends; the next connection given to that unit waits for ever |
| `MCWireSkew.cfg` | `MCWire` | `InsertReportedIsDone` | a reply longer than 4 KB stays in the stream; the next command takes its second word for a length, receives nothing, and reports success before the server has seen the request |
| `MCBsonOrderWide.cfg` | `MCBsonOrder` | `EqualToOne` | two longs that differ beyond the mantissa are both equal to the double between them: a lookup in a set depends on what is in it |
| `MCJsonReserved.cfg` | `MCJson` | `NoReservedNames` | a reserved name such as `$oid` is refused in quotes and accepted without |

Met while translating, and kept in the models as the code has them:

* `importVM` is called for the file and then for the command line, both times with
  `isDefault` true: an option only the file gives is reset to its default.
  `readConfigureFile` says "Using default settings" and the server exits.
* `Edb::_readInput` returns `EDB_ARGUMENT_TOO_LONG` where its comment names
  `EDB_INVALID_COMMAND`; `prompt` ignores both. `quit` and `help` are in no command map.
* `appendMaxForType` falls through from `Undefined` and `jstNULL` and appends two elements.
  `appendNumber` and `appendIntOrLL` append the least long long as the int 0.
* `woCompare` with a key asserts when the documents are equal in more elements than
  the key has; `splitDot` leaves the dots behind an empty component in the name.
* `valid` looks at no BinData length: a negative one leads it back, even for ever.
* `addFields` adds no `_id` when no wanted field is found; `extractFieldsUnDotted` shifts the
  values behind a missing field; `okForStorage` accepts everything behind `$ref` or `$id`.
* `jsonString` prints nothing for `Undefined`, does not escape the namespace of a DBRef, and
  writes the subtype of binary data from 128 on with a sign. Of a double it writes 16
  digits; 4.0 becomes 4 and is read as an int. Two formats drop options of a
  regular expression.

## 4. Proofs

All theorems hold for every value of the constants that satisfies the named
assumptions: sizes positive, a page larger than its header, bounds natural
numbers, the "nothing" values outside the sets they are added to, options and
documents of the kinds the code can be given. None of the properties is inductive as it
stands. For each module the invariant that is, and why its parts are needed:

* `DmsPageProofs`: `PageInvariant` (`PageIsWellFormed`) implies
  `RecordsIntact`, `RemovedStaysRemoved` and the action property `FindIsExact`.
  That a live image survives the next
  insert needs `ImagesAbove` (live images lie above `_freeOffset`, where inserts
  write below), which needs the image under construction (`ImagePending`), the
  lag between `_numSlots` and `_slotOffset` (`SlotsInStep`), that no other slot
  is occupied (`SlotsAccounted`, for the reload), and the space an insert has
  checked before its first store (`Progress`). A compaction without live
  records leaves all offsets alone. `SpaceInvariant` adds the account of the
  space: insert advances `_slotOffset` one store before it charges for the slot,
  remove gives the image back after its slot is empty; a crash in between tears
  the page in the first case and loses the space in the second. From it follows
  `FreeSpaceSound` (`FreeSpaceExists`). One lemma per action, over the stores it makes.
* `DmsFileProofs`: `FileInvariant` (`FileIsSound`) implies `TypeOK` (`TypesHold`) and
  `RidLocatesRecord` (`RidsLocateRecords`). `LatchesHeld` says that a thread inside a critical
  section is the holder of its latch, so at most one thread is between two
  stores to a page, and one in `_extendSegment`. `SegmentsCounted` relates `_body`,
  the header and the length of the file at each place of the extension, `SegmentsInPlace`
  says that a restart maps the same segments at the same places, `RidsSound` that
  the record between page and acknowledgement is where its rid says and is
  nobody else's. Pages that are not whole are part of all of these: a rid on such a
  page still names a slot that exists and is nobody else's (`Located`), only its document
  is unknown; `LocalsSound` carries the room an insert has checked to the stores that use
  it, and the charge to `_updateFreeSpace`.
  `MapInvariant` (`MapIsComplete`) is a second layer upon it: each mapped page
  has an entry with its free space, but for the entry one thread has taken out
  and the pages an extension has not listed yet. It implies `MapMatchesPages`
  (`MapMatchesHeaders`). The map's insertion at its place and the loop of `_loadData` are
  shown to keep every other entry, by recursion and induction.
* `RtnProofs`: `RtnInvariant` (`LayerIsConsistent`) implies
  `IndexMatchesFile`, `AckedIsIndexed`, `UniqueIds` and `RemoveFindsItsRecord`.
  The key is `OneHolder`: a stored record has an entry, or exactly one thread
  has its rid between the two calls that write or delete both; entry and
  ownership pass from one to the other in a single latched call. `IdReserved`
  carries the result of `isIDExist` to `createIndex`, and needs disjoint clients.
  `StoreInvariant` (`LayerSeesTruth`) adds `SeenSound`: the present binding of a pending
  call's `_id` is among what it has seen, and so is what `dmsFind` will read through
  a rid it got before, also when a remove has come between.
* The refinement (`LayerIsAStore`): where no `_id` is inserted by two clients, `Rtn`
  implements `KVStore`. One lemma per action shows that its step is one step of the
  store, or a stutter: `CreateIndex` and `RemoveIndex` are the updates, returns are answers, and
  `DmsInsert` and `FindIndex` leave the store alone. The hard step is `Crash`: the reload may bring
  back a record whose index entry was gone or not yet made. `UnindexedIsInterrupted`
  shows that such a record belongs to the one thread that was between its two
  calls, `RestartFinds` that the binding it makes is the document of that call,
  and `DoubleIsInterrupted` that the server fails to start only in that case.
* `EduMgrProofs`: `UnitInvariant` (`UnitsAreConsistent`) implies
  `PostsToLiveUnit` (`EventsReachLiveUnits`). Live threads are in the run queue
  and idle units have none, therefore the only thread that can free a unit is
  its own; while the listener is about to post, that thread is still waiting,
  has given up (`late`), or never existed (a pooled unit). `OwnerInvariant` (`OwnersAreTracked`)
  names the three places a connection can be in and keeps them apart, and gives
  the count of `ConnectionHasOneOwner` (`ConnectionsHaveOneOwner`).
* `WireProofs`: `WireInvariant` (`StreamsAreWhole`) implies `HandledAsIssued`, `ExecutedInOrder`,
  `AnswersOwnRequest` and `BuffersHold`. A stream is read as one sequence from the agent's
  buffer through the socket to the shell's send buffer (`Stream`), so that moving a
  chunk does not change it. `WholeRequests` says that it is whole requests: a word that
  begins a message (`Begins`: larger than any opcode, code or count a header holds)
  is followed by the rest of that request and then by another beginning. Nothing
  in it depends on how sends are cut or when receives time out. `Order` says
  that commands are numbered in the order of their connections and that each connection
  handles its own in order, `InTurn` says,
  as long as no reply was left behind, that the current request or its reply is on its
  way, not both, and that whatever else is on its way to an agent is a command the
  shell has given up (`Pending`, `gaveUp`): an agent whose connection was severed may
  handle it late, but no answered command can be among them.
* `SessionProofs`: `OptionsTracked` (`OptionsAreTracked`) says for each place of `main` what the two
  imports have left in the options; `CommandLineWins` and `DefaultsMeet` follow.
  `ShellInv` (`ShellInvariant`) implies `LineReachesCommand`
  (`LineAlwaysReachesCommand`), for lines and buffers of any length: between two
  steps of `_readInput` there is a k such that standard input is the line without
  its first k characters, none of these ends the line or is a backslash still
  waiting for its successor, and `_cmdBuffer` is what they stand for (`ReadTo`); the
  step that ends the loop turns this into the whole line (`LineRead`). `SplitFaithful`
  shows by an invariant of the loop of `_split` (`SplitTo`) that command and arguments,
  joined by spaces, are the text.
* `BsonBuilderProofs`: `BuildInv` (`BuildInvariant`) implies `BufferIsSafe` (`BufferAlwaysSafe`)
  and `BuiltBytesAreExact` (`BytesAlwaysExact`), for buffers, documents and nestings
  of any size. `SoundBuffers` says of a buffer that has not thrown that its length is within
  its memory, and of one that has that it is `Stuck`: the length has passed the size,
  and growing to it exceeds the limit, so that each later append throws again before it
  writes. `Holds` says that the bytes of the innermost builder, behind the four bytes it
  reserved, are those of what was appended to it; `Levels` that the bytes of every outer
  one end, with type and name of the next, where the next begins. Both are needed:
  closing a builder writes a length far before the end of the buffer, and must hit
  the reserved bytes of that builder and nobody else's. `PutFollows` is the lemma for all
  that appends, `DoneEncodes` that `_done` leaves the encoding of the document and nothing
  else changed, `LevelsKept` that appending leaves the outer builders alone.

The library's induction theorems take an operator, which the provers cannot
instantiate. `NaturalFacts` states induction over a set and recursion over a
function, derived from the least element of a set of naturals; with them
the recursive functions of the models (`LoadedMap`, `Total`, the loops of `fill`, of
`numStr`, of `_split` and of the pieces an append writes) and `FlattenSeq` of the community
modules are shown to have the values their equations say.

Only model-checked: liveness (`OperationsReturn`, `AcceptedIsServed`, `CommandsReturn`,
`HandledSignalEnds`), which needs fairness and ENABLED, out of the prover's reach; and the
properties of `BsonOrder`, `BsonFields` and `Json` and `ValidCanBeTrusted` of `BsonBuffer`. These are
about documents inside documents and about a grammar whose rules refer to each other:
RECURSIVE operators, for which the prover has no backend, and induction over data.

## 5. What is not modelled

* Opcodes and malformed messages that no client of the repository sends, and the
  checks of `msgExtract*` for them; the shell's line editing and printing. A
  request larger than the shell's send buffer cannot be typed: a line has at most
  511 characters.
* `_destroyAll`, `_forceEDUs`, quiescing: reached only when the process exits
  by `return` from `main`, before any unit exists. `postEDUPost`, `waitEDUPost`
  and `pmdListener.cpp` have no callers.
* A write of a new segment that fails half way leaves part of it, which is counted as
  one blank segment that no header counts (`GrowFails`). What is in the bytes of a
  page that is not whole is not followed in `DmsFile`, and the process not beyond a
  store that goes astray; `DmsPage` has the bytes. The
  order in which the operating system writes dirty pages is not modelled: a
  crash is one of the process, not of the machine.
* The sign of int file offsets in `_loadData` is modelled (`MapOffset`), but the
  runs stay below the limit: from segment 16 (2 GB) on the file is not opened
  again.
* Of the BSON library: md5 and the generation of object ids, dates as text, printing
  for people (`toString` is modelled for the assertions it may meet), `StringBuilder`,
  accessors that only cast, `BSONElement::Array`, macros and operators that only forward
  to what is modelled. Memory outside an object is uniform. A fraction of at most 16
  digits is read as the double it was; the last bit that Spirit's arithmetic on digits
  may change is left out.
* A failing `send` or `recv` is taken to be the end of the connection on the shell's side.
  Words that the shell has sent and no agent gets are those of an agent that ends
  before it reads them.
* The wording of messages, the log, `pmdListener.cpp` (never started).

## 6. Plan

Done: all modules of section 2; proofs of every safety property of the page, the
file, the run-time layer and its refinement, the units, the wire protocol, the
options, the shell's reader and the BSON builders.

1. `BsonOrder`: that comparing numbers without NaN and below the mantissa is
   transitive, as lemmas about `compareNumbers`, in a module without the comparison
   of sub-documents.
2. `BsonBuffer`: that `valid` accepts what the builders make, for documents without
   sub-documents.
