# A verification of PubHub

PubHub is a message-queue server (`src/pubhub-server`, C++), a client library
(`src/pubhub-client/pubhub-rs`, Rust) and example clients. This directory holds
TLA+ models of the server, of what it promises, of the library, of the framing
between the two and of the JSON library that both ends of a frame go through;
TLC runs over small instances of them; and theorems about the server, the
library, the framing and the strings of the JSON library that TLAPS checks for
instances of every size.

## The system

| Part | State | Operations | Correct when |
|---|---|---|---|
| `Hub` (`server/Hub.cpp`) | none but the event being handled | `run`: `nextEvent`, `handleEvent`, `sweep`, for ever, in one thread; one handler per kind of event and of request | every event is for a client that exists; the process never stops; messages reach the subscribed in order |
| `StateController` (`server/StateController.cpp`) with `Channel` | `poll_fds`, `clients`, `channels`, the static `Channel::idGen` | `nextEvent`, add/remove a client, a channel, a subscription, switch `POLLOUT` | the four agree with each other after every operation; for a connected client, an operation that throws has done nothing |
| `Client` (`server/Client.cpp`) | `subscriptions`, `backlog_queue`, a socket | receive, enqueue, flush one, kill | queues are first in, first out, and polled for output while not empty |
| `Socket` (`net/Socket.cpp`) | a descriptor | blocking `receive` and `send` of a length and a body, `accept`, `kill` | a frame is sent and received whole, descriptors are closed once, a call that blocks returns |
| Requests and responses (`server/Request.hpp`, `server/Response.cpp`) | none | conversion from and to JSON | - |
| `pubhub-rs` | a connection, the names to subscribe to later | `execute`, `into_listener`, `subscribe`, iteration | a response is the one to the last request |
| `json.hpp` (vendored) | a value, or the progress of a parse | `parse`, `dump`, binary formats, pointers, patches | what is parsed is what the text means; each conversion is undone by its inverse |
| Example clients, `main.cpp`, logging, `SocketAddress` | - | - | - |

The hub owns a `StateController`, which owns `Client`s (keyed by descriptor) and
`Channel`s (keyed by id). A subscription is stored twice, as an id in the client
and as a descriptor in the channel. `poll()` reports what the kernel knows of
all descriptors; `nextEvent` picks one of them and the hub handles it; what a
handler wants to send is queued in the `Client`, and a later `OutputPossible`
event sends one frame of the queue. A frame is a length of four bytes
(the model `Framing` has two, of bytes below `Base`) and a JSON text, which
`json::parse` and `dump` convert.

Where it is hard: the server is one thread, so nothing interleaves with a
handler in memory, but peers act at any moment, between `poll()` and the handler
above all; descriptors are ids, and the kernel reuses them; the socket calls
block, and cut frames into pieces; the containers' `operator[]` creates what it
does not find, and nothing checks that a descriptor has a client; the library
takes the next frame for the answer to its last request; the JSON library
encodes the same knowledge (UTF-8, the limits of a width, the shape of a
container) in several places that must agree. `PROJECT.json` lists each such
place under `hazards`.

## The modules

The server:

| Module | Stands for |
|---|---|
| `Protocol` | requests and frames as records. Everything the parser rejects with another exception than `InvalidInputException` is the one request `Malformed`. A frame is a response (status, and the names of an `Ask`) or a message. |
| `Client` | `subscriptions` and `backlog_queue` of every `Client`, as functions of the descriptor. |
| `StateController` | `poll_fds`, `clients`, `channels`, `idGen`, and one operator per operation. An operation that can throw takes the exception as its argument `result`. The three data invariants are stated here. |
| `Network` | environment: the kernel's listen queue and connections, and peers that connect, send part of a request, pause, finish it, read, close (`shut`) or reset at any moment. `accept`, `receive`, `send` and `kill` are `Socket.cpp` as the hub uses it. |
| `Hub` | composes the above: the loop, the handlers, `Spec`, `FairSpec` and the properties. |
| `ControllerContract` | `StateController` by itself, driven by any sequence of calls, also for clients that are not in its map, which the hub never passes. |
| `PubSub` | what the server promises: channels by name with their subscribers, and for each connection a queue of requests and one of frames. No loop, descriptor set, id or backlog. |
| `HubRefinement` | the mapping from `Hub` to `PubSub`, and `ImplementsPubSub`. |
| `StateControllerProofs`, `HubProofs` | lemmas per operation of the controller and per handler; the inductive invariant of the registry. |
| `HubQueueProofs` | the invariant of the queues; the action properties. |
| `HubRefinementProofs` | that `Hub` implements `PubSub`. |
| `ControllerContractProofs` | the controller under any of these sequences of calls. |

The wire and the client:

| Module | Stands for |
|---|---|
| `PubHubRs` | `PubHubConnection`, `PubHubListener` and `await_response` on one connection of `PubSub`, with other peers on the others. |
| `Framing` | `Socket::receive` and `Socket::send` byte by byte against a peer that uses `stream.rs`, with socket buffers that fill up and calls that block. |
| `PubHubRsProofs`, `FramingProofs` | their inductive invariants and theorems. |

The JSON library:

| Module | Stands for |
|---|---|
| `JsonLexer` | `lexer`: one operator application per character; the adapters that read texts of wide characters. |
| `JsonSerializer` | `dump_escaped` with its state table and buffer. |
| `JsonNumbers` | `count_digits`, `dump_integer`, `dump_float`. |
| `JsonStrings` | a machine by itself: the lexer scans a string byte by byte, or `dump_escaped` is given any bytes. |
| `JsonParser` | `sax_parse_internal` with `json_sax_dom_parser`, one step per token, and `dump`. |
| `JsonCallback` | `json_sax_dom_callback_parser`. |
| `BinaryReader`, `BinaryWriter` | CBOR, MessagePack, BSON, UBJSON and BJData. |
| `JsonPatch` | `json_pointer` (`at`, `contains`, `operator[]`), `patch`, `diff`, `flatten`, `unflatten`, `merge_patch`. |
| `Json` | the machine of `JsonStrings`, which also feeds these one character, token, value or patch after the other, and the properties. |
| `JsonStringsProofs` | the theorems about `JsonStrings`. |

`MCHub`, `MCControllerContract`, `MCPubHubRs`, `MCFraming` and `MCJson` give the
instances their traffic, inputs and symmetry.

### State and steps of the server

`poll_fds[1]` is the code's `poll_fds[0]`; of a pollfd's `events` only `POLLOUT`
varies, so a pollfd is `[fd, pollout]`. `clients` is the set of keys of the map
of clients; a descriptor outside it has an empty subscription set and queue, as
a new `Client` has. `channels` maps ids to a name and a set of subscribers.

`NextEvent` is `nextEvent` up to its `return`; a handler is one action, with the
`receive` or `send` it makes, and peers may act between the two. `Handle<Kind>`
is `handleInput` for one kind of request, from receiving to `setPollOutByFd` and
`enqueueMessage`. A request whose exception is not an `InvalidInputException`
takes two steps, to `pc = "catch"` and on. Each removal of `sweep` is a step; a
sweep that finds nobody is none, and `NextEvent` waits until nobody is left to
sweep.

Undefined behaviour and ends of the process are values of `pc`, at which the
model stops: `empty_pop` (`pop_front` of an empty deque), `send_failed`
(SIGPIPE, or an exception nobody catches), `erased_client` (use of a destroyed
`Client` in `handleInput`), `swept_iterator` (the range-`for` of `sweep` after an
erasure), `unreachable_branch` (`exit(1)`). Where undefined behaviour may also do
no harm (`erased_client`, `swept_iterator`), the action chooses between stopping
and going on. An empty deque is not such a case: its size wraps around, the same
iteration's sweep finds the client over the limit, and destroying that deque runs
off its storage. `erase_if` in `removeClientByFd` reads the descriptor out of the
destroyed `Client`; nothing is allocated in between and allocators do not
overwrite that word, so the model lets it read what was there.

The comments at `StateController.cpp:145-148` and `158-162` announce a
`ClientException` and a `ClientNotFoundException` for a client that is not in the
map. The code throws neither: `addSubscription` changes the channel and then
`clients.at` throws `std::out_of_range`; `removeSubscription` makes a client with
`operator[]`, whose socket has descriptor 0 whatever its key. The hub passes only
clients of the map, so this is modelled in `ControllerContract` alone, where
`created` are the clients made so.

### The abstract server

In `PubSub` a request is carried out in one step, in the order of its connection;
a publication appends its message to the mailbox of each subscriber and `Ok` to
that of the publisher; a request that cannot be granted is answered with an
error and changes nothing. Only `Leave`, `Break` and `Crash` lose anything.
`HubRefinement` maps a peer to its descriptor, `up` to "not halted", `requests`
to what the socket holds unread, `subscribers` to the channels by name, and
`mailbox` to what is in flight followed by the backlog. That a handler reads the
request, changes the maps and queues the frames in one step of the server, that
`OutputPossible` moves a frame from the backlog to the wire, and that `sweep`
drops a client with all it had, are then steps of `PubSub` or invisible to it.
A name stands for one channel (`NamesAreUnique`), without which `idOf` would be
a choice. The mapping is checked by `Queues` and proved in `HubRefinementProofs`.

### The library

`execute` of a `Subscribe` only records the name and answers `Ok`; the names are
sent by `into_listener`, one after the other, each followed by `await_response`.
`PubHubRs` lets the program do anything the two types allow: record, execute,
turn into a listener, subscribe to more, iterate, drop. What it sends comes from
`to_json`, so it is never `Malformed` (`LibraryAssumption`); what others send
may be. A `send` of `into_listener` on a connection that is gone ends it
(`SendFails`). The model counts in `misread`
how many messages were taken for a response and not made up for by a response
yielded as a message. `NothingUnsolicited` is why subscriptions are recorded:
before `into_listener` the next frame is the answer. `OutOfStepByMisread` says
what happens afterwards, and the run `AwaitResponse` shows that it does happen.

### The framing

`Framing` has one connection. The hub's thread receives (`recv` with
`MSG_WAITALL`, once for the length and once for the body) and sends (two calls,
each of which blocks until all is taken); the peer writes requests and reads
frames in pieces of any size, and may end anywhere, even inside a frame. A call
that an RST interrupts after a part was sent reports that part, and `send`, which
only looks for -1, goes on to the next call. A length of 0 makes `recv` of 0
bytes, which waits for more data or the end and then fails: the thread waits as
long as the peer likes, which `HubCallsReturn` therefore excludes by name.

### The JSON library

A character is its code, a string a sequence of bytes, an integer the bytes of
its magnitude (so that the limits of 64 bits are real), a float the decimal text
it was read from, or its eight bytes in the binary formats. The lexer, the
parser and `dump_escaped` keep the states of the code; the heap of `JsonParser`
stands for the values that `ref_stack` and `object_element` point into. The
program parses and dumps; it never calls the binary formats, pointers, patches
or callbacks, which are part of the header it compiles.

Where a reading can fail, a result is a value, `eof` or `error`; which exception
it is, and its text, are not told apart. `allow_exceptions` is TRUE. `BufferSize`
is 14 instead of 512, the smallest with which the code's margin of 13 leaves
room for anything, so that flushes happen after one character. Sizes of 2^24 and
more are all alike, all NaNs are one, and a non-negative `number_integer` is the
same as a `number_unsigned`. Floats are re-read from what `to_chars` makes of at
most 15 digits, for which `grisu2` is known to find the same digits. BJData's
annotations are taken to be well typed. Patches are applied to values of one
numeric type.

A definition named `op_Word` right before `op` is `op` with a plausible bug. No
definition uses it; replacing `op` by it shows that a property would notice the
bug (`mutants` in `PROJECT.json`).

## The runs

| Run | Instance | Shows |
|---|---|---|
| `Registry` | 2 descriptors, 2 channel ids for one name; Subscribe, Unsubscribe, CreateChannel, DeleteChannel | `TypeOK`; the two directions of every subscription agree, pollfds, clients and open descriptors agree, events are for clients, `exit(1)` is unreachable; subscriptions change only by their client's requests or with the channel; a request answered with an error changed nothing |
| `Queues` | 2 descriptors; Subscribe, CreateChannel, Publish; sockets that take 1 frame, backlog limit 2 | the server implements `PubSub` between two clients; a queue that is not empty is polled |
| `OneClient` | 1 descriptor, 2 connections, 2 pipelined requests of every kind, sockets that take 2 frames, backlog limit 3 | the backlog exceeds the limit by at most 2; only a client never sent anything is polled with an empty queue; when descriptors run out with a connection waiting, it is for good |
| `Liveness` | 2 descriptors; Ask; backlog limit 2; `FairSpec` | requests are served, queues are flushed, disconnections are noticed |
| `Contract` | 2 descriptors, 3 names (1 refused), 3 ids | any sequence of calls, for clients in the map and missing ones: unique names, half a subscription is left by one kind of call only, operations touch only what they name |
| `Library` | the library and one other peer, 2 channels, 2 recorded subscriptions; `RsFairSpec` | nothing unsolicited before `into_listener`; the stream is out of step by exactly the messages misread; what was answered `Ok` is a subscription; calls return |
| `Framing` | bytes below 3, buffers of 8, requests of 0 to 2 bytes, a message larger than the buffers; `FairSpec` | both sides read exactly the bodies sent; the two never wait for each other; blocking calls return |
| `Json` | see below | strings, numbers and documents are read as RFC 8259 and RFC 3629 define and dumped as they were; binary formats, diffs and flattening are undone by their inverses |

Four more runs each refute one sentence of the source (`findings` in
`PROJECT.json`): `EmptyFlush` (a fresh connection is flushed with nothing
queued; the shortest way to stop the server), `SendToDeparted` (a peer that
leaves at the wrong moment ends it), `ErasedClient` (a removed client is used)
and `AwaitResponse` (a message is taken for a response).

What the invariants of `Json` compare the code with is stated in that module
by definition: UTF-8 as the shortest encoding of a scalar value, the grammar of
numbers and of documents as predicates on whole texts, the value of a document by
recursion over it, the result of a callback as what is left of the value.
`ScannedStringsDump` is the one the hub depends on most: `handleInput` dumps
every request for its log before it looks at its kind (`Hub.cpp:77`), and a
string that made `dump` throw there would cost the client its connection.

Three things about the header which its runs pass over: `contains` throws for
an empty name in an array, where `at` finds nothing (`FoundWhereItIs` names the
case); a callback that discards a member's scalar or array may leave a discarded
value in the object, which `dump` writes as `<discarded>` (`FilteredAsAsked`
names the case); and `JSON_ASSERT(false)` in `patch` (json.hpp:24017, "if there exists a
parent it cannot be primitive") is reached by an operation whose parent is a
primitive value; the model gives it the result `Assertion`.

### Bounds

`Fd` bounds open connections. Two are the fewest for which one client's step
can harm another (publisher and subscriber, starvation, reuse of a descriptor
while another is open). `Contract` has three names, one of them refused, and
three ids, so that a channel is deleted and its name used again.
`ConnLimit` bounds waiting plus accepted connections; `OneClient` has one more
than descriptors, so that `accept()` fails. `MaxInbox` bounds the complete
requests a peer has sent and the hub not read; with a partial one behind it. Two
are needed for a client to overtake its own output. `SocketBuffer` bounds the
frames in flight; one is enough for a full socket. `DeadBacklog` is the literal
100 of `sweep`, here 1, 2 or 3: the code only compares with it, and the instances
reach it, exceed it and sweep; from 2 on a queue can hold several frames when it
is flushed, which the order of frames and the switching of POLLOUT are about.
`MaxChannels` bounds the ids handed out (in `Hub` by not letting a CreateChannel
arrive, so that no guard is added to the server); with two ids a channel is
deleted and created again under its name. None of these bounds a proof: the
theorems hold for all values.

`MaxSubscriptions` = 2 lets the second answer be overtaken by a message to the
first subscription; `MaxMail` = 1 keeps the other peer from publishing while a
frame is unread, and `MaxMisread` = 2 ends the program's subscribing, since both
grow without limit. In `Framing` a byte is below 3 and a length two of them, so
lengths carry from one byte to the other (a body of 7 has the length 2, 1); a
message's frame (9) exceeds the buffers (8), a request's (2 to 4) fits twice.
`RequestsFit` says so; without it the two sides can wait on each other, as with
any protocol whose two ends both write before they read.

In `Json` characters are the limits of the ranges the code distinguishes, or one
of a class it treats alike (`MCJson`); a string has one character, in any
spelling of up to six or twelve input characters; bytes of any kind come in
fours, the longest sequence of UTF-8, behind one that is still in the small
buffer; numbers have up to four characters, at the start and behind the first
eighteen digits of 2^64 - 1 and of -2^63; documents have seven tokens, enough for
two members or two levels, and four more of them behind an object with two
members; binary texts have four bytes behind nothing and behind the lengths that
BSON and BJData begin with, and the values written have sizes at each limit of a
length (15, 16, 23, 24, 31, 32, 127, 128, 255, 256) and of an integer. Values
that are patched have at most three parts, but eleven elements once, for which
/10 comes before /2.

`Registry`, `Queues` and `Contract` use the symmetry of `Fd` (safety only; in
`Queues` the property `ImplementsPubSub` has no fairness in it); the others do
not. Deadlock is checked in `Contract` only: `poll` waits without a timeout for
peers that may have nothing more to say, the models stop where the process or
the program ends, and texts end at their bounds.

### Fairness

`Hub`'s `FairSpec` assumes that the hub's thread runs (`WF`); that a client which
has an event infinitely often when the hub waits is picked infinitely often
(`SF`): the indices are shuffled with a new seed before each search, so this
holds with probability 1; and of peers, that they finish a request they have
begun, or close, and read what they are sent. The last is no promise of arbitrary
peers: `recv` and `send` block the only thread, and without it a single silent
peer stops everyone. The liveness properties are for hubs that do not run out of
descriptors; `ExhaustionIsForever` says what happens to one that does.

`Framing`'s `FairSpec` assumes the same at the level of bytes: the hub's thread
and the peer's take steps while they can, and the peer reads when it is not
writing; whether it begins another request is up to it. `RsFairSpec` assumes that
the server serves a request (`RequestsAreServed` of the run `Liveness`), that
frames arrive, and that calls into the library go on; nothing is assumed of the
program over it or of other peers.

## The theorems

Every property the passing runs check of `Hub`, `ControllerContract`,
`PubHubRs` and `Framing` is also a theorem, liveness excepted, and so are the
three of `JsonStrings`. They hold for every value of the constants. Assumed of
these: the listening socket is no client's descriptor (`FdAssumption`), requests
are requests (`NetworkAssumption`), limits are naturals, `WhitespaceName` is a set of names,
the library sends no malformed request (`LibraryAssumption`), bodies are shorter
than two bytes can say and a response is not a message (`FramingAssumption`), integers
have up to 64 bits (`LexerAssumption`), the buffer is longer than its margin
(`BufferAssumption`) and strings consist of bytes (`StringsAssumption`).

### The registry

`Invariance` (in `HubProofs`) proves `[]Inv`, and `TypeCorrect`,
`SubscriptionsAgree`, `NamesAreUnique`, `PollFdsAgree`, `NoDescriptorLeaks`,
`HandlersHaveClients` and `NoUnreachableBranch` follow. `Inv` is inductive where
the properties alone are not:

- that a handler's descriptor has a client (`EventsAreForClients`) is kept
  because `nextEvent` only returns descriptors of clients, which needs the
  pollfds to match the clients, which needs `accept` to return a descriptor no
  client has, which needs the open descriptors to be those of clients;
- `operator[]` creates nothing because both directions of subscriptions agree,
  and they go on agreeing because it creates nothing;
- an exception's handler removes a client that is in the map (`CaughtIsClient`),
  and a `ConnectionRequest` still finds its connection (`ConnectionWaits`), since
  peers cannot take one from the listen queue.

`StateControllerProofs` has one lemma per operation of the controller;
`HubProofs` one per handler, and `StepPreserves` puts them together.

### Queues and steps

`QueueInvariance` proves `[]QueueInv` on top of `Inv`; `NoLostWakeup` and
`BacklogsAreBounded` follow. A queue is at most two frames over the limit because
it is within it whenever an event is handled (`HandledInLimit`), which holds
because `NextEvent` waits until `sweep` has nobody left and a handler adds no more
than two frames to one queue: a message and its publisher's answer. That a new
client's queue is empty needs queues to end with their clients
(`QueuesEndWithClients`).

The action properties follow from `Inv`, with one case per handler: `ExhaustionLasts`, `IdleOnlyWhenFresh`, `RejectionsChangeNothing` and
`SubscriptionsAreOwn`.

`ControllerContractProofs` proves of the controller alone, under any sequence of
calls, what is left of this when clients may be missing. `ContractInv` has the
types, the unique names, and one half of the agreement (`ListedBack`: who lists a channel
as subscribed is a client of the map, and that channel exists and lists it).
The other half fails by `addSubscription` for a missing client, and that is the
only call it fails by: `HalvesAreMissingClients`. `NamesStayUnique` and
`OperationsAreLocal` are the other two.

### The refinement

`Refinement` proves `Spec => ImplementsPubSub`. Each step of `Hub` is shown to
be a step of `PubSub` under the mapping or to leave the mapped state as it is:
`NextEvent`, `OutputPossible` and the removal of what the kernel has dropped
already are invisible; a handler is `Serve` for its request, where `Inv` gives
that a name stands for one channel and the frames queued reach the end of the
mailbox; the end of a client is `Leave`, a reset `Break`, the end of the process
`Crash`. It needs `QueueInv` for what a descriptor is left with when its peer is
gone (`ConnectionsEnd`): a descriptor that is reused starts with nothing.

### The library

`ServiceInvariance` gives the types of the service under the library and other
peers. `LibraryInv` adds to the properties that a connection that does not
listen is in no channel and has no request for a subscription on its way, and the
equation of `CountInv`: requests not served, responses in the mailbox and
responses arrived are together those awaited and those left behind by a misread.
`LibraryTypes`, `OnlyResponsesBeforeListening` and `OutOfStepExactly` follow.
`OkIsSubscribed` needs `SetupInv` as well: while `into_listener` awaits the
response for a name, all that is under way is about that name, since nothing is
misread before the next name is sent. Its hypothesis `OthersDeleteNothing`, that
no other peer deletes channels, is one the run makes too: with such a peer an Ok
may be stale when it is read.

### The framing

`FramingInvariance` says what the bytes mean: what the hub has received of a
request, what is on its way, and what the peer has still to write (or what was
lost with it) spell the requests the peer has begun, and the same in the other
direction for the bodies owed that are not in the backlog. A stream spells bodies
when it can be cut into their frames; the cuts are a function from the number of a
frame to its end, so that nothing is recursive and one frame is added
(`SpellsMore`) or taken away (`SpellsFirst`) without induction. With `CallInv`,
how far each call can have come, `RequestsArriveWhole` and `AnswersArriveWhole`
follow. `SidesNeverWaitForEachOther` needs the length of the stream as well: a
request is either not received or its answer not read (`CountInv`), so no more
than `MaxOutstanding` frames are between a blocked `write_all` and the hub, and
their frames fit the buffers (`RequestsFit`).

### The strings

TLC looks at strings of one character. `ScannedStringsAreDumped` says of strings
of any length, in any spelling, that what the lexer accepts `dump` writes under
the strict error handler, escaped to ASCII or not, and that the lexer reads it
back as the same bytes. `EscapesAlwaysFit` says of any bytes and each error
handler that `dump_escaped` stays within its buffer, whose margin of 13 is just
enough, and that what it writes is a string. `TablesAreUtf8` says of any text that
both functions take it if and only if it is UTF-8. They are about `StringSpec`; `Json`
has its steps, next to others that leave its variables alone, but reaches RECURSIVE
operators, with which the prover cannot work.

`dump_escaped` and the lexer hold the same knowledge of UTF-8 in unlike forms: a
table of nine states over classes of bytes, and a list of ranges for the bytes
that may follow. `RangesAreExpected` and `ExpectedNext` say that they agree.

The decoder is followed byte by byte (`DumpByteAt`). `DumpAt` says of each of its
states which bytes were decoded (`Writes`: those behind `written`, which the lexer
reads back), which are those of an unfinished character, and what these bytes say
of the code point (`Partial`). A code point is written as it stands, as one
escape, or as a surrogate pair; `DecodedAt` shows for each that the lexer reads
its `encode`, and that the bytes are those (`PartialNext`, `DecodeByte`). The room
left in the buffer is part of `DumpAt`, hence `EscapesAlwaysFit`.

For the lexer's side, `ScannerAt` says for each state of the scanner that the
buffer dumps without an error up to an unfinished character, which is the one whose
remaining ranges the scanner holds (`Dumps`), and for `\u` what digits it has. A
code point that came as an escape is never a single surrogate (`PairedScalar`), so
its encoding dumps as well (`DumpsEncoded`). `StringsAreKept` is this invariant
over the steps of `StringSpec`.

What the two functions do to a string of any length is a fold over it.
The module defines both folds as recursive functions, and `ReadFromAppend` and
`DumpedAppend`, one more byte is one more step, are proved by picking a
counterexample of least length (`LeastNumber`, `SetInduction`), for which the order
on naturals being well-founded is enough.

`IsUtf8` knows nothing of either table: a text is UTF-8 if it can be cut into
characters (`IsUtf8Character`), each the shortest form of a code point which is no
surrogate. By `CharacterEncodes` and `EncodedIsCharacter` the characters are
exactly the results of `encode` for scalar values, which `DumpsEncoded` already
takes through the decoder. `Utf8Dumps` carries that to texts of any number of
characters. For the converse, `Cut` says of the text read so far that it is
characters followed by the beginning of one more, and the decoder keeps it
(`CutNext`). The lexer takes a text without quotes and escapes as it is and
expects what the decoder does (`FollowsBytes`), so one refuses where the other
does.

### Only model-checked

Liveness stays with TLC for good (`RequestsAreServed`, `BacklogsAreFlushed`,
`DisconnectsAreNoticed`, `CallsReturn`, `HubCallsReturn`), since the prover has no
means for fairness and ENABLED. Of `json.hpp` the same holds for what needs
recursion over trees or code points (`meaning`, `dump`, the containers of the binary formats,
patches): `DocumentsAreUnderstood`, `WrittenIsReadBack`, `CutTextsAreNoValues`,
`ReadValuesAreWritable`, `DiffsApply`, `FlattenedIsUnflattened` and
`WideTextsAreUtf8` (texts of 16 and 32 bit characters); and for
`NumbersAreExact`, whose digits are counted by RECURSIVE operators. The refuted
sentences of the source are TLC's as well.

## Not modelled

- Between `Network` and `Framing` the composition is by hand: in the model of
  the server `receive` takes a whole request, or blocks, or fails, and `send` puts
  a whole frame; that this is what the byte level does is what `Framing` checks,
  for one connection. That all other clients wait meanwhile is in both.
- `kill`'s exception, inverted (`Socket.cpp:86` throws when `shutdown` or `close`
  succeeds) and discarded by `killConnection`; the wording of responses
  and logs; `SocketAddress`, `main`, start-up (`socket`, `bind`, `listen`),
  failures of `poll` itself and of allocation.
- Of the library: `send_request` and `execute` of the trait `PubHubClient`, which
  nothing calls, and the reasons in its errors. The example programs are peers
  like any other.
- Of `json.hpp`: `accept()`, iterators, conversions from and to C++ types, the
  arithmetic between a float and its digits (`grisu2_digit_gen`, `strtod`),
  positions and wording in exceptions, `indent_string` beyond its first 512
  columns, the product of BJData's dimensions beyond 64 bits, operations of a
  patch that lack a member, and the depth to which `dump` may recurse on the
  stack, which the content of a Publish can choose.

## Plan

1. (done) `Protocol`, `Client`, `StateController`, `Network`, `Hub`,
   `ControllerContract`; the inductive invariant of the registry.
2. (done) `PubSub` and the refinement, `PubHubRs`, `Framing`, the JSON library.
3. (done) Proofs, for all sizes: the queues and the action properties of `Hub`,
   the refinement, the contract of the controller, the library, the framing, the
   strings of the JSON library.
4. That the byte level of `Framing` implements a connection of `Network`, whose
   `receive` takes a whole request: so far only the bodies are shown to be those
   sent (`RequestsArriveWhole`), and the composition is by hand.
