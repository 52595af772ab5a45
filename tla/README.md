# Verification of libhutznohmd

libhutznohmd is an embeddable HTTP server library in C++. It has no server loop
of its own yet: a program opens a listener, accepts connections, lets the
library parse a request from a connection, asks the demultiplexer for the
request handler that fits, and calls it. This directory holds TLA+ models of the
library, which TLC checks on small instances, and theorems about the models,
which TLAPS checks for every value of the constants.

Paths are relative to `src/libhutzohmd/`; "the documentation" is the comments of
its public headers in `include/libhutznohmd/`.

| In this file | |
| --- | --- |
| [Inventory](#inventory) | the parts of the library, their state, what is hard about them |
| [Modules](#modules) | which module models which part, and how |
| [Runs](#runs) | what TLC checks, on which instances, under which fairness |
| [Proofs](#proofs) | what TLAPS proves, from which assumptions, and how |
| [Where code and documentation part](#where-code-and-documentation-part) | what the models brought to light |
| [Plan](#plan) | what comes next |

To repeat everything: `tlc -config X.cfg M` for each row of the table of runs,
`tlapm M.tla` for each module whose name ends in `Proofs`.

## Inventory

### Demultiplexer (`src/demux/demultiplexer.*`)

The heart of the library, and its only part that many threads share.

* **State.** `resource_callbacks_`, a `std::map` from a resource (path, method,
  content type) to the request handlers of that resource;
  `resource_callbacks_mutex_`; the condition variable
  `resource_callbacks_usage_changed_`; the `mime_handler` with the registered
  MIME names, under a mutex of its own.
* **Operations.** `connect`, `disconnect` (called by a handler object's
  destructor), `disable`, `enable`, `is_enabled` (called through the handler
  object), `determine_request_handler`, the increase and decrease of a handler's
  usage counter (called by a holder), registration of MIME types and subtypes,
  and `supported_mime_types`, a query.
* **Interaction.** Users own `demultiplex_handler` objects, each of which calls
  back into the demultiplexer. A thread that processes a request owns a
  `request_handler_holder`, whose constructor and destructor count the usage.
  Callbacks may call every one of these operations again, except destroying
  their own handler object.
* **Hard.** `connect` works in two critical sections under two mutexes.
  `disconnect` waits in the condition variable for other threads to return from
  a callback, keeping a reference into the map while it waits; all waiting
  threads share the condition variable, whatever handler each of them waits for.
  The holder is counted in one critical section, called in none, and released in
  another.
* **Correct when** the usage counter of a handler is the number of its holders;
  a handler that is held is not unregistered; entries of the map and handler
  objects belong together one to one; a waiting thread's reference stays valid; a
  request is answered by the best-fitting enabled handler, the one connected
  first among equals; a thread that waits gets on when nobody uses its handler
  any more, which the code does not keep: it does keep that the end of every use
  wakes somebody, and that of several destructors of disabled handlers some one
  finishes.

### Ordered MIME map (`src/demux/demultiplexer_ordered_mime_map.*`)

The handlers of one resource: a `std::map` from accept type to callback, usage
counter and availability, and a `std::vector` of the same types in the order of
insertion, for requests with a wildcard. Always used under the demultiplexer's
mutex. Correct when the two containers hold the same types after every sequence
of operations, and `find` returns the first available match.

### The resource map's key (`demultiplexer.cpp:235`)

`std::map` needs a strict weak order and gets a comparison that joins the
comparisons of the three members by "or". Correct when every connected resource
is found, which is a question of which keys are in use together.

### MIME names (`src/request/mime_data.hpp`, `src/request/mime_handler.*`)

Two tables from names to registration values, one for types, one for subtypes:
a prefix tree, folded in case, from name to value, a map from value to name, and
a counter of eight bits. Correct when name and value stay each other's inverse,
and a value is never handed out twice, also after the counter wrapped.

### Error handlers (`src/demux/non_caching_request_processor.*`, `src/demux/error_handler.*`)

A map from status code to callback and enabled flag, under one mutex, and handler
objects whose destructors remove their own element. Correct when a refused
`set_error_handler` leaves everything as it was, and a destructor removes its own
callback and no other. `handle_one_request` is not written yet.

### Lexer (`src/request/lexer.*`)

Receives a request in chunks, normalises line ends and folded lines of the header
in the buffer they were received in, finds the end of the header, and splits what
was received behind it off as the beginning of the content. `fetch_content` gets
the rest. `get`, `index`, `prev_index` and `set_index` give the parser the header
one character at a time.

* **Hard.** The automaton runs over chunk boundaries, which may fall within a
  line end or a fold, or just before the last byte of the header. It writes into
  the buffer it reads from while that buffer grows.
* **Correct when** header and content depend on the bytes alone and not on their
  division into chunks; no byte is overwritten before it is read; no assertion
  fails; every chunk is scanned to its end.

### Request parser (`src/request/memory_allocating_request.*`)

Takes method, uri, version and header fields out of the lexer's buffer and
fetches the content.

* **State.** The members that hold converted values, pointers into the buffer for
  the strings among them, two `uri` objects, and `header_fields_`, a map whose
  keys are such pointers, ordered by what they point to.
* **Hard.** Everything happens in one buffer: separators become null characters,
  the request line's uri is decoded to the begin of the buffer, over the method,
  and the host to the begin of its own field, while other strings and the map's
  keys lie around them. Known fields are found by the begin of their name. The
  search for the end of a name runs through line ends. `fetch_content` may be
  called again after a failure.
* **Correct when** a well-formed request is parsed to what it says, every string
  ends, no string changes after it was given out, and a content is given out only
  when it is complete.

### Uri (`src/request/uri.*`)

Copies the parts of an uri to a destination, decoding them, each with a null
character behind it. Source and destination may overlap. What the first word is
(a scheme, a host, a user's name) is known only behind it. Correct when the parts
are those the text has, nothing is read after it was overwritten, and nothing is
written behind the destination.

### Prefix tree (`src/utility/trie.hpp`)

Maps tokens to values; in a tree without case, both spellings of a letter point
to one child. Correct when `insert`, `find` and `erase` are those of a map whose
keys are folded, `find` returns the longest prefix, and no node is leaked, freed
twice or reached after it was freed.

### Sockets (`src/communication/`)

A connection and a listener, each a descriptor and a flag (`is_connected_`,
`is_listening_`), and wrappers that repeat interrupted system calls.

* **Hard.** A call reads the flag, and then enters the system without a lock;
  `close` and `stop` may come from another thread in between, and have to end a call
  that is blocked. Transfers are partial. A `connect` that a signal interrupts goes on
  in the background. A descriptor's number is used again as soon as it is closed.
* **Correct when** every descriptor belongs to one object and is closed once; the flags
  do not promise what the socket does not have; what is received is what was sent, in
  order; a call fails only on a connection that was closed; closing ends the calls that
  wait.

### Pure functions

`src/utility/date_calculation.*` (date to seconds since 1970),
`src/request/timestamp.*` (three date formats), `src/utility/parsing.hpp`
(unsigned integers, with overflow), `src/request/base64.*` (both ways),
`src/request/md5.*`, `src/utility/common.cpp` (is a path valid) and the tables of
characters it uses. Correct when they agree with the definition of what they
compute on every input, at the edges of their ranges in particular: the leap day, a
text that ends too soon, a message that just fills its last block, sextets that are
left over.

### Everything else

`accept_parser` and `memory_allocating_response` are stubs without function
bodies; the public headers define abstract classes and enumerations. `usage.cpp`, `handler_manager.cpp` and the
like define virtual destructors. None has state of its own.

## Modules

```
HandlerRegistry  <--- implements --- Demultiplexer --- OrderedMimeMap --- MimeData
       ^                                   |                                  |
       +----- implements --- ErrorHandlers +--- ResourceKey              MimeTable
                                                    |                         |
                                               ResourceMap       MimeTrie --- Trie

RequestTests --- Request --- Lexer          InternetSockets --- SocketLayer
      |             |
      |             +--- UriMeaning --- Uri --- Parsing
      |             +--- Base64                    |
      |                                            |
  UnitTests --- Characters, Base64, Md5        Timestamp --- DateCalculation
                               |                   |
                         PureFunctions ------------+

ContainerTests --- OrderedMimeMap, Trie
```

Modules whose names begin with `MC` give the constants their values.

`HandlerRegistry` is the abstract specification: handlers are registered under at
most one id, an id has at most one handler, a request is granted the handler that
fits best, and a granted handler is not unregistered. It has no mutexes, counters
or containers. `Demultiplexer` and `ErrorHandlers` both implement it.

### Demultiplexer

One action for each critical section, with the code before and behind it that
touches no shared state. A thread is in at most one call (`op`); a processing
thread has a request in hand (`serving`) and makes calls from within its callback,
while its holder is out.

| Code | Actions |
| --- | --- |
| `connect` | `CheckConnect` (path, and MIME types under `mime_handler`'s mutex), then `Connect` (`operator[]`, `insert`, construction of the object) |
| `disconnect` | `Destroy` (the destructor's call), then rounds of `EraseHandler` (found, unused: erased, and the empty resource with it) or `Wait` (in use: give the mutex up), `WakeSpuriously` |
| `disable`, `enable` | `SetEnabled` through `Disable` and `Enable` |
| `determine_request_handler` | `Determine` (find, count the usage, construct the holder) |
| `request_handler_holder` | `Call`, `Return`, `Release` with its `notify_one` |
| `mime_handler` | `RegisterMimeType`, `RegisterMimeSubtype`, `UnregisterMimeType`, `UnregisterMimeSubtype` |

The resource map is a function from keys to MIME maps; whether `std::map` behaves
like one is `ResourceMap`'s question. A callback is represented by the handler
object that brought it. The condition variable is the set of threads whose `pc` is
"waiting"; `notify_one` moves any one of them to "woken", and a spurious wakeup may
do so at any time. A thread is never "woken" for a particular handler: it looks
its own up again.

Not modelled: exceptions of allocations and `supported_mime_types` (a query without
effect).

### OrderedMimeMap, MimeData, ResourceKey

Modules of operators, without variables: each member function of the classes that
is called under a mutex is an operator from a value of the class to the next.
MIME types are pairs of registration values, with the three values the enum
reserves; names are pairs of a word and a spelling, where folding forgets the
spelling. `MimeTable` makes a state machine of one such table, to check every
sequence of calls, and remembers in `retired` the values that were given back.

### Trie, MimeTrie

The tree is a heap, a function from addresses to nodes: `delete` takes a node out,
`new` takes a free address. `Insert`, `Erase` and `Find` follow the
recursive functions node by node, with the pendants (the other spelling's pointer
to the same child) and the count of used children, by which `erase` decides what
to delete. `MimeTrie` runs a tree beside every `MimeTable`, through the same calls,
and compares it with the table's function from folded names to values.

### ResourceMap

`resource_callbacks_` as a balanced search tree that knows `operator<` alone, for
up to three nodes, where the keys from left to right and the position of the root
say everything about the tree: `lower_bound`, `find`, the hinted insertion of
`operator[]` and `erase` by key (`EqualRange`, `EraseRange`) follow libstdc++, as
external code. Three nodes are enough for the tree to turn.

### ErrorHandlers

One action for each operation, each being one critical section. A handler object
that was refused does not exist.

### Lexer

A byte is a carriage return, a newline, a blank or any other. The outer loop of
`fetch_header` is `Receive` or `ReceiveFails`; the inner one takes one action per
character and state (`Copy`, `PossibleCrLf`, `PossibleLws`, `ReachedContent`);
`Return` cuts the header off. `fetch_content` is `FetchContent`, `ReceiveContent`
and `ReceiveContentFails`. The connection may deliver any chunk up to the size asked for,
or fail, at any time, which is `block_device`'s contract. `delivered` remembers
every byte, and what header and content should be is said of it in one definition
without states (`Kept`, `IsNormalForm`, `HeaderLength`).

### Request

The lexer and the parser over it, in one buffer. Pointers are positions in it. One
action for each part of `parse`: `CallFetchHeader` and `RunLexer` (the lexer's own
actions), `FetchedHeader`, `ParseMethod`, `ParseUri`, `ParseVersion`, a
`ParseHeader` for each field with the `set_` function it leads to (`SetHeader`), and
`ParseEmptyLine`. `CallFetchContent`, the lexer's actions and `FetchedContent` are
`fetch_content`, which may be called again and again. One thread uses a request, so
the loops over characters are not divided: `Find` says where each ends. A checksum of
a content that is not there (`content_` is NULL) reads from NULL: the state
"crashed".

What a request should mean is said of the lines of the header's normal form
(`IsWellFormed`, `LastValue`, `FieldsAreAsSent`), without positions in the buffer and
null characters. A known key is the longest token the key begins with, which is what `Trie`'s `Find`
returns. The texts that are timestamps (`Dates`) and the MIME names (`Types`,
`Subtypes`) are constants; the checksum is decoded by `Base64` and compared with
`Digest`, a constant with the digests of the contents in use, of which `RequestTests`
computes one with `Md5`. `std::equal` takes the length from the decoded field, so a
checksum that is too short makes it read on behind the vector's end: any
outcome is possible then (`Agree`).

### Uri, UriMeaning, Parsing

`Parse` is a function from buffer and uri object to buffer, uri object and result; a
`Cursor` is what the C++ functions pass by reference. Each character that
`parse_uri_word` copies is one round (`NextCharacter`) on the one buffer, so an overlap
has the effect it has in the code. `UriMeaning` says what the parts of a text are by
cutting it at positions. `Parsing` computes with numbers of `Bits` bits, which wrap:
signed overflow is undefined in C++, wraps with the flags of the build files, and the
test behind it stays (g++ 12, with and without optimisation).

### InternetSockets, SocketLayer

`SocketLayer` is the operating system, as external code: a descriptor table that hands
out the least free number, sockets with an inbox of `Capacity` bytes and a backlog, and
what each system call may answer. `InternetSockets` has the objects and the threads'
calls: `Start...` reads the flag, and the action without `Start` is what the call does
once the system lets it. `Interrupted` is EINTR. `StartClose` and `FinishClose` are the
two statements of `close` and `stop`. `InterruptConnect` leads to `poll`, after which
`HasConnected` asks the socket's error option. What the network decides is `Answer` and
`LoseBytes`. `send` passes no `MSG_NOSIGNAL`: on an ended connection the process is
killed, unless it ignores SIGPIPE (`SendNothing`).

One thread at a time uses an object, but any may close it, and objects are destroyed
when nobody is in a call on them; this is how the integration tests and the example
use them. Setting timeouts and socket options is left out.

### Timestamp

Each of the three formats is a sequence of steps (skip white space, take a number, expect
a character, check a range), in the order the C++ function takes them. The data behind
the end is a null character, on which all of them rely. Arguments that
`seconds_since_epoch` gets in fewer bits are narrowed (`ResultOf`).

### Base64, Md5, Characters

Base64's functions are folds over bytes and characters with the backlog the loops keep.
`Md5` has 32-bit words as pairs of halves, since TLC's integers are too small, and keeps
the code's way of turning the indices instead of the registers. Beside each stands a
definition from the standard: bits regrouped (RFC 4648), padding by division and
registers that move (RFC 1321). `Characters` has the tables as sets of codes, and
`is_valid_url_path` as a fold over the two flags of its loop.

### UnitTests, RequestTests, ContainerTests

The repository's own unit tests, with their inputs and expectations, as assumptions that
TLC evaluates: the models pass what the code passes. The requests of
`memory_allocating_request`'s tests are sent in the run `request`, whole and in chunks,
and `AnswersAsTested` compares all accessors. Tests that need more bits than TLC has
(overflow of 32 and 64 bits) are left out.

### DateCalculation

`seconds_since_epoch` with all its helpers as operators, in days (the product with
86400 leaves the integers TLC has, and adding the second of the day is no more
than that), and beside it a calendar that walks from day to day and counts. The
operators keep the source's names. `PureFunctions` parses each day's timestamp too, uses
the day's number as the size of a message to digest, and adds texts that grow by pieces,
for `uri` and `base64`; all are walks over inputs, not state of the
library.

## Runs

| Run | Instance | What it shows |
| --- | --- | --- |
| `demux_nested` | one thread that connects and destroys from within callbacks, one that only processes, two that only control; two handler objects, three ids of one resource, one of them with a wildcard that `connect` refuses; names registered and types unregistered meanwhile | the safety of the demultiplexer, that every step of it is a step of the registry, that nobody is left waiting for an unused handler unless another was woken in its place, and that of several destructors of disabled handlers some one finishes |
| `sockets` | two threads, a listener and two connections, three descriptors of which another part of the program may hold one, three sockets in all, messages of two bytes through an inbox of one | descriptors, flags, streams, failures and closing, see the sockets above |
| `mime_table` | words that begin with each other, in several spellings, and a counter of three bits | registration and unregistration, with the counter wrapping, and the tree below |
| `resource_map` | eight keys that ascend together, three at a time | lookups are right when no two keys are each less than the other, and every disconnect of a connected resource removes exactly one node. The unit tests of the containers are evaluated here |
| `error_handlers` | three handler objects, three codes | elements and objects belong together; implements the registry |
| `lexer` | every stream of up to six bytes, in chunks of up to three, content of up to two | see the lexer above; what a header with several blanks in a row becomes is left open, as [code and documentation part](#where-code-and-documentation-part) there |
| `request` | two request lines with up to two of sixteen fields, five that are spelled oddly or refused with up to one, with a content or without, both kinds of line end, whole or in chunks of sixteen; the requests of the unit tests | strings end, stay and say what was sent (but for a host that is in the request line and in a field Host, as [code and documentation part](#where-code-and-documentation-part)); a content is complete; the accessors answer as the tests expect. The unit tests of the pure functions are evaluated here, and the path check on every path of up to six of four characters |
| `pure_functions` | every day from 1970 to 2099, with a timestamp in one of the formats and, on the last days of months, each beginning of it; messages of up to 130 bytes; every text of up to four of twelve pieces, decoded to a place of its own, to one that overlaps, and to destinations of every size | validity and count of days, but for January and February of leap years; timestamps; parts of uris, overlap, no byte written behind the destination; base64 both ways; MD5's padding and blocks |
| `lost_wakeup`, `crossed_keys`, `custom_fields`, `date_leap_year` | | counterexamples, [below](#where-code-and-documentation-part) |

**Bounds, and why they suffice.** The demultiplexer's safety hazards involve at most a
thread that waits, one that uses and one that changes the map meanwhile, for the
same or another id of the same resource; a notification is lost among two
threads that hold a handler each and two more that wait for one of them each.
Four threads, two handler objects and two legal ids give all of that, and the proofs
hold for any number. A thread that both processes and controls adds callbacks that call the
library, while the two that only control may run destructors outside of any
callback. The table of types loses its registered value at any time; that of
subtypes, which goes through the same code, is only asked to give up a reserved one
(`RetiredTypes`, `RetiredSubtypes`). Requests
carry one accepted type (a wildcard) or two, so that both searches of `find`, and
the fall back to the second type, happen. The counter of MIME values has a few
values in place of 2^8 (`TypeLimit`, `SubtypeLimit`, `Limit`); nothing depends on
the width but when it wraps. Six bytes hold a complete header with a fold and
content behind it (`text cr lf blank ...` or `cr lf cr lf` and two bytes), chunks
of one to three bytes cut it at every place. Two fields are enough for one to repeat,
follow or replace the other (`MaxFields`), and tokens are as long as the real ones where
their length matters: the distance between source and destination of an uri is that of
the shortest method and of "host". Four pieces, some of them of several characters,
give an uri with a user, a host and a port, or with all of host, path, query and
fragment (`MaxPieces`); fourteen bits (`Bits`) let a number of four digits overflow
without becoming smaller. 130 bytes (`MaxSize`) reach the end of a block and
the place where the size no longer fits behind the message twice. Two threads on two
connections (`MaxSockets` three: a listener's and two ends) let one thread close what the
other uses, a number be used again and the table be full; an inbox of one byte and
messages of two (`Capacity`, `MessageSize`, `MaxBytes`) make every transfer partial;
nothing looks at more than the first of the connections that wait (`Backlog`). The bound of three nodes of
`ResourceMap` (`MaxNodes`) is the smallest at which the tree turns. The calendar
is checked whole. Walks over inputs end, and so does a request that failed, so
`pure_functions`, `date_leap_year` and the runs of requests do not check for deadlock;
nor does `sockets`, where every thread may wait for a network that does not answer.

**Fairness.** `Demultiplexer!FairSpec` assumes that a thread inside a call of the
library gets on (weak fairness of the steps of `connect` and `disconnect`, which
only wait for a mutex that nobody keeps), that callbacks return (strong fairness, since
a callback that makes calls itself can return only between them) and that holders
are destroyed. It assumes nothing of spurious wakeups, nor that anybody calls
anything. `SomeDestructorFinishes` needs it, since a destructor waits for callbacks
of other threads, and `lost_wakeup` shows that with it, too, a thread may wait for ever. `InternetSockets!FairSpec` assumes that a thread whose system call can
return does (weak fairness of `Step`), and nothing of the network, of signals or of the
program. `Lexer!FairSpec` assumes that the inner loop, which blocks
nowhere, gets on. Nothing is assumed of `receive`, which may block for ever or
fail.

Every action of every module is taken in some passing run. Each property is
broken by at least one mutant, a definition changed the way a slip in the code
would change it (`PROJECT.json` lists them; they stand in the modules before the
definition they replace and are marked "Mutant").

## Proofs

| Module | What is proved |
| --- | --- |
| `DemultiplexerProofs` | what each operation of the MIME map returns; `FindReturnsFirstAnswer`: `find` returns a type exactly if one may answer, one of them, and the first; the type invariant and the five safety invariants of the demultiplexer; `NotificationsReachWaiters`: a thread comes to wait for an unused handler only when another waiting one was woken; `Implementation`: it implements the registry |
| `ResourceMapProofs` | `OrderIffConsistent`: `operator<` is a strict total order on a set of keys exactly when no two of them are each less than the other; on such keys, lookups in the tree are right and the disconnect of a connected resource removes exactly one node |
| `MimeTableProofs` | names and values stay inverse, retired values stay retired; `NodesStayOwnedOnce`: `insert` and `erase` keep the prefix tree a tree, whose nodes are counted, lead to a value and are deleted once; `FindsTheLongestName`: `find` answers with the longest registered name, in any spelling, and its value |
| `ErrorHandlersProofs` | elements belong to objects; `Implementation`: the error handlers implement the registry |
| `UriProofs` | lemmas for the next two: what `parse` writes and where (`UriEnds`), and that two runs of it on the same text at different places do the same (`PlacesAlike`) |
| `RequestProofs` | of the lexer: types, assertions, that no byte is overwritten before it is read, and `NormalisationCorrect`: what header and content are when they are given out; of the request: `ContentCorrect`: a content that is given out is the whole one, with its checksum, through parser and lexer and any number of calls; `TerminationCorrect`, `StringsStayCorrect`: every string that is given out ends inside the header, and no later step changes it |
| `InternetSocketsProofs` | types, ownership of descriptors, flags, streams, and which calls fail |
| `PureFunctionsProofs` | `CalendarCorrect`: a date is accepted exactly when it exists; `DaysCounted`: the days counted are the days that passed, and one more in January and February of leap years; `DestinationKept`: `parse` writes nothing behind its destination; `PlaceDoesNotMatter`: nor does it matter to the parts whether source and destination overlap |

**Assumptions.** Each is named and stands in the module that declares the
constants. `LimitAssumption`: the enums have room for the reserved values and one
more. `ThreadAssumption`, `IdAssumption` and their kind: the null id and null
handler are none of the others, sets of threads and ids are what they say.
`KeyAssumption`: the ids in use are consistently ordered, so that `std::map` is a
map; without it the demultiplexer is wrong, see `crossed_keys`, and
`OrderIffConsistent` says that nothing weaker would do. The theorems about the tree
itself have it as their hypothesis, `ConsistentlyOrdered(Keys)`, since
`crossed_keys` runs the same module on keys that are not. `TrieAssumption`: there are finitely many characters, and the other
spelling of a letter is a letter of the other case; `SpellingAssumption`: capitals have small
letters, names and texts are made of these characters, and a name's word is its spelling in
small letters. `LexerAssumption`: bounds
are numbers; that `receive` appends at least one byte and no more than it was asked
for is in the model (`IsChunk`). `RequestAssumption`: the name of the field "host" has
at least four characters, as it has in the table of known fields
(`memory_allocating_request.cpp:93`); `set_host` counts on them when it passes
`value_length + 5` as the space for the uri. `SocketsAssumption`, `LayerAssumption`:
bounds are numbers, an inbox and a backlog have room for one, a message has a byte, listeners and
connections are different objects and null is neither. `ParsingAssumption`: a number has a
bit. `PiecesAssumption`: texts are made of characters that `Byte` knows.
`GapsAssumption`: an overlapping destination begins two bytes or more in front of the source,
as the request's do (the shortest method and a blank, "host" and a colon); for one byte
the theorem is [false](#where-code-and-documentation-part). TLC evaluates all of them in
the runs.

**Demultiplexer.** None of the safety invariants is inductive: that a usage counter
counts the holders needs to know that the holder's entry has not been replaced
by another one under the same id, which needs to know that the entry belongs to
the handler object, which needs to know that nobody else may erase it. `IInv`
ties together the three places that know of a handler: entries name objects that
are live or being destroyed and the other way round (`HandlesHaveEntries`,
`EntriesHaveHandles`), a thread inside `connect` or `disconnect` has its object to
itself (`OpsOwnHandles`), a holder names an object that still has its entry
(`HoldersHaveHandles`), and the entry's counter is the cardinality of the set of
its holders. The last is about a finite set of threads that gains or loses one.
The steps use the lemmas about `OrderedMimeMap`, in the module's first part, for what
happens in a map.

`NotificationsReachWaiters` is about single steps in which the invariant holds. A
thread that begins to wait has seen a counter that is not zero, which counts the
holders, so there is one (`WaitsForHolder`). A handler that is waited for loses its last holder
in `Release` only (`NothingGoesUnlessReleased`), whose `notify_one` finds somebody waiting and
wakes one (`ReleaseWakes`). Whom it wakes the code leaves open.

The refinement reads the registry's state off the handler objects, the resource map
and the holders. Every action is mapped to one of the registry's or to a stutter:
`Connect` to a registration, unless the id was taken, `EraseHandler` to one being taken
out, `Determine` to a grant, unless nothing answers, `Release` to giving it back. It
needs the invariant at two places: a handler that is taken out has no holder because its
counter is zero, and what `find` returns, which searches a map and a vector, is the
handler that was registered first among those that fit, because both hold the same types
(`FindReturnsFirstAnswer`).

**Search tree.** `IInv` says that the nodes ascend by `operator<`, that they are the
connected keys, and that the root is at a place a tree of that size can have it. On
keys that are consistently ordered there is then one place for each key; the descent
from the root compares enough to find it, whichever of the nodes is on top, so the
lower bound is that place, a hinted insertion happens there, and the range that is
erased is one node long or empty.

**Lexer.** That unread bytes are intact follows with `Phases`: the writing end
is never ahead of the reading end, a state that rewrites the last character has
one to rewrite, and between two chunks everything received has been scanned, so
the buffer and the delivered bytes have the same length. That the last does not
hold after the header was cut off is why the parser's index has to be known to
be zero as long as the header may still be cut.

What the header becomes needs to say of each state what it knows of the bytes that
were read (`Normalised`). The normal form is given without recursion: the bytes that are
kept (`Kept`), each at the place that the number of kept ones before it gives (`Place`).
As long as the end was not found (`Unfinished`) the written part of the buffer is
the normal form of the read bytes, except for what the state has still to decide
about the last one or two (`CopyKnows`, `PossibleCrLfKnows`, `PossibleLwsKnows`): a newline
that may turn out to be a fold, a carriage return that may belong to a newline.
When it was found (`EndFound`), no earlier prefix ended a header; then the
content is taken from behind it (`ContentTaken`), and grows by what arrives, never
beyond its length (`ContentFits`).

**Request.** The lexer's invariant holds until `fetch_header` has returned. `parse`
then writes null characters into the header, and what remains true of the lexer is what it
says of the content (`ContentSoFar`). `RequestInv` adds who may ask for how much:
only `fetch_content` sets the length, to the header field's value, so a content that
has reached its length is as long as the field says, and a `content_` that is
set refers to a finished content, which a further call cannot let grow. The
header's fields and texts may be anything; nothing is used of `Digest` and of the
decoding but that they are functions.

That strings end and stay is `StringsInv`: as long as the uri was not read, nothing
points into the header, and afterwards every pointer is followed by a null character
in front of the parser's cursor (`StringsEnd`). A step writes behind the cursor and
moves it on, so it neither cuts a string off nor changes one. Two writes need an
argument of their own. The request line's uri is copied to the begin of the buffer,
in front of its source, but nothing points there yet. The host's uri is copied to the
begin of its own field, and ends in front of the cursor's next place, since "host" and
the colon leave the five characters that `set_host` counts on.

How far an uri can grow is the other half. A round of `parse_uri_word`
(`NextCharacter`) never writes more than it reads (`WordCopied`), and the word's null
character takes one of what the destination is longer than the source (`WordEnds`).
These are three in the beginning (`maximum_uri_enlargement`); a colon, question mark or hash
that is skipped gives one back, and an authority that is read on takes back the null character
of its first part, so three are enough (`FirstPassEnds`). `parse_authority` adds null
characters only in place of others. `UriEnds` sums it up: whatever the text, and
whether it is accepted or not, each part that is stored ends inside the destination,
and nothing in front of it is changed. The rounds of a word are numbered, so that
a statement about each of them follows from there being no least round it is false for
(`Least` in `UriProofs`), which needs no theorem that takes an operator.

That `parse` keeps to its destination (`DestinationKept`) follows from the same lemmas, which
also say that nothing at the destination's end and behind it changes (`SameBehind`): in a
round there is more space left than was read, and the null characters count as above. It
holds for every size of the destination, since `parse` refuses one that is too small before it
writes.

That source and destination may overlap (`PlaceDoesNotMatter`) compares two runs, one with the
source behind the whole destination and one with a gap of two bytes or more. The invariant
of a run is that its cursor reads what the text was (`Reads`): at least k
characters, written or not, are between the places it writes and reads, and behind the
latter the buffer is untouched. That of the two is that they have the same to read and have
written the same (`Paired`), hence take the same branch in each step. It begins with a k of
two. The null character behind a word takes one, and a mark that is skipped gives one back
(`ConsumePaired`); the path's slash is not skipped, so one has to be left in front of it
(`SchemeAndAuthorityPaired`), which is where a gap of one fails. The second pass looks
only at what was written (`Matched`), and so does whoever reads the parts (`StringsAlike`).

**Calendar.** The walk's invariant is that its day is one of the calendar (`DateInv`), which
needs `LeapYears`: up to 2099 the only century is 2000, a leap year, so the
source's rule of four years is the Gregorian one (`CalendarCorrect`). Counting adds
that `days_since_epoch` gives the steps taken and `DaysTooEarly` more (`CountInv`): one in
January and February of leap years, zero otherwise. A step adds one to the count, but two where
a leap year begins and none behind its February 29; the cases are the middle of a month, its
end and the end of the year. So `DaysCounted` also says how far [the leap year's
error](#where-code-and-documentation-part) goes.

**Sockets.** The invariant has four layers. The system's (`LayerOK`): descriptors refer to
sockets, each socket has one of them at most (`FilesOK`), the two ends of a connection
name each other (`PeersOK`), a backlog holds connected sockets without a descriptor, each
once (`BacklogsOK`). The objects' (`ObjectsOK`): an object has a descriptor of its own,
which is open, and an open descriptor without object was left behind. The calls'
(`OpsOK`): a thread inside a call works on an object that exists, and shares it
only with threads that close it; one that sends or receives has a socket that once was
connected, which nothing undoes. So a call never meets the socket of another object
that was given its number. Last the bytes (`StreamsOK`): those received, those in the inbox and those
the sender has still to send follow each other without a gap up to what was handed to
`send`, and something is missing in front of the last only when an end is closed.

**MIME table.** `TablesAgree` needs in addition that the counter is above every
value handed out, or has wrapped.

**Prefix tree.** `TreeOK` says of a heap of nodes that counters count (`IsHeap`), that a child
has one parent, which reaches it by one letter in either spelling, and the root has none
(`IsTree`), and that a node without value has children. In the middle of an operation the last
is not true of one node, the one the operation has come to: `insert` just made it
(`GrowKeeps`), or `erase` just took its value or its last child (`ShrinkKeeps`). So
`TreeOK` has that node as a parameter, and is the root's between operations. `erase` has to
know besides that the rest of its way up is not touched by what it deletes (`PathStays`), since a
node that has no children is none of the nodes above. A node's destructor then
deletes the child by the one spelling that `Deletes` leaves (`DeletedOnce`). The recursion
follows the token, and is a recursive function of the number of characters; that it
exists, and what holds of each round, is again shown by the least number.

That the tree holds what is registered is said of two trees at a time: `SameToken` says that a
token has a value in both or in neither, and the same one. Inserting only adds nodes without
values (`Grows`) and sets one value, erasing takes one value and removes nodes that lead to none
(`SameHolding`), so all tokens are the same but those that lead to the one node. These are its
spellings: tokens of one word lead to one node (`SpellingsLeadAlike`), and two ways that end in
one node are ways of one word (`WaysPart`), because a node has one parent and one letter. Hence
`Speaks`, the part of the invariant that ties the tree to `table.trie`; `BareRoot` says that the
empty token is never inserted. `FindsLongest` goes through the answers of `find` from the last
character back to the first.

**Only model-checked.** Liveness under fairness, which TLAPS does not do:
`SomeDestructorFinishes`, `EveryChunkIsScanned`, `CloseStopsCalls`. What
is computed by going over data: parsing of requests to what they say (`ParsedAsSent`), the
parts of uris (`PartsAreFound`), timestamps (`DatesAreRead`, `CutDatesAreRefused`), base64
(`CodedAsInRfc4648`), MD5 (`MessagesAreDigested`). They are folds, or are compared with one,
and a proof would be an induction whose theorem takes the statement as an operator, which no
installed prover can instantiate; the folds of the community modules take an operator too. A
least counterexample stands in for that theorem where this project proves something of a
loop, with a statement of its own for each; of these functions that would be one for every
branch, and for every branch of the definition they are compared with. The unit tests
(`AnswersAsTested` and what is evaluated in assumptions). The
tree of resources is proved for up to three nodes, as far as it is modelled.

## Where code and documentation part

With a run that shows it:

* **`lost_wakeup`.** All destructors wait in one condition variable, and a holder's
  destructor wakes one of them (`demultiplexer.cpp:231`). When it wakes one whose
  handler is still in use, that one waits again and the one that could go on
  sleeps. This is not a matter of new requests: let p1 hold h1 and p2 hold h2, both
  disabled, while c1 destroys h1 and c2 destroys h2. p1's release wakes c2, which waits
  again; p2's release wakes c1, which finishes; c2 is left alone, waiting for
  a handler nobody holds, and nobody notifies it any more. What remains true is that the notification
  was not lost on nobody (`OnlyAnotherIsWoken`), and that of the destructors that wait at
  once some one finishes (`SomeDestructorFinishes`). `notify_all`, or a condition
  variable for each handler, would do.
* **`crossed_keys`.** Three resources whose paths ascend while their methods
  descend: connecting the third turns the tree, and one of them is no longer
  found (`demultiplexer.cpp:237`).
* **`custom_fields`.** A header field is taken for a known one when its name begins
  with a known name (`memory_allocating_request.cpp:431`): Accept-Language for Accept,
  for example.
* **`date_leap_year`.** In leap years the leap day counts from 1 January on
  (`date_calculation.cpp:62`).

Seen while modelling, too plain for a run of their own:

* A handler that is disabled between `determine_request_handler` and the call is
  called (`demux.hpp:233` says "It will not be called afterwards").
* The chunk that completes the header may hold more than the content;
  `fetch_content` asserts that it does not (`lexer.cpp:87`), and fails without the
  assertion although the content is there.
* `parse_unsigned_integer` does not notice every overflow (`parsing.hpp:106`):
  9999999999 is 1410065407 in 32 bits, which is more than 999999999. Ports are refused
  all the same.
* `uri.hpp` says that destination and source may overlap as long as the destination
  begins first. At a distance of one byte, the query of "host/path?query" is lost: the
  null characters behind host and path are one more than was skipped. From two bytes on
  it is true (`BuffersMayOverlap`, proved), and the library always has four or more.
* `fetch_content` of a request returns true when the connection failed, and computes the
  checksum of `content_length` bytes at NULL when the request has one
  (`memory_allocating_request.cpp:185`). A Content-MD5 that is longer than a digest is
  accepted when it begins with it, and one that is shorter is compared with what lies
  behind it.
* The host of the request line is returned before that of the field Host
  (`memory_allocating_request.cpp:216`), while `request.hpp:799` says the field
  overwrites it. `ParsedAsSent` says nothing of the host when both are there. `header_value` returns NULL for a field that is not there, which
  `request.hpp:814` excludes. The field Expect is not in the trie of known ones
  (`memory_allocating_request.cpp:85`), so `expect` is never set; `accept` and `query`
  return nothing whatever was sent. The unit tests named `parsing_..._failed` all fail
  for the same reason, that no header ends in what they send.
* A request line may end without a version, which is then unknown, and an uri runs on to
  the next blank, over line ends.
* A destructor does not disable its handler, so as long as requests for it
  keep coming, its usage counter need never be seen at zero
  (`demultiplexer.cpp:119`). Disabling it first keeps new requests away, and then
  the destructor finishes unless another one that waits at the same time takes its notification
  (see `lost_wakeup`).
* Two callbacks, each of which destroys the other's handler object, wait for each
  other (`demultiplexer.cpp:121`).
* A MIME type may be unregistered while handlers use it, although `demux.hpp:336`
  says it cannot; so may `*`, whose name can then be registered as an ordinary
  one (`mime_data.hpp:81`).
* A refused `connect` with a wildcard leaves an empty resource behind
  (`demultiplexer.cpp:88`), although a resource should exist with its first
  handler (`demux.hpp:110`).
* The lexer replaces a newline and the first blank behind it by a space; further
  blanks stay, and so do blanks and tabs within a line, although the class promises to
  replace white space of any length by one space (`lexer.hpp:30`). `HeaderIsNormalised`
  leaves headers with several blanks in a row out, and does not tell a tab from a space.
* A header whose last line end is a single carriage return is recognised with the
  next byte only (`lexer.cpp:261`).

* `send` raises SIGPIPE on a connection the other side closed
  (`internet_socket_connection.cpp:122`, flags 0), while `communication.hpp` promises
  that it returns false.
* `close` takes effect on a call that is in the system, and not on one that has read the
  flag and not entered it yet: a `connect` may succeed behind a `close`, and so may one
  that is called after a `close` of a connection that was never connected.
* A failed `listen` or `create` leaves its descriptor open
  (`internet_socket_listener.cpp:63`); after a failed bind, listen(2) even opens another
  port on it. `accept` returns null on a full descriptor table as on a stopped listener.
* `close_signal_safe` closes again after EINTR (`utility.cpp:35`); where a system has
  released the number already, that closes another thread's descriptor. Linux does not
  interrupt `close` of such a socket, so the model does not either.
* Years behind a date of RFC 850 are always 19xx, and a day is narrowed to eight bits
  before it is checked, so the 257th is the first (`timestamp.cpp:275`). Behind a hyphen
  the count of what remains is decremented without a test (`timestamp.cpp:250`); only the
  null character behind the date ends the parsing.
* `[` and `]` are accepted in paths, and so is the empty path (`common.cpp:26`).

## Plan

What is still worth proving, in this order.

1. **Uri.** `PartsAreFound`, from the rounds of `parse_uri_word` that `UriProofs` numbers:
   what a word decodes to, and where `Meaning` ends it. TLC checks it on texts of four pieces.
2. **Timestamps.** `DatesAreRead`, with the steps of `parse_timestamp` and
   `parse_unsigned_integer` as recursive functions in place of folds. The count of days
   it rests on is proved (`DaysCounted`), and TLC reads every day there is, so the proof would
   add the times of the day.

## Not modelled

* `accept_parser` and `memory_allocating_response`, which have no bodies, and
  `handle_one_request`, which returns false.
* Copies of a prefix tree: no code of the library copies one. (Its assignment would
  forget the tree it had.)
* Exceptions that allocations throw. `connect` would leave an entry without a handler
  object.
* Timeouts and options of sockets, which are handed to the system.
* The public headers, whose documentation the properties quote, and the examples. (The
  performance example gives `uri::parse` a destination of one byte more than the source,
  where three are asked for.)
