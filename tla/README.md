# Formal models of c99-server

TLA+ modules, TLC configurations and TLAPS proofs for the C99 server library in
`src/` (paths below are relative to the directory that holds `src/` and `tla/`).
The program is one translation unit: `src/src/unity.h` includes the files of
`src/src/common/`, `src/src/main.c` is the program. Everything runs on
one thread except what `Thread.c` starts.

    cd tla
    tlasany Sock.tla                               # parse
    tlc -workers 2 -config MCSock.cfg MCSock       # model-check
    tlapm SockProofs.tla                           # check the proofs

`PROJECT.json` lists components, runs, mutants, the map from definitions to source
lines, findings, hazards and theorems.

## 1. Inventory

| Component | State | Operations | Status |
|---|---|---|---|
| Sock (Linux) `common/Sock.c` | a `Socket` struct per socket: `state`, `sessionState`, `_nix_socket`; the callbacks in `_G` | `init listen accept connect read write close async` | modelled |
| Sock (Windows, Emscripten) | the same struct, other branches | the same | not modelled: other platforms |
| ByteBuffer `common/ByteBuffer.c` | `buf`, `end`, `read`, `write` | `SZ_alloc defrag readable writable seek read copy write equal ...` | modelled |
| Arena `common/Arena.c` | `buf`, `pos`, `end` | `alloc push zero reset free` | modelled |
| Log, assertions `common/Log.c`, `unity.h` | `_G->trap...` | `ASSERT*`, `Console__abort` | modelled, in Arena |
| List `common/List.c` | `head`, `tail`, `len`; `List__Node.next`; iterator | `append pop shift remove_item insort merge reset`, `each` loops | modelled |
| Json `common/Json.c` | `cur`, `token`, `token_start`, `token_value` over a `Str8` | lexer, `Json__next_token`, typed reads, arrays, objects | modelled |
| Ring `common/Ring.c` | `head`, `tail`; the items are in the application's array | `clear empty full push pop at` | modelled |
| Thread `common/Thread.c` | thread handles, mutexes | `create join destroy`, `Mutex_create lock unlock destroy` | modelled |
| Profiler `common/Profiler.c` | trace table, 64-bit sums | `reset beginTrace endTrace printf` | modelled |
| String `common/String.c` | `Str8`: pointer, 16-bit length, slice or whole, lifetime; an arena | `init cat basename fileext filename dirname cstr cmp icmp scan`, `cstr_arena1`, `cstr__format`, `hexdump` | modelled but for number conversions and `format_bytes` |
| Time `common/Time.c` | `static u64 start_ns` in `Time__now` | `perf_now now`; conversions and wrappers | modelled |
| Timer `common/Timer.c` | - | - | not modelled: nothing includes it, its types are not defined |
| File `common/File.c` | none | wrappers of stdio | not modelled: pure I/O |
| Breakpoint `common/Breakpoint.c` | none | looks at `/proc` | not modelled: pure I/O |
| main `main.c` | two arenas | prints the time for ever | not modelled beyond its arenas |

How they interact:

- An application owns `Socket` structs and calls `Sock__*` in the order the
  table at the top of `Sock.c` gives. `Sock__*` calls back through `_G`
  (`onsockalloc`, `onsockaccept`, `onsockconnect`, `onsocksend`, `onsockrecv`),
  always as its last step, and the kernel through `socket`, `accept`, `read`, `send`,
  `close`... The kernel's descriptor table is the state all sockets share.
- `ByteBuffer`, `List` and `String` take memory from an `Arena`; there is no
  free, only `Arena__reset`. `Json` compares text with `String` functions,
  `SZ_print` formats with `hexdump`, `Profiler` reads the clock of `Time`.
- Threads share the process-wide statics: `_G->arena`, `profiler`, and the
  `start_ns` of `Time__now`. None of the functions locks anything.
- Every component asserts with the macros of `unity.h`. With `DEBUG_SLOW` (the
  Dockerfile's build) a failed assertion aborts, or sets a trap when a test asked
  for one; without it the macros **expand to nothing, the expression included**.

Hard behaviours: descriptor numbers are reused at once, so a stale number acts on a
stranger's connection; `accept`, `connect`, `init` and `listen` each fail halfway;
remote FIN and RST arrive between any two calls; `DEBUG_SLOW` changes what the
program does; buffers are moved under pointers that were handed out; arenas are
reset under blocks that were handed out; unsigned differences have no sign.
`PROJECT.json`'s `hazards` has each at its line with the properties that cover it.

What makes each component correct:

- **Sock**: one struct per open descriptor and one descriptor per open struct, but for the
  one leak of `Sock__accept`; stdio is never touched; what was announced exists; no call blocks; a connection is
  closed only for a cause; an ended one is closed in the end; a backlog drains.
- **ByteBuffer**: `read <= write <= end`; a slice that was handed out keeps its
  bytes until it is released; the buffer is a bounded queue of bytes.
- **Arena**: blocks in use are disjoint and inside the arena; memory that was zeroed
  and never handed out is zero; no push goes past the end unnoticed.
- **List**: `head`, `tail`, `len` and `next` agree; a list is a sequence; a
  loop visits it once in order.
- **Json**: the cursor stays in the text; the calls read the document's tokens
  one after another. (That a symbol and a key match only themselves is promised and
  does not hold: see Findings.)
- **Ring**: a bounded queue of one item less than the array has slots.
- **Thread**: a mutex makes what runs under it one step; behind a join everything
  that was started has ended; `main` comes to an end.
- **Time, Profiler**: no thread is told of more time than has passed, nor of less than
  before, except by a call that an overlapping first call or a failed reading touched; a
  trace holds the time its calls took.
- **String**: a view stays in its buffer and does not outlive it; a C string that
  was handed out stays what it was; the parts of a path make the path again; a
  scan takes the longest match of each item.

## 2. Modules

An abstract specification says what a correct program would do. Where this program does
something else, the refinement property names that step beside the abstract ones
(`AcceptGivesUp`, `CopyLoses`, `InsortPassesHead`, `KeyPassesPrefix`, `SymbolPasses`), so
that the property shows the defect is there and that nothing else is wrong, and a
corrected program satisfies it too. In the invariants of the clock, the traces and the
descriptors the exceptions are the answers (`worth`), the ids (`spoilt`) and the descriptors
(`GivenUp`) a defect touched. That each exception contradicts a comment is a property of its own, violated under
a configuration of its own (section 4).

| Module | What it is |
|---|---|
| `Sock` | the socket layer, the descriptor table behind it, the remote ends |
| `DescriptorTable` | abstract: descriptors with one user each; `Sock` implements it |
| `SockProofs` | proofs about `Sock` |
| `ByteBuffer` | one or more buffers with their cursors and the slices in use |
| `ByteQueue` | abstract: bounded byte queues; `ByteBuffer` implements it |
| `ByteBufferProofs` | proofs about `ByteBuffer` |
| `Arena`, `ArenaProofs` | arenas, assertions and traps; the proofs |
| `List` | nodes, lists and a loop's iterator |
| `ListSequence` | abstract: lists are sequences; `List` implements it |
| `Json` | lexer and parser over documents |
| `TokenReader` | abstract: a reader of the document's tokens; `Json` implements it |
| `Ring` | indices, and the array the application keeps the items in |
| `BoundedQueue` | abstract: a bounded queue and the item to be pushed next; `Ring` implements it |
| `Thread` | `main`, a pool of workers, the mutex and the arena they share |
| `Time` | the clock and the accesses of each thread to `start_ns` |
| `Profiler` | traces over `Time` (it EXTENDS `Time` and adds its actions) |
| `RingProofs`, `ThreadProofs`, `ProfilerProofs` | proofs about `Ring`, `Thread`, `Profiler` with `Time` |
| `ListProofs`, `TextProofs` | proofs about `List`; about `String` with `Scan` and, in a part of its own, about `Json` |
| `Scan` | `Str8__scan` as a function, and what it should find |
| `String` | views, copies and C strings in memory; uses `Scan` |
| `MCSock`, `MCByteBuffer`, `MCList`, `MCJson`, `MCString` | symmetry sets and the inputs for TLC |

### Sock

Per struct: `state`, `session` (`sessionState`), `fd` (`_nix_socket`). `phase` is what
the application knows: `free`, `inited` after `Sock__init`, `active` once announced,
`half` for a struct taken from `onsockalloc` and never announced. `Refers` is a struct
whose `fd` `Sock__close` would act on; `Holds` is one somebody can still call it with, which
nobody can for a `half` one. `kern` is the
descriptor table: for every number an object with its state, the bytes in
its two buffers, `O_NONBLOCK` and, for a listener, its backlog. `proc` says whether the
process runs, waits in the kernel, or ended by abort or SIGPIPE.

One action per function, with its early returns and nested `Sock__close`. An early
return on a CLOSED struct changes nothing, so the guard `Calls` leaves it out. The remote
end's actions (`Dial`, `PeerSends`, `PeerFin`, `PeerReset`, `ConnectEnds`, ...) and
the answers of system calls are modelled from how `Sock.c` uses them and are marked
`external` in the map. Callbacks run last, so what an application does
inside one is a later action.

Abstracted: addresses and ports (an address is valid or not); contents of the bytes,
counted only; each of `socket`, `bind`, `listen`, `connect` and `accept` may fail at any
time, whatever the errno (ENFILE, ENOBUFS, ECONNABORTED...). After any failure of `accept()`
but EAGAIN the listener is closed, as in `Sock.c:289-296` (`AcceptFails`). Assertions of
`Sock.c` end the process here: a test's trap is modelled in `Arena`.

`Sock__setup`, `Sock__shutdown`, `Sock__free` and `Sock__destroy` change nothing in
the Linux build.

### ByteBuffer and ByteQueue

A buffer is its bytes (zero at first), `end`, `read`, `write`. The pointer `SZ_read`
hands out is a *slice*: where it starts, and a copy of what was there. `defrag`
drops the slices, as the code's callers must; everything else must leave them alone.
`SZ_defrag`'s `memcpy` has overlapping ranges; on the platform's `memcpy` (musl,
ascending) the result is the moved text, which is what is modelled. `SZ_wrap`,
`SZ_read_unsafe` and `SZ_write_unsafe` check nothing and take any argument in the model too;
what would leave the block ends in `Overrun`, behind which C says nothing. `CallerChecks` is
TRUE when callers check what those three do not; with FALSE one `SZ_read_unsafe` violates
`CursorsInOrder`. `SZ_copy`'s own test of the room is unsigned and always true, and no caller
is assumed to make up for it: a copy that does not fit answers that it was made and loses
the bytes (`CopyLoses`). Differences are `% W32`.
`ByteQueue` knows only the bytes in order, each queue's room, and the answer
to the last call.

### Arena

`arena` has `end`, `pos` and the contents as zero or not; `blocks` are the ranges handed
out since the last reset. A push past the end is an assertion: with `DEBUG_SLOW` it
aborts the process unless a test's trap is set, which lets the push go on.

### List and ListSequence

Nodes are numbers taken from the arena in order, `next` maps a node to the next or to
NULL (0). Reads through NULL end the process (`CallerChecks` FALSE lets an application
make them). `ListIt__each` is one action per round with the iterator's fields. The
abstraction of a list is the sequence of its items; `ListSequence` states every
call on sequences, `Insort` as the sorted insertion that `List.c:152` names. `List__insort`
never inserts in front of the head; `InsortPassesHead` is that step.

### Json and TokenReader

A document is a sequence of lexemes of which the parser sees only the characters. The parser
is `cur`, `token`, `start` and `str` (`token_value.str`), and each call is one action that
runs the lexer as often as the code does. A number is its
characters, and `strtod` takes the longest numeral of C where it begins: decimal or
hexadecimal, with a sign, a point, an exponent, an infinity, a NaN (`IsNumeral`). Messages are
left out. `TokenReader` cuts the document into tokens once, by
a definition that knows nothing of cursors, and reads them; a key is what it is asked for
only if they are equal. Two steps of `Json` are not its: `KeyPassesPrefix` and
`SymbolPasses`, a word that is a symbol but for its last character, taken for it. The definitions of `Json` have
names that `String` and `Scan` do not use (`JsonInit`, `DocText`), so that `TextProofs` can
extend both.

### Ring and BoundedQueue

`Ring.c` knows only two `u16` indices; the array and its length `cap` are the
application's, which passes the same `cap` to every call and stores an item at `head`
*before* it asks `Ring__push` whether there was room. `Store` is that step, so the model
shows what the slot that always stays empty is for: the item to be pushed next lies
there. `BoundedQueue` has room for `cap - 1` items. (The comment at `Ring.c:17`, "true if
every slot is occupied", is about the slots a queue can use.)

### Thread

The program of `src/test/unit/common/Thread.c`: `main` creates workers in a loop that is
bounded by `numThreads` and by `MAX_THREADS`, joins them and returns. Two things are
added, marked `external`: the work of an item, which the test only sleeps for, is an
`Arena__push` of one byte on the shared arena, taken apart into its check, its read of
`pos`, and the load and the store of `a->pos += sz`; and a mutex that `main` makes first,
every worker holds around its push, and `main` destroys when it has joined them
(`Thread__destroy` does nothing on Linux).
`pthread_mutex_init` and `pthread_create` may fail; what C or POSIX leaves undefined (a
mutex that is none, a join of an uninitialised handle) is `proc = "undefined"`.
`TrueMeansMade` says how `main` reads the answer of `Thread__Mutex_create`.

### Time and Profiler

`Time__now` is four steps of its thread: the test of `start_ns`, a reading, the store, the
subtraction; the clock may tick before each. All arithmetic is `% W64`, and `Boot` is
what the monotonic clock shows when the process starts (never 0). Any number of threads may
be in their first call at once, and with `ClockWorks` FALSE any reading may fail, which
answers 0. Both spoil answers (findings), so two history variables say which: `hit`, who is
in a call in which a reading failed or under which another one set or lost `start_ns`, and
`worth`, what each thread's last answer is worth. No step's guard reads them. `Profiler` adds one
step per `PROFILE__BEGIN` and `PROFILE__END`, each of which touches only its own trace,
and counts beside it what the trace ought to say: `since`, `spent`, `calls`, and `spoilt`,
the ids that had a failed reading or a call inside a call of their own.

### String and Scan

Memory is one character per address: the text in static memory, the arena, and one byte
behind it. A `Str8` is an address, a length `% U16`, `slice` and `life`; `mut` is not
modelled, nothing reads it. The four path functions give `[begin, end)` and share what
follows (`Sliced`); their loops run from `len` down to 1, so they look at the
character behind a view and never at its first. `buffers` and `given` are what the
program may rely on: the blocks in use, and the C strings it was handed. `Reset` ends
the use of what says it lives in the arena, so a view with a wrong `life` dangles.

The functions trust their callers; `Careless` names what a caller does not look after,
and is empty in the regular run: `separator` (a path function on a slice that a '.' or
'/' follows), `sum` (more than 65535 characters in one `Str8__cat`), `fresh` (arguments of
`Str8__scan` are `(Str8){0}`), `deferred` (lengths are worked out before `Str8__cmp`),
`maxlen` and `edge` (`cstr__vformat`'s text fits `maxlen`, and the arena has a byte behind
the block), `zero` (an arena that is reset is zeroed). Put one of the names into
`MCString.cfg` and TLC shows what it does, listed under findings.

`Scan` is `Str8__scan` as a fold over the format's items, each of which moves the cursor as
the code's loops do; `ScanIsRight` compares it with a definition by words and longest
pieces that has no cursor. What a scan reads of one argument becomes a `Str8` in
`String`, and is scanned and taken apart again there. One thing never happens in
`String`, because no function gives such a slice out (`Parted` in `TextProofs`): on a slice
that ends in spaces and is followed by `-`, `%d` takes that character too (`String.c:277`).

`hexdump` is its cursor only: `p += snprintf(p, end - p, ...)` runs past `end`, because
`snprintf` answers what it would have written. For the 4096 bytes of `SZ_print`
it comes back in time if the C library refuses sizes above INT_MAX with EOVERFLOW, as
POSIX.1-2008 says (`EOVERFLOW = TRUE`); with FALSE `ViewsHold` is violated from 849
bytes on.

## 3. Runs

| Run | Expect | What it shows | Bounds |
|---|---|---|---|
| `sock` | pass | `OneOwner`, `OnlyAcceptLeaks`, `StdioUntouched`, `AnnouncedIsBacked`, `NeverBlocks`, `ClosedForCause`, and `Sock` implements `DescriptorTable` but for `AcceptGivesUp` | listener, client, three pool structs, three descriptors beyond stdio |
| `sock_poll` | pass | under `PollSpec`: `EndIsNoticed`, `BacklogDrains` | two descriptors, backlog 2, two unread bytes |
| `sock_release` | pass | without `DEBUG_SLOW` no announced socket is ever left open (`ReleaseIsSilent`) | two clients, a listener |
| `sock_partial_send` | violation | finding | two descriptors |
| `buffer` | pass | cursors, slices, refinement of `ByteQueue` but for `CopyLoses` | two buffers of up to 2 bytes, two letters |
| `arena` | pass | blocks, zeroes, checked pushes | 3 bytes, requests up to 2 |
| `list` | pass | `WellFormed`, `LoopSeesContents`, refinement of `ListSequence` but for `InsortPassesHead` | three lists, 3 nodes, 2 items |
| `json` | pass | `StaysInText`, refinement of `TokenReader` but for `KeyPassesPrefix` and `SymbolPasses` | the documents of `MCDocs`, two names |
| `ring` | pass | `TypeOK`, refinement of `BoundedQueue` | arrays of 1 to 5 slots, two items |
| `thread` | pass | `BlocksDisjoint`, `JoinedMeansDone`, `NeverUndefined`, `MainEnds` | an array of 3 threads, up to 4 asked for, 2 items each, arenas of 0 to 6 bytes |
| `profiler` | pass | `NowWithinUptime`, `NowNeverGoesBack`, `TracesAreTrue` | two threads, two ids, readings 1 to 4, `W64` = 5, calls nested once, three calls per id, any reading may fail |
| `string` | pass | `ViewsHold`, `CstrsHold`, `TextLaws`, `ScanMatches` | two strings, eight texts, eight formats, 5 bytes of arena |

Why the bounds are enough. *Sock*: with one descriptor fewer than there are structs the
table fills while something is still waiting, and with three beyond stdio a listener, its
accepted connection and a client coexist and exchange numbers; one byte of
buffer makes each of empty, full and unread happen. *Poll*: a backlog of two has a
head that was reset in front of a good one. *ByteBuffer*: with
two bytes each cursor can be at the start, in the middle and at the end, a slice can lie
in front of the unread bytes or be moved over, and a copy can fit exactly or not; larger
buffers are the theorems' part. *Arena*: a block of two in three bytes leaves room for
one, none, or an excess. *List*: three nodes allow a removal and an insertion in front, in
the middle and behind, and three lists a merge of two different ones; a node is never
reused, so three is also the number of insertions in a behaviour. The same run with one
list over four nodes passes too, and takes eight times the states.
*Json*: two-word documents exhaust the pairs of token kinds, those of three reach
every separator with a value behind it; among the words are numbers of every form,
`tru1` and `nul1`; one of the names asked for is longer than a key and begins with it.

*Ring*: with five slots head and tail pass each other at every index, one slot is a
queue without room, and two items tell any order of four from any other. *Thread*: three workers are one that holds the mutex, one that
waits and one that starts late; an array shorter than what is asked for and an arena
shorter than the work reach both bounds. *Profiler*: the clock goes all the way to
`W64 - 1`, so negated readings wrap; calls of two ids, or two of one, can overlap and be
reset; both threads can be in their first call. The states with both traces and
`Time__now` in use are left out (`CONSTRAINT Apart`): they share the clock alone, which
neither changes. *String*: the texts have a separator at the start, in the middle,
twice and at the end; a scan's view is followed by every kind of character;
the arena holds two copies, or one and a byte. In `ScanMatches` a string is looked at
while the other is unused: it can be forgotten first (`Str8__stack`), so nothing is
missed.

Every bound that caps a counter is in a guard or in a CONSTANT: `MaxFd`, `RcvBuf`, `SndBuf`,
`MaxLen`, `Backlog` (Sock), `MaxSize` (ByteBuffer, Arena, Thread), `MaxReq`, `MaxPos` (Arena: a
released build's cursor would run on for ever), `MaxItem`, `MaxNodes` (List), `MaxClock`,
`MaxCalls`, `MaxDepth` (Profiler), `MaxCap` (Ring), `MaxLen`, `NumItems` (Thread), `Room`
(String). Widths are CONSTANTS: `W32` (ByteBuffer, Profiler), `W64` (Time), `U16` (String). The
one constraint is `Apart`.

Symmetry is used for the pool structs (`MCSock.cfg`), the buffers, the lists and the strings: sets of
model values that no definition tells apart. `MCSockPoll` checks liveness and uses none.

`CHECK_DEADLOCK FALSE` stands where the process may really stop: SIGPIPE or an assertion
(Sock, Arena), a read through NULL (`list`), the end of the process (`thread`) or of the
clock (`profiler`). The others check deadlock.

Fairness. In Sock only `PollSpec` assumes any: weak fairness of `Sock__read` and of `Sock__accept` for
each struct. The library has no loop of its own; its functions are non-blocking and are
meant to be called from the application's loop, and a loop that calls them for every
socket it was told of is exactly that. Nothing is assumed of peers, of `Sock__close` or of
writes. `Thread`'s specification has weak fairness of `main` and of each worker: the system's
scheduler runs every thread that can run. Nothing is assumed about who gets a mutex that
several wait for; each worker has a bounded number of items, so all of them get it.

## 4. Findings

Places where the code does something other than what its comments, its documents or its
other parts say. `sock_partial_send` is a run that ends in a violation: `Sock.c:580` reports a
short `send` as complete, where `Sock.c:17` says "Write len bytes from buf to the socket".

The others have a property and a configuration of their own, each violated.
`PROJECT.json` does not list them as runs: its runs are one per question about what holds,
and each of these repeats one of them with one promise more. `tlc -config <cfg> <module>` shows the
counterexample (`<module>` is `MC...` where there is one, else the component's; `Profiler` for
the clock):

| Configuration | Property | Where | In short |
|---|---|---|---|
| `MCSockHalfAccept` | `AcceptIsWhole` | `Sock.c:305` | a descriptor left open in an unannounced struct |
| `MCByteBufferCopy` | `CopiedMeansCopied` | `ByteBuffer.c:134` | a copy without room answers 1 and loses the bytes |
| `MCListInsort` | `InsortKeepsOrder` | `List.c:169` | never inserts before the head |
| `MCJsonSymbol` | `SymbolsMatch` | `Json.c:159` | the last character of a symbol is not compared |
| `MCSockSigpipe` | `PeerCannotKill` | `Sock.c:530` | no MSG_NOSIGNAL: a write to a gone peer ends the process |
| `MCSockReleaseBuild` | `InitMakesSocket` | `Sock.c:187` | `socket()` is inside an assertion macro |
| `MCSockReuse` | `CloseCloses` | `Sock.c:59` | a struct initialised again without zeroing cannot be closed |
| `MCByteBufferEqual` | `EqualMeansContents` | `ByteBuffer.c:177` | compares bytes behind the write cursor |
| `MCArenaRelease` | `PushIsChecked` | `Arena.c:93` | the bounds check is gone without `DEBUG_SLOW` |
| `MCListNull` | `NullListEndsLoop` | `List.c:45` | a loop over a NULL list reads through it |
| `MCJsonKey` | `KeyMatches` | `Json.c:353` | a key matches its prefix |
| `MCThreadAnswer` | `NeverUndefined` | `Thread.c:28` | `Thread__Mutex_create` answers true when there is no mutex; its Windows branch and `Thread__create` answer the opposite |
| `MCTimeRace` | `EveryAnswerIsElapsed` | `Time.c:47` | two first calls set `start_ns` twice and one answer wraps |
| `MCTimeFails` | `EveryAnswerIsElapsed` | `Time.c:39` | the 0 of a failed reading is subtracted |
| `MCProfilerNested` | `EveryTraceIsTrue` | `Profiler.c:13` | a function that calls itself overwrites its own start |
| `MCStringFresh` | `ViewsHold` | `String.c:278` | `Str8__scan` counts on from the argument's `len`; the usage at `String.c:254` passes `Str8 s1;` |
| `MCStringCompare` | `TextLaws` | `String.c:135` | `Str8__cmp` of a literal without its length is never equal; `Str8__icmp` works it out |

With the other words in `Careless`: `separator`, `fileext` of a `basename` has length
65535 (`String.c:185`); `sum`, `Str8__cat` copies past its block (`String.c:107`); `maxlen`,
`cstr__vformat` reads past its buffer (`String.c:414`); `edge`, it writes a byte behind its
block (`String.c:417`); `zero`, `cstr_arena1` hands out a string without an end
(`String.c:391`).

## 5. Proofs

TLAPS checks the following for every value of the constants allowed by the named
assumptions of the modules (`SetsAssumption`, `BoundsAssumption`, ...).

| Theorem | Module | Further assumption | States |
|---|---|---|---|
| `TypeSafety` | `SockProofs` | - | `Spec => []TypeOK` |
| `ReleaseBuild` | `SockProofs` | - | `ReleaseIsSilent` |
| `Ownership` | `SockProofs` | `DEBUG_SLOW`, `ZeroedOnReuse` | `OneOwner`, `OnlyAcceptLeaks`, `StdioUntouched` |
| `Refinement` | `SockProofs` | same | `Spec => DescriptorsAreOwned` |
| `Service` | `SockProofs` | same | announced is backed; never blocks |
| `Causes` | `SockProofs` | same | `ClosedForCause` |
| `BufferSafety` | `ByteBufferProofs` | `CallerChecks` | types, cursors in order, slices stable |
| `BufferIsQueue` | `ByteBufferProofs` | `CallerChecks` | `Spec => IsByteQueue` |
| `ArenaSafety` | `ArenaProofs` | - | types, blocks disjoint, unused is zero |
| `PushChecked` | `ArenaProofs` | `DEBUG_SLOW` | `PushIsChecked` |
| `ListSafety` | `ListProofs` | - | types, `WellFormed`, `LoopSeesContents` |
| `ListIsSequence` | `ListProofs` | - | `Spec => IsSequence` |
| `StringSafety` | `TextProofs` | `Careful` | `ViewsHold`, `CstrsHold` |
| `StringLaws` | `TextProofs` | `Careful`, nothing `deferred` | `TextLaws` |
| `StringScans` | `TextProofs` | `Careful` | `ScanMatches` |
| `JsonSafety` | `TextProofs` | - | types, `StaysInText` |
| `JsonReadsTokens` | `TextProofs` | `AreReadable` | `JsonSpec => ReadsTokens` |
| `RingType`, `RingIsQueue` | `RingProofs` | - | indices in the array; `Spec => IsBoundedQueue` |
| `PoolSafety` | `ThreadProofs` | `DEBUG_SLOW`, `TrueMeansMade` FALSE | blocks disjoint, joins wait, nothing undefined |
| `Uptime`, `Forward` | `ProfilerProofs` | - | `NowWithinUptime`; `NowNeverGoesBack` |
| `Elapsed` | `ProfilerProofs` | one thread, `ClockWorks` | `EveryAnswerIsElapsed` |
| `Traces` | `ProfilerProofs` | - | `TracesAreTrue` |

The two assumptions on Sock exclude what `MCSockReleaseBuild` and `MCSockReuse` show, those
on Thread what `MCThreadAnswer` shows: without them the theorems are false. `CallerChecks`
is about the three functions of `ByteBuffer.c` that check nothing. The refinements have
the exceptions of section 2. `Elapsed` is false of two threads (`MCTimeRace`) and of a clock
that fails (`MCTimeFails`); `Uptime` and `Forward` say what holds of those too. `Careful` is
`Careless \subseteq {"deferred"}`, the 4096 bytes of `SZ_print` and the EOVERFLOW of POSIX;
`MCStringFresh`, `MCStringCompare` and the other words of `Careless` show what happens
otherwise. `AreReadable` (end of `Json.tla`) says what a document is made of: spaces,
punctuation, symbols, strings, numbers (the longest numeral there is where they begin),
and mistakes: a character no number begins with, a symbol with a wrong
character anywhere behind its first, the last one included, and what the end of the text
cuts short. Names asked for hold no quote.
`MCJson` has TLC check that the documents of the run `json` keep to it.

The argument for Sock. `OneOwner` is not inductive: `Sock__close` on a struct
holding 0 would close stdin, and whether a struct holding 0 can reach a close depends on
`phase` and `state`. The inductive invariant adds which `phase` goes with which `state`, that
the descriptor a struct refers to is open and not stdio's, that every open descriptor is
referred to, and that what a `half` struct refers to is a connection that was reset.
From it `LowestFree` gives a descriptor nobody holds, and `KernClose` frees one exactly
one struct held. The refinement follows with the same facts: a step changes `held` and
`open` at one user and one number, or is `AcceptGivesUp`. The service invariant adds what the object
behind an announced struct is (a listener, a connection) and that it has `O_NONBLOCK`
from its creation on; `Causes` is an action property under it.
`ReleaseBuild` needs one fact more than types: no object is ever anything but free or stdio,
because only `socket()` makes the first one of another kind, and that build never calls it.

The argument for ByteBuffer: the invariant adds to `read <= write <= end` where each slice
lies, behind the read cursor, so a write that starts at `write` cannot reach it.
The refinement proof shows that each operation changes the text between the cursors as
`ByteQueue` says. As long as the cursors are in order the differences do not wrap
(`Difference`), no checked call overruns, and a copy is a transfer if it fits, else
`CopyLoses`.

The argument for Arena: blocks lie below `pos` and a push takes from `pos` upwards; the
invariant says so for every pair, and that bytes from `pos` on are zero while the
arena was zeroed after its last reset.

The argument for Ring: `head` and `tail` are indices, and `Count`, the items between them, is
what the queue's length is mapped to. Each operation's lemma says what it does to the
places from `tail` on; `% cap` is taken apart into the two cases, wrapped or not.

The argument for Thread (`PoolSafety`): while a worker is anywhere between taking the
mutex and giving it back it is the `holder`, so at most one is; from its read of `pos` to its
store nobody else changes `pos`; every block handed out lies below `pos`. For the
join: entries below `i` are joined, those from `i` on were created if they were asked for.

The argument for the clock (`NowInv`): of a thread that is about to subtract and is not `hit`,
`start_ns` is not 0 and not later than its reading. A store of `start_ns` by an overlapping
first call could break that, and hits every thread it could break it for (`Touched`); a
failed reading hits the thread itself. So an answer that is not `bad` is at most what a
reading now would tell (`AnswerHolds`), and `\div` is monotone; one that is `good` was told
since `start_ns` was last set, so the next one is not less. In a program of one thread whose
clock works nobody is ever hit (`OneThread`), which is `Elapsed`. For a trace: while
its call runs `last_time` is `W64 - since`, and the time spent before it is at most
`since - Boot`, so the first sum wraps exactly once and the second never does; of a `spoilt` id nothing is
said until the next reset.

The argument for List. `WellFormed` follows each list from `head` by as many `next` as `len`
says, and is not inductive: it does not say that the nodes were pushed before, so the node
`List__append` takes could be one of a list already. `ListInv` says of the path of each
list that it is `len` pushed nodes without a repetition, from `head` to `tail` with NULL
behind it, and of two lists that their paths share no node (`Apart`, without which the
write to `next` of one list's tail would lengthen another). A call changes one path, by a
node at its end, its front or inside, or (merge) makes one of new nodes, and a lemma per kind
of change says what the new path is; the refinement reads the items off those lemmas. For
`List__insort` the place its loop stops at is the sorted one (`StopsSomewhere`) unless the item
belongs in front of the head, and then the step is `InsortPassesHead`.

The argument for String. A view of unwritten memory, or a length that is worked out later
(`Str8__cstrlen` in `Str8__init`), depends on what lies behind it, so `ViewsHold` alone does
not survive a copy. `StringInv` adds that bytes of the arena from `pos` on are NUL; that
every buffer, every C string and the text lie below `Base` or below `pos`; that a string says
it lives in the arena exactly if it does, which is why `Reset` leaves no view behind; and
`Parted`: no string ends with a space while a `-` follows it. The last one is not about
memory: on such a slice `%d` of `Str8__scan` would take the `-` (`String.c:277`) and leave the
slice. That no function ever gives one out is part of the invariant, and so every scan,
of any string with any format, stays in its input. Each call is one of three: it writes
nothing (`QuietStep`), or one block at `pos` (`PlacedStep`), or it resets. `cstr__vformat`
does what `cstr_arena1` does as long as `maxlen` and `edge` are minded (`FormatIsCopy`).
`hexdump` in 4096 bytes: 53 lines fit, the 54th is cut short twice and ends back inside
the array. `TextLaws` then follows in every state by itself.

The argument for `ScanMatches`. By `Parted` and since a `Str8` holds no NUL, every input is an
`IsLine`; nothing else is needed of the state, so the rest is about `Scan` alone. Its two
sides are a cursor that looks one character ahead and pieces that are cut off by what they
are. `ItemRead` says that one item reads what is `Right`: no longer piece is a word of it, and
if it fails there is none at all (`NumberRead` is the hard one: a sign taken where the input
ends, a fraction only behind a digit). Over the items the invariant is `Goes`: all have
matched and the cursor is at the last cut (`Running`); the input has ended, and what is
not looked at matches what is empty (`AtEnd`: the cuts go on where the loop does not);
or one has failed, and there is no cut behind it (`Failed`). A turn leads from each only to
those that the code's exits allow (`TurnMatches`, `TurnAtEnd`, `TurnAfterFailure`). `IsLine`
cannot be dropped: on `" "` with a `-` behind it the scan would take the `-`.

The argument for Json. `StaysInText` is inductive with the types: a call reads up to three
tokens, each from where the one before it ended (`KeyFrom`), or puts the cursor back where it
was, and `NextTokenFacts` says of one token, read from any place of any text, that it ends in
the text and that a string holds no quote. `Until` is a `CHOOSE` over places, so each search
of the lexer needs a lemma (`SkipFacts`, `NumeralFacts`, `SymbolFacts`, `StringEndFacts`),
all from `FirstPlace`. Nothing is assumed of a document but that it consists of sequences of
characters (`JsonDocs`): an ill-formed one, or one cut anywhere, is among them.

For `ReadsTokens` the cursor must be known to be where a lexeme begins: `ReadInv` adds that
to the types. There is one lemma for each kind of lexeme on what the lexer makes of it
(`PunctuationRead` to `StringIsRead`, together `TokenTook`); `SpacesSkipped` leads from any
lexeme to the next one that is no space, and `AheadFromFacts` says that what is ahead loses
one lexeme at a time. `TokenReads` puts these together: a token read where `i` tokens are gone
is token `i + 1`, or is a symbol that nearly spells it (`Misreads`), and copied out is what
it says. From there on no proof speaks of characters,
except that of `Json__object_key_is`: its `strncmp` runs on into the text, and stops
at the closing quote because the name that is asked for has none, so it answers whether the
name is a prefix of the key (`PrefixIs`): the promise if they are equal, else
`KeyPassesPrefix`.

Recursive functions. `Path` and `Loop` of List, `FlattenSeq`, `Cuts` and the fold under
`Str8__scan` are `CHOOSE`s of a recursive function, and say nothing until that function is
known to exist. The library's induction theorems take an operator as parameter and cannot
be used; instead `LeastNatural` gives the least counterexample of a set of numbers
(inclusion of finite sets is well-founded), and each existence is proved from it.

Only model-checked: liveness (`EndIsNoticed`, `BacklogDrains`, `MainEnds`: fairness and
ENABLED are beyond the prover), and every finding (a
counterexample needs no proof). RECURSIVE operators are beyond the prover; no module uses one.

## 6. Not modelled, and plan

Not modelled: the Windows and Emscripten branches (the repository builds on Linux);
`Timer.c` (nothing includes it and its types are defined nowhere); `File.c`,
`Breakpoint.c` and `main.c` (calls of the system without state of their own; a signal
ends `main` with `exit`); of `String.c` the conversions by `strtof` and `strtoul`, `u82bin`
and `format_bytes`; of `Time.c` the sleep and the units.

What could come next: changes of a list inside a loop over it; the width of addresses in
Arena; numbers evaluated in Json.
