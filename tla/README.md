# SepiaStream in TLA+

SepiaStream moves images between processes. A `Writer` publishes groups of
images in a ring of elements in POSIX shared memory, any number of `Reader`s
pick the newest complete one, and System V semaphores keep them apart. A proxy
server and client carry a stream over TCP to another machine.

This directory holds TLA+ models of the parts where that can go wrong, TLC
runs on small instances, and theorems checked by TLAPS. Paths are relative to
the repository (`src/databuffer.cpp` here is `src/src/databuffer.cpp` in
`PROJECT.json`).

## 1. Inventory

| component | state | operations | what is hard |
|---|---|---|---|
| `SharedMemory` (`src/sharedmemory.cpp`) | one object in `/dev/shm`, never unlinked after use | `init`, `open`, `mapWrite` | an opener between `shm_open` and `ftruncate` |
| `semaphore_interface`, `Semaphore` (`src/semaphore*.cpp`) | a set of n semaphores worth n, the kernel's undo records | `init`, `wait(All)`, `post(All)`, `getVal` | who initialises, `sem_otime`, exits at any point, EINTR |
| `DataBuffer` (`src/databuffer.cpp`) | header (`current_index`, `elements`, `sem_key`), flags, payloads | two constructors, `getReadAccess`, `getWriteAccess`, the two releases | search against readers that move, stale `current_index`, waits without time-out |
| `Writer` (`src/writer.cpp`) | `m_element`, `m_previousElement` | constructor, `copyWrite`, `setSize`, `update`, destructor | the new element is current before the old is released; 32-bit sizes |
| `Reader` (`src/reader.cpp`) | `m_element` | constructor, `update` | no destructor: the unit stays taken |
| `Stream` (`src/stream.cpp`) | layout of an element | header and image addresses, `setSize` | 32-bit products, `max_size` per element |
| `network::TcpSocket` (`src/network/tcpsocket.cpp`) | a descriptor | `init`, `connect`, `bind`, `accept`, `send`, `receive`, strings, `close` | closed twice, end of file not noticed, SIGPIPE |
| `network::Server` (`src/network/server.cpp`) | `m_terminate`, its thread, connection threads | `start`, `stop`, `join`, accept loop, `handleSocket` | stop against a blocked accept, restart, exceptions outside `try` |
| `network::Client` (`src/network/client.cpp`) | `m_terminate`, its thread, a `Writer` | `start`, `stop`, `join`, receive loop | peer closed, name too long |
| `util::ThreadBarrier` (`defs/sepia/util/threadbarrier.h`) | count, generation, condition variable | `wait` | re-entry before everybody has left |
| `util::ThreadObject` (`src/util/threadobject.cpp`) | `m_thread`, `m_terminate` | `start`, `stop`, `join`, destructor | called from several threads |
| `util::ProgArgs`, `helper` (`src/util/`) | two static maps | `init`, `contains`, `value`, defaults | values that do not parse |
| `compression::Enc3b11b` (`src/compression/enc3b11b.cpp`) | last frame, difference | `encode`, `decode` | wrap-around of differences, bounds of the bit matrix |
| `compression::Compress`, `Decompress`, `Common` | a zlib stream | `compress`, `decompress` | unused and unfinished |
| `daemons/`, `examples/` | - | `main`, SIGINT handlers | a handler interrupts `semop` |

How they interact: `Writer` and `Reader` are `Stream`s and own a `DataBuffer`;
processes meet only in the shared header and elements and in the semaphore set.
`Server::handleSocket` runs a `Reader` per connection in a thread of one
process, `Client::own_thread` a `Writer`. Everything that is a hazard is listed,
at its line, in `PROJECT.json` under `hazards`.

What makes each part right:

* ring: nobody touches what a writer owns; readers get whole frames that stay
  as they are; units are conserved; everyone is served;
* start-up: the set is initialised once and everybody ends up on it;
* layout: an image fits where its header says it is, headers survive updates;
* sockets: a thread talks to the connection it was started for, and no open
  connection is forgotten;
* proxy: frames arrive whole and in order, both ends keep in step;
* threads: start, stop and join come to their end and do not end the process;
* barrier: nobody leaves before all have come, everybody leaves in the end;
* code: `decode` undoes `encode`.

## 2. Plan

| order | module | state |
|---|---|---|
| 1 | `SemaphoreSet`: operations of the set with undo records | done |
| 2 | `DataBuffer` (extends 1): ring, writers, readers, faults | done |
| 3 | `DataBuffer_proofs`, the semaphore set included | done for safety |
| 4 | `Attach`: constructors, shared memory, `init` of the set; `Attach_proofs` | done |
| 5 | `ThreadBarrier`, which implements the abstract `Rendezvous`; `ThreadBarrier_proofs` | done |
| 6 | `Proxy` (server and client of one stream over one connection), which implements the abstract `Mirror`; `Proxy_proofs` | done |
| 7 | `Server` (accept thread, connection threads, descriptors); `Server_proofs` | done |
| 8 | `Stream` (headers, 32-bit sizes, `setSize`, `update`); `Stream_proofs` | done |
| 9 | `ThreadObject` (start, stop, join of three classes); `ThreadObject_proofs` | done |
| 10 | `Enc3b11b` (difference code and its inverse); `Enc3b11b_proofs` | done |
| 11 | `Feed` (extends 2): the ring implements the abstract `Channel`; proof in `DataBuffer_proofs` | done |

Open: what the theorems about the ring assume beyond the code's own guarantees.
`Exclusion` and what follows from it is false once a wait has been interrupted, so
no proof can drop that assumption; the two theorems about the search are for one
writer, and false for two.

## 3. The modules

### SemaphoreSet

`sem[i]` is the value of semaphore i, `undo[p][i]` what the kernel would add to
it when p exits (every call of lines 107-131 of `semaphore_interface.cpp` sets
`SEM_UNDO`). Each semaphore starts at the number of elements, which is the
`nsems` that `init` adds. A reader takes one unit, a writer all. `SemWaitFails`
is an interrupted sleep: `semop` returns -1, the message is printed and the
caller goes on. `SemExit` applies the records of a process that ends; the
kernel clamps a value at zero. `setVal` has no caller.

### DataBuffer

One action is a stretch of code with at most one access to what others change.

| action | code |
|---|---|
| `OpenWriter`, `Update` | entry of `getWriteAccess` from the constructor or `update`, first test of the loop |
| `Probe`, `Retest` | body and test of the search loop, line 148-164; every test reads `current_index` again |
| `Fallback` | line 168 |
| `Take`, `TakeInterrupted` | `waitAll`, line 154 or 170 |
| `Claim` | lines 155-157 or 171-173 with the headers: `current_index`, `m_element`, the flag, the header copy of `update` or of the constructor |
| `Fill` | the application's `copyWrite` calls |
| `Release`, `Close` | end of `update`, destructor |
| `OpenReader`, `Load`, `Wait`, `Check`, `GiveBack` | `getReadAccess` line by line |
| `UpdateReader` | `Reader::update` |
| `Drop` | a `Reader` object destroyed in a process that goes on |
| `CrashWriter`, `CrashReader` | the end of a process at any point, with `SEM_UNDO` |

Abstractions, all of data: an element's payload is `blank`, `partial`, `whole`, or
`left` half way by a writer that has ended (`Abandon`, no byte of it changes); the lines printed are left out; each object lives in a process of its
own (several `Reader`s in one process differ only in that their records are
returned together, at the exit of the process). All processes are taken to be on
the same semaphore set: `Attach` says when they are. `Claim` merges the store of
`current_index` with what follows it, because between `waitAll` and `postAll`
no other process may look at the element: that is `Exclusion`, which is checked
and proved in terms of the units and does not depend on the merge. The
application is taken to fill a frame before it publishes it, as
`examples/writer.cpp:21-23` and `network/client.cpp:112-117` do.

`current_index` is a plain field. Compiled as the build files say (`-O2`), lines
124 and 126 and the initialisation and first test of line 148 each load it
once; the later tests of the loop and lines 130 and 168 load it anew. The model
does the same.

### Feed and Channel

`Feed` numbers the frames in the order in which writers begin them, that is, store
`current_index`; `number[i]` is the frame in element i, `asked[r]` the newest one
when r loaded the index. These variables are read by no action of `DataBuffer`,
whose steps `Feed` takes one for one. `Channel` says what that amounts to for the
readers: `Begin` a frame, `Ask`, and `Hand` over one begun no earlier than the
newest was when the reader asked and no longer the newest. A reader therefore never gets
a frame twice or goes back, and never the one in the making; it may miss any number.

### Attach

One action per system call or access to the header. `shm` is the object in
`/dev/shm`, `hkey` and `hcount` the two header fields that matter, `set`, `val`
and `otime` the semaphore set. `Map` exits the process when the object has no
size; `SemGetFails` is the call with no elements, whose error nobody looks at;
`Poll` gives the set up after `Polls` rounds. `founded` and `late` are history
variables used by one property. A failing `ftruncate` unlinks the name, and a
process that has the object open keeps an empty one. The key is stored before the
element count (lines 58, 62); they are loaded for the arguments of `new Semaphore`
(lines 82, 99), in an order the language leaves open: of the two compilers of
`.travis.yml`, clang evaluates the first argument first and gcc the last. The model has both orders. A
process that loads the key while it is 0 and the count once it is there asks for
`IPC_PRIVATE` and works on a set of its own (`OwnSet`), with no error. `early` is a
history variable: the process mapped the memory before the count was stored.

Left out: the clean-up when a `semop(+n)` of `init` fails (it cannot: a post
neither sleeps nor exceeds the kernel's maximum here), and real time: a process
may give up although the other is merely slow.

### ThreadBarrier and Rendezvous

`wait` holds `m_mutex` from its first line to its return, except while it sleeps
in `condvar.wait`, so each stretch between the two is one action: `Enter` (not
the last: sleep), `Last` (reset, `notify_all`, return) and `Recheck` (woken: test
the predicate, return or sleep again). `WakeSpuriously` is the freedom the
standard gives a condition variable. `m_generation` wraps at `Width` values
(2^64 in the code). `Rendezvous` says what a barrier promises in two sets: the
threads `arrived` in the round that fills up and those `released`. They are read
off the detailed state as `Held` and `Freed`: inside `wait` with the present
generation, or with another one. A threshold of 0 is excluded; the first `wait`
would wrap `m_count`.

### Stream

`hdr[e][a]` is the image header at address `a` of element `e`, so that a header is
found where the group header puts it (`At`) and the bytes of an image, written by
`CopyWrite`, destroy a header they reach. `Open` is the constructor of a `Writer`,
which uses memory that is there as it is; `SetSize`, `Update` and `Close` are the
members of that name. The element that `Update` moves to is any other one: which
of them `getWriteAccess` picks is the subject of `DataBuffer`. `MaxSize` and the
size in `SetSize` are reduced by `Modulus`, as the products of `uint32_t` are
(`stream.cpp:36`, `writer.cpp:41, 75`). `asked` and `fitting` are history variables. Elements are contiguous (`databuffer.cpp:106`): a Writer that needs
more than the memory was made for writes into the `info_t` and the headers of the next
element, or past the end of the mapping. The first step that does so sets `spilt` and
the model ends with it, since what the ring holds then is anything, the semaphore numbers included.
Left out: header fields that no code reads, and identifiers at or above
`count`, for which every accessor returns at once.

### Proxy and Mirror

A connection carries units: a field of the request, the initial message, an image
header, a piece of an image. `RawSend` and `RawReceive` are one turn of the loops
in `TcpSocket` and move any number of units. `handleSocket` is `TakeField`
(`receive` twice, `receiveString`), `Attach` (the `Reader` and the initial sends),
`Serve`, `NextImage` and `UpdateReader` (the loop, an image at a time), with `RequestFails` and `ServeFails` for
the errors in and outside its `try` blocks; `Client::own_thread` is `Connect`,
`TakeInitial`, `TakeHeader`, `TakeData`, `UpdateWriter` and `ClientFails`. `peer[x]` is
what x has learnt of the other end: an orderly close (`fin`), after which a send
is dropped and the next one may raise SIGPIPE (`pipe`), or a reset. `Close` is
`TcpSocket::close` or the end of a process, and resets the connection when data
was left unread. A thread whose peer closed in good order goes round
`rawReceive` for ever, since `recv` returns 0 there; the model gives it no step.
The stream is taken to have been written, and its number of images to stay what it is
(`server.cpp:144` reads it for every frame, the client was told once): `Server` has the former.

`Mirror` says what the two promise together: the frames the server's `Reader` was
handed appear at the client, each once, whole and in order. `shown` is the frame in
the client's element when `update` publishes it, or `Torn` when the element holds
anything else than one whole frame.

### Server

`table[d]` is what a descriptor refers to; a `TcpSocket` is the number it keeps,
so that a second `close` hits whatever has that number by then. `Accept` is
`dispatchSocket`, the actions from `ReceiveRequest` to `Delete` are `handleSocket` for one
connection, with every call's success, failure and SIGPIPE. `Throw` is the close in
`throwError`, `Delete` that of the destructor: two steps, between which other threads
open descriptors. `Attach` opens the shared memory and keeps its descriptor. What is sent is
in `Proxy`. The kernel's tables, the clients and `MemoryMoves` are marked external.

`memory` is how far the stream's creator and writers have come: no memory, memory
without a size, without a header, without a frame, or with one. A client may ask for the
stream at any of these stages, and three of them end the server: `mapWrite` exits
(`Attach`), `element.info` is `NULL` when there are no elements (`Read`), and
`getHeader( 0 )` when the element that is returned was never written (`TestEarly`).
When `bind` fails `listen` gives the socket another port: nobody connects to it (`Deaf`), and `accept`
waits. Only without a socket does `accept` fail at once (`NoSocket`).

### ThreadObject

One module for three classes (`kind`) with the same interface: `ThreadObject`
keeps its thread in a pointer, joins in its destructor and sets `m_terminate`
again, `Server` and `Client` keep a plain `std::thread` and do neither. `Start` is the test,
`Launch` the rest, so that a `Stop` may fall between. `aborted` is
`std::terminate`: assigning to or destroying a joinable thread, joining none, or
the pure virtual call of a thread that starts while `~ThreadObject` runs. `long`
is a client's name that is refused after `m_terminate` was cleared. `worker` is
`blocked` while it is in `accept` or `recv` (or in the `semop` of a client's `update`), and
`greeting` in a client's first receives: it sees `m_terminate` only when the
call returns, which is the other side's doing (`Return`).

### Enc3b11b

`message` is what `encode` writes: a code per pixel (`Matrix`) and a byte for each
difference beyond three bits (`Bytes`); words, offsets and loops are those of the
code with `StepSize` and `WordBytes` as parameters (21 and 8 there). `decode` counts
words by `WordBytes` where `encode` counts by `StepSize`, and so reads past the
matrix (`WordsRead`, `Intact`): what it finds is any of `Garbage`. A frame
larger than the first throws half way (`EncodeThrows`), a smaller one leaves the rest of
`m_diff`. `drift` counts, for each pixel, the differences folded down less those folded up, each of which
puts the decoder off by one. That the decoder starts from an image of zeros, and
decodes every frame, is assumed: nothing in the repository calls it.

## 4. Runs

| run | instance | shows |
|---|---|---|
| `buffer_safety` | 2 writers, 1 reader, 3 elements; one death of a writer, one destructor, one dropped reader | `UnitsConserved`, `Exclusion`, `NeverHoldsCurrent`, `HandsOutWholeFrames`, `StableWhileHeld`, types |
| `buffer_liveness` | 1 writer, 2 readers, 3 elements, deaths | `ReaderServed` |
| `buffer_interrupted` | 1 writer, 2 readers, 2 elements, one interrupted wait, one death of each kind | `NoUnitLost`, `WriterServed` |
| `buffer_unwritten` | 1 writer, 1 reader, no fault | violates `HandsOutWritten` |
| `feed` | 1 writer, 2 readers, 4 elements, 5 frames, a reader's death and a dropped reader | `HandsOutNewer` (refinement of `Channel`), `SearchSucceeds`, `NeverWaitsForItself` |
| `attach_races` | 2 creators, 1 opener, 2 semaphores, 2 polls, one death, one failing `ftruncate` | `FreedOnce`, `AloneOnlyIfEarly`, `LateIsSynchronised`, `AttemptEnds`, types |
| `stream` | 2 elements, 2 writers in turn, 1 or 2 images, 4 shapes, integers of 6 bits | `ImagesFit`, `HeadersSurvive`, `SizeIsOfShape`, types |
| `proxy` | 2 images of 1 or 2 units, 3 frames, a connection that holds 2 units each way, every failure | `InStep`, `FitsElement`, `Mirrors` (refinement), `FramesArrive`, `ClientEnds` |
| `server` | 3 connections, 4 descriptors, memory at every stage | `OwnConnection`, `NoConnectionForgotten`, `SurvivesUnless`, `StopEnds`, `ClientServed` |
| `threads` | each of the three classes | `NeverAborts`, `Restartable`, `StopEnds` (the destructor's end too; if blocking calls return) |
| `codec` | 3 frames of 1 to 4 pixels of 3 values, words of 3 pixels and 2 bytes | `FrameAgrees`, types |
| `barrier` | 4 threads, 3 parties, 4 rounds | `MeetsRendezvous`, `ImplementsRendezvous` (with liveness), `NobodyOversleeps`, types |

**Bounds.** The code has 16 elements. Three is the least number with which the
ring has a current element, one that a reader holds and one that is free, and
the least with which a full ring (fallback) and a free one both occur; four is
the least with which two readers leave a free element (the hypothesis of
`SearchSucceeds`; a dropped reader takes it away, so that a leaked unit is counted is
shown by the theorem only). Two readers suffice to keep units of two elements, or two of
one, and to race each other; `buffer_safety` has two writers instead, which with
two readers is out of TLC's reach at this budget and covered by the theorems. The writer laps the ring any number of times:
nothing in the model counts, but for `feed`, where five frames
on four elements go past the first element a reader may still be waiting for, and
have the search start from every element. Only faults are counted (`Budget`), once per kind;
the theorems below hold for every budget and ring. In `Attach` two semaphores
separate the first from the rest, and two polls the last from the others.
With two elements in `buffer_interrupted`, the one element the writer can turn to
is the one whose value an interrupted wait has put off. In `barrier` there is a
thread more than parties, so that one can be slow to leave while the others run
whole rounds. It could then be lapped by all values of the generation, which takes
2^64 rounds in the code; the run stops after `Rounds` rounds, before the first wrap.
With as many threads as parties the wrap is harmless: that is proved, and not run.

In `stream` an integer of six bits lets the product of a shape wrap; two writers
let a second one find memory that is too small, or headers that are not its own,
and two elements let every element be previous and next. Two images
in `proxy` separate the first, whose size the client asks for, from the others, and
two units tell a send that is cut up from one that is whole; a frame more than the client has published
can be on its way, one in either end. In `server` four descriptors hold the listener, a socket and the memory of one
connection and the socket of a second: the third may find the table full, and a number closed twice is
taken by another in between. Two connections cannot show that. `codec` has
frames of less than a word, a word, and more than one; with two bytes to a word
`decode` reads past the matrix from three pixels on. The values are such that
differences fit three bits, need a byte, and are folded. A third
frame uses what the second left in `m_diff`.

**Deadlock.** It is switched off where the system may really stop: a dropped
reader (or, with two writers, each waiting for the other) leaves a writer
waiting, `feed` stops at its last frame, in `Attach` everybody has attached in the end, `proxy`, `server`
and `threads` end when their processes do (or hang, in a `recv` that returns 0), and
`barrier`, `codec` and `stream` stop at their bounds. `buffer_liveness`,
`buffer_interrupted` and `buffer_unwritten` check it.

**Fairness.** Weak fairness of each process's steps: a process that can go on
does. Strong fairness of `Take` and `Wait`: the kernel completes a sleeping
`semop` inside the call that raises the value, so an operation that becomes
possible again and again is not overtaken for ever. Applications call `update`
in a loop and a process that ended is started again (`examples/`, the proxy
daemons). In `Attach` the process of a constructor keeps running. A woken thread of
the barrier gets the mutex in the end; nobody need arrive, and no spurious wake-up
is relied on. In `proxy` each end's thread goes on, and the server's `Reader` is handed another
frame in the end, which is `ReaderServed`; in `server` the accept thread goes on
while its calls return, no handler need ever take a step, and no client need connect, close or be
reset; in `threads` a worker and a call in progress go on, nobody need make another, and that
a call the worker is blocked in returns is a premise of `StopEnds` (`CallsReturn`),
because nothing in the code sees to it. No fairness is
assumed of faults. With an interrupted wait `ReaderServed` does not hold: units made up let a reader in on the element being
written again and again, and it gives each back; `WriterServed` still does.

## 5. Where code and comments differ

`buffer_unwritten` checks what the message on `databuffer.cpp:135-136` says, that an
element which is not complete is waited for, and TLC finds the code doing otherwise:
the test of line 130 is skipped once `current_index` has moved, and element 0 is
handed out although nobody has written it. `PROJECT.json` quotes the lines.

Other differences are visible in the models and are allowed for by the properties:

* nothing sets `complete`, so the warning about an application fault (`databuffer.cpp:135`)
  appears whenever a reader gets at the current element, for one before the
  first frame;
* a destroyed `Reader` returns nothing, and a writer that must wait for its
  element (`databuffer.cpp:167-170`) waits for ever: `WriterServed` is checked without that fault;
* `sem_otime` is set by the first semaphore of the set, not when all are initialised
  (`semaphore_interface.cpp:61-62, 81`). The consequence is limited: a wait on a
  semaphore that is still 0 sleeps until it is initialised, and a writer's
  search passes such an element by;
* a process that maps the object before `ftruncate` exits instead of retrying
  (`databuffer.cpp:92`, `sharedmemory.cpp:92-95`);
* a new `Writer` uses memory that is there without comparing its size with what it
  needs (`databuffer.cpp:76-81`): one that does not fit writes over the element behind its
own, where the properties of `Stream` end;
* an opener that is early can be left on a semaphore set of its own
  (`databuffer.cpp:82, 99`): `AloneOnlyIfEarly` says that nobody else is;
* a client or handler whose peer closed in good order does not end, and a stop
  does not reach a thread in `recv` or `accept`: `ClientEnds` and `StopEnds`
  say what does hold;
* a client that resets its connection during the first two fields, or leaves in good order
  while the server sends, ends the whole server, and so does one that asks for a stream
  still being made (`sharedmemory.cpp:92-95`, `server.cpp:123`): `SurvivesUnless` lists the
  causes;
* a server whose port is taken reports it and waits on another port
  (`tcpsocket.cpp:143-152`).

## 6. What is proved

`DataBuffer_proofs`, for every number of elements from two up, every finite set of
processes, any subset of writers, every budget and any number of frames:

* `TypeCorrect` (`TypeOK`), `NothingLost` (`NoUnitLost`) and `Newer`
  (`HandsOutNewer`), whatever fails, interrupted waits included.

Under the assumption `NoInterrupts` (no signal handler runs in a process asleep
in `semop`; deaths, destructors and dropped readers are all allowed):

* `MutualExclusion` (`Exclusion`), `Conservation` (`UnitsConserved`),
  `Stability` (`StableWhileHeld`), `NewestLeftAlone` (`NeverHoldsCurrent`),
  `WholeFrames` (`HandsOutWholeFrames`). A writer whose wait was interrupted goes
  on with an element it does not hold, so `Exclusion` is false without it.

Under the assumption `Alone` (one writer at most, as in every program of the repository):

* `NoSelfWait` (`NeverWaitsForItself`), interrupted waits included;
* `SearchFinds` (`SearchSucceeds`), with `NoInterrupts`: units made up by an
  interrupted wait lift a semaphore above the value line 152 compares it with.

With two writers TLC finds both properties violated.

The argument. `Exclusion` is not inductive: it does not say why nobody else can
take what is owned. The reason is an account: a writer has `Elements` units of
each element it owns on the kernel's record, a reader one of the element it
works on, and value plus records is always `Elements`. `IInv` says exactly that
(`SemInv`, `WriterOK`, `ReaderOK`), with the registers each place of the code
goes with, and that no flag is ever set. The first part of the module shows that a
wait, a post of units one has, and an exit keep the accounts, by splitting the
set of outstanding units into the column of one process and the rest.
The rest has one lemma per action; `NewestLeftAlone` and
`WholeFrames` add one small invariant each: an element that is `partial` has a writer
at it, so a death excuses only the element it left, until the next writer takes that.

With interrupts the accounts do not balance: a writer that was not let in posts units
it never took, and its record goes below zero. What is inductive is that they cover
the initial value (`SemCovered`): value plus records, negative ones
counted as such, is at least `Elements`. To avoid a sum of signed numbers over a set, the records above
zero and those below are two sets of units, `Owed` and `Advanced`. A wait and a
post move units between the value and these sets; an exit moves a whole column into the
value, and a value clamped at zero is only more than that would give. `NoUnitLost`
is what is left when `Advanced` is dropped from the account.

For the search of a single writer, `SearchInv` relates the loop variable to
`current_index`, which nobody else stores: the loop visits each other element once
(`Visits`), and none of them is the writer's own. That it finds a free one although readers
move is a matter of counting (`SeenInv`): an element found taken has a unit of a
reader or a leaked one, a reader that moves during the search goes to the current
element, which is not searched, so the elements seen together with those that
can yet be found taken (`Spots`) never become more than readers and dropped readers;
`LeakInv` bounds the leaked ones by the drops.

`Newer` is the refinement of `Channel` by `Feed`. While a reader waits, its element
may be written again, but with newer frames (`AskedOK`); the newest frame is in the
current element and nowhere else (`NumberedOK`); and no flag is ever set, so a reader
that gets hold of the current element gives it back. It needs no account of units.

`Attach_proofs`, for any number of processes, semaphores, polls, deaths and failing
`ftruncate` calls, proves `TypeCorrect`, `InitialisedOnce` (`FreedOnce`),
`OnlyEarlyAlone` (`AloneOnlyIfEarly`) and `LatecomersSynchronised`
(`LateIsSynchronised`). The invariant has a part for each stage: the memory has
its size for good once anybody has a mapping (only its one creator can unlink it,
before); the key is stored before the count, so that a process which maps the memory
once the count is there finds both, whichever it loads first; a single process
frees the semaphores, and those it has not come to are 0; and what the creator's
attachment implies about all of these. None of the properties is inductive
without the parts before it.

`ThreadBarrier_proofs` proves `TypeCorrect` and `EveryoneWoken`
(`NobodyOversleeps`) for any number of threads (`SleepsInRound`: a step that completes
a round leaves nobody asleep, and any other leaves the generation alone), and `Refinement`
(`MeetsRendezvous`) for as many threads as parties: `m_count` and the number of
threads held add up to the threshold, so the last of a round finds all other
threads held and none still on its way out, and two values of the generation are
enough to tell rounds apart.

`ThreadObject_proofs` proves `StartStopSafe` (`NeverAborts`) and `StartsAgain`
(`Restartable`) for any sequence of calls to the three classes. The invariant says what a
joinable thread, a cleared `m_terminate` and a call in progress imply of each other.

`Proxy_proofs`, for any number and size of images, any capacity of the connection and
every way to cut up what is sent, proves `ClientInStep` (`InStep`), `ImagesFit`
(`FitsElement`) and `Refinement` (`Mirrors`). The invariant describes what is under
way: behind the units of the image the client is receiving, each
header is followed by as many units as it announces, and image and frame numbers run
on from the client's place to the server's.

`Stream_proofs` proves `TypeCorrect`, `HeadersKept` (`HeadersSurvive`), `EveryImageFits`
(`ImagesFit`) and `SizesHonest` (`SizeIsOfShape`) for every ring, every set of
counts and shapes, any number of writers, any sizes of headers and any
width of the integer; addresses are assumed to stay below `Top`. The invariant adds to the
properties that each header of an element that is in use describes its image
honestly, in all elements and not only the one being written. The
arithmetic is in lemmas: headers lie apart by more than an image (`ImagesApart`), and within
what an element needs (`ImagesWithin`), so that while every Writer fits no write reaches
a header or the end of the element. All of this is claimed up to the first write
beyond an end only (`spilt`), which `EveryImageFits` says a fitting Writer never makes.

`Server_proofs`, for any number of connections and descriptors, proves
`TypeCorrect`, `NothingForgotten` (`NoConnectionForgotten`), `OnlyFailuresCross`
(`OwnConnection`) and `Survival` (`SurvivesUnless`). The first three are inductive
together: a connection is open under at most the one number its thread keeps, so a
second close can only take a connection away, and only from a thread with the same
number. `Survival` adds that once a handler's call has failed some client has gone
away (`Blamed`), and that one stays so, although the connection is closed; a handler
that died with no client gone was reading memory ahead of its writers (`Hasty`).

`Enc3b11b_proofs`, for every frame size, step, word of no more bytes than it has
pixels, and any pixels, proves `TypeCorrect` and `FramesAgree` (`FrameAgrees`).
The heart is `ByteOfRank`: the byte that `decode` reads for a
pixel is the one `encode` wrote, since both count the special codes before it, and
the differences a smaller frame left in `m_diff` come behind (`RankGrows`).

Only model-checked: liveness, which is beyond this prover (`ReaderServed`,
`WriterServed`, `AttemptEnds`, `FramesArrive`, `ClientEnds`, `StopEnds` and
`ClientServed` of `Server`, `StopEnds` of `ThreadObject`, and `ImplementsRendezvous`, which adds
liveness to `MeetsRendezvous`), and the barrier with more threads than parties. Every
safety invariant and action property that a run checks is proved; the types of `Server`
(`TypeOK`) are proved and not run.

## 7. Not modelled

`mapRead`, `unmap`, `close` of the memory, `setVal`, `fromRawSocket` (no callers);
`start` and `join` of one object from two threads, which is a data race with no
outcome to speak of; `ProgArgs`, one pass over `argv` into a map that nothing in
the repository calls; the zlib wrappers (no callers, unfinished); printing. In
`Proxy` an image of no bytes, and the rings of the two ends, which are in
`DataBuffer`.
