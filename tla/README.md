# Verification of mysnips

mysnips is a collection of self-contained C snippets: lock-free queues, thread
utilities, a threaded log, allocators, a hash map, a TCP and an HTTP server, an
asynchronous I/O layer and a gap buffer. This directory holds TLA+ models of the
parts whose correctness depends on the order in which things happen, TLC
configurations that check them on small instances, and TLAPS proofs of the
properties that matter most, for every instance.

## 1. Inventory

| Part | State | Operations | Interacts with | What is hard | What makes it correct |
|---|---|---|---|---|---|
| `lockfree/mpmc_queue` | four atomic counters, an array | push, try_push, pop, try_pop | its callers' threads | compare-and-swap loops over counters read at different instants, spinning for one's turn, 64-bit index passed as an int | asserts hold, a cell is used by one call at a time, bounded FIFO, a claimed call returns |
| `lockfree/spsc_queue` | two atomic counters, an array | push, pop, multi_push, multi_pop, size, peek_0, peek_1 | log | each side works with a stale copy of the other's counter; the ring wraps | stream order, disjoint access, pieces cover the ring |
| `lockfree/spmc_queue` | two atomic counters, an array | push, pop | none | slot copied before it is claimed | the assert on the size, what is popped was pushed |
| `thread/sync` | mutex, condition variable, count | semaphore wait/signal, wrappers | log, hash map | wake-ups lost, spurious or stolen; timeouts | never oversold, nobody sleeps past an available unit |
| `misc/log` | per-thread buffers in a shared list, flush thread, configuration | log_write2, setters, flush thread, log_quit | spsc_queue, semaphore | three kinds of threads, lost signals, two peeks of a moving queue, shutdown | nothing dropped, in order, quit drains, nobody waits for ever |
| `thread/thread_pool` | job queue, free list, jobs with generations | create, wait, worker | own lock-free queue | ABA, missing full/empty tests | a job runs once; an id names one job |
| `hashmap` | open-addressed pool, mutex | insert, remove, select, count, resize | sync, os_alloc | tombstones, probing, resize under the lock | behaves as `hash_map_ref` |
| `alloc/buddy` | free lists, split bits, allocation bits | malloc, free | none | three encodings of one state, merging | blocks disjoint, all memory back after all frees |
| `alloc/pool` | page lists, slot lists | get, put | os_alloc | list surgery | slots distinct |
| `tcp` | client tables with generations, event queue, byte queues | poll, event, close, read, write, for a server and for stand-alone clients | sockets | stale handles, events of freed clients, hang-ups with output unsent | a handle names one connection; bytes in order |
| `asyncio` | operation and resource tables | start, wait, close, free | io_uring / IOCP | completions that arrive after a close | each operation completes once, to its owner |
| `http/server` | clients, ready queue, response builder | wait_request, response calls | tcp-like sockets, parser | pipelining, closing while queued | responses match requests |
| `http/parse`, `query_string`, `path`, `send_static` | none between calls | parse a head, look a parameter up, clean a path, serve a file | http/server, file system | limits of buffers and integers, two scanners of one syntax, a file system that fails half-way | text is understood as it is written; one response for the file that is meant |
| `gap_buffer` | buffer with a gap, line iterator | create, insert, remove, move, clone, iterate | none | UTF-8 boundaries, gap moves | equals a sequence with a cursor |
| `bits`, `time`, `misc/file`, `misc/sqlite3_utils`, `graphics`, `thread/thread` | none to speak of | wrappers and bit tricks | operating system, SQLite, OpenGL | I/O | not modelled |

The hazards behind the "hard" column are listed with their source lines in
`PROJECT.json`.

## 2. Plan

The order follows the dependencies and the weight of the hazards: what other
parts are built on first, and what runs concurrently before what does not.

| Step | Modules | State |
|---|---|---|
| 1 | `MpmcQueue`, its abstract specification `BoundedFifo`, `MpmcQueueProofs` | modelled, checked, safety and refinement proved |
| 2 | `SpscRing`, `SpscQueue`, `RingProofs` | modelled, checked, proved |
| 3 | `Semaphore`, `ThreadProofs` | modelled, checked, proved |
| 4 | `Log`, which composes `SpscRing`, the semaphore and the flush thread; `RingProofs` | modelled, checked, its invariants proved |
| 5 | `SpmcQueue` | modelled, its assert refuted |
| 6 | `HashMap` with its abstract specification `RefMap`; `ContainerProofs` | modelled, checked, invariant and refinement proved |
| 7 | `Buddy`; `ContainerProofs` | modelled, checked, proved |
| 8 | `ByteQueue`, `TcpHandle`, composed by `TcpServer`; `TcpProofs` | modelled, checked, the handle layout refuted; handles, events and bytes proved |
| 9 | `AsyncIo`, `AsyncIoProofs` | modelled, checked, its invariants proved |
| 10 | `HttpServer`: client states, ready queue, response builder, pipelining; `HttpProofs` | modelled, checked, tables and queue proved |
| 11 | `GapBuffer` with its abstract specification `RefText`; `ContainerProofs` | modelled, checked, the relocation refuted, its asserts proved |
| 12 | `ThreadPool`: job queue, free list, job life cycle; `ThreadProofs` | modelled, checked, proved |
| 13 | `TcpClient`: the stand-alone clients, on `ByteQueue` and `TcpHandle`; `TcpProofs` | modelled, checked, proved |
| 14 | `HttpRequest`, `QueryString`, `StaticFiles` | modelled, checked |

Proofs left: `ResponsesInOrder` of `HttpServer`; `LinesFaithful` and `EditsAsRefText` of
`GapBuffer`.
Section 5 says what stays with TLC.

## 3. Modules

Names follow the C source. A step between two accesses of shared memory, or
under one lock, is one action; local computation is part of the step it leads to.
`PROJECT.json` maps every definition to its lines.

**`MpmcQueue`** (`lockfree/mpmc_queue.c`). Variables: the counters `head`,
`temp_head`, `tail`, `temp_tail`, the cells, and per thread its program counter,
claimed index and item. One action per atomic access of `try_push` and `try_pop`:
`LoadTempTail`, `LoadTempHead` (with the assert and the full test), `CasTempTail`,
`CopyIn`, the spin `AwaitTail`, `BumpTail`, and their mirror images for pops. The
blocking calls repeat the others and add nothing. A cell's address is computed as
the code does, through an `int` (`AsInt`, width `IntRange`), then back to 64 bits
(`AsU64`). `BoundedFifo` is what the queue promises: a FIFO of at most `Size`
items in which a push reserves room, is published, and a pop takes its item before
it gives the room back.

**`SpscRing`, `SpscQueue`** (`lockfree/spsc_queue.c`). `SpscRing` holds the index
arithmetic of `peek_0` and `peek_1`, shared with `Log`. `SpscQueue` runs one
producer and one consumer; item copies are separate steps, so that an overlap of
writer and reader would show. The consumer pops blindly or after `size` or `peek_0`.

**`SpmcQueue`** (`lockfree/spmc_queue.c`). Push and pop, one action per access.

**`Semaphore`** (`thread/sync.c`). `semaphore_wait` for several units with
timeout, time-outs, spurious wake-ups and stolen units, and `semaphore_signal`,
which wakes one waiter. What happens under the mutex is one step.

**`ThreadPool`** (`thread/thread_pool.c`). Callers that create jobs and wait for
them, workers, and the owner who frees the pool. One action per atomic operation of
the free list and of the ring; the two counting semaphores (tinycsem, not in the
repository) are counters with a maximum. The file does not compile at this commit:
its structures are declared nowhere, and their fields are taken from their uses. The
ghost `mishap` records what has gone wrong between the threads, so that a property
can say what holds until then; the model ends a little after memory was damaged. The
signal of `pending` and the read of `gen` for the id at the end of `create_job` are one
step: only a wait on this very id changes the `gen` of a joinable job.

**`Log`** (`misc/log.c`). Writers (`log_write2`: create and link a buffer by
compare-and-swap, check for room, wake the flush thread, take from the semaphore,
push), the flush thread (timed wait, two peeks, write, pop, signal, per buffer of
the list it loaded; a last pass after termination) and `log_quit`. Bytes are pairs
of a writer and a number, so that the file's order can be judged. The file is one
sequence that every pass appends to: that is Linux. On Windows `os_open` (`log.c:79`)
neither appends nor seeks, and each pass overwrites what the one before it wrote.

**`HashMap`, `RefMap`** (`hashmap/hash_map.c`, `hash_map_ref.c`). The open-addressed
pool with its perturbed probe sequence as a function of the hash, tombstones, and
the resize. `hung` records a call that never returns: a probe without an end, or a
resize that locks the mutex again (`recursive` says whether the platform's mutex
allows that). `RefMap` is the reference map of the repository's own test.

**`Buddy`** (`alloc/buddy.c`). The layout computed by `buddy_startup`, the free
lists as sequences, one bit tree per page, and the blocks callers hold (ghost).
Splitting and merging are whole calls. Pointers given to `buddy_free` are aligned to
their block; the code does not look (`block_info_index` shifts the low bits away,
`buddy.c:571-572`) and would take one that is not for the block it points into.

**`ByteQueue`, `TcpHandle`, `TcpServer`** (`tcp/byte_queue.c`, `tcp/tcp.c`).
`ByteQueue` keeps head, size and content; a resize that leaves `head` as it was
reads garbage, as the code does. `TcpHandle` packs and unpacks handles bit by bit.
`TcpServer` is `tcp_server_create`, `_delete`, `_poll` (one action per turn of its
accept, input and output loops), `_event`, and `tcp_client_close`, `_read`,
`_write`. The peers and the sockets are external: they connect, send, finish,
reset, and take bytes in portions. After `tcp_server_delete` the caller still has the
handles it took (`stale`) and may use them on the next server. Its structures are given
their first values at the delete; the code does so in the next `tcp_server_create`, and
reads none of them in between.

**`TcpClient`** (`tcp/tcp.c`, the rest). The static table of clients: create, poll
(one action per `recv`, one for the rest of the input part, one for the output part,
with the network acting in between), event, read, write and close. Two flags take
the place of the event queue, and a handle's generation is not compared. `moved`,
uninitialised when `recv` fails, is an arbitrary choice. That `poll` fails, on EINTR for
instance, and the client aborts (`tcp.c:797`) is left out. `MCTcp` runs the server or
the clients, which share only code.

**`GapBuffer`, `RefText`** (`gap_buffer/gap_buffer.c`). The array with its gap, on
real bytes: the UTF-8 decoder, the search for symbols in both directions, insertion
with and without relocation, removal, relative and absolute moves, cloning, and the
iterator over lines, which the text may not change under. A failing assert is
recorded in `gapAbort`. `RefText` is what the header and `gap_buffer/README.md` promise,
a sequence of symbols with a cursor; the mapping decodes the bytes before and after the
gap. A relocation is promised to insert like the other calls, and does not: the whole
refinement (`ImplementsRefText`) is refuted, and `EditsAsRefText` says that only the
relocation of a text that is not empty breaks it.

**`HttpRequest`** (`http/parse.c`, `http/server.c:569-608`). `parse_request_head`, one
action for the request line and one per header, then the length of the body. A head
is a sequence of tokens of one byte each; `SIZE_MAX` is a constant, so that the
overflow test and the wrap of the sum are reached.

**`QueryString`** (`http/query_string.c`). `get_query_string_param`, one action per
turn of its loop, with the scanner that decodes (`Parse`) and the one that skips
(`Skip`) as recursive operators on ASCII codes.

**`StaticFiles`** (`http/path.c`, `http/send_static.c`). The path component by
component, the prefix, and the calls of the file system, each of which may fail.
Allocation of the first buffer succeeds; `open` interrupted by a signal is repeated
and not a step.

**`AsyncIo`** (`asyncio/io.c`). Both back ends, chosen in the initial state.
Resources, operation structures, the submission queue, requests in flight,
completions, descriptors. The kernel completes requests in any order. Two things
in the code make later events untrustworthy, and a third a caller's mistake the
code invites; the ghost `spoiled` records them (section 6).

**`HttpServer`** (`http/server.c`). `server` is `struct server`: the client
structures, the poll entries `ps` (without the listening socket), the indices `pis`,
the stack `free` and the queue. `pc` says whether the server is in its caller, in
`http_server_wait_request`, or in the loop of `process_io`, of which every turn is
one action. The unit of input is a request head or a byte of a body; the unit of
output is a status line, a header, the Content-Length with the end of the head, or a
byte of content, each tagged with the request it answers. The parser is a verdict on
each head (well formed with a body length and a minor version, or malformed). The
caller may use any handle it ever got, in any order, and leave requests unanswered
while it waits for others. A header it adds goes out as it is, whatever its name
(section 6). A socket that is not writable is
one that takes nothing. Fields of a response that is over are given fixed values
when handles are invalidated (`Unset`); the code sets them again before it reads
them. The exception is `keepalive`, which HTTP/1.0 responses read without setting:
its first value is arbitrary. Ghosts: `known` (handles given out), `hist` (requests
popped, appends), `early` and `lost` (section 6). The file does not link at this
commit: half of its functions were renamed and their calls were not. `append_output`
is read as `http_server_append_output`, and so on.

## 4. Runs

Deadlock is checked except where noted. The passing runs take from a second to
about three minutes each. Components that share nothing are checked in
one run: a variable `subject` says whose behaviour it is.

| Run | Instance | What it shows |
|---|---|---|
| `mpmc_queue` | 2 producers, 2 consumers, 2 items, ring of 2, indices up to 3, `int` of 4 values, 64-bit of 16 | asserts never fail; claims are disjoint and still valid when used; a cell has one user; implements `BoundedFifo`; a call that claimed an index returns |
| `spsc_queue` | ring of 4, batches of up to 3, 9 items | order of the stream, and what `size` and `peek_0` report can be popped; no cell is written while read, and the two pieces cover the queued items |
| `spmc_queue` | 2 consumers, ring of 4, 4 pushes | refutes the assert of `spmc_queue_push` |
| `thread` | semaphore: 3 threads, initial counts -1, 0, 1, 4 signals of one unit; pool: 2 callers, 2 workers and the owner, 2 structures, 3 jobs | never oversold; nobody sleeps through an available unit; jobs run once, structures and ids accounted for, nobody waits in vain, each up to the mishaps of section 6 |
| `log` | 2 writers, buffers of 4 bytes, messages of 1 and 3, 5 and 1 bytes in all | free space accounted for in both places; no unchecked push or pop is refused; `log_quit` leaves every byte in the file; order kept unless torn; writers and `log_quit` return |
| `log_torn` | 1 writer, 7 bytes | refutes that the file is always in order |
| `sequential` | map: 4 keys, 3 colliding in one way or another, 2 values, pool of 4 growing to 8; text: symbols of one to four bytes and three strings that are no text, buffers of up to 5 bytes; allocator: blocks of 2, 4 and 8 bytes, memories for no, one and two pages at different alignments, requests of 0, 1, 3, 8, 9; heads, queries and paths: every sequence of up to 5 tokens, alone or after a good request line, and those that go wrong at each place of one | every key found where its probe looks, hangs only in two known ways, results are those of `RefMap`; symbols stay whole and no assert of the gap buffer fails, its edits are those of `RefText` but for the relocation, its lines those of the text; the allocator's layout is inside the memory, blocks partition the pool, merges unlink only what is linked, bits are the held blocks, no false refusal; heads, query strings and paths mean what they say, and a static file is answered for once, whole |
| `gap_relocate` | as `sequential` | refutes that a relocating insertion keeps the text |
| `tcp` | server: 2 servers one after the other, 2 client structures, 3 connections, 3 generation bits, buffers of 2 growing; clients: 2 structures, 5 connections, 2 bytes each way | handles of the running server never name another connection, while those of the one before are used too, and descriptors are owned; order of events, in the room of the event queue; no byte lost or reordered; a close flushes; a closed and reset client is released; a stand-alone client's caller is told of data and disconnection, and asserts fail in two known ways only |
| `tcp_handles` | as above | refutes that a client's handle resolves to it |
| `async_io` | 2 resources, 2 operation structures, 2 opens, 3 operations, 1 failing call, both platforms | events match their operations; operation structures accounted for; handles faithful; each unless spoiled |
| `http_server` | 2 client structures, 3 connections: two pipelined requests, a malformed one or one with a late body, an HTTP/1.0 one; 1 header or piece of content per response | the four client tables agree; the queue holds exactly the clients with a whole head, but for one closed in the turn that queued it; responses go to their own peers, whole and in order, Content-Length never blank and right unless output went out early |

Why the bounds are enough. The queues' counters only matter modulo the ring and by
their differences, so a ring of two with three indices goes around with every
overlap of two claims; the proofs remove the bound. In the log, one writer goes
around its buffer once, which is what a wrap between two peeks needs, and the second
writer is there for the list and for the flush thread to be elsewhere. The hash
map's pool grows once and fills with tombstones. The gap buffer holds at most two
symbols of different lengths around a gap, and is relocated. The thread pool reuses
a structure for a third job; with three structures the free list's ABA appears, which
was checked once by hand (1.1 million states). Heads, queries and paths are long
enough for every limit (headers, buffer, components) to be hit and passed. Buddy has three block sizes, so
that merges cascade and stop in the middle. The TCP server has more connections than
structures, so that a structure is reused while old handles and events are about, a second server on
which the handles of the first may resolve,
and queues that are moved and resized. AsyncIo reuses both operation structures
and resources, and its descriptors are small enough to be taken for an index. The
HTTP server reuses a structure, has two clients whose entries change places, and is
crowded enough for keep-alive to be granted and refused; connections come in a fixed
order, only the first peer leaves, and a socket takes all that is offered or all but one unit, which is nothing when
there is one.

`CHECK_DEADLOCK FALSE` in `TcpServer.cfg` and `TcpHandles.cfg` because behaviours
end when a write went past its buffer or an assert failed, in `Semaphore.cfg` because
they end when the pool is freed, in `Sequential.cfg` and `GapRelocate.cfg` because a call that returned is
the end of a parser's behaviour, and in `AsyncIo.cfg` because they end at
`io_free`, at a crash, and when the bounds are used up; in `HttpServer.cfg` because
they end at `http_server_free`, at the failed assert of section 6, and in `poll`,
which has no time limit, when the peers have nothing more to send.

Every property of a passing run has a mutant: a variant of one mapped definition,
defined just before it, with a plausible mistake (a dropped guard, an off-by-one, a
missing reset), under which TLC finds the property violated.

### Fairness

- `MpmcQueue`: weak fairness for each thread inside a call. Threads are not killed
  within a call, and the operating system runs them all. Nothing is assumed about
  winning a compare-and-swap: only calls that have claimed an index are claimed to
  return.
- `Log`: the same for writers, the flush thread and `log_quit`; a timed wait times
  out, which is what makes up for lost wake-ups; and a writer that keeps trying to
  link its buffer succeeds eventually (strong fairness), as every failure is
  another writer's success and each links one buffer only.
- `TcpServer`: the caller's loop. It goes on polling, takes the events, and closes
  a client of whose disconnection it was told; this can only happen between polls,
  hence strong fairness. Nothing is assumed about the peers.

## 5. Proofs

Each proof module extends its component's module. The results hold for every value
of the constants that meets the named assumptions, in particular for any number of
threads, clients, calls and bytes: the bounds of the runs are constants without an
assumption on their size. The exception is `AsyncIo`: `AsyncAssumption` has fewer opens
and operations in all (`MaxOpens + MaxStarts`) than there are generations, so that none
comes around.

| Module | Theorem | Property of a run |
|---|---|---|
| `MpmcQueueProofs` | `AssertsHold`, `ClaimsHold`, `CellsExclusive`, `QueueImplementsFifo` (and `TypeCorrect`, `CountersOrdered`) | `NoAbort`, `Claims`, `ExclusiveCells`, `ImplementsFifo` |
| `RingProofs`, the queue | `StreamInOrder`, `AccessDisjoint` (and `PiecesAlwaysCover`, on the arithmetic shared with the log) | `InOrder`, `DisjointAccess` |
| `ThreadProofs`, the semaphore | `NeverOversold`, `WaitersAreServed` | `NotOversold`, `NoStuckWaiter` |
| `ThreadProofs`, the thread pool | `PoolIdsFaithful`, `PoolSlotsAccounted`, `PoolJobsRunOnce`, `PoolNoHang` (and `PoolInvariant`) | `IdsFaithful`, `SlotsAccounted`, `JobsRunOnce`, `NoHang` |
| `RingProofs`, the log | `SpaceIsAccounted`, `FileStaysInOrder`, `QuitDrainsBuffers` | `SpaceAccounted`, `InOrderUnlessTorn`, `QuitDrains` |
| `TcpProofs` | `HandlesAreFaithful`, `EventsInOrder`, `BytesStayInOrder`, `ClosesFlush`, `CallersAreTold`, `AbortsAreKnown` | `HandlesFaithful`, `EventOrder`, `BytesInOrder`, `CloseFlushes`, `ClientTold`, `ClientAborts` |
| `AsyncIoProofs` | `OperationsAccounted`, `HandlesAreFaithful`, `EventsAreMatched` | `OpsAccounted`, `HandlesFaithful`, `EventsMatch` |
| `ContainerProofs`, the gap buffer | `SymbolsWhole` | `SymbolsStayWhole` |
| `ContainerProofs`, the hash map | `KeysAreReachable`, `MapRefinement` | `KeysReachable`, `ImplementsRefMap` |
| `ContainerProofs`, the allocator | `BuddyPartitioned`, `BuddyNoFalseFailure` (and `BuddyInvariant`) | `Partition`, `NoFalseFailure` |
| `HttpProofs` | `ServerTables`, `ServerQueue` (and `HttpInvariant`) | `TablesAgree`, `QueueFaithful` |

`ArithmeticLemmas` has what they share: quotients and remainders are unique, `%` is
injective on a window, and every set of naturals that is not empty has a least
element. The last takes the place of induction: a least counterexample is refuted.
From it follow `Recursion` and `CountingUp`, for what a recursive function computes.

**`MpmcQueueProofs`**, for any number of threads, any positive ring size, any integer
widths and any number of calls. The inductive invariant is `TypeOK`, `CounterOrder`
and `Claims`, with the fact that neither assert failed. `CounterOrder` alone is not
inductive: that the compare-and-swap on `temp_tail` leaves room needs to know that
the room seen by the loop was there (`Claims`: the index is below `temp_head + Size`
while waiting to swap, and `temp_head` only grows); that `tail` does not pass
`temp_tail` needs the pushes in flight to own distinct indices between them.
`CellsExclusive` and `QueueImplementsFifo` assume `PowerOfTwoSize`: the size divides
the ranges of `int` and of a 64-bit word, that is, it is a power of two. It is a real
condition on the callers (section 6). The refinement also needs `Copied`: a push that
has copied its item finds it in its cell until `tail` moves, as no two live indices
share one. Every step of the queue then is one of `BoundedFifo` or a stutter.

**`RingProofs`**, on the queue, for any capacity and any batches. The invariant (`QueueInv`) says
that the counters are at most a capacity apart, that what each side loaded of the
other's counter errs on the safe side (`PushKnows`, `PopKnows`), that cell `i % Cap`
holds item `i` for every queued `i` (`CellContents`), and that the consumer has read the
numbers so far (`ReadSoFar`).

**`ThreadProofs`**, on the semaphore, for any finite number of threads. `NeverOversold` follows from
`Balance`: the count is what there was, plus what was signalled, minus what was taken,
and not negative once something was taken. `WaitersAreServed` (calls with one unit)
needs to count: as long as somebody sleeps, at least as many threads are awake in the
loop as there are units (`EnoughAwake`). A signal adds one of each, a successful wait
takes one of each, and a thread only falls asleep when there is none.

On the pool, for any finite number of callers and workers, at least one worker, any
number of structures and any bound on the jobs (`PoolAssumption`). Callers, workers and
the owner are different threads: jobs whose function itself creates jobs or waits for
some are outside the model. The inductive invariant `PoolInv` has two layers, as what
the threads share can be damaged (section 6). Whatever happened: a thread that works
with a structure has one (`HaveJobs`), the owner frees the pool after the last call
(`OwnerAlone`), something unwritten is popped only after two pushes overlapped or the
ring was overrun, and the ring is overrun only by `job_system_free` (`UnwrittenBlamed`,
`OverrunBlamed`); while no signal is lost, there are enough of them left for the workers
that have to stop and the jobs in the ring (`EnoughUnlessDamage`). As long as nothing has
gone wrong (`CleanInv`):

- the links from `free_jobs` form a stack without repetition, as high as `complete` and
  the pops and pushes under way say (`FreeList`); an exchange that succeeds takes the top
  off or puts one on, or else is the ABA problem, which is a mishap;
- each structure is on the list, with one thread, in one unread place of the ring, or
  named by an id (`Owned`, `Total`); no two hold the same job (`Numbered`), and those in
  the ring or with a worker have not been run (`ToRun`);
- an id whose generation is the one of its structure names the job in it (`Ids`), and
  `joinable_count` counts these ids and the joinable jobs about to have one or just
  freed (`Counted`);
- the places from the head on are those acquired and not popped (`Window`), the signals
  and the pops under way are not more than the unread places (`Promised`), and the -1s of
  `job_system_free` come after every job (`StopsLast`).

None of the four properties is inductive alone. That no caller overruns the ring is a
pigeonhole argument: its places in use name different structures, of which there are as
many as the ring has places, and the caller holds one more. That the place a worker pops
is written needs `Promised`: something is unread, and while pushes do not overlap only
the last place acquired can be unwritten.
`NoHang` counts: if every worker waits, there is no signal, so no job is left in the ring
and no worker has yet to stop; every job that somebody waits for was then run, and with
every structure accounted for a caller that waits for one finds them all held by joinable
jobs. The free list is defined without recursion, as the least set closed under the
links, which lets it be reasoned about.

**`RingProofs`**, on the log, for any number of writers, any capacity and any message sizes
(`SizesAssumption`: naturals). The accounts of a buffer (`Accounts`) are not inductive
by themselves: `WriterKnows` adds that behind the stale head a writer loaded there is
room for its message, `FlushKnows` that the two pieces the flush thread peeked at are
still in the buffer when it pops them, although the second was peeked at later than the
first. So the push and the pop whose results `log.c` ignores are never refused.

What is in the file rests on these accounts. `FileInv` says that a byte's number is its
index in the queue and that it lies where the index says (`Contents`), that the first
piece starts at the head and the second goes on where it ends unless it was torn off
(`PiecesFollow`), and that the file has as many bytes of a writer as were popped or are
about to be (`FileCounts`), in order unless torn. `QuitInv` is about the end: a buffer
with anything in it is in the list (`BuffersLinked`), the last pass of the flush thread
begins after the writers' last calls (`Phases`), and in it every buffer is empty or yet
to be visited, and a visit takes all there is (`Drains`), as the tail stands still between
the two peeks. That `log_quit` returns at all is liveness and stays with TLC.

**`AsyncIoProofs`**, on both platforms, for any tables, descriptors and callbacks
(`AsyncAssumption`). The invariant has two layers. Whatever happens, the pending count
of a resource is at most the number of operation structures in use on it, which is what
`close_internal`'s loop needs. Until the context is spoiled: structures in use and
requests correspond one to one (`Correspondence`), counts are exact (`CountsExact`), a
structure in use holds what its call asked for and no event has told of it (`Requests`),
open descriptors belong to one resource each (`Descriptors`), and a handle's generation
is the present one of its slot exactly if it was not closed (`Generations`). The three properties are not inductive one by one:
that an event matches its operation needs the correspondence, which needs the exact
counts at a close, which needs the handles.

**`TcpProofs`**, on the server, for any number of connections and client structures, and any
width of generations that leaves the bit shared by index and generation alone
(`ServerAssumption`: fewer clients than half the generations; as `count` never goes
down, a generation stays at or below it). `PowersAssumption` in `TcpHandle` states two
facts about powers of two that the provers do not know; TLC evaluates it. `IndInv` says
that structures, descriptors and accepted connections correspond (`Table`, `Owned`),
that each handle about was made for a generation its structure has reached and, if it
is the present one, for the present connection (`Named`), and that the clients a loop
of `tcp_server_poll` has yet to look at are not free (`Polling`). Handles of deleted
servers (`stale`) were made by one, and that is all the proof knows of them: what a call
through one does to whichever client it resolves to keeps the invariant, and nothing is
claimed of which client that is (section 6). The order of events
adds `TellInv`: only clients that hung up were told of their end (`ToldInv`), the loops
do not come to such a client again (`HangsUpOnce`), and the events so far and those the
loops may still push fit into the queue (`Room`, which counts the clients the loop has
passed).

The bytes add `ByteInv`, which holds together with `IndInv`: a connection that was not
accepted exchanged nothing and its pending bytes count from 1 (`Unopened`, which is what
`Accept` starts a client's streams from), every queue stays inside its memory, and for
each client what was read, queued and is pending counts up, as does what its peer got
with what is queued for it (`Stream`). After a write past its buffer only the last is
claimed, and that a partly read queue was resized. `IndInv` is needed because a step on
one client's queues must not be a step on another's connection. `ServerAssumption` says
that the sizes of segments and writes are natural numbers. `ClosesFlush` follows from the
same steps: `Stream` with an empty output queue says that the peer got everything. It
speaks of clients of one server (`used` before and after): `tcp_server_create` makes
the structures of a server that was deleted free again, and `tcp_server_delete` closes
without flushing.

On the stand-alone clients `TcpProofs` assumes nothing but that the sizes are natural
numbers (`ClientAssumption`). `ClientInv` adds to the two properties what makes them
inductive: the bytes of a connection that was not reset are all accounted for, so that
the next one the peer sends is the next number (`Counted`); while a poll is in its
input part, bytes it has moved stand for the event it has not set yet (`HasMoved`); the
output part is only entered for `POLLOUT` when there is output (`PollKnows`), which
explains the assert; structures in use and open connections correspond (`LinksOwned`);
and the caller has one handle for each connection (`HandlesReach`), so that a close
frees no other one's structure. About `ByteQueue` it is proved that making room, writing
and reading keep a queue inside its memory and, unless a partly read queue is resized,
the bytes in it.

**`ContainerProofs`**, the gap buffer, for memory of any size, any texts, any byte strings that are none and
counts of any size (`GapAssumption` says that they are texts, bytes and numbers; nothing
else). The invariant is `BufferOK`: the gap lies inside the array, and the bytes before
it and the bytes behind it are each whole symbols (`Whole`: the first byte starts a
symbol, and where one starts its auxiliary bytes follow, as many as its first byte tells,
and then the next symbol or the end). That no assert failed is not inductive without it:
an assert fails long after the step that put the gap, or half a symbol, in the wrong
place. The argument has four parts.

- A text cut between two symbols leaves two whole texts (`WholeSplit`), two that follow
  one another make one (`WholeJoin`), and copying one leaves it whole (`WholeCopy`): all
  that the `memcpy` and `memmove` of the file do.
- What `isValidUTF8` accepts is whole symbols (`ValidIsWhole`): the length that
  `getSymbolRune` returns is the one that `getSymbolLengthFromFirstByte` tells, and it
  returns none for a string that starts with an auxiliary byte.
- `getPrecedingSymbol`, `getFollowingSymbol` and the loop of `GapBuffer_moveAbsolute` stop
  between two symbols (`PrecedingBoundary`, `FollowingBoundary`, `AbsoluteBoundary`), the
  last one on either side of the gap and never at its start when the gap is not empty.
- Each call keeps `BufferOK`, one lemma per call.

The loops are recursive functions in the model. The induction theorems of the library
cannot be used, so their place is taken by two lemmas of `ArithmeticLemmas`: `Recursion`,
which builds the function such a definition asks for, and `CountingUp`, both proved from a
least counterexample.

**`ContainerProofs`**, the hash map, for any keys, any hash function of any width, and a pool of any size
(`MapAssumption`: values are positive numbers, hashes are numbers that `PertSteps` shifts
by five bits use up, and powers of 32 are positive, which the provers do not know). Neither
property mentions what makes a probe end, so the proof starts there.

- From slot x, m steps of `i * 5 + 1` lead to `x + d[m] * (4 * x + 1)`, where `d[m]` is
  where they lead from slot 0 (`WalkAt`). A power of two divides an odd multiple of `d[m]`
  only if it divides m (`Period`, by halving the power: `d[2 * e] = 2 * d[e] * (2 * d[e] + 1)`).
  So in a pool whose size is a power of two no slot comes up twice within its size
  (`NoReturn`), and by counting every slot comes up (`WalkCovers`). A power of two is
  defined as a number without an odd divisor but 1, from which `Half` and `Double` follow.
- Once the shifts have used up the hash a probe is such a walk (`PathCovers`): one that does
  not stop has seen that no slot is UNUSED (`EndlessFull`).
- The inductive invariant is `Sound`: every USED slot is the first on its key's path that is
  UNUSED or has this key. An insertion into the first free slot, which may lie before the
  place where its probe stops, keeps it for the new key and for all others (`InsertFresh`);
  a removal does because a DELETED slot stops no probe (`RemoveItem`).
- `resize` is a recursive function over the old slots. After j slots the new pool is
  `Sound`, has no DELETED slot, at most j USED ones, and holds what the first j slots held
  (`Moved`); so there is room for the next one (`RoomLeft`), and for the insertion that asked
  for the resize.
- A `Sound` pool stands for one map (`MapOf`), which an insertion, a removal and a resize
  change as `hash_map_ref.c` does, and which has as many keys as slots are USED (`MapOfCount`).

**`ContainerProofs`**, the allocator, for pages and blocks of any size, any memory and any
calls (`BuddyAssumption`; it says that a power of two is twice the one before, which the
provers do not know). The invariant `BuddyInv` relates the lists, the bits and the held
blocks: lists are of blocks of their size, without repetition (`AreLists`), held and free
blocks tile the pages (`Tiled`), no two free siblings are left side by side (`Merged`), and
the bits are set for the held blocks (`BitsFor`). `Merged` does not follow from
`Partition`, and both theorems need it.

- Two blocks are nested or disjoint (`Nested`), and a block has a bit of its own in its
  page's tree (`BitInjective`).
- A block with no held block inside, and inside no larger block of the tiling, is free
  itself (`FreeWhole`): else the smallest of the free blocks that tile it would have a free
  sibling. So the
  sibling that `buddy_free` merges with is in its list, which is the assert of line 821,
  and a request that finds no list with a block large enough has every block of its size
  in part held.
- A split and a merge exchange some blocks of the tiling for others of the same bytes
  (`Exchange`). The layout (`LayoutLemma`): what the loop of `buddy_startup` stops at is
  the largest number of pages that fits.

**`HttpProofs`**, for any number of client structures, any connections, any requests and
any sizes of partial sends the model has. The theorems have a hypothesis, `[]NoWrap`: no
client structure has been used so often that its generation starts at 0 again, which takes
65535 responses and closes. Without it they are false for a caller that keeps handles:
when the generation has come around an old handle resolves again, to a structure that may
be free or queued, and `http_server_set_status` gives it another state. The run has it:
its counts are far below `GenLimit`. The invariant is `HttpInv`, in five parts.

- `Tables`: the structures in `pis` are where their `pitem` says, the others are on the
  stack `free`, once each, and `C_FREE`. The delicate step is `close_client`, which moves
  the last entry of `ps` and `pis` into the gap; the moved client may be the closed one
  (`CloseTables`).
- `Links`: an open connection waits to be accepted or has exactly one entry in `ps`, and
  entries are of open connections only. It is stated with the number of connections
  already taken from the backlog, so that it holds inside the accept loop as well, which
  is a recursive function of the model (`AcceptLoop`); `CountingUp` gives it for each turn.
- `Handles`: a handle has at most the generation of its structure, and one that has it
  names a client whose response is being built. Only so do the response calls leave queued
  and free structures alone. `invalidate_handles` is what keeps it.
- `Queue`: which clients are in the queue and why (`InQueue`); a client in `C_IDLE` has no
  whole head. A structure that was closed while queued is `C_FREE` and in the ghost `lost`;
  it could be accepted again while it still is in the queue, were the queue not empty
  whenever `poll` is called, which the proof needs and `http_server_wait_request` ensures.
- `Loop`: the clients that the loop of `process_io` has yet to look at are not queued, so a
  client is queued once. A close moves the last of them to the place of the current one,
  and the index stays.

A step changes one client, closes one, or accepts one. The lemmas about the first
(`TouchTables`, `TouchLinks`, `TouchHandles`, `TouchQueue`, `TouchPush`, `TouchPop`) are
used by every action of the response builder.

Only model-checked, and why:

- liveness under fairness and everything with `ENABLED` (outside the prover's reach):
  `ClaimedCallReturns`, `CallsReturn`, `ClosedIsReleased`;
- `QueryString`: recursive operators, about which nothing can be proved;
- `HttpRequest`, and `LinesFaithful` and `EditsAsRefText` of `GapBuffer`: what they
  compute is defined by recursion over their input, or by a fold, and the reference as
  well;
- `ResponsesInOrder` of `HttpServer` and `StaticFiles`: not done.

## 6. What the models found

Refuted by a run:

- `spmc_queue.c:31` adds `tail` to `tail` instead of 1: the assert on the size fails.
- `log.c:209`: the two peeks load the tail separately; a push that wraps in between
  puts bytes into the file out of order and skips others.
- `tcp.c:119`: index and generation share bit 12 of a handle. A client at an odd index
  cannot be named, against the layout in the comment at `tcp.c:104`.
- `gap_buffer.c:620`: `GapBuffer_insertStringMaybeRelocate` drops the old text when it
  relocates, against `gap_buffer/README.md:153`.

Not a run's subject, met while modelling:

- `mpmc_queue`: after 2^32 pushes, a size that does not divide 2^32 (the test uses
  10) makes two live indices fall on one cell.
- `test_spsc_queue.c`: the reader tests the size before `done` and may leave items
  that were pushed in between.
- `log`: `log_write` of an empty message reaches `assert(count > 0)` in
  `semaphore_wait`; a negative flush timeout turns a lost wake-up into a hang; after
  `log_quit` each thread still points to its freed buffer.
- `semaphore_t`: with mixed counts a waiter can sleep although its units are there,
  as one signal wakes one waiter; once more than the timeout has passed the remaining
  time is negative, which means no limit.
- `hash_map`: removals leave tombstones that `should_resize` does not count, until a
  probe for an absent key never ends; on Linux the resize locks the mutex again.
- `tcp`: `count` is never decremented, so a server accepts `max_clients` connections
  in its life; the comment at `tcp.c:78` says a generation is never 0, the code sets 0;
  a resized byte queue keeps its head (bytes garbled, writes past the end); `moved` is
  read uninitialised in the poll, so DATA may be announced for nothing or not at all;
  a persistent accept error keeps the poll spinning; a client closed by the caller and
  then reset by its peer needs a second close; a client's handle does not name its
  server's generation, and `tcp_server_create` starts the clients' generations at 1 again
  (`tcp.c:325-329`), so a handle kept over a delete and a create may resolve to another
  connection of the next server, or to a free structure, which fails the assert of
  `client_from_handle`.
- `tcp`, stand-alone clients: the assert at `tcp.c:829` fails when the connection is
  lost while output is unsent; DISCONNECT is reported again by every later poll; the
  generation of a handle is not compared; a close does not flush.
- `thread_pool`: `release_push_location` does not wait for earlier places, as its
  comment says, so pushes that overlap are published out of order and a worker may pop
  a place nobody wrote; a pop that sleeps for a lap takes an old item; the free list
  has the ABA problem from three structures on; freeing the pool overruns a ring with
  pending jobs and loses signals when `pending` is at its maximum; the semaphore of a
  detached job is freed although it was never initialised; the last structure's `gen`
  is not initialised.
- `gap_buffer`: a line on both sides of the gap and
  longer than 512 bytes is cut; 0xF8 to 0xFF are taken for first bytes of four-byte
  symbols; the comment of `getFollowingSymbol` says 0 where the code returns the end
  of the text. The asserts marked "This triggers sometimes" hold in every state reached.
- `http` parsers: `head_len + content_length` can wrap (`server.c:608`); `to_lower`
  changes every character, so header names are compared exactly; every
  Transfer-Encoding is an error, as the loop never ends well; headers beyond
  `MAX_HEADERS` are dropped and a header's name may span lines; the hexadecimal letters
  decode to 0 to 5; `return -1` at `query_string.c:86` is true; `sanitize_path` of `/`
  gives an empty path, against its comment; a prefix is compared as text, not by
  component; `send_file` says 200 before a read can fail; `send_file_md` does not store
  the buffer it reallocates, so longer Markdown is cut or read from freed memory;
  `get_cookie` looks for a header with the cookie's name; `match_path_format` returns
  0, which means a match, when two components of one length differ.
- `asyncio`: a close with operations under way leaves completions that read a NULL
  resource or end another operation; a failed `io_uring_enter` leaves its entry queued
  and every later submission one behind; a Linux accept gives a raw descriptor as if it
  were a handle, and `example2.c` closes with it whatever resource has that index; on
  Windows `io_send` calls `ReadFile`, and an accepted socket is not associated with the
  completion port, so nothing on it is ever reported.
- `http/server`: `parse_header` makes a header's name the whole text (`server.c:667`), so
  `http_server_append_header` recognises neither Content-Length nor Connection: the
  caller's Content-Length goes out beside the computed one and may contradict it, and
  `connheader` is never set; `remove_queued_client` is a TODO, so a client that `socket_input`
  queues and `socket_output` closes in the same turn is popped later without input,
  and the assert at `server.c:570` fails (`lost`); `content_offset` is not moved when
  output is sent between two appends of content, which makes Content-Length wrong or
  negative (`early`); a request whose body is late is never looked at again
  (`server.c:609`); `client_from_handle` compares a structure's index with the number
  of clients, so responses through a valid handle can be dropped; `http_server_free`
  closes only the first half of the clients, as each close moves the last one into the gap;
  `http_server_init` returns -1, that is true, on failure; `keepalive` is read
  uninitialised or stale for HTTP/1.0.

## 7. What is not modelled

- `alloc/pool`: unfinished. The cursor that lays out a page's slots is never moved past
  a slot, so the second `pool_alloc_get` on a page follows a null pointer.
- `http/cookie` and `match_path_format`: pure functions that nothing calls.
- The table of MIME types, the HTML of a directory listing, and smu, which is not in the
  repository.
- `bits`, `time`, `misc/file`, `misc/sqlite3_utils`, `graphics`, `thread/thread` and
  `alloc/os_alloc`: wrappers and bit tricks without a protocol. The mutex and the
  condition variable of `thread/sync` are external where semaphore and log use them.
- `http/server`: `start_server_ipv4`'s calls of the operating system, and the
  composition with `HttpRequest`: the server model takes a verdict on each head, the
  parser model says which.

Memory is sequentially consistent in every model: the code uses sequentially consistent
atomics throughout. Allocation failures are left out where the code aborts on them.
