# Verification of the course servers in TLA+

The repository is a semester of systems-programming work in C: an event-driven
and a threaded web server, echo servers built on a shared buffer, on `select`
and on `fork`, a DNS server and a resolver, a cache simulator and many small
exercises. This directory holds TLA+ models of its servers, of the DNS pair and of
the cache lab, the TLC runs that check them on small instances, and TLAPS proofs
of their main invariants for every value of the constants.

## 1. Inventory

| Component | State it keeps | Operations | Interacts through |
|---|---|---|---|
| `hw/hw9/sbuf.c` shared buffer | `buf`, `front`, `rear`, semaphores `mutex`, `slots`, `items` | `sbuf_insert`, `sbuf_remove` | shared memory of the threads that call it |
| `hw/hw9/echoservert_pre.c`, `echo_cnt.c` prethreaded echo | the sbuf, `once`, `byte_cnt` and its mutex, each worker's descriptor | accept and insert; remove, echo lines, close | sbuf; sockets |
| `labs/threaded-webserver` | `server_running`, `w_mutex`, `q_not_full`, `q_not_empty`, `queue`, `q_size` | main: wait, accept, push; worker: wait, pop, serve; SIGINT | the queue; `pthread_kill`; sockets |
| `labs/event-webserver` | a `client_t` per client, `clients[]`, epoll registrations | `receive_requests`, `send_responses`, accept, sweep, SIGINT | epoll events; sockets |
| `labs/dnsserverlab-handout` | `cachedb` with expiry times | look a question up, follow CNAMEs, build the reply | UDP datagrams |
| `labs/dnsresolverlab-handout` | one query | encode, send, wait, decode | UDP datagrams |
| `hw/hw8/echoservers.c` | the `pool`: descriptors, read set, buffered readers | add a client, check clients | `select`; sockets |
| `hw/hw9/csapp.c` (RIO) | `rio_t` buffers | `rio_read`, `rio_readlineb`, `rio_writen` | descriptors |
| `labs/cachelab/csim.c`, `trans.c` | sets of lines with counters; matrices | access; transpose | `tracegen` runs a kernel and records its accesses; `csim-ref` counts the misses |
| `hw/hw8/echoserveri.c`, `echoserverp.c`, `hw/hw9/echoservert.c` | `connfd`, in main, in a child or in a heap cell | accept, hand over, echo, close, reap | descriptors inherited by `fork`; SIGCHLD; sockets |
| `labs/webserver-handout` | one process per connection, a request buffer | accept, fork, receive, parse, answer | the same |
| `src/epoll_server_example.c` | as the event server, echoing | as the event server | epoll |
| exercises (`easyread`, `simple_im`, `lab1/bits.c`, `hw7`, `test/`, `notes/`) | little or none | - | - |

What is hard in it: interleavings of threads around the two queues; semaphores
that must agree with the array they guard; lost wake-ups (of semaphores, of
edge-triggered events, of signals); connections that end at any moment; partial
reads and writes; limits (queue, client table, descriptors, ints); shutdown while
every thread is blocked somewhere. `PROJECT.json` lists each such hazard at its
line, with the properties that watch it.

What makes each component correct:

* the buffer is a bounded FIFO that loses, repeats and overwrites nothing, and
  whoever can be served is served;
* the prethreaded server gives each descriptor to one worker, counts exactly and
  serves every client;
* the thread pool's semaphores match its queue, clients are served in order by one
  worker each, and `^C` ends it;
* the event server answers each request whole and in order however the bytes
  arrive, never loses an edge, keeps its table exact, closes idle clients only,
  and ends on `^C`;
* the select pool agrees with the connections, passes no ready client over and
  echoes every line;
* the DNS server answers with a chain of records that had not expired and denies only
  what it does not have; the resolver prints the address its name leads to, whatever
  the network does, and ends unless a datagram is lost;
* the cache simulator counts as a set-associative cache does; a transpose kernel
  transposes, stores nothing outside its matrix and misses as rarely as promised;
* a server that gives each connection to a reader mixes no two clients up, ends every
  connection it has served and reaps every child; the epoll example echoes every unit
  it is sent, loses none and misses no edge; `handle_client` answers each request, with
  its status and its file, and none wrongly.

## 2. Plan

The modules, in the order in which they were written:

1. the shared buffer and its server, the thread pool, the event server, the select
   server: `BoundedFifo` (abstract), `SBuf`, `PrethreadedEcho`, `ThreadedServer`,
   `EventServer`, `SelectPool`, with `ThreadCounts` as a shared vocabulary; proofs in
   `PrethreadedEchoProofs` (also those of `SBuf`), `ThreadedServerProofs`,
   `ThreadCountsProofs`, `EventServerProofs`, `SelectPoolProofs`;
2. the cache lab: `BlockCache` (abstract), `CacheSim`, `Transpose`; the DNS pair:
   `DnsNetwork`, `DnsServer`, `DnsResolver`, composed in `DnsSystem`; the other servers:
   `PerConnection`, `EpollEcho`, `HttpHandler`; proofs in `CacheLabProofs`,
   `ServersProofs` (of these three) and `DnsServerProofs`;
3. still worth modelling: `simple_im`, `easyread`, and the bit puzzles as operators on
   words.

`PrethreadedEcho` EXTENDS `SBuf` and uses its actions as they are. `SBuf` and
`ThreadedServer` both implement `BoundedFifo`, and `CacheSim` implements `BlockCache`,
through INSTANCE ... WITH.

## 3. The models

**BoundedFifo.** What a caller of a bounded queue may rely on: an item is offered,
put at the end if there is room, asked for, taken from the front, released.

**SBuf** (`hw/hw9/sbuf.c`). One action per semaphore operation and per access
to `buf`; a thread's place is the statement it is about to execute. A `P` is an
action that is enabled when the semaphore is positive, which is what it means to
wait. `front` and `rear` are ints that wrap at `INT_MAX` (signed overflow is
undefined in C; wrapping is what the usual build does) and `CMod` is C's remainder.

**PrethreadedEcho** (`echoservert_pre.c`, `echo_cnt.c`). Main accepts and inserts,
the workers remove, run `pthread_once`, echo and count. `byte_cnt += n` is a load
and a store. A line counts as one. A client that resets its connection makes the
error-handling wrappers exit the process (`alive`).

**ThreadedServer** (`labs/threaded-webserver/http_server.c`). Main, the workers,
both semaphores, the mutex, the array that `push` fills and `pop` shifts, the
descriptors, the flag and the signals. A call that can block has a place before it
and a place inside it, because a signal only interrupts the second. A request and
its answer are one unit each. `dropped` is history: the clients that a worker has given up
without closing their socket (285, 294). `OneHolder` is that every other client whose
socket is open has one holder, and a dropped or closed one none.

**EventServer** (`labs/event-webserver/http_server.c`). One thread. `epoll_wait`
returns all that is ready with the flags of that moment; each event is then
handled by one action, whole: receiving, parsing, building the header, switching to
output; sending headers and body until the socket is full, turning to the next
request or back to input; the hang-up test; the removal. The code of
`receive_requests` and `send_responses` is a set of operators on the `client_t`
record, composed by the actions. A request travels in two halves so that reads may
split it; the second half alone, when the first has been cleared from the buffer,
has no request line. Of epoll the model keeps what the code depends on: level
triggering for the listener, a ready list for the clients, re-evaluation on `ADD`
and `MOD`, and room announced only if a send or a poll found the socket full. Time
is each client's idle time, capped at `EXPIRE_TIME`. A client that is accepted when
`clients[]` is full has no slot; `TableExact` is that a registered client has at most
one, and has one if the table has room for everybody.
`close` of a socket with unread data resets the connection, and what the client had
not read is lost.

**SelectPool** (`hw/hw8/echoservers.c`, with the reader of `csapp.c`). One thread:
`select`, then `accept` and `add_client`, then the loop of `check_clients`, one action
per slot; a line that is not complete leaves the server in the read (`pc = "line"`).
Descriptors are numbers, the lowest free one is given, so that descriptors and slots
are used again. `check_clients` copies the reader of the pool, which is therefore
always empty: what one read brings beyond the line is lost.

**CacheSim** (`labs/cachelab/csim.c`). One action per call of `cacheSimulate`, two for
an `M` record. Set and tag are computed with the code's shifts, on ints of `WordBits`
bits; the code shifts by 64 minus something, which C does not define for an int, and
the model takes it modulo the width, as x86 does. `BlockCache` is the cache meant: a
set of resident blocks, at most so many per set, an arbitrary one evicted. `asked`,
`lastUse` and `rehit` are history: the last block asked for, the number of the access
that used each block last, and the sets that had a hit.

**Transpose** (`trans.c`, with `test-trans.c`, `tracegen.c`). One action per turn of the
loop over `i`. An element of A is its own place, so that a wrong or stale element shows.
The addresses are those of `tracegen`'s static arrays, as its build lays them out.

**DnsServer, DnsResolver, DnsNetwork, DnsSystem** (`labs/dnsserverlab-handout`,
`labs/dnsresolverlab-handout`). A datagram is a record in a set; the network may lose,
delay, reorder and, a bounded number of times, duplicate it. The server's table is
scanned one entry per action while the clock may tick. The resolver is not just the
specification's: how its `name_ascii_to_wire` counts labels decides what it asks, how
its `rr_from_wire` skips names decides whose answers it understands. The upstream server
is not of this repository: it answers from one zone, whose aliases form no cycle, and may
add a record of that zone that nobody asked for.

**PerConnection** (`hw/hw8/echoserveri.c`, `echoserverp.c`, `hw/hw9/echoservert.c`,
`labs/webserver-handout`). Main accepts and hands over; a reader is main itself, a
thread or a child, which holds copies of all of its parent's descriptors. SIGCHLD is one
bit, as it is for the kernel, and `waitpid` reaps a child at a time. `unserved` are the
clients no reader will read from: fork failed, or `getnameinfo` did. `ConnectionsEnd`
lets some clients stay for ever (`Stubborn`): a server that forks or has threads ends the
connections of all the others nevertheless. It excepts `unserved` clients, and the
iterative server while a stubborn client is with it.

**EpollEcho** (`src/epoll_server_example.c`). As the event server, with a batch of events
and the steps of one event apart: receive, switch to output, send, switch to input, end.
`EchoKept` is its safety: each unit of a client that is there is in one place, all in
order; none is thrown away when a client shuts its side down that had waited for its
echoes; and no client with something to do is forgotten when the server waits.
`EveryByteEchoed` is what follows under fairness. A close with unread input resets the
connection, as in `EventServer`; it can happen to hasty clients only.

**HttpHandler** (`handle_client` of both web servers, for one connection). The text of a
request is three units that arrive in any pieces. The threaded server puts a piece
behind as many units as the last one had; its buffer is not initialised, so that
it may begin with what a client before left. `AnswersRight` is that no answer is wrong,
`RequestsAnswered` that there is one. `Expected` is the status a request calls for, the
same for both servers: an unknown method calls for 501, although the forking server gives
it 200. Both properties except, by name, what the code does not do right (`NotCovered`):
clients that leave or whose name is not found, directories, requests torn in the wrong
places (`Torn`), and of the forking server every request but the first and those that call
for an error, an unknown method among them (`ForkingErrors`).

The map from each definition to the lines it stands for is in `PROJECT.json`.

## 4. The runs

Passing runs, each with properties that a plausible bug in the code violates:

| Run | Instance | Shows |
|---|---|---|
| `sbuf` | 2 producers, 2 consumers, 2 cells, 2 items, 4 inserts | mutual exclusion, conserved permits, no overrun, the FIFO and its progress |
| `echo` | main, 2 workers, 2 clients, one of them stubborn | one owner per descriptor; exact count under the initialisation race; every connected client is served and closed |
| `pool` | 2 workers, 3 clients, queue of 2, 2 descriptors, 1 failing accept, 1 `^C` | the queue's semaphores, lock, owners and order |
| `pool_live` | 2 workers, queue of 1, one stubborn client, 1 `^C` | clients reach a worker; a `^C` to a server at rest ends it |
| `event` | a client with 2 requests of 3 kinds, one with 1 that may reset; sockets of 1 unit; expiry, refusals | whole answers in order, exact table, no lost edge |
| `event_live` | 2 clients, a table of one slot, 1 `^C` | every request is answered; `^C` ends the server |
| `select` | 3 clients, 2 descriptors | exact pool and `nready`, no read of a client that is not ready, every line echoed |
| `cachelab` | words of 5 bits, 4 settings, 7 addresses on both sides of 0, 6 accesses; matrices of 1x1, 32x32, 64x64, 61x67 | the simulator implements the cache, evicts the oldest block of a set without hits; kernels are exact and within their targets |
| `dns` | 2 resolvers that share a port, 2 names to ask, tables of 4 records in both orders, 1 tick, 1 duplicate, an invalid request | chains of live records, sound denials, right addresses in spite of late answers, ends |
| `servers` | 2 clients with 2 lines, one of which may stay for ever, 1 failing fork; 2 epoll clients with 2 and 1 units, sockets of 1; 1 connection with 2 requests of 7 kinds, 2 blocks | own lines in order, connections end beside a client that stays, children reaped, every unit kept and echoed, answers given and right |

Runs that TLC must find violated, where a comment or a document of the repository
says otherwise (quoted in `PROJECT.json` under "findings"):

| Run | The code |
|---|---|
| `event_stall` | the second pipelined response waits for an edge that never comes |
| `select_lost` | lines that arrive together with another are dropped with the copied reader |

**Bounds.** Two cells and four inserts wrap both indices and let each pair of calls
overlap; a third thread of a kind adds no new pair of places because the
threads meet only in the semaphores and the array. One producer suffices where
the code has one (main). A socket of one unit makes each response stop on EAGAIN
at least once, and two halves make each read end inside a request. Two requests
on one connection reach its reuse of a connection. `MaxCalls`, `MaxLines`, `MaxRequests`,
`MaxSigints`, `MaxLost`, `MaxSent`, `MaxRefused` (number of calls, lines, requests,
signals, failed accepts and refused clients) bound what the environment does,
and `MaxAccesses`, `MaxTime`, `MaxDuplicates`, `MaxForkFailures`, `MaxUnits` and
`MaxRefusals` do in the other modules; nothing else is bounded. Six
accesses fill a set of two or three lines, hit in it and evict from it twice. Two
resolvers and one port let an answer come late to the next process; a table of four
holds an alias of an alias and two records of one name, of which one expires. Two
lines tell a mixed-up client from its neighbour; two children end before one SIGCHLD is
handled. Two requests on a connection reach the buffer of the request before, and three
units have every tearing that matters: within the request line, behind it, and none.
The runs `cachelab` and `servers` hold programs that share nothing, side by side: a
behaviour is one of one of them. The clock of the event server runs in the run `event`
only (`Ticking`): the liveness runs are about clients that are not
idle for `EXPIRE_TIME`. Deadlock is not checked: all these systems may stop, when
clients stop coming or the process has ended.

**Fairness.** Weak fairness of each thread's steps: the scheduler runs a runnable thread.
For the event server also of `epoll_wait`'s timeout, which is one of the server's steps,
and of clients that read what they are sent; and strong fairness of `AcceptClient`,
because the kernel serves the backlog in turn and a shortage of descriptors does not last
for ever. Clients of the threaded servers that are not `Stubborn` leave some day, those of
`PerConnection` too, and clients of the select server finish the lines they begin or hang
up, for it waits inside a line. No order among the waiters of a semaphore or a mutex is
assumed, and for the threads no strong fairness. In the run `servers` one weak fairness
covers all steps of the servers and what their clients owe (`FairStep`): each of these
steps is taken finitely often, so that this is fairness to each; the one exception, the
loop that sends a directory, runs for ever alone on its connection. In `dns` the server
runs, a resolver takes an answer that has come, and the network delivers what it does not
lose; it may always lose.

## 5. The proofs

The shared buffer, in the first half of `PrethreadedEchoProofs` (all constants; assuming
`SBufAssumption` and `MaxCalls <= INT_MAX`, that is, before `++rear` overflows its int and
the remainder turns negative):

* `IInv` adds to the type invariant: each of `rear` and `front` is non-negative,
  `mutex` plus the threads in the critical section is 1, `slots` and
  `items` plus the threads that hold a permit account for the N cells
  (`PermitsConserved`), and `rear` plus the inserts under way is the number of calls.
  Without the accounts the bounds of the semaphores are not inductive, and without
  the count of calls neither is the range of `rear`. TLC agrees that `IInv` holds in
  the instance of the run `sbuf`.
* `TypeCorrect`, `Exclusion`, `Conservation`, `OverrunFree` follow. `FifoRefinement`
  shows that the write is `Put`, the read is `Take`, the returns are `Release` and
  everything else a stutter; its core are `CellsDiffer` (the live cells are distinct
  modulo N), `WriteAppends` and `ReadTakesHead`.
* `ThreadCountsProofs` proves once how the number of threads at a set of places
  changes when one thread moves; every accounting argument cites it.

The prethreaded server, in the second half (all constants): every step of the server is a
step of the buffer or leaves it alone (`ServerUsesBuffer`), so all theorems about the
buffer hold inside the server, without another proof. `EveryLineCounted` needs
`CounterInv`: nobody passes `pthread_once` before the one initialisation has ended, one
worker is between `P` and `V` of the counter's mutex, and what it has loaded is still the
value of `byte_cnt`. `OneOwnerAtATime` counts the hands an open connection is in: main
before the write, a cell between write and read, a worker from the read to the close; each
handing-over takes one away and adds one. It inherits `MaxCalls <= INT_MAX` from the
buffer.

`ThreadedServerProofs` (all constants): `IInv` is type, `LockHeld` and
`PermitsConserved`. Each action changes the two accounts on both sides by the same
amount (`NextLedger`), which bounds the semaphores and `q_size`; the lock determines
who is between lock and unlock (`NextLock`); `InBounds` then follows from the
accounts: at the push main holds a permit, at the pop the worker a token.
The types and the bounds of the array (`TypeCorrect`, `InBounds`) are proved for every
instance; the run `pool` checks the properties they follow from.
`FifoRefinement` maps push and pop to `Put` and `Take`, signals, failed accepts and
dropped clients to stutters. `OneHolderAtATime` needs `HeldInv`, which says at
which places main, a worker or a cell of the array has a client, and counts hands as
above: an open client that was not dropped has one, a dropped or closed one has none.

`EventServerProofs` (all constants, from `EventAssumption`; no fairness). `IInv` is about
each client that waits for its answers before it sends again, and about the table:

* `Shape` and `TableInv`: the types, a slot per registered client, no event of a freed one.
* `Served`: such a client is `AtRest`, `Underway` (a request is partly sent, queued or in
  the buffer) or `Answering` (what it has read, what is in its socket and what `send_buf`
  and the file still hold are together the answers to what it has sent).
* `Alert`: if there is something for the server to do for it, its event is on the ready
  list or in the batch, or its socket will announce room.

`SendProgresses` and `ReceiveWhole` say what `send_responses` and `receive_requests` do to a
client in such a state, and the actions follow from them. The answers to a sequence of
requests are a `FlattenSeq`; how it grows by one request is shown in `JoinsLonger` and
`FlattenIs`. `TableIsKept`, `AnswersStayInOrder` and `EdgesAreKept` follow. TLC
agrees that `IInv` holds in the instance of the run `event`. Clients that pipeline are
left out of `Served`, as they are of the properties: the run `event_stall` shows why.

`SelectPoolProofs` (all constants; from `SelectAssumption`, that is, no more descriptors
than slots): `IInv` is `PoolInv` (open clients, their descriptors and the slots in use are
one to one; `read_set`, `maxi` and `maxfd` fit them), `ReadyInv` (every ready slot that
the loop has not come to belongs to a client that has input; while the listening
descriptor is waiting, nothing else can have been given again), `CountInv` (`nready` is
the number of those slots, one more before accept) and `ReadyHasData` itself. `FreeSlot`
shows by the pigeonhole principle that `add_client` finds a slot whenever accept has a
descriptor, `LeastIs` that the lowest free one exists, and `ReadySlots` that there are as
many ready slots as ready descriptors. `PoolIsExact`, `ReadyCounted` and `NeverReadsIdle`
follow. TLC agrees that `IInv` holds in the instance of the run `select`. `DataOK` is the
type invariant, as far as the others need it. `EchoesAll` needs `EchoInv`: what a client
has sent is what it got back, then what the server has in hand, then what waits in the
kernel (`Flow`); for one that waits for its echo the last two are at most one line
(`WithinLine`), which is why the copied reader loses nothing of it; and `byte_cnt` is the
number of pairs of a client and a place in what it got (`Places`).

`ServersProofs` has three parts (all constants, no fairness). *A reader per connection*
(`PcSpec`): `PcInv` adds to
`EchoedInOrder` that a reader's descriptor is the one of its own client (`Owned`; main
gives a client away only while no reader has it), and that the lines a client has sent
are those echoed, then the one in the reader's buffer, then those in the kernel, in this
order (`Flow`). Without `Flow` the next line written could be any number. A reader that
was killed loses the line in its buffer and is left out. `OwnLines` follows.

*The epoll example* (from `EpollAssumption`): `EpollInv` says of each connection where
it is. Between its events it is being received from, with both buffers empty (`RestIn`),
or being sent to (`RestOut`), and what there is to do is on the ready list; in the batch
its flags may be old, but what they claim still holds (`FlagsHold`); during its event the
step decides (`InEvent`). What the end test (173) needs is in `Ended` and `AllEchoed`: a
client that shut its side down while it waited for one unit has nothing behind the echo
when the server is back at reading. `Units` is a concatenation of what the client has, what
is in its socket, what is in `send_buf` and what is in the kernel; each step moves a piece
over a boundary (`SplitAt`, `CatReceived`, ...). A close that resets (`Reset`) loses units,
and only a hasty client meets one. `EchoIsKept` follows. TLC agrees that
`EpollInv` holds in the instance of the run `servers`.

*A connection of the web servers* (from `HandlerAssumption`): `HandlerInv` says where the
pieces of the request in hand are. Nothing of it has come (`Fresh`), one half has
(`Half`), or it is torn (`Pieced`) and stays torn (`TornStays`): the offset is right for
the second piece only. In the first two cases the buffer is known up to what an earlier
client left, so that a request which is complete begins with both halves (`FirstPiece`,
`SecondPiece`, `WholeIs`) and none is taken for complete too early (`NotYet`). After the
answer nothing of the request is left, torn or not (`NothingLeftOver`, `Receiving`): this
is where clearing the buffer (327) is needed. `InHand` is what each place knows of a
request that is not torn: its kind, the status it calls for, and as many blocks sent as
have been read. `AnswersAreRight` follows, for the requests that `NotCovered` does not
except and no others. TLC agrees that `HandlerInv` holds in the instance of the run
`servers`.

`DnsServerProofs` (all constants; from `DatabaseAssumption`, that a table is a sequence
of entries; over all of `DnsSystem`, whatever the network and the resolvers do): `DnsInv`
is that the records found so far lead from the name of the request to the one looked for
(`Chained`), that they are of the table with time left (in `ServerTypes`), and that the
entries the scan has passed are not what it looks for (`Searched`). `Searched` survives
the clock since a record only expires, and an alias since the scan starts over, but at the
second entry: that is the exception in `NegativeSound`. `Chains` and `Negatives` follow.
`AddressesAreRight` is about the resolvers and needs `ResolverAssumption` (the zone's aliases
have no cycle, and what the upstream server adds is of its zone) and `RequestAssumption` (a
request of another client comes from a port of its own). `ResolverInv` is that each datagram
on its way to a resolver carries only records of the zone and records whose names the resolver
does not understand, among these all of this repository's server (`Genuine`); then it does not
matter to whom an answer was sent (`AnswerEnds`).
`Chain` and `GetAnswerAddress` are recursive functions; that there are such functions is shown
in `WayExists` and `WalkExists`, by the least rank, or number of records left, for which there
would be none.

`CacheLabProofs` (all constants; from `CacheAssumption`, that s and b together are less than
the bits of a word, and `ShapeAssumption`): `ShiftsAreRight` shows that what the shifts by
64 minus something leave of an address, positive or negative, is the set and the tag of its
block. It rests on arithmetic of quotients and powers of two, which the provers know nothing
of: `PowerNext` gets 2 ^ (n + 1) from the number of subsets of a set. `CacheInv` is that no
block is in two lines (`OneLine`), so that a hit counts once, and that in a set without hits
the access counts are in the order of the last uses (`UsedInv`; a hit breaks that order, and
the property excepts such sets). `CacheRefinement` then needs that a set has as many resident
blocks as valid lines (`BlocksOfSet`), and `EvictsLeastRecent` that the least count is the
least last use. For the kernels `TransInv` is that blocks are aligned and inside the matrix
(`AtBlock`, `BlockInside`), that what waits in `temp` is an element of the diagonal, if not
that of this row (`Waiting`), and that what the loops have passed is right (`FilledRight`);
storing a stale element again therefore stores what is there. `Transposes` follows.

Only model-checked: liveness and everything under fairness (the prover handles neither
fairness nor ENABLED); `MissesWithinTarget`, which is a computation for three given
matrices; the violations. Induction theorems over arbitrary predicates are out of the
prover's reach: a recursive function is handled where it is met, by its least
counterexample.

## 6. Where the code departs from what one expects

Found while modelling; the model does what the code does, and the properties except
these cases by name.

* Thread pool: a failed accept keeps the permit of `q_not_full` it holds
  (`http_server.c:249`), so the queue shrinks by one place each time; a SIGINT between the
  test of the flag and the blocking call is slept through (229, 234); a client that leaves
  in the middle of `handle_client` leaks its descriptor (285, 294).
* `handle_client` of the thread pool: a request in pieces is put together rightly only if
  it is one piece or one unit and then the rest (291); a read error of the file, as for a
  directory, makes `read` return a huge `size_t`, and the loop never ends (518).
* Event server: sending does not count as activity, so a slow download is swept as idle;
  pipelined requests share one status (463), and the second answer waits for an edge that
  does not come (459, run `event_stall`); a client accepted when the table is full is in
  no slot, neither swept nor freed; a send to a closed connection raises SIGPIPE, which
  nothing handles.
* Select server: lines that arrive together with another are dropped with the copied
  reader (run `select_lost`).
* Forking web server: a failed fork forgets the descriptor (106), so that the client is
  never served nor closed; every method is accepted, for `strcmp` is not compared with 0
  (194), and gets 200 and the file where the code itself has 501 (200) and
  `labs/webserver-handout/protocol.py` expects an error (57-62, 78-83); after a wrong
  version the uri has been freed and is used (289); the status of a file that was not
  opened is taken from an `fstat` that failed (359), so its date is arbitrary and may be
  none (396).
* DNS server: after an alias the first entry of the table does not count (303); a format
  error goes out with its flags in the wrong byte order, as a query (239), and, if the
  request was not recursive, without an error; an invalid request is answered, even if it
  is itself an answer.
* Resolver: the query is well formed for names of three labels only (201); a name in the
  answer that is not a pointer is read eleven bytes too far (281), so the answers of this
  repository's own server are not understood; nothing matches the answer with the query
  but the name in it; there is no timeout (512).
* Cache simulator: a hit adds one to the line's count (355) instead of making it the most
  recent, so after hits the victim need not be the least recently used line.
* Transpose: for N of 32 or 64 the loops do not look at M (33, 57).
* Epoll example: a client that shuts its side down while an earlier echo is under way
  loses what it sent last (173-178 with 149-160).

## 7. Not modelled

Header text, MIME types, memory management, `-v` output, the text of traces, options and
configuration files; in `EventServer`, parsing below "good, missing, bad". EINTR of `recv`
and `send` in the event servers: their sockets do not block. Files that change while they
are served. The DNS server's table is taken as it was meant: its names are copied without
their NUL (`server.c:74`), which goes well as long as fresh memory is zero and the name
does not fill its chunk; aliases form no cycle, on which the server would write past its
response. A `recv` of the resolver that fails, and names of one label or of more than
four. The simulator with `-s 0`, whose index leaves the array (340). Memory that runs out
everywhere. The truncation of wide addresses by `fscanf` (`csim.c:96-99`). The limit of
100 events per call of `epoll_wait`: the models have fewer clients. An `Accept` that fails
and exits (`csapp.c:570-577`), in `PerConnection` and `PrethreadedEcho`: the properties
say nothing of a process that has ended. Of `csapp.c`, the wrappers that no server here
calls. The components marked `not_modelled` in `PROJECT.json`, for the reasons given
there; `social_im` and `labs/webserver-handout/main.c` are older copies of other files.

Coarser than the code: `SelectPool.PeerGone` ends the program at once, where the code may
echo a line first; `EventServer.Free` decides on a reset from what has not been read at the
close; `HttpHandler.RequestDone` lets a child go on after a wrong version where it may as
well end (544). In `PerConnection` a line is its number and not its client's: a line of
another client with the same number is not told apart.
