# Models of linux-C-study

The repository collects C programs for Linux: a thread pool, several TCP
servers that solve the same problem with different system calls, an HTTP
service, and many short programs about threads, signals, processes, pipes and
files. A vendored copy of libevent 2.0.22 is in it too. The programs are
independent of each other: nothing is shared between directories except
`wrap.c`, which `epoll-advance1.c` uses. What is hard in them is what they were
written to show: threads that share a table or a queue, descriptors that are
reused, events that arrive in batches, signals that are not queued.

This directory holds TLA+ models of the programs with state worth checking, TLC
configurations, and proofs for TLAPS. `PROJECT.json` maps every definition to
the lines it translates, lists the runs, and for each property a mutated
definition under which it fails.

## Inventory

| part | files | state | operations | interaction | what is hard | what makes it correct |
|---|---|---|---|---|---|---|
| thread pool | `linux-UDPandThreadPool/threadpool.c`, `.h` | a ring of tasks, three counters, a mutex, two condition variables, `shutdown`; per worker a private task | `create_threadpool`, `thrRun`, `addtask`, `destroy_threadpool`, `taskRun` | workers and `main` share the pool | wakeups, ring reuse, shutdown written without the lock, free while in use | each task is run once, in order; nobody waits for ever; nothing is used after it is freed |
| select server | `linux-network/select.c` | table `ifno[100]`, the watched set, `maxftd`, the count of ready descriptors | accept, echo, close | one thread, the kernel and the clients | descriptor reuse, the search by descriptor, the count that ends a scan | table, watched set and open descriptors agree; every ready client is served |
| thread-per-client server | `linux-network/mutl-thread.c` | table `ifno[100]` without a lock | `main`: accept and fill; `sockHander`: echo, close, release | `main` and the handlers share the table and the descriptors | every access of the table races | a handler owns the entry it was given |
| epoll reactor | `linux-network/epoll-advance.c`, `epoll-advance1.c`, `wrap.c` | table `g_events[1024]` with callbacks, the epoll tree, a batch of events, the sweep position | `acceptconn`, `recvdata`, `senddata`, the idle sweep, dispatch | callbacks change entries that later events of the batch point to | stale events, idle timeout, `epoll_ctl` failing | table and tree agree; no event reaches another client; idle clients are closed |
| poll server | `linux-network/poll.c` | the array of `pollfd`, its bound `maxftd` | accept, echo, close | one thread, the kernel | exact test of `revents`; the table is bounded by a descriptor | table and connections agree; every ready client is served |
| plain epoll servers | `epoll.c`, `epoll-lt.c`, `epoll-et.c`, `epollEL-loop.c` | the epoll tree | accept, echo, close | one thread, the kernel | edge-triggered events and a two-byte buffer; a loop that a hang-up does not end | what a client sends is answered |
| process-per-client server | `linux-network/mutl-process.c` | per process, its copies of descriptors | accept, fork, echo, exit | parent and children share connections | a descriptor kept by another process keeps the connection; a read error taken for data | only its own child holds a connection, and lets it go when the client leaves |
| HTTP service | `httpService/http_service.c` | one connection record for all clients, a static read-ahead buffer | accept, read request, send file or directory | one thread, the kernel | the record and the buffer outlive the client they belong to | a request is answered to its sender |
| list programs | `linux08/thread_cond.c`, `thread_sem.c` | a linked list, a mutex and a condition variable, or two semaphores | produce, consume | two threads | wait without a loop; no mutex around the list | no consumption of an empty list, no node lost |
| lock programs | `linux08/thread_lock.c`, `thread_readLock.c` | a counter | add, read | threads | - | no update lost |
| thread lifetime | the other programs of `linux08` | - | create, cancel, join, detach | - | - | - |
| child reaping | `linux07/sigchild*.c`, `linux-progress/wait*.c` | pending and blocked signals, children | fork, handler, wait, waitpid | kernel, children | SIGCHLD is not queued | no dead child goes unnoticed; children are reaped |
| pipes, exec, UDP, files | `linux06`, `linux-progress`, `UdpService.c`, ..., `linux03` | - | one call each | - | - | - |
| libevent server | `libevent/serverEvent.c` over `evmap.c` | a table of clients and events; libevent's count of events per descriptor | accept, read, write, hang-up | libevent calls it back | entries are never given back, and the search by descriptor finds the oldest | every client libevent watches is served, no callback runs for a client that has gone |
| other libevent programs | `hellow-libevent.c`, `bufferevent-client.c`, `event.c` | one event or bufferevent | callbacks | libevent calls them | double free at a hang-up | - |
| libevent's event loop | `event.c`, `evmap.c`, `signal.c`, `epoll.c`, ... of `libevent-2.0.22-stable` | the event queues, the timeout heap, the active queues, the notification | `event_add`, `event_del`, `event_active`, `event_base_loop`, `loopbreak`, `loopexit` | callbacks and other threads call back into the loop | a sleeping loop is woken, a running callback waited for, an active event deleted | no work is slept on, nothing deleted is called, timeouts fire |
| libevent's buffers | `buffer.c` of `libevent-2.0.22-stable` | per buffer a list of chains, `last_with_datap`, the length, what the callbacks have not been told | add, prepend, expand, reserve and commit, read, drain, pull up, move to another buffer | bufferevents and programs call it; it calls back | chains left empty, reused, replaced and moved between buffers by later calls | a buffer holds the bytes that were put in, in order; its callbacks' sizes add up |
| the rest of libevent | bufferevents, evdns, evhttp, the other backends | vendored | | | | |

The rows from the thread pool to the list programs, child reaping, the libevent
server, libevent's event loop and its buffers are modelled, the last two in part. The rest is listed in
`PROJECT.json` with the reason.

## Modules

| module | what it is |
|---|---|
| `TaskQueue` | what a thread pool promises: a bounded first-in first-out queue whose tasks are each run once, or given up after the shutdown |
| `ThreadPool` | `threadpool.c`; implements `TaskQueue` |
| `Sockets` | the operating system and the clients, used by `SelectServer`, `ThreadServer`, `EpollReactor` and `EventServer`; it models no file of the repository |
| `SelectServer` | `select.c` |
| `ThreadServer` | `mutl-thread.c` |
| `EpollReactor` | `epoll-advance.c` and `epoll-advance1.c` |
| `HttpService` | `http_service.c` |
| `ListHandover` | `thread_cond.c` and `thread_sem.c` |
| `EchoServers` | `poll.c`, `epoll.c`, `epoll-lt.c`, `epoll-et.c` and `epollEL-loop.c` |
| `ChildProcesses` | `mutl-process.c`, the three `sigchild` programs, `wait.c`, `waitpid.c` and `waitpid01.c` |
| `EventServer` | `serverEvent.c`, with the count of `evmap.c` |
| `EventBase` | the event loop of libevent |
| `ByteBuffers` | what buffers promise: sequences of bytes that grow at both ends, lose bytes in front and pass them on |
| `Evbuffer` | libevent's `buffer.c`, step by step beside `ByteBuffers` |
| `PoolAndReactorProof` | theorems about `ThreadPool` and `EpollReactor` |
| `WorkerServersProof` | theorems about `ChildProcesses` and `ThreadServer` |
| `SelectServerProof`, `EchoServersProof` | theorems about `SelectServer` and `EchoServers` |
| `ListHandoverProof` | theorems about `ListHandover` and `HttpService` |
| `LibeventProof` | theorems about `EventBase` and `EventServer` |
| `EvbufferAppends`, `EvbufferProof` | theorems about `Evbuffer`, and the lemmas they rest on |
| `MC...` | the module TLC runs |

### ThreadPool

Every thread has a program counter. A step is what a thread does between two
points where another can get in: taking the mutex, `pthread_cond_wait`
(releasing the mutex and joining the waiters in one step, as POSIX says),
unlocking, and reading or writing `shutdown`, which `destroy_threadpool` writes
without the lock. The unlock at line 107 and the signal at line 108 are two
steps. A waiter that was signalled competes for the mutex again, and with
`Spurious` may come back unsignalled. A task is its number and its argument,
which is a pointer to a ring slot or to a worker's private copy; `taskRun`
reads the number through the pointer, so what would happen without line 32
(`task -> arg = task`) is in the model. `ran` and `lost` record which numbers
were run and which were freed unrun. Detached workers make `pthread_join` a
step that waits for nobody. What a worker does with the pool after it was freed
is undefined: the model takes no such step.

### Sockets and the servers

A descriptor is closed, or open with a client that is idle, has sent something,
has hung up, or has reset the connection. `accept` returns the lowest free
descriptor. Bytes, addresses and ports are left out. A server's step goes from one
system call to the next.

`SelectServer` has `ifno`, the set, `maxftd`, `changeftd` and the loop variable
of the code. A failed accept is not looked at by the code, which fills an entry
with -1 and calls `FD_SET(-1, &set)` (line 166). What that does depends on the build. Fortified, it
aborts (`FortifyAborts`). Otherwise it sets bit -1 modulo 64 of the first word, that is the bit of
descriptor 63 (`StrayFd`). `select` looks at bits up to `maxftd` only: as long as no
client has had a descriptor that high, the stray bit does nothing. From then on `select` fails with
`EBADF` whenever that descriptor is closed, and the loop ends at line 145 (`SelectFails`). The sockets
block: the write of line 211 may keep the server from its other clients until the
client reads or the connection breaks (`WriteBlocks`, `WriteReturns`, `WriteFails`). Writing to a reset connection
raises SIGPIPE and ends the server. `failed` remembers a failed accept.

`ThreadServer` reads and writes one table entry per step, because nothing locks
the table. The searches return an unset variable when they find nothing, which
is a choice between any index and an index outside the table, where the process
ends. `main` fills an entry before it starts the thread that is given its address, so a search
may pass between the two. `mishaps` remembers what the table's correctness does not survive.

`EpollReactor` takes one step per swept entry, one per `epoll_wait`, and one
per callback; callbacks run in any order of the batch. An event carries the
entry it points to, and the descriptor it was reported for as a ghost that
`NoStaleDispatch` compares. The clock is read once a turn, before the sweep. A client that does not read matters only
while an answer is due: the choice whether it reads is made then. Sixty seconds without an event is a step that may
happen to any entry in use; being watched anew makes an entry fresh. `sweepLen` is how many entries
a turn sweeps: a constant of the program, chosen at the start from `SweepLens` so that one run has
sweeps that end before the table does and sweeps that pass its end in the middle. While a
sweep is under way clients do nothing, as it looks at none of them. `epoll_ctl`
may fail each time it adds a descriptor. `Wrapped`
selects `epoll-advance1.c`, whose `Accept` exits when it fails.

### HttpService

A client's bytes are pieces: a line, a `\n` alone, two or more characters without a
`\n`, or one character. That is what `readLine` distinguishes: the line's
index of `\n` is positive, a `\n` alone gives zero, and at the end of
input `i - 1` is zero for one character and positive for two. `buf` is the static buffer of
`char_read`, and `ftd` the one connection record, which is always that of the client
accepted last; an event for another client is served on it just the same. Each `read`
is a step, so clients may send between two of them. The answer's content,
which needs the file system, is one step. `crowd` remembers that two clients were open
at once, after which the older one is not read while the newer
is closed in its place; `cut` remembers that a `\n` alone ended a request with
more in the buffer, which the next request then starts with.

### ListHandover

The two programs differ in how a thread enters and leaves the list: a mutex, with a
condition variable for an empty list, or two semaphores. `program` says which one
runs; the accesses of the list are the same actions. Each access of `head` is a
step, because the semaphores of `thread_sem.c` let a producer and a consumer in at
the same time. `head = head->next` reads `head` again or uses what
`pNode` holds, as the compiler likes. A null or freed node that is followed, or
freed twice, is undefined and ends the behaviour. `together` remembers that both
threads were between enter and leave.

### EchoServers

The five programs are one loop: wait, then for each event accept, read or close.
`program` says which one runs; they differ in how they wait, in the size of the
buffer and in what follows a read. Input is counted in buffers, because the two-byte
buffer of `epoll-et.c` and `epollEL-loop.c` is why something can be left unread.
`edge` holds the descriptors with something new for an edge-triggered tree:
new input puts one in, `epoll_wait` takes it out. For `poll.c` the table, `maxftd`
(a descriptor used as an index) and what the last `poll` wrote `revents` for
are variables of their own. What these programs do not do is written into the
properties: `epoll-et.c` promises nothing about reading, `epollEL-loop.c` loops on end of
input for ever (`Stuck`), and `poll.c` does not answer a client that was reset.

### ChildProcesses

Seven programs fork children and differ in how they wait: not at all (`mutl-process.c`),
in a SIGCHLD handler for one child or for all that are dead, with `wait`, or by polling
with `waitpid`. SIGCHLD is one pending bit. The handler is a sequence of steps
during which children go on dying. `holds` says which connections a process has a
descriptor of: `accept` gives one to the parent, `fork` copies the parent's, and a
connection ends when nobody holds it. Errors of `accept`, `fork` and `read` are
alternatives of their steps; a reset is reported once, then reads as end of input.
A sleep is any delay, so `sigchildBug.c`, which only sleeps where `sigchild.c`
does not, has the same behaviours. The children of `mutl-process.c` stay zombies while
it runs, which the program does not try to avoid and no property denies.

### EventServer

An event is named by its table entry. `added` are the entries whose event
is in the base and `tree` what epoll was told: `evmap_io_add` tells epoll of a
descriptor's first event only, and `evmap_io_del` of its last. `initCli` runs once, and
nothing sets an entry free, so `getCliByFd` finds the oldest entry a
descriptor ever had. The model shows what follows: a hang-up deletes the
event of that oldest entry, later events stay in the base, and the next client with the
descriptor is counted but not told to epoll. It is connected and never read.
`WatchedTwiceAtMost` says exactly for which clients this happens, and the
other two properties what still holds for the rest.

### EventBase

What happens under `th_base_lock` is one step, unless the lock is released in
between. `base` is a record of what the lock protects, and the `_internal` and
`_nolock` functions are operators from one such record to the next, so that an API
call is a composition of them. The loop's steps follow `event_base_loop`: prepare the
timeout, sleep in `epoll_wait`, drain the notification, find due timeouts, and run the
active queue of the highest priority, one callback per step with the lock released. A
callback may call `event_add`, `event_del`, `event_active` or `event_base_loopbreak`, and so
may any other thread at any moment; `event_del` of a running callback waits for
`current_event_cond`. A signal goes through the socket pair of `signal.c` and calls its
callback as often as it was raised. `deleted` remembers which events were deleted since they were
last added or activated.

`now` is the clock and `cache` is `tv_cache`, the time at which `epoll_wait` last returned
(line 1634). `gettime` answers with it until the loop clears it, right before it waits again (line 1623) and
at the start and the end of `event_base_loop`. So after callbacks that took time everything is computed from an old time:
the deadlines of `event_add`, when another thread calls it too, those of
`event_persist_closure`, and, in `timeout_next` (lines 1604, 2414), how long to wait, an interval that is then
slept from the time it really is. The loop does sleep past deadlines. `late` remembers how old the
time was that the wait was computed from, and `NoSleepOnWork` says that the loop sleeps past a
deadline by no more than that, when its callbacks took no time not at all.

### Evbuffer

A call of the library is a step, since it holds the lock of its buffers. A chain is
its block's size, where the data starts, and the data; a reference is an immutable chain.
`last_with_datap`, a pointer to a pointer, is the position of the chain it leads to. Each
function of `buffer.c` that changes chains is an operator from a buffer to a buffer, so that
`evbuffer_add_vprintf` is `ExpandSingle` and then `Put`, as in the code. `bytes` is history: each
call also takes the step of `ByteBuffers` that it stands for, and
`ContentsAreBytes` compares the two after every call. Of the bytes one is
followed, as no code looks at them. What `evbuffer_reserve_space` hands out is remembered by chain and
address, and a commit of memory that has changed hands since would put the byte
`Overwritten` into the buffer.

`Validated` is the test suite's own `_evbuffer_validate` together with every `EVUTIL_ASSERT` of the
modelled functions. Calls of the public interface break it, in three places, by
leaving data in a chain behind `last_with_datap`. The model marks the buffer (`astray`):

- `evbuffer_add` writes to the last chain (line 1561) although
  `last_with_datap` may lead to an earlier one, when `evbuffer_expand` or
  `evbuffer_reserve_space` left empty chains behind the data. `evbuffer-internal.h:83-96` says that
  `last_with_datap` leads to the last chain with data, and `event2/buffer.h:47-49` recommends
  `evbuffer_expand` before several `evbuffer_add`.
- `evbuffer_chain_insert` replaces such an empty chain by one with data and does not
  move `last_with_datap` (lines 306-315).
- `evbuffer_remove_buffer` passes over empty chains in front of data, which it moves
  with the others, or leaves with `last_with_datap` on the first (lines 1127-1157).

The bytes are still in order after such a call, but later calls write to the chain that
`last_with_datap` leads to, in front of data. **`buffer.c` does reorder bytes then, and no
assertion fails.** The shortest way there: `evbuffer_add` "a"; `evbuffer_reserve_space` with two
extents, large enough to need a second chain, and nothing committed; `evbuffer_add` "b", which
goes to that second chain; `evbuffer_add_printf` "c", which goes to the first. The buffer holds "acb".
`event2/buffer.h` promises that both calls append, and its advice to call `evbuffer_expand` before several
`evbuffer_add` is a way to leave such an empty chain. The model takes the further calls as the code does; only a failed
assertion ends a behaviour. `stray` remembers the buffers that a call was made on when they, or a
buffer of the same call, were already astray. For these `ContentsAreBytes` and `Validated` say nothing,
while `ReportsAddUp`, with `total_len` and the number of bytes, is checked for them as well: bytes
change places, but none is lost or counted twice.

`evbuffer_prepend` counts the misalignment of the old first chain for the callbacks instead of the
bytes it put into a new one (line 1708); `uncounted` keeps the difference, and `ReportsAddUp` is about
the rest. The resizing in `evbuffer_expand_singlechain` (lines 1817-1842) is never reached: the last
operand of the condition before it holds for every sensible size.

## Runs

| run | instance | shows |
|---|---|---|
| `pool` | 3 workers, ring of 4, 5 tasks, spurious wakeups | `RingConsistent`, `NoTaskLostOrDoubled`, `ProducerNotStranded`; every step is a step of `TaskQueue`; one worker outside `pthread_cond_wait` drains the queue and frees a waiting producer |
| `select_clients` | 4 descriptors, the stray bit of the second, 3 entries, backlog 1, resets, writes that block | the table mirrors the descriptors until an accept fails; the watched set is the open descriptors, plus at most the stray bit after a failed accept, and nothing else makes `select` fail; every client is served unless a write blocks for ever or the server ends |
| `threads_clients` | 2 descriptors, 2 entries, 2 threads | each handler owns its entry until a descriptor is reused too early or an unset index is used; with room in the table only those two, or a failed accept, lead there; hang-ups are noticed |
| `reactor` | 3 descriptors, 2 entries, sweeps of 1 and of 3, resets | no stale dispatch; table and tree agree whatever `epoll_ctl` does; idle clients and hang-ups are closed, `epoll_ctl` failures included |
| `http_requests` | 2 descriptors, 3 connections, 3 pieces, reads of up to 3 pieces, resets | an answer goes to whoever asked, until a `\n` alone leaves bytes in the buffer; a client alone is answered and, after it hangs up, closed |
| `list_handover` | 5 nodes, room for 3, both programs, spurious wakeups | no node lost or in two places (with the semaphores: until both threads are inside), no lost wakeup |
| `echo_clients` | five programs, 2 descriptors from 2 on, backlog 1, 3 buffers sent | table and tree are the open connections; no client of `poll.c` sits above its bound; edge-triggered input is not forgotten where the program reads in a loop; clients are served and hang-ups noticed |
| `children_reaped` | five kinds of program, for seven files, 3 children or clients | no process keeps another's connection; no dead child goes unnoticed where the handler loops; children are reaped; connections end |
| `event_server` | 3 descriptors, table of 5, backlog 2, resets | which clients of a reused descriptor are watched; callbacks are never for a client that has gone; watched clients are served, with the table full too |
| `event_base` | one persistent urgent read event, one timer, one signal, `loopexit`; one other thread; 2 calls, 2 inputs, a clock that ticks in callbacks | the loop never sleeps on work, nor past a timeout by more than its cached time is old, keeps priorities, calls nothing deleted; break, timeouts and waiting threads are not lost |
| `evbuffer` | 2 buffers, the second with deferred callbacks; 4 calls; 4 bytes and 3 chains in all; blocks of 2, 4 and 8 with a header of 1 | until a call is made on a buffer with data behind `last_with_datap` the chains hold the bytes, in order, pass `_evbuffer_validate`, and no assertion fails; no byte is lost and callbacks' sizes add up, for the other buffers too |

The types of the modules with theorems are proved (`TypeCorrect`; for `EventBase`, `HttpService` and `Evbuffer` as part of
their invariants) and not run again.

A run that finds a statement of the repository violated:

| run | statement | what happens |
|---|---|---|
| `pool_addtask_stuck` | workers block when there is no task (`threadpool.c:22`) | all workers block before the first task; `addtask` signals the other condition variable (line 108), the ring fills up and `addtask` never returns |

**Bounds.** The pool's counters are bounded by `NTasks`, as in `main`, which
adds a fixed number; five tasks in a ring of four make it wrap and fill, and three workers
are enough for one to hold a task, one to wait and one to compete. The ring has more slots than
there are workers, since otherwise a full ring cannot be emptied to the point where
`ProducerNotStranded` says something. The servers'
variables are finite by themselves: two or three entries, more descriptors than
entries in two of the instances so that the table runs full with connections left over, and a
backlog of one. `ThreadServer` counts threads up to `MaxThreads`, because the code
never gives one back; two of them are enough for one client to get the entry and the descriptor
of the other, too early as well, and a third finds `pthread_create` failing, with every entry
possibly in use. `StrayFd` is a
descriptor clients do get, so that the stray bit is harmless below `maxftd`, belongs to a client, and ends
the server, each in some behaviour; in the program it is 63. In `EpollReactor`
a sweep of one goes on where the last one stopped; a sweep of three over the two entries wraps in its middle and starts
the next turn elsewhere in the table. The hundred of the code over its 1024 entries does both. A table
of three with a sweep of two, which does both at once, was checked too; with two descriptors,
because three are too many states, the table is then never full.
`ListHandover` bounds the nodes: five fill the room of three, and are freed and followed by more. In `HttpService` three pieces are
enough for a request, a lone `\n` behind it and what is left over, and three
connections for the record to change hands twice. The bound on the pieces also
hides that a client who never stops sending keeps the loop of line 219, and with it the
server, to itself. In
`EchoServers` the lowest descriptor is 2, the tightest the programs can have, because
`poll.c` compares descriptors with table positions; three buffers are enough to leave one
unread behind two reads. Three children die two at a time while a third runs. In
`EventServer` a table of five lets two of three descriptors have two clients each, or
one have several, and fill the table. `EventBase` bounds the calls that callbacks and threads
make, the inputs and the clock; two calls are enough for one thread to delete what another
adds or waits for. The clock ticks once whenever it likes, in a callback as well, and goes on for a loop that
is asleep on a timeout due within its bound, since a wait computed from an old time ends after it. A
timeout may be due beyond the clock's bound, and then never is.
In `Evbuffer` four calls are one more than it takes to put data astray, so that bytes change places,
and enough for each branch of the modelled functions (five calls, 608 thousand states, hold as well); three chains let an empty one lie between or behind
others, and requests for 1, 3 and 5 bytes fit into one chain, need two, or replace all
empty ones.

**Fairness.** Threads that can run are run: weak fairness for each worker and
for `main` in `ThreadPool` and `ThreadServer`, with no promise about who wins a
contended mutex. `sleep(20)` before the shutdown is not fair: nothing says when
it ends compared with the workers. The servers with one thread have weak
fairness of their loop. Clients owe nothing. In `EpollReactor` an entry that
stays in use becomes 60 seconds old at some reading of the clock; that is strong fairness, as the
clock is only read at the start of a turn. In `ThreadPool` spurious wakeups stop in the end: a
producer that wakes for nothing again and again may take the mutex each
time, and weak fairness does not exclude that. In `SelectServer` a blocked write ends by itself when the
connection breaks, but nobody promises that a client reads (`WriteReturns` is not fair). In `ChildProcesses` the parent and each
child are weakly fair. In `EventBase` the loop is weakly fair, the clock ticks, and a thread
that waits for the end of a callback is strongly fair: it competes for `th_base_lock` with
a loop that takes it again and again, and a mutex lets it in at some point.

**Deadlock** is checked in `reactor`, where the program has no reason to stop. Elsewhere it may: `main`
returns, SIGPIPE kills a server, every thread the system allows was used, or the bounds of the
calls are.

## Proofs

`PoolAndReactorProof` proves about `ThreadPool`, for any set of workers, ring size and number of tasks:
`TypeCorrect` (`TypeOK`), `RingCorrect` (`RingConsistent`) and `EachTaskOnce`
(`NoTaskLostOrDoubled`). None of the three is inductive. The invariant `IInv` adds
where each thread is when it owns the mutex (`LockInv`); what the test of each loop
established for the step that follows it, which nobody can undo while the mutex is
held (`CountInv`: room before a push, a task or the shutdown before a pop); and that
the numbers popped are exactly those in a worker's hands, run, or given up, each
worker's copy carrying its own address (`HandInv`). A popped number is the oldest one
queued, so it is nowhere else. Slots are indexed modulo `max_job_num`; the lemma
`SlotsDiffer` says that two positions less than one ring length apart have different
slots.

`Refinement` says that the pool implements `TaskQueue`, the bounded first-in first-out queue, by the mapping
`Abstract` of `ThreadPool`: a push appends to `pending`, a pop takes its head, the start of a
callback is the queue's, and all else is a stutter. `NeverStranded` is `ProducerNotStranded`,
which is not inductive either: while the producer waits, the tasks in the ring outnumber the workers
asleep on the condition variable it shares with them (`WaitInv`), since a pop takes one task and wakes one waiter. That is where the
workers are assumed to be a finite set, and fewer than the slots.

About `EpollReactor` it proves `ReactorTypeCorrect`, `EventsStayTheirs` (`NoStaleDispatch`) and
`TableMatchesTree` (`EntriesMatchTree`), for any table, sweep and number of
descriptors. `TableInv` says that entries in use are open descriptors, one each, and
that what the tree points to is in use for that descriptor, with the same events; a failed `epoll_ctl`
leaves the descriptor off the tree, which breaks none of this. A batch then
names different entries, a callback changes its own entry or takes a free one, and
so what is left of the batch is untouched (`OthersKeepBatch`).

`SelectServerProof` proves for any table and any number of descriptors:
`TableMirrorsDescriptors` (`SlotsMirrorFds`) and `WatchedAreOpen`
(`WatchesWhatIsOpen`). The argument for the first is that descriptors and entries are both
handed out lowest first and given back together, so the lowest free descriptor
always belongs to the first free entry. The second does not need it: the set follows the descriptors whatever
becomes of the table, and only a failed accept adds a bit that is no descriptor of a client.

`LibeventProof` proves three theorems about `EventBase`, for any events, threads and bounds.
`NeverSleepsOnWork` (`NoSleepOnWork`) is not inductive: it needs that whoever has notified the base has
written to the eventfd, and that the loop has read it only if it is about to reset the flag
(`NotifyInv`), so that a thread that finds `is_notify_pending` set can rely on the loop being woken. The
timeout the loop sleeps on is after no deadline by more than `late`; a call from another thread
can only change that with a notification, because a new earliest deadline becomes the top of the heap.
`HigherPriorityFirst` (`PriorityRespected`) rests on `QueueInv`: while the low queue is run, an event that
gets into the high one has set `event_continue`, and the loop starts over before it
takes another event. `NotCalledAfterDeletion` (`DeletedNeverCalled`) rests on `DeletedInv`: what can still be
called is in a queue that `event_del` clears, or is a signal with calls left, whose `ev_pncalls`
leads `event_del` to the count. The lemmas `DeactivateBase`, `DelInternalBase`, `ActivateBase` and
`AddInternalBase` say what the operators on the base do, and the steps are proved from them. A filtered
queue is a recursive function (`Only`); `OnlyThese` says what it contains, by taking the least length for which it
did not (`WFMin`).

Its second part is about `EventServer` and proves `TypeCorrect`, `NoneCalledForAnother` (`CallbacksAreCurrent`) and
`DescriptorsWearOut` (`WatchedTwiceAtMost`) for any table and number of
descriptors. The invariant says of each entry whether its event is in the base
(`InBase`): entries that have had a descriptor are taken in order, the first loses its event when
its client hangs up unless it is entry 0, and the others keep theirs. What epoll
was told follows from that.

`WorkerServersProof` proves about `ChildProcesses` `ChildTypeCorrect`, `NoneHoldsAnothers` (`EachHoldsItsOwn`) and
`DeadAreNoticed` (`NoneUnnoticed`) for any number of children. The server accepts and forks in
the same order, one child per connection, so that what the parent holds at a fork is the
connection of the child it forks (`ServerInv`). For the signals it is enough that a
child that was not forked has not died.

About `ThreadServer` it proves `TypeCorrect`, `EntriesAreOwned` (`HandlersOwnTheirEntries`) and
`SearchesReturn` (`SearchesFind`) for any number of threads, entries and descriptors. Until a
mishap, no entry before one in use has its descriptor (`FirstOfItsFd`), because `main` fills the first
free one; `main`'s new descriptor is in no entry that it has passed (`MainOwns`), and what a handler's search
has passed is not its own (`HandlersOwn`). The search for a free entry ends because of a count
(`RoomInv`): were all entries in use, they would hold a different descriptor each, and `main` has one more.

`ListHandoverProof` proves `TypeCorrect`, `EveryPlaceCounted`, `SignalIsOwed` (`NoLostWakeup`) and
`NoNodeLost` (`NodesConserved`) for any room and number of nodes. The two semaphores and the threads between wait and post always add up to
the room. A consumer asleep on a list that has a node is owed a signal: the producer has put
the node there under the mutex and has not reached `pthread_cond_signal` yet. The nodes on the list are the least
set that contains the head and follows the links (`ListFrom`); writing the link of a node outside it, or
moving the head on, changes it by that node only (`Relinked`). While the threads are apart, what one of them has read of
head and links is still true when it writes (`ReadInv`), and the node it writes is not on the list.

The second part of `ListHandoverProof` is about `HttpService` and proves `TheAskerIsAnswered`
(`AnswersTheAsker`) for any number of descriptors, connections and bytes per read. What a descriptor has received
is from its client (`InboxInv`); the record does not change between the first line of a request and
its answer, so the buffer is the same client's (`BufferInv`); and it is used up when a request ends, unless it
ended at a `\n` alone, which is what `cut` excuses.

`EchoServersProof` proves `TypeCorrect`, `ConnectionsAreWatched` (`WatchesWhatIsOpen`),
`BoundIsEnough` (`Settled`) and `InputIsRemembered` (`NoneForgotten`) for any number of descriptors and
any number of buffers sent. As in `select.c`, entry `k` of `poll.c` always has descriptor
`FirstFd + k - 1` (`MirrorInv`), and that is at least `k + 1`, so no client is above the bound although the
bound is a descriptor.

`SelectServerProof` also proves `TypeCorrect`: the count of ready descriptors is at least the number of
ready ones still to be visited, so that it never passes zero.

`EvbufferProof` proves `BytesKept` (`ContentsAreBytes`), `BuffersAreValid` (`Validated`) and `CallbacksHearAll`
(`ReportsAddUp`) for any buffers, deferred or not, any strings and sizes, and any block sizes and limits.
They follow from one invariant (`BuffersMatch`): `BufferInv` says of each buffer that is not in `stray`, the
buffers a call was made on after they went astray, that

- it is `Fit`: its chains' data lies in their blocks, `last_with_datap` leads to a chain or to the first place,
  and, unless a call put data astray, it is `Sound`: every assertion held, nothing but empty chains is behind the chain that
  `last_with_datap` leads to, which has data or is the first (`IsLwd`), the first reserved extent is in that chain
  or the next (`Reaches`), and `total_len` is the number of bytes in the chains;
- while no assertion failed, its chains hold the bytes that `ByteBuffers` says, the call that puts data astray included;
- what the callbacks were told and what the counters hold add up to `total_len`, and
  the counters are 0 unless a callback is queued.

None of the three properties is inductive. `ContentsAreBytes` needs `last_with_datap`, since a call that adds
bytes writes there; `Validated` needs the extents, since a commit sets `last_with_datap` to
where they were handed out; and that the counters are reset only when they have been told is in neither.
A call on buffers that are not astray keeps this for them (`OneChanged`, `TwoChanged`); any other call
only adds its buffers to `stray` (`Touched`), so that nothing has to be known of what it does. That is why
`CallbacksHearAll` is proved as long as `stray` is empty, while the run checks `ReportsAddUp` without that condition.

The bytes of a buffer are its chains' data joined by `FlattenSeq`, and lengths and space are sums. Both are defined by
recursion; `FlattenIs` and `SumIs` say that whatever joins or adds from left to right computes them, by taking the least place
where it did not, and `HeldConcat`, `PutBehind`, `HeldInFront` and `CutIn` follow. With them there is one lemma for each
operation: what puts bytes at the end (`EvbufferAppends`: `DataAdded`, `ReferenceAdded`, `Printed`,
`ExpandedSingle`, `ExpandedFast`, `Reserved`, `WasRead`, `SpaceCommitted`) `Grows` or `Appends`; what
puts them in front `Fronts`; what takes them `Loses`; and `evbuffer_pullup` (`Pulled`) changes nothing but where they are.
`ExpandedFast` says that there is room for what was asked from where new data goes, which is what a read or a commit then fills.
One lemma for each kind of call (`AddKeeps`, ..., `RemoveBufferKeeps`) adds what is done to the counters.

The assumptions are those in the modules: constants are naturals of the right
kind, `main` is no worker, the workers are a finite set, there are at least as many descriptors as table
entries in `select.c`, and strings that are added to buffers and sizes that are asked for are not empty
(`EvbufferAssumption`; the model leaves out calls with length 0). Every invariant and every action property that
a run checks is proved, `ReportsAddUp` with the condition above. Only model-checked is liveness, which is outside what TLAPS proves.

## Not modelled

`malloc` and `pthread_create` succeed in `ThreadPool`. Overflow of `job_push`
after 2^31 tasks is not modelled: `main` adds fifty. Lines of `http_service.c` are shorter than its buffer. The 4096-byte buffers, the answer's text and the addresses are not modelled. `EINTR` goes round the loops and
is left out. `select.c` passes an uninitialised length to `accept`; its
outcomes are success and failure. In `ThreadServer`, `HttpService`, `EchoServers`, `ChildProcesses` and `EventServer`
writes do not block; the sockets of `EpollReactor` do not block. `event_new` and
`event_add` succeed in `EventServer`.

That `destroy_threadpool` frees the pool under its detached workers, that a handler
of `mutl-thread.c` can free the entry of the next client with its descriptor, and that
`thread_cond.c` takes from an empty list after a wakeup without a test are in the
models as branches that end the behaviour or excuse a property (`mishaps`, `together`, ...);
no run is spent on finding them again.

`EventBase` has `tv_cache`, but leaves out: `event_base_gettimeofday_cached`, several events on one descriptor (each has its own here;
`EventServer` has the counting), common timeouts, deferred callbacks, debug mode, `EINTR`, a
clock that goes backwards, failed allocations, spurious wakeups of
`current_event_cond`, and `event_active` of signals by other threads. The heap of `minheap-internal.h`
is the set of its timeouts. Reading `event.c` for it showed three things the model
follows and no property is about: `event_del` waits for a running callback with an `if`,
so a spurious wakeup ends the wait early; `event_add` without a timeout keeps an
old one; `event_del` of a signal inside its own callback leaves `ev_pncalls` pointing to a stack
frame that is gone (`event.c:2244`).

`Evbuffer` leaves out searching and copying out, which change nothing, `evbuffer_add_file` and
`sendfile`, pinned chains (`buffer_iocp.c`, Windows), freezing, failed allocations, and removing callbacks.

Most of the lines in this repository are vendored libevent (about 48 thousand of 55
thousand), and most of those are its DNS and HTTP, bufferevents, other backends and
platform code, which the programs here do not use or use in one straight line. They are not
modelled; so the share of mapped lines stays small although every program with
state of its own has a module.

## Plan

Modules: what is left is straight-line (datagrams, pipes, thread lifetime, files), see
`PROJECT.json`. Of libevent, several events per descriptor in `EventBase` and the
reference counts of bufferevents would be next.

Proofs: every invariant and action property of the runs is proved; what is left is liveness, which stays with TLC, and `ReportsAddUp` for buffers that went astray.
