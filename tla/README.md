# Verification of zbaselib

zbaselib is a C library that puts one interface over Linux, Android and Windows:
threads and a thread pool, sockets, buffers and containers. This directory holds
TLA+ models of its parts, the TLC configurations that check them on small instances,
and proofs for TLAPS.

Check a model with `tlc -workers 2 -config pool_core.cfg MCThreadPool.tla`, the
proofs of a module with `tlapm ThreadPoolProofs.tla`, and so on for every `*Proofs`
module and `SequenceFacts`. `PROJECT.json` lists the components, the
runs, the source lines of every definition, the mutants that show each property
can fail, the hazards, the findings and the theorems.

## The system

| Part | State | Operations | What makes it correct |
|---|---|---|---|
| Thread pool (`zbaselib_thread.c` 345-651) | mutex, two condition variables, task queue, `stop`, `th_status`, worker handles | create, worker function, addtask, destroy, status | no task lost, run twice or out of order; no lost wake-up; drains are complete; memory outlives its users; calls return |
| POSIX mutex, condition, thread (`zbaselib_thread.c` 185-342) | the pthread objects | lock, unlock, wait, signal, create, join | mutual exclusion; wait releases and retakes the mutex |
| Windows condition variable (`zbaselib_thread.c` 66-180) | event, `n_waiting`, `n_to_wake`, `generation`, a critical section | signal, broadcast, wait, timed wait | a token wakes a thread that was waiting when it was issued; the event is not reset too early |
| Ring buffer (`zbaselib_buffer.c` 4-298) | memory, `wpos`, `rpos`, `busy_num`, mutex if `islock` | write, read, skip, get, clear | a bounded byte queue; all of the bytes or none |
| Byte container `zbuffer_t` (`zbaselib_buffer.c` 300-354) | block, its size, the size of its data | new, set, delete | data fits the block |
| Socket buffer (`zbaselib_socket.c` 1479-1929) | memory that grows, `rpos`, `wpos`, `data_size`, socket, mutex | recv, udp_recv, send, write, read, get, skip, clear | a byte queue; bounded growth; nothing moves under a send |
| Socket creation, pair, requests (`zbaselib_socket.c` 95-214, 364-873) | file descriptors | create, pair, options, requests to interfaces | errors close what was opened, once, and nothing of others; flags are changed and not replaced |
| Sending, receiving, waiting (`zbaselib_socket.c` 1028-1189) | none; the kernel's buffers and errors | waitforconnect, sendn, sendn_retry, udp_sendn, recv | no byte lost or sent twice over partial sends and retries; calls return when the peer reads |
| Addresses (`zbaselib_socket.c` 1191-1469) | none | inet_pton, inet_ntop | parse and format agree; exactly the addresses are taken |
| Interfaces (`zbaselib_socket.c` 1932-2273) | a list of the system, a block of results | uv_interface_addresses | two loops agree; nothing leaks |
| Name resolution, gateway, DNS (`zbaselib_socket.c` 690-1021) | none | reading of text files and of an answer | |
| List, queue, stack | linked nodes, iterators | add, delete, get, set, find, iterate | the links are a ring; the list is a sequence; iterators do not dangle |
| Red-black tree (`zbaselib_rbtree.c`) | nodes with colours, sentinel | push, pop the minimum, find | order, colours, black height |
| Array (`zbaselib_array.c`) | block, capacity, size | insert, delete, get, set, find, sort | capacity covers size when it grows and shrinks |
| MD5 (`zbaselib_md5.c`) | four words, a block, a length | init, update, final | the digest does not depend on the pieces |
| File mapping (`zbaselib_filemap.c`), directories (`zbaselib.c` 70-141, 204-235) | handles, the file system | create; createdir; opendir, readdir, closedir | what is opened is closed once; a path exists when the call says so |
| Time, pipes, hash (`zbaselib.c`) | none | wrappers of system calls | |

The pool uses the list as its task queue and the mutex and condition wrappers for
everything else; both buffers use the mutex wrappers; queue and stack are thin layers
over the list. The hard behaviour is in the pool (interleavings of workers, callers and
the destroyer, and the lifetime of its memory), in the Windows condition variable (an
event that wakes everybody and counters that decide who goes on), in the buffers
(boundaries, a lock that is optional, a socket that blocks while the lock is held), and
where threads or processes share what the operating system keeps (descriptor numbers,
directories, flags and lists of interfaces, the error of a socket).
Nothing is persisted, so there is no crash recovery to model.

## Modules

| Module | Models |
|---|---|
| `ThreadPool` | the pool on POSIX threads, one action per critical section or step between two |
| `TaskService` | what the pool promises: tasks are taken, started in order on at most `Capacity` workers, finished or discarded |
| `Win32Cond` | the Windows condition variable and threads that use it |
| `ByteQueue` | what a buffer promises: a bounded first-in first-out queue of bytes |
| `Buffer` | the ring buffer, refining `ByteQueue` |
| `SkBuffer` | the socket buffer and the loop of `zbaselib_socket_sendn`, refining `ByteQueue` |
| `List` | the doubly linked list with its iterator, and the queue and the stack made of it, refining `ItemList` |
| `ItemList` | what the three promise: a sequence changed anywhere, at its two ends, or at its beginning |
| `RbTree` | the red-black tree with its repair loops, refining `PriorityBag` |
| `PriorityBag` | what the tree promises: a bag of keys that gives back the smallest, or deletes any |
| `Array` | the dynamic array with its block of memory, refining `ElementArray` |
| `ElementArray` | what the array promises: a sequence of elements, of which an insertion may be dropped |
| `Inet` | inet_pton and inet_ntop, their loops as functions of the number of turns, with what an address means |
| `Md5` | init, update, final and the transformation |
| `Descriptors` | socket creation, socket_pair, changes of interface flags and file mapping, in threads of one process |
| `CreateDir` | createdir, in several processes |
| `DirListing` | opendir, readdir and closedir for Windows |
| `Interfaces` | uv_interface_addresses on both systems |
| `Connection` | waitforconnect, the loops that send, and recv, with a kernel and a peer |
| `ThreadPoolProofs` | theorems about the pool's mutex, its wake-ups, its types and what it does with its tasks, and the refinement of `TaskService` |
| `BufferProofs`, `SkBufferProofs` | theorems about the two buffers, and their refinements of `ByteQueue` |
| `ContainerProofs` | theorems about the array, the list, the queue and the stack, and their refinements |
| `TreeProofs` | theorems about the red-black tree, and its refinement of `PriorityBag` |
| `InetProofs` | theorems about `Inet`: what was written is read back |
| `SystemProofs` | theorems about `Descriptors`, `DirListing`, `CreateDir`, `Connection` and `Interfaces`, and about the counters and tokens of `Win32Cond` |
| `SequenceFacts` | facts about sequences, sets of numbers (the least one, induction) and walks along a function, for the proofs |
| `MCSequential` | `RbTree`, `Array`, `Inet` and `Md5` together, for TLC |
| `MCSystem` | the five modules around the operating system together, for TLC |
| other `MC*` | constants and symmetry for TLC |

`MCSequential` and `MCSystem` put components that share no state into one run: the
variable `component` chooses one at the beginning, and the others stay in their initial
states. The states add up and do not multiply, and each property is checked over its
component alone, with the others' initial states. Their initial states and actions have
names of their own (`TreeInit`, `ArrayNext`) for this reason.

Operators named `X_Def` next to a definition `Def` are faulty variants of it. Nothing
refers to them; they document which mistake in the code each property detects.

### ThreadPool

The variables carry the names of the C fields (`stop`, `task_queue`, `th_status`,
`task_empty`, `task_not_empty`); `pc` says where each thread is. Entering a critical
section is an action of its own (`Acquire`), and so is its body, which gives the mutex
back; between the two nothing but other threads' steps outside the mutex happens.
`destroy` keeps the mutex over its sleep of a millisecond (`DestroyStop`,
`DestroyUnlock`). Condition variables are sets of sleepers: a signal picks any one, a
broadcast moves all, and spurious wake-ups are allowed up to `MaxSpurious`.

The memory of the pool and the block through which the workers get their arguments have
a life cycle (`pool`, `tp_channel`). A step that would touch freed memory is
`TouchFreed`: it sets `uaf` and ends the thread. That makes the use after free a state
that properties can speak about and leaves what follows undefined. `CreateFails` is the
`ERROR_EXIT` path, which frees the pool under the workers that are already running;
`UseAfterFreeOnlyByFailedCreate` says that this is the only way to touch freed memory
as long as one owner calls destroy after the other calls are over. With `Racing` calls
may overlap destroy and come after it.

`create` polls `th_status` once a second; only the poll that finds every worker ready is
a step. `th_status` is read there without the mutex, in one step.

### Win32Cond

One action is one stretch of code under `cond->lock`, which is never held across a
blocking call. `WaitForSingleObject` returns when the event is set or, for a timed wait,
at any moment (`Return`). The clock is abstracted: a timed wait may find its time is up
whenever it is back (`TimeOut`). `called` and `disturbed` are history variables: the
threads the last broadcast found waiting and still has to release, and whether a single
signal has come since.

### Buffer, SkBuffer

The ring buffer's operations are several steps (check and copy, load `busy_num`, store
it), so that without the lock they interleave as the machine's would; unsigned sums are
modulo `Modulus`. Only `busy_num` is split into load and store; copying and moving the
position are one step, which is enough to show what the missing lock breaks.

The socket buffer's operations are one step under its lock, except those that are inside
a socket call with the lock held: `recv` and `udp_recv` (`RecvCall`, `MakeRoom`,
`RecvBytes`) and `send`, whose `SendSome` is one turn of `sendn`. New memory holds
`Junk`, and the memory keeps what was in it when data moves, so that a read of a byte
that was never written, or is stale, shows up. The socket is external: it returns
between one byte and what there is room for, or ends the call. A turn of `sendn` in which
the socket takes nothing sleeps and retries, a step that changes nothing. Only `lock # 0`
is modelled with several threads.

### List

The cells of the ring are model values, `next`, `prev` and `data` functions of them;
`calloc` takes any cell that is not allocated, so that a cell freed and allocated again
is covered. One caller uses the list: the library takes no lock here, and `ThreadPool`
models its queue, which it uses under its own mutex, as a sequence. Every function is
one step, except `del_use_cond`, whose loop is one turn a step. The queue's and the
stack's functions are the list's functions they call (`Push`, `DelHead` for pop,
`GetHead` for peek), with `Pop1` and `Destroy1` of their own. The caller keeps to what
the code needs and the header partly says: data are in a list once, `set`, `sethead` and
`settail` are called only with a `ddfunc`, `pop1` and `destroy1` only without, and an
iterator does not go on from a node that was deleted. `given` and `freed` are history
variables for the ownership of data, `visited` and `clean` for the iteration.

### RbTree

`tree` is a record of the C fields: `root`, the child of every node on each side, the
parents and the set of red nodes. A function of the code that changes the tree is an
operator from a tree to a tree (`Rotate`, `TakePlace`, `Unlinked`); the left and right
versions of the code are one operator with a side. `Push` and `Delete` do the binary
tree part, and each turn of the loops that repair the colours is an action of its own
(`PushRecolour`, `PushRotate`, `DeleteRecolour`, `DeleteRotate`), so that `RedBlack` can
say what holds in the middle: the colours are wrong at `node` only. `RepairAdvances` is
the variant of both loops; it needs no fairness, and no deadlock means that the next turn
can be taken. A parent pointer that the code leaves out of date is `Null`, so that TLC
would stop at a step that read it. `find`, `getmin` and `getmax` change nothing; they are
operators that `SearchTree` compares with the nodes in the tree.

### Array

`block` tells whether the memory is held, and `cells` what is in it. `realloc` may fail
and leaves the block alone; a `realloc` to nothing frees it and returns `NULL` with some
libraries, which the code takes for a failure: `block` is `"freed"`, while `data` and
`capacity` stay what they were. That happens to an array that grew and is emptied.
`ArrayMisuse` is any call that uses the memory after that; the behaviour ends there.
`ArrayBlockHolds` says that this is the only way to a block that is not there, and that
the elements fit otherwise. `ArrayInsertDropped` is an insertion that returned 0 and
stored nothing, as the code does when `realloc` fails; `ElementArray` has a step for it.

### Inet

An IPv6 text is a sequence of tokens (colon, hexadecimal group, dotted form, percent
sign), an IPv4 text one of characters; a loop is a function of the number of turns, whose
value is a record of the C variables after so many. The reference is `Meaning4` and `Meaning6`: what a text means is said by cutting
it at its dots, at its `::` and at its colons, without a pointer or a counter. Texts start
as what `inet_ntop` makes of an address and are edited, so that what pton has to refuse
is covered from near by.

### Md5

Words of 32 bits are pairs of halves of 16 bits. `Update` is one call with the next piece
of the message; what is in the buffer before it is written is `Stale`. The property
compares with the padded message given to the transformation as a whole, and with the
digests in RFC 1321.

### Descriptors, CreateDir, DirListing, Interfaces

In `Descriptors` threads share the table of descriptors and each system call is a step
that may fail. `slot` holds the numbers in a call's variables, `table` says whose they
are, so that a number closed after it was given to somebody else shows up: `stray`. On
Windows `socket_pair` does that with the number of the listener, which line 145 closes
and leaves in the variable; `DescriptorsOwned` says that no other number is closed that
way. Other processes connect to the listener (`Stranger`) and change flags
(`OtherProcess`). Calls that have the same steps are one action with a name for both.

`CreateDir` has one action for each system call, in several processes. `overtaken` marks
a call during which another process made a directory of its path: such a call may fail
although the directory is there, and `CreatedirSound` says that there is no other wrong
answer. `DirListing` has the search handle and the entry found last; the system may fail
at any entry, and `readdir` then closes the handle and ends as it does at the last one.
`ListedOnce` says that nothing found before is lost, and `failed` marks the listings that
miss entries. `Interfaces` walks
the system's list in two actions as the code does in two loops, whose conditions are
two definitions because the code writes them twice. The first loop counts entries for
each element (its width), the second fills in entries for each (its parts); `Ends` says
where a loop stands after each element, so that a second loop that makes more or fewer
entries of an element than the first has counted shows up. Between two questions of the
Windows version the interfaces may change.

### Connection

Bytes are numbered, so that a lost, doubled or shifted one is seen. One turn of a loop
that sends is one action, with the kernel's amount chosen; a turn in which it would block
changes nothing in `sendn` and `udp_sendn` and counts in `sendn_retry`. The caller sends
one message by one call after another and goes on behind what the last one returned. A
datagram goes whole or not at all. `waitforconnect` is `select` and, on POSIX systems,
the fetching of `SO_ERROR`, with the kernel's steps in between.

## Runs

| Run | Instance | Shows |
|---|---|---|
| `pool_core` | 3 workers (4 asked for, limit 3), 2 clients, 1 owner, 4 tasks | all safety properties of the pool, and that it implements `TaskService`, with failing creation |
| `pool_live` | 2 workers, 1 client, 1 owner, 3 tasks | create and destroy return; the fair `TaskService` |
| `pool_racing` | 2 workers, 2 destroyers, calls at any time | destroyers that do not drain tear the pool down once |
| `cond_core` | 4 threads, 2 signals, 3 waits | counters, event and tokens fit together; a broadcast releases whom it found waiting |
| `cond_stolen` | 4 threads, 2 signals, 3 waits | finding, below |
| `buffer_locked` | 4 bytes, 2 threads, all operations | the locked ring buffer is a byte queue |
| `buffer_unlocked` | 2 bytes, a reader and a writer | finding, below |
| `skbuf_core` | 2 bytes growing to 5, 2 threads, all operations | the socket buffer is a byte queue, grows to a bound and keeps its lock in the socket |
| `skbuf_growth` | 2 bytes growing to 4 and more | finding, below |
| `list_core` | 3 cells, 3 data, list, queue and stack with and without `ddfunc` | the links are a ring, nothing leaks or is freed twice, deletion by condition misses none, iterations are complete, the three implement their sequences |
| `sequential_core` | tree: 4 keys, each at most twice, 8 nodes; array: 2 elements, at most 6, created for 0 or 4; addresses: every IPv6 address of words 0, 1 and 65535, every IPv4 address of 0, 9, 10 and 255, two edits of 10 more; MD5: 14 messages in pieces of 0, 1, 8, 63, 64 and 65 bytes | order, colours and sizes of the tree through every turn of every repair, the repair ends, the tree is a priority bag; the array is a sequence in memory it holds; addresses survive a round trip, and exactly the addresses are read; digests do not depend on the pieces |
| `system_core` | 2 threads and 4 descriptors; 2 processes and 4 paths; 4 listings; lists of at most 3 addresses or 2 adapters; a message of 4 bytes, room for 2 in the kernel | descriptors have an owner, pairs are pairs, flags are changed exactly; directories exist when createdir says so; entries and addresses are reported once; the stream is exact, waitforconnect truthful, and sends return |

Bounds. The pool needs three workers for a worker to be awake, asleep and busy at once,
more tasks than workers for the queue to be non-empty while all are busy, and a client
and a job that add tasks in turn; each task is offered once. `MaxStatus` and
`MaxSpurious` are 1: a second status call, or spurious wake-up, starts from a state that
the first may start from as well. In the condition variable a thief needs a waiter, a broadcast, a
newer waiter and a signal: four threads and two signals. `generation` does not wrap
around within `MaxSignals`. In the ring buffer 4 bytes give every pair of a position and
a length, the exactly full and exactly empty buffer, and lengths that wrap; a call that
asks for more bytes than the buffer has is refused like one that asks for one too many.
`skbuf_core` uses 1 for the 64 bytes of `ZBASELIB_SKBUFFER_MIN_NUM`, calls of at most 2
bytes, and sizes 2, 4 and 5: below the limit of 3 and above it. Three cells give a node
with neighbours on both sides that are not the head; an add finds no cell when all are
allocated, which bounds the length and nothing else. `MinNum` is 2
for the 10 of `ZBASELIB_ARRAY_MIN_NUM`, so that the array grows twice and shrinks to 0
within six elements. Words of three values give every pattern of zero words, of which
`::` depends, and the addresses that are edited have one of each kind; two edits give a
second `::`, a ninth word and a dotted form in the middle. The messages end before, at
and after the places where padding needs a further block. Four descriptors are all that
one `socket_pair` needs at a time, with one that the other thread takes in between; with
two calls at once they run out, which is the failure of `socket`. A message twice as
long as the kernel's room makes every send partial; one interrupted call is enough to
count as a retry. Eight nodes in the tree are enough
for every action of `RbTree`, with a red sibling, a bent and a straight rotation and a
next node deep in the right subtree; which free copy of a key is allocated is fixed.

Deadlock is checked except in the runs of `Win32Cond`, where every thread may be in an
untimed wait with nobody left to signal, and in `system_core`, where a connection may have
nothing more to do and a stray close ends the behaviour; the pool's `Terminated` is the
regular end, and in `MCSequential` only the tree, which always has a next call or a next
turn, may not stop.

Fairness. `FairSpec` of the pool assumes that a thread goes on in the call it is in (weak
fairness of its steps), that jobs return, and that a mutex which stays free is taken.
Nobody is assumed to start a call, and creation may not fail. The operating system's
scheduler justifies the first, the task's author the second; `CallsTerminate` needs no
strong fairness because jobs add finitely many tasks. For the condition variable weak
fairness of every thread, inside wait and until it gives the mutex back, is enough.
For a connection the thread that sends runs, and a peer that reads goes on reading;
nothing is assumed of one that has stopped, and `SendsReturn` says which call then
still returns.

## Findings

- `cond_stolen`: "There is nobody else who should wake up; reset the event"
  (`zbaselib_thread.c` 163) is not so. Tokens are not bound to threads: after a
  broadcast and a further signal, newer waiters may use up the tokens, and the event is
  reset while a thread that the broadcast found waiting still waits. `TokensKept` and
  `BroadcastReleases` in `cond_core` show that the further signal is needed.
- `buffer_unlocked`: the header says that `islock = 0` is for a single thread;
  `test/zbuffer_test.c` uses it with a reader and a writer, which lose an update of
  `busy_num`.
- `skbuf_growth`: the header says that a socket buffer is not enlarged once it has
  reached `buf_max_size`; the code compares with `>` and enlarges it once more.
  `GrowthBounded`, a part of `MemoryFits`, states the bound that does hold: one and a half
  times the maximum and one request.

What passing runs say of less than one would wish, and the models reach:

- `DescriptorsOwned`: on Windows `socket_pair` may close another thread's descriptor
  (line 145 and then 166); `filemap_create` loses descriptor 0 (`zbaselib_filemap.c` 94).
- `ListedOnce`: when `FindNextFileW` fails before the last entry, `readdir` returns `NULL`
  as at the end, and its caller cannot tell that entries are missing (`zbaselib.c` 128).
- `FlagsExact`: a change of the flags by another process between reading and writing is
  lost (`zbaselib_socket.c` 486).
- `SendsReturn`: `sendn` does not return while the peer takes nothing (1089).
- `ArrayBlockHolds`, `ElementArray`: an emptied array may keep a freed block
  (`zbaselib_array.c` 51), and an insertion without memory returns 0 (119).
- `AddressesReported`: with fewer prefixes than addresses entries stay unset
  (`zbaselib_socket.c` 2114); without memory the system's list is not freed (2198).
- `WaitTruthful`: a `waitforconnect` that timed out may take the error away, and the next
  one then returns 0 for a socket that is not connected (1044).
- `CreatedirSound`: createdir fails when another process makes the same directory.

## Proofs

The theorems hold for every value of the constants: any number of threads, processes,
nodes, tasks, descriptors and bytes, any sizes and any length of a behaviour. They use
the named assumptions of the modules (`SizesAssumption`, `CondAssumption`, ...), which
TLC evaluates for the runs' instances, and nothing else; the theorems about `Buffer` have
one hypothesis more, below. TLC checks every property that a theorem states on the run
that lists it.

Each component has an inductive invariant, a lemma for each action or group of actions
that says the action keeps it, and a lemma that combines them; the theorems follow.

### The thread pool

| Theorem | States |
|---|---|
| `TypeCorrect`, `MutualExclusion`, `NoLostWakeup` | `TypeOK`, `MutexHeld`, `WorkConserving` always hold |
| `TasksCorrect`, `LateTasksCorrect` | no task is lost, doubled or out of order; after `stop` no more tasks start than there are workers |
| `DrainCorrect` | one owner's destroy that drains returns after every task has run |
| `StatusCorrect` | status counts exactly the workers without a job |
| `FreedMemoryCorrect`, `TeardownCorrect` | one owner: freed memory is touched only after create failed; destroyers that do not drain: one of them tears down |
| `PoolImplementsService` | `ThreadPool` implements `TaskService` |

The first three rest on `CoreInv` and `WakeInv`. `TypeOK` is not inductive by itself:
addtask appends `arg[t]`, which has to be a task (`HandsOK`), and create starts worker
`tid`, which must not be running (`SpawnOK`). `MutexHeld` needs that who is in a condition
variable's set is asleep and not in a critical section (`SleepersOK`), since a signal
changes that thread's `pc`.

`WorkConserving` compares the length of the queue with the number of workers that are
awake and on their way to it. Only a few steps change either. addtask adds one to both if
a worker sleeps (`AddWake`), and if none sleeps there is nothing to show; taking a task
takes one from both (`TakeWake`); a worker goes to sleep only on an empty queue; and a
worker that leaves because of `stop` cannot matter, since after `stop` nobody sleeps
(`ClosedOK`). Create must not have published the pool before all workers exist
(`UnpublishedOK`). `WakeInv` is the conjunction, proved inductive relative to `CoreInv`.

The others rest on `ServiceInv`, whose parts say how far create is (`CreateOK`), what
`th_status`, `task` and `pc` of a worker have to do with each other (`WorkersOK`), that a
destroyer has joined workers that ended (`JoinOK`), that the tasks on their way into
addtask are new (`OfferedOK`), that what was accepted is what was started and then the
queue (`QueueOK`), and that what was started is finished or in one worker's hands
(`HandedOK`). `LateOK` counts the tasks started since `stop` together with the workers
that are back from `cond_wait` and may still start one; without the second number it
would not be inductive. `OwnerOK` and `TeardownOK` carry what is promised for one owner,
and for destroyers that do not drain. The refinement maps each step of a thread to one
step of `TaskService` or to a stutter.

### The Windows condition variable

`CountCorrect` proves `CountsExact`: `n_waiting` is the number of threads inside wait; it
is inductive as it stands, from counting lemmas about a set that gains or loses one
thread. `TokensCorrect` proves `TokensKept` relative to it: a token that is used belongs
to a thread that a broadcast found waiting, as long as no other signal disturbs it. Both are in `SystemProofs`.

### The buffers

`PositionsCorrect` and `BufferImplementsQueue` have the hypothesis `Exclusive`: the
buffer locks, or one thread uses it. The header asks for no less, and the run
`buffer_unlocked` shows that the statement is false without it. `BufferInv` says what the
thread inside an operation has done (`WriteInv`, `ReadInv`) and that the positions are
`busy_num` apart when nobody is (`RestInv`). That `wpos = (rpos + busy_num) %
buffer_size` is not enough to tell empty from full is why `busy_num` is there and why
`RestInv` is about it. `ContentIs` shows that the modulo arithmetic goes round the ring
as the abstract queue goes forward.

`SkBufferInv` is `TypeOK`, the four parts of the two properties, that the bytes between
the positions were really stored (`DataInv`: the memory also holds `Junk`), and what a
`sendn` in progress has sent and has left (`SendInv`). From it follow `MemoryCorrect`
(the data lie in the memory, which grows to `Largest` and no further), `SocketCallsSafe`
(inside the socket only with the mutex, and never with room 0), and
`SkBufferImplementsQueue`. There is no hypothesis about the sizes beyond the model's.

### The containers

`ArrayBlockCorrect` proves `ArrayBlockHolds`, inductive as it stands; the lemmas
`PlacedIs`, `ClosedUpIs` and `ExpandedIs` say where the loops and `realloc` leave every
cell. `ArrayIsSequence` is the refinement of `ElementArray`: of delete it shows that the
loop does to the cells what the abstract array does to the sequence, of sort that every
element occurs as often as before.

The list has three theorems, all from `ListInv`: `RingCorrect` (`Ring`), `WalksCorrect`
(`WalksComplete`) and `ListIsSequence` (`ImplementsSequence`, which is first-in first-out
for the queue and last-in first-out for the stack). `Ring` is not inductive: a ring could
fall into two cycles. `ListInv` says that there is a sequence `s` of different nodes
along which the cells are threaded (`Threads`): `next` leads from each place of `s` to
the one behind, `prev` back, and the head is before the first and behind the last.
`AddThreads` and `DelThreads` show that linking and unlinking a node inserts it into `s`
and removes it. The rest of `ListInv` is that no two nodes have the same data (`Apart`),
that a scan has no match behind its cursor (`Behind`), that an iteration that nothing
has disturbed has returned what is up to its node (`Seen`), and that nothing is left of a
list that was destroyed (`Gone`). `Walk` is defined by recursion, and the library's
induction cannot be used by the installed provers; `WalksExist` and `ThreadsWalk` argue
with the least number for which the claim fails (`LeastElement`) in its place.

### The red-black tree

| Theorem | States |
|---|---|
| `TreeInvariant` | `TreeInv`, from which the others follow |
| `SearchTreeCorrect` | `SearchTree`: order, parents and sizes, and what `find`, `getmin` and `getmax` answer |
| `RedBlackCorrect` | `RedBlack`: colours and black heights, with the one place where a repair under way may be wrong |
| `RepairCorrect` | `RepairAdvances`: each turn of a repair takes it nearer to its end |
| `TreeIsBag` | `RbTree` implements `PriorityBag` |

The properties speak of paths and subtrees. `TreeInv` does not, and uses no recursion; it
speaks of one node and its neighbours, and gives each node what it has to know of the
rest:

- `Linked`: the children of a node in the tree are in the tree, or the sentinel, and have
  it as their parent.
- `Placed`: each node has a place, a number, in the order of the keys, and an interval
  around it. A node's place cuts its interval in two: the left child's interval lies in the
  lower part and the right child's in the upper one, and holds every place that is there.
  The root's interval holds all places.
- `Weighed`: each node has a number, its black height, which its own colour and each
  child's number determine. While a deletion repairs, one side of one node (`PlaceOf`) has
  one black node less than that.
- `Colored`: no red node has a red parent, except at `node` while a repair is under way.
- `Counted`: `size` is the number of nodes, or one more or less while a repair is under way,
  and `node` is where the code's loop says.

A rotation leaves the places alone and changes the intervals of two nodes. A push spreads
the places and puts the new leaf next to the node it hangs below (`LeafPlaces`), on the
side where the descent found no child. A deletion is split into two changes: a node with
at most one child leaves (`Remove`), and the next node takes over the pointers and the
colour of the deleted one, which only changes who stands where (`Relabelled`). The walks
of the code (`Leftmost`, `Rightmost`, `InsertPlace`, `Find`, `Above`) are recursive
functions: `WalkExists` shows that they are defined, and that they arrive in time follows
from the number of nodes in an interval, which every step makes smaller.

What the properties say of whole paths comes at the end. The nodes above a node are those
whose intervals hold its place (`Path`, `AboveIs`), and the black ones among them and the
node's number together are the number of the root (`PathWeighs`). `RepairCorrect` needs no
fairness: after a turn `node` is nearer to the root, or nothing is left to repair
(`TurnsAdvance`). `TreeIsBag` goes step by step: the bag counts the nodes with each
key; `Relabelled` and the turns of a repair leave the nodes alone, and the leftmost node
has the smallest key because nothing has a place below its own.

### The operating system

`DescriptorsCorrect`, `PairCorrect` and `FlagsCorrect` rest on `DescriptorInv`: which
variables of a call hold a number at which step (`FineCall`), whose each number is
(`OwnsOf`), and what a call that was alone with the interface knows of its flags
(`FlagsOf`). The stale number of the listener may stand for what another thread has
opened, but never for anything else of its own thread; without this clause a
`socket_pair` might close its own connector. That the kernel hands out the lowest free
number is a theorem about well-founded sets (`LowestFree`).

`CreateDirCorrect` rests on `CreateDirInv`: the file system is a tree, and a call that is
about to create a directory has not seen it, or was overtaken since. `ListingCorrect`
rests on `ListingInv`: the next entry is the one behind those that were returned, all
that were found have been returned once the search is over, and it was over before the
last entry only if the system failed.
`StreamCorrect` rests on `SendInv` and `ReceiveInv`: bytes are numbered without a gap
across the peer and the kernel, and the sender's `sent` and `nleft` agree with their
number. `WaitCorrect` rests on `WaitInv`.

`AddressesCorrect` rests on `InterfacesInv`, which is about the call: what it has in its
memory and in its block at each step (`QuerySound`). `Ends` grows along the list, so that
every entry belongs to one element (`EndsGrow`), and two loops that make as many entries
of each element end at the same place (`EndsCompare`); from this `FilledIs` concludes that
the second loop fills in all entries that the first has counted, each with a different
part. On Windows a loop that makes fewer leaves the last entries as they are. The lemmas
`PosixRight` and `WindowsRight` compare the block with what the list says of the
interfaces. They need that no two addresses of a list are the same, which
`InterfacesAssumption` says of the lists.

### The addresses

`InetRoundTripCorrect` proves `InetRoundTrip` for every address of 8 words of 16 bits and
every IPv4 address. `InetInv` says what an unedited text is: what `inet_ntop` makes of
`addr`, or, when no word of it is zero, the same with the last two words in dotted form. The
argument follows the code.

- The scan finds the first of the longest runs of zeros (`BestRunIs`). Its invariant
  (`Scanned`) says that `cur` ends at the word before, and that nothing up to there beats
  `best`.
- The loop that writes leaves one of a few forms, in which a place of the text determines
  the token that stands there (`WrittenTo`, `AllWritten`): `::` in front, inside, at the
  end or nowhere, with or without a dotted end.
- `inet_pton6` reads these places word by word: what it has stored after each is known
  (`ReadTo`, `PairsRead`), and the shift behind the loop moves the words that followed the
  `::` to the end (`RefilledIs`). Together with the first two parts this gives back the
  words (`WroteReads`, `DottedReads`).
- The same places give the length of the text, which fits into the array of `inet_ntop`
  (`WroteFits`), and where it is cut by `::`, which is the run to be left out
  (`WroteCompressed`).

For IPv4, `Inet4RoundTrip` goes through the digits of the four numbers. What
holds after each turn of a loop is shown by `Induct`, which is induction as a fact about
sets of numbers: the library's theorem takes an operator.

### Model-checked only

- Liveness (`CallsTerminate`, `ImplementsFairService`, `BroadcastReleases`,
  `SendsReturn`): the provers have no rule for fairness and `ENABLED`.
- `InetPtonExact`: it compares `inet_pton` with the meaning of texts of any length, which
  is given with `SelectSeq` and folds over the parts between the separators; what those
  compute is induction over data.
- `Md5DigestOfMessage`: a fold over messages of any length, with `Bitwise`, for which the
  provers have no rules.
- The properties of the runs that find a violation, which are false.

## What is left

Every property of a passing run is proved but for liveness, `InetPtonExact` and
`Md5DigestOfMessage`. The loops of `inet_pton` are functions of the turn they have got
to, as those of `Interfaces` are, so that what they do to a text that is not an address could be
argued with the least turn at which it fails; the reference `Meaning6` would need lemmas
about where a text is cut. For MD5 the sum of words would have to do without `Bitwise`.

## Not modelled

- Failing memory allocation that the code does not check: what follows is a write to
  `NULL`.
- The timed wait of the POSIX wrapper, which nothing in the library calls.
- A pool destroyed from one of its own jobs, or by two owners that both drain, for which
  the header gives no rule; a pool of no threads.
- A list used against its header: an iterator that goes on from a deleted node, `set` or
  `pop1` with the wrong kind of `ddfunc`.
- Name resolution, the gateway and the DNS servers: one pass over a text file, which is
  opened with `fopen` and closed in the same call, or over an answer of the system,
  without state. The netmasks in `Interfaces`, which are copied.
- `zbuffer_t`, time, pipes, hash and URI encoding: one assignment, one system call or one
  pass over a string.
- `translate_option` and the single options of sockets: a table.
- Windows file mapping: the file is read into memory with one call. Both versions return
  a pointer to a block that they have freed when the file cannot be opened, or mapped
  (`zbaselib_filemap.c` 43 and 103); the model follows descriptors and not that block.
- The tests and build files.

`PROJECT.json` gives the reason for each part.
