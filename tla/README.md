# A TLA+ development of linux-NetCode

linux-NetCode is a collection of small C programs for Linux: a thread pool and
programs that use it, a chat room, socket servers built on `poll`, `select`,
`epoll` and `fork`, file transfer, and examples of System V IPC. This directory
models them in TLA+, checks the models with TLC on small instances and proves
part of what the checks show, for every value of the constants, with TLAPS.

`PROJECT.json` is the index: components, runs, the mutant that breaks each
property, the source lines of every definition, the hazards and the theorems.

Contents: [1 the system](#1-the-system) · [2 modules and code](#2-modules-and-code) ·
[3 runs](#3-runs) · [4 bounds](#4-bounds) · [5 fairness](#5-fairness) ·
[6 proofs](#6-proofs) · [7 disagreements between code and comments](#7-disagreements-between-code-and-comments) ·
[8 what other constants show](#8-what-other-constants-show) · [9 not modelled](#9-not-modelled) ·
[10 plan](#10-plan)

## 1 The system

The programs share no code with each other except copies of small wrappers; each
part below is a system of its own. Paths are relative to `src/`.

### Thread pool (`pthread_pool/threadpool.c`, `.h`)

*State.* One mutex `lock`, one condition variable `notify`, the array of threads,
a ring buffer `queue` with `head`, `tail`, `count`, and `shutdown`, `started`,
`thread_count`. *Operations.* `threadpool_create` (allocates five things, starts
threads one by one, destroys or frees what it has if one fails),
`threadpool_add`, `threadpool_destroy` (sets `shutdown`, broadcasts, joins,
frees), the private `threadpool_free`, and the worker loop `threadpool_thread`.
*Interaction.* Callers and workers share all of it under the mutex; the caller
calls the pool, the pool calls back the task, which may call `threadpool_add`.
*Hard.* Lost and spurious wakeups, wrap of the ring at its limit, a graceful
shutdown while the queue is not empty, a failure half way through the creation,
freeing a mutex somebody may still use. *Correct if* nothing is lost, doubled or
reordered; no worker sleeps while a task waits for it; accepted tasks run; a
destroy returns and leaves nothing behind; nothing freed is used.

### Programs on the pool (`pthread_pool/thrdtest.c`, `redpacket.c`)

*State.* The counters `tasks` and `done`, a mutex of the program, and in
`redpacket.c` the money left. *Operations.* `main` creates a pool, adds a fixed
number of tasks, polls until `done` reaches it and destroys the pool the
immediate way; every call is under an `assert`. *Hard.* The immediate shutdown
drops what is pending, and `main` decides on a counter the tasks advance before
they return. *Correct if* no assert fails, nothing is dropped, and the shares
add up to the packet.

### Chat room (`ChatRoom/chatserver.c`, `chatclient.c`, `chatlinker.c`, `common.h`)

*State.* Server: for each group a doubly linked list of members, a capacity and a
count kept beside it; the set `livesdset` of sockets and its snapshot `tempset`.
Client: where it is in its dialogue. Between them: stream connections carrying
packets, and the symbolic link `~/.chatport` through which clients find the
server. *Operations.* `listgroups`, `joingroup`, `leavegroup`, `relaymsg`,
disconnect, accept; `startserver`, `hooktoserver`, `cleanup` in a signal handler;
the client's prompts and its loop on socket and keyboard. *Hard.* Clients that
leave while texts for them are on their way, that disconnect or are killed at any
point, descriptors that are given out again, SIGPIPE in the middle of a
broadcast, a link that outlives its server. *Correct if* the table says who is in
which group whatever clients do, a client in a room sees that room's texts, and
whoever asks is answered.

### Socket servers (`poll/server.c`, `select/server.c`, `epoll/server.c`, `epoll/server_echo.c`)

Four programs of one kind: a single process, blocking sockets, and a loop around
one system call that says which descriptors are ready. The first three write a line
typed at their terminal to all clients; the last writes back what a client sends.
*State.* `poll/`: an array of `struct pollfd`, and `maxi`, the highest index that is
polled. `select/`: an array of descriptors from which each round builds a set.
`epoll/`: the epoll set, and beside it an array of clients and their number `count`.
The echo server: the epoll set alone. *Operations.* wait; accept, into the first free
slot; write a typed line; read or drop each client that was reported. *Hard.* What was
reported may be stale when it is served: descriptors are closed and given out again
within a round, `revents` of entries that were not polled is whatever it was, and a
read of what is not ready stops the server. Slots are freed in any order while `maxi`
and `count` are kept by hand; `memset` clears bytes, not entries; the nested loops of
`select/` share one index, and `epoll/` shifts its array once for every entry. A write
to a client that has left may kill the server. *Correct if* the arrays hold each open
socket once, no read waits, typed lines reach every client, and what clients send
is read.

### File transfer (`file_transfer/zero_copy/`, `file_transfer/file_tran/`)

Two servers, which differ in how they copy the file, and a client that is the same in
both directories. *State.* Server: the table of `poll/server.c`, from which nobody is
ever removed. Client: whether it reads the name or the data. *Operations.* When a
line is typed the server reads a second one, of which it makes no use, and sends the
name, content and end marker of the file it was told about at its start
(`zero_copy/server.c:94-98`) to each client that is writable; the client reads the
name, opens a file, and writes what it reads until a read begins with the marker. It
writes its whole buffer each time, however little it has read.
*Hard.* Name, content and marker are one byte stream, which reads cut anywhere, and
every short read leaves zeros in the file that is saved; a
client may leave while others are served, and an error or SIGPIPE of its connection
meets those that come after it. *Correct if* a client that has seen the end has saved
every piece of the file (more of the next copy may follow it) and nothing between them,
which is not so (section 7), and every client is served.

### Shared memory (`IPC/share_mem/shamem.c`, `shamem_client.c`) and message queue (`IPC/pipe_fifo/ipc.c`, `msg.c`)

*State.* System V objects: a memory segment, a queue, a semaphore with
`SEM_UNDO`; in the second example one queue for requests and replies.
*Operations.* The server creates the objects, serves messages in a loop, removes
the objects when a client sends `q`; clients open them, write a text under the
semaphore and send a message. *Hard.* Processes that are killed while they hold
the semaphore, objects that are removed under their users, results of `semop` and
`msgsnd` that nobody looks at, replies that carry no address, a queue that is
full of requests when the server wants to reply.

### The other parts

`tcp_base/*` and `fork_array/*` (servers that fork), the test clients of the socket
servers, small examples (`IPC/sema.c`, `pthread_cond_test.c`, `linux_pra/`,
`fifo_read.c`), and `project/wechat.sql`. They are not modelled; section 9 says why.

## 2 Modules and code

| module | models | extends or uses |
|---|---|---|
| `ThreadPool` | the pool, its callers and workers | `TaskPool` through a refinement mapping |
| `TaskPool` | abstract: what `threadpool.h` promises | |
| `PoolMain` | `main` of both programs, tasks that count themselves | `ThreadPool` |
| `RedPacket` | `redpacket.c`: the money | `PoolMain` |
| `PoolProofs` | theorems about `ThreadPool`: types, the mutex, the ring buffer; about its life: waiting, shutting down, freeing; the refinement of `TaskPool`; and about `PoolMain` and `RedPacket` | `RedPacket` |
| `ChatGroups` | the table of groups as sequences, with `GroupsSpec` for the table alone | |
| `ChatGroupsProofs` | theorems about `GroupsSpec` | `ChatGroups` |
| `MemberList` | the table as linked lists of nodes on a heap | `ChatGroups` through a refinement mapping |
| `MemberListProofs` | the lists implement the table | `MemberList`, `ChatGroupsProofs` through the same mapping |
| `ChatLink` | connections as queues of packets, closing, SIGPIPE | |
| `ChatServer` | the select loop and its requests | `ChatGroups`, `ChatLink` |
| `ChatClient` | the client's dialogue and its user | `ChatLink` |
| `ChatRoom`, `MCChatRoom` | the chat room as a whole | `ChatServer`, `ChatClient` |
| `ChatRoomProofs` | theorems about `ChatRoom`, and about `ChatPort` | `ChatRoom`, `ChatPort`, `ChatGroupsProofs` |
| `ChatPort` | the symbolic link, start, signals and death of servers | |
| `MCChatParts` | an instance of `MemberList` and `ChatPort` for TLC | both |
| `SocketServer` | what the four socket servers share: descriptors, connections, reads and writes, and their clients | |
| `PollServer`, `SelectServer`, `EpollServer`, `EchoServer` | the loops of the four programs | `SocketServer` |
| `Servers`, `MCServers` | each of the four among the same clients, and the properties | the four |
| `ServersProofs` | theorems about `Servers`, on lemmas about `SocketServer`: what each read, write, accept and client step keeps | `Servers` |
| `FileTransfer`, `MCFileTransfer` | both file servers, the client and the stream between them | |
| `FileTransferProofs` | theorem about `FileTransfer` | `FileTransfer` |
| `Semaphore` | a semaphore set with `SEM_UNDO`, as `sem_p`, `sem_v`, `init_sem`, `del_sem` use it | |
| `ShareMem` | server and clients of `IPC/share_mem` | `Semaphore` |
| `ShareMemProofs` | theorems about `ShareMem` | `ShareMem` |
| `MsgQueue` | server and clients of `IPC/pipe_fifo` | |
| `MsgQueueProofs` | theorem about `MsgQueue` | `MsgQueue` |

**ThreadPool.** One step for each stretch of code between two points at which
another thread can see the pool: taking the mutex, reading under it, and writing
and releasing it are separate steps. `pc` holds where each thread is, the other
variables are the fields of the pool and the locals that live across steps;
`accepted`, `taken`, `runs`, `todo` are history. `mem` says which part of the
pool is allocated. Each location has the set of parts the code touches there
(`Touches`), and a thread at a location one of whose parts is not live can only
make the step `Undefined`: use after free and use before initialisation are
thus states a run can find. A woken waiter goes to `"lock"` and tests the
condition again, which is what the `while` around `pthread_cond_wait` does;
`SpuriousWakeup` is always possible. Failing `malloc`, `pthread_mutex_init`,
`pthread_cond_init` and `pthread_create` are in (`MayFail`); failures of
`pthread_mutex_lock`, `_unlock`, `_signal` and `_join` are not.

**PoolMain, RedPacket.** `main` and the tasks around the steps of `ThreadPool`.
A task is one step under the program's mutex, then its return, so that the
counter can reach its goal while the last task is still running. Money is counted
in tenths, the unit of each share (a whole number and 0.1). The `double` is
modelled by what a cast to `int` makes of it: rounded down, and one less where
the sum of many tenths may lie just below a whole number. `my_rand` with an empty
range draws again for ever (`"spinning"`) or divides by zero (`"crashed"`).

**ChatGroups, MemberList.** The server's table twice: as sequences, newest member
first, which the other chat modules use, and as nodes with `next` and `prev` on a
heap that is allocated from and freed to. `MemberList!ImplementsGroups` maps each
list to its sequence. `occu` is separate from the length in both, as in the code.

**ChatServer, ChatClient, ChatLink, ChatRoom.** The server's step is one request of
one socket in the scan, as the code serves it without looking elsewhere; select,
the scan in ascending order, and accept at its end are separate, so that clients
move between them. The scan works on the snapshot `tempset`. Descriptors are
numbers, accept takes the lowest free one, a full table makes accept fail and the
server exit. A packet is a record with what somebody looks at later; a text
carries the group in which it was said, so that `TextsFromOwnGroup` can be
stated. `sendpkts` writes to clients one after the other; at a closed connection
the server may die of SIGPIPE, having served only those before. `Reset` is a
connection that was closed with data unread. A name lookup that finds nothing
makes the server print through a null pointer (`DisconnectCrash`, `Accept`).
The user is nondeterministic: any group and name, quitting, texts and `/end`.

**ChatPort.** Servers as processes that are started, serve, are signalled or die;
clients that read the link and then connect. The handler of one signal may be
interrupted by the other, so `cleanup` is enabled again in `"cleaning"`.

**SocketServer.** `desc[f]` is the client at the other end of the descriptor `f`,
`conn[c]` what a read or write of the server would meet: `"on"`, `"closed"` (end of
file), `"reset"` (an error, told once), `"over"`. `pending` counts what a client has sent
and the server not read, `got` what the client has not read. `Readable` is what
`poll`, `select` and `epoll` report and what makes a read return at once. A server
writes to several descriptors in one step (`WriteLine`), or dies in the middle
(`DieWriting`). `accept` takes the lowest free number, so a descriptor that was just
closed comes back at once. The part is the kernel's and the clients', mapped as
external where no line of the programs stands for it.

**PollServer.** `table` and `events` are `fd` and `revents`: the kernel writes the second
for the entries it is given, and the code only the first. A slot whose stale
`revents` says readable stops the server until its client sends (no step of `PollData`
or `PollEnd` is possible). `PollBeyond` is the call with one entry more than the
array; `Writable` is the loop that breaks off at a write that fails.

**SelectServer.** `arr_fd` has -1 in the entries that `memset` reaches and 0 in the
rest, which are never free; the set is built from all entries that are not -1. The
inner loop runs after accept with the old set and the new array (`SelectFrom`). After
it the shared index is past the array, so whether a typed line is sent depends on the
word in memory after `arr_fd`: `SelectLine` and `SelectNoLine` are both possible.

**EpollServer.** Events are served in any order, and those that are left when a step is
done may be stale. `Without` is the loop at 129-139 pass by pass: clear the entry, then
move everything behind it, in every iteration. `shifted` is history.

**EchoServer.** `set_nonblock` calls `fcntl` with the flags in the place of the command,
which fails, so sockets block, writes are never short and the branch for `EPOLLOUT`
is not reached. `Room` is how much a client may leave unread before a write waits.

**FileTransfer.** Pieces stand for bytes: two for the name block, two for the marker
and `Len(File)` for the content; a read takes any number of them up to its buffer.
`zero_copy` and `found` are chosen at the start. `link` is what the next write to a
client meets: data, a first error or none, then SIGPIPE; an error of `sendfile` ends
the server. `saved` holds the pieces a client has written to its file, and `zeros`
whether the rest of a buffer that was not filled has been written with them: after the
last piece (`"last"`) or, once a later read has gone on with the file, in the middle of a
copy (`"within"`).

**Semaphore, ShareMem, MsgQueue.** `Semaphore` is external, what the kernel does,
except for the wrappers: `Settle` gives the value to sleepers in order, `Undo` is
an exit with `SEM_UNDO`. In `ShareMem` an object is named by the run of the server
that created it, so that a client may hold one that was removed. A client that starts finds the memory and
attaches it in two steps, between which the server may remove it; it does not notice
that (`shamem_client.c:89` tests a pointer for being negative), goes on, and faults when a
text is typed (`Attach`, `Crash`). In `MsgQueue` the
queue is two numbers, since messages of one type cannot be told apart.

## 3 Runs

| run | configuration | states | what it shows |
|---|---|---|---|
| `pool` | `ThreadPool.cfg` | 66 000 | the pool under its documented use, tasks that add tasks, failing creation: mutual exclusion, FIFO ring, no lost wakeup, no use after free, everything reclaimed, no deadlock, refinement of `TaskPool`, accepted tasks run, destroy returns |
| `pool_overlap` | `ThreadPool_overlap.cfg` | 44 000 | calls that overlap a destroy: one caller destroys, whoever else tries |
| `pool_mutex_kept` | `ThreadPool_mutex.cfg` | violation | a second destroy returns with the mutex locked (section 7) |
| `packet` | `RedPacket.cfg` | 85 000 | `main`, its tasks and the pool together: asserts hold, nothing dropped, the packet is shared out exactly unless a draw fails |
| `chat` | `MCChatRoom.cfg` | 1 090 000 | two clients that join, talk, leave, quit, crash: table, descriptors and clients agree; requests are answered |
| `chat_death` | `MCChatRoom_death.cfg` | violation | a disconnect can end the server (section 7) |
| `chat_parts` | `MCChatParts.cfg` | 13 000 | linked lists implement the sequences, back links right, nodes neither lost nor used after free; at most one server serves, and the link names it |
| `servers` | `MCServers.cfg` | 1 126 000 | the four socket servers among three clients that come, send, leave and are reset: arrays, counts and descriptors agree, reads do not wait, typed lines reach all clients, what is sent is read, each with the exceptions its comment names |
| `file` | `MCFileTransfer.cfg` | 541 000 | both file servers, two clients that may be killed: who saw the end has saved every piece it was sent, at least a whole file, and everyone in the table is served |
| `file_zeros` | `MCFileTransfer_zeros.cfg` | violation | the file that is saved has zeros in the middle (section 7) |
| `share` | `ShareMem.cfg` | 704 000 | clients that may be killed holding the semaphore, a server started twice: one holder, nobody waits for ever, last text shown |
| `queue` | `MsgQueue.cfg` | 1 053 | replies taken by others or left by the killed: enough on the way, everybody answered |

Each property of a passing run has a mutant in `PROJECT.json`: a definition of
the code changed the way a plausible bug would change it (marked *a mutant* in
the modules, next to the original), under which TLC finds the property violated.
So no property holds by the shape of the model alone.

Deadlock is checked in `pool`, `packet` and `queue`. It is off in the others:
users and clients may stop for good there (all quit, or no move is left within
the bounds), a server that died or that a second destroy has locked stays so, and a
socket server waits when nobody sends.

## 4 Bounds

* **pool**: two workers and a caller, a ring of two slots, three tasks that may
  also be added from inside a task. Two workers are needed to overtake a woken
  one and to have one asleep and one awake; three tasks for a ring of two make it
  wrap, and fill it while both ends are not at 0. `MayFail` has the pool itself,
  one array and thread creation: failures that leave nothing, part of the
  arrays, and running workers. The other parts fail in section 8.
* **pool_overlap**, **pool_mutex_kept**: a second caller, tasks that add none.
* **packet**: three tasks on a ring of three, the exact limit of the program's
  assert; packets of 12.0 and 13.0, of which the first can run into an empty draw.
* **chat**: two clients, two descriptors and two groups, one of which is full with
  one member, two nicknames. A client may join twice and say one thing in each
  group, so it can be in a new group while texts of the old are on the way;
  descriptors are given out again. `MaxJoins` and `MaxTexts` bound users, not
  the server. Two clients are enough for each pairwise property (one name twice,
  two members, one sender and one receiver); the lists, which need three, have
  another run. `RequestsAnswered` is about the client in `Followed`: the two are
  alike, and one temporal formula instead of two halves the time of the run.
* **chat_parts**: three nodes, names and sockets, so that a member is removed at
  the head, the middle, the tail and alone, and a node is used again. Three servers:
  one that serves, one refused and one started after the first has ended; each handles
  one signal, and that when it serves. Two clients. The lists and the link share no
  state and no step, and no property is about both, so each moves while the other is as
  at the start: the product of the two would show nothing more.
* **servers**: three clients, so that one comes while another leaves and a third is
  connected. The arrays of `poll/` and `select/` have room for two, so the third is
  turned away, `poll/` reaches the call beyond its array, and `select/` has one entry
  that was not cleared. In `epoll/` four of five entries are cleared (16 of 64
  in the code), more than there are clients. Two lines are needed for SIGPIPE: the
  first write resets a closed connection. One client sends, up to three times: one echo
  fills `Room`, the next waits, and the third message is then unread. The others
  listen; a second sender adds states, and no property relates two senders.
  `Uninitialised` is what `revents` may hold before the first `poll`.
* **file**: two clients, since every error can only meet those after it; two pieces
  of content, name and marker, each cut at every place, and a buffer of five: like the
  client's 4096 bytes it is longer than the name block or the marker, so that the read
  with the marker may take in a part of the next copy; four lines, two files.
* **file_zeros**: one client and one copy of the file are enough for a short read.
* **share**: two starts of the server, three texts, a queue of two messages; one
  client may be killed anywhere.
* **queue**: four clients, one death; `Depth` 5 is the least room with which the
  server cannot be blocked for ever (the code relies on a system limit that is far
  larger than its clients are many).

## 5 Fairness

* **ThreadPool**: weak for the creation, strong for what each thread does in
  `threadpool_add`, in `threadpool_destroy` and in its worker loop. The kernel
  runs every thread that can run; strong, because the mutex is released and taken
  again and a thread that keeps asking is assumed to get it (what
  `pthread_mutex_lock` provides in practice, not what POSIX promises). A call of
  the program, a failure and a spurious wakeup are never assumed to happen. That a
  worker's task returns is assumed: `EveryTaskRuns` is not true otherwise.
* **PoolMain, RedPacket**: the same, and `main` and tasks are scheduled.
* **ChatRoom**: weak for the server, for a client's request for the list and for
  its reading. Users are under no obligation, so `RequestsAnswered` speaks of
  clients that wait for a reply. It holds without any fairness of other clients:
  one that never moves does not stop the server, as packets are read whole.
* **Servers**: weak for the server's step only. Clients come, send, read and leave or
  do not; `DataRead` therefore excepts an echo server that waits for a client which does
  not read. Which event `epoll` serves next is free, and need not be fair: those of one
  round are all served before it asks for new ones.
* **FileTransfer**: weak for the server and for what a client reads. A client does
  nothing but read until it ends or is killed (`Kill` is never assumed to happen, nor
  is another line). Lines may never come: `Delivered` starts when the second is there.
* **ShareMem**: weak for server and clients; a user who was asked for a text types
  one, or nobody else would get the semaphore.
* **MsgQueue**: weak for receiving, strong for what competes for room or replies:
  Linux serves the waiters of a queue in the order they came.

## 6 Proofs

The theorems hold for every value of the constants that satisfies the named assumptions
(`...Assumption`, in the module that declares the constants) and what the theorem
itself assumes. Where a theorem assumes more than the model does, the paragraph says
which behaviour of the code is behind it.

**ThreadPool** (from `SizeAssumption`, `NamesAssumption`, `UseAssumption`; any
number of callers, tasks and workers, and whatever may fail, overlap or nest):

* `TypeCorrect`: `Spec => []TypeOK`. That `count` stays in `0..QueueSize` is not a
  matter of types: it needs the other two invariants.
* `MutexExcludes`: `Spec => []MutualExclusion`.
* `RingIsFifo`: `Spec => []BufferHoldsPending`: the ring holds the accepted and not
  yet taken tasks in order.

The invariant is `IInv == Types /\ MutualExclusion /\ BufferInv`. `BufferInv` adds
to `BufferHoldsPending` the bounds of `count` and `LocalInv`: a thread about to
store has in `next` the index after `tail`, a worker about to advance `head` has
read the task at `head` of a ring that is not empty. These two are true only
because of mutual exclusion, and without them neither `AddStore` nor `WorkerTake`
preserves the FIFO property: the index and the task were read in an earlier step.
`TypesStep`, `MutualExclusionStep` and `BufferInvStep` have one step for each
action. The arithmetic of the wrap (two pending slots differ, the slot of the new
task is `tail`) is in `SlotsDiffer`, `SlotType`, `BufferInvStore` and
`BufferInvTake`.

The second part of `PoolProofs` goes on from there, first with no further
assumption:

* `OneJoinsAndFrees`: `Spec => []OneDestroyer`.
* `NoWakeupIsLost`: `Spec => []NoLostWakeup`, with any number of workers, adders and
  spurious wake-ups.

`LifeInv` adds to `IInv` where each thread can be, and what creation establishes
before anybody else sees the pool (`Birth`): workers exist only when every part is
live, so a creation that fails after some have started leads through a shutdown, and
nobody can wait at a pool that is being taken apart. `Counted` says that `started` is
the number of workers that have not ended (`Alive`); the proof needs a finite set of
them, and the order in which `threadpool_create` numbers them (`Unspawned`).

The other theorems assume `Calm`: no call overlaps a destroy (a second
`threadpool_destroy` returns with the mutex held, section 7, and a call that comes
later touches freed memory, section 8), and the mutex and the condition variable can
be initialised (`threadpool_free` uses them without having asked).

* `LockIsReleased`: `Spec => []LockReleased`.
* `NothingUsedAfterFree`: `Spec => []NoUseAfterFree`, whichever allocation or
  `pthread_create` fails.
* `AllReclaimed`: `Spec => []Reclaimed`, if the array of threads can be allocated
  (otherwise `threadpool_free` leaks the queue).
* `PoolImplementsTaskPool`: `Spec => ImplementsTaskPool`.

`CalmInv` says which parts of the pool are live at each stage of its life (`Memory`)
and that a thread in `threadpool_destroy` is alone (`Quiet`). Freeing needs
`Counted`: `threadpool_free` is reached with `started = 0`, so with every worker
ended. The refinement needs `TaskInv`, which follows a task from the hands of one
adder through the queue to one worker (`Unique`, `Executed`), and says how workers end
(`Endings`): after a graceful shutdown none does before the queue is empty, and
`Closing` carries this to the point where the pool is freed. The proof has one lemma
for each step of `TaskPool` (`StartStep` and its neighbours) and one that says which
actions stutter.

**PoolMain, RedPacket** (from `Program`: creation does not fail, only `main` calls the
pool, and its finitely many tasks fit in the queue; the code adds 32 tasks to a queue of
32; any number of threads, any amount of money):

* `PacketUsesPool`: `PacketSpec => Spec`. A step of the program is a step of the pool or
  leaves it alone (`PacketStepsPool`), so whatever is proved of the pool holds here.
* `NoAssertFails`: `PacketSpec => []AssertsHold`.
* `NoTaskIsDropped`: `PacketSpec => []NothingDropped`.
* `PacketNeverEmpty`: `PacketSpec => []MoneyLeft`.

The invariant is `PInv`, on top of the pool's. `MainInv` says what `main` knows at each
stage. That its adds are never refused needs the pool's `TaskInv`: accepted tasks differ
(`AcceptedFit`), the one being added is not among them (`RoomForTask`), so fewer than
`QueueSize` are pending. `CountInv` follows the counter that `main` polls: what was
dequeued has counted itself or is with a worker that has not done so yet (`Fresh`).
So when `done` reaches the number of tasks nothing is left in the queue (`Drained`),
though the last task may not have returned. By the same count whoever draws a share
while another task is uncounted is not the last, and of a packet that at least two
share a draw takes less than everything (`DrawLeaves`).

**ChatGroups** (from `GroupsAssumption`; any groups, capacities, names, sockets):

* `CountsAreRight`: `GroupsSpec => []Occupancy`.
* `NamesStayUnique`: `GroupsSpec => []NamesUnique`.

`GroupsSpec` is the table under arbitrary joins and leaves, without the order
clients keep. The invariant is `GroupsInv == TableOK /\ Occupancy /\ NamesUnique`;
`SomebodyEnters` and `SomebodyLeaves` are its two cases, on the lemmas `InFront`
and `WithoutProperties` about putting an element in front of a sequence and
taking one out.

**MemberList** (from `HeapAssumption`; any groups, capacities, names, sockets and any
finite heap):

* `ListsAreTheTable`: `Spec => ImplementsGroups`.
* `NoStrayNodes`, `LinksLeadBack`: `Spec => []NodesAreMembers`, `Spec => []BackLinks`.
* `CountsTheNodes`: the count of a group is the number of nodes in its list, and within
  its capacity; `CountsAreRight`, carried over by the refinement.

The invariant `Inv` is that a sequence of nodes exists for each group (`Linked`) along
which `next` leads forward and `prev` back, without repetition and ending in `NULL`
(`Leads`), and which together hold what is allocated. `ChainIs` says that the loop over
a list then visits that sequence; it is where the finite heap is needed, for the walk is
cut off after as many nodes as there are. `joingroup` puts a node in front
(`JoinHere`), `leavegroup` takes one out and links its neighbours (`DropHere`), and
neither touches a node of another list (`JoinElsewhere`, `DropElsewhere`). `WhoLeaves` says that the node that is freed
is the first for its socket, which the refinement needs when a socket is there twice.

**ChatRoom** (from `GroupsAssumption`, `ServerAssumption` and `RoomAssumption`; any
clients, groups and descriptors, whatever users type, with crashes of clients and the
death of the server at any point):

* `RoomUsesGroups`: `Spec => GroupsSpec`: the room implements the abstract table.
* `RoomCounts`, `RoomNames`: `Occupancy` and `NamesUnique` hold of the room.
* `OneGroupEach`: `Spec => []OneMembership`.
* `MembersStayConnected`: `Spec => []MembersConnected`.
* `ChattersSit`: `Spec => []ChattersAreMembers`.
* `OwnTextsOnly`: `Spec => []TextsFromOwnGroup`.

`OneMembership` is not a property of the server: `joingroup` lets a connection that is
in a group into another. It rests on the order in which one client asks, so the
invariant `RoomInv` follows that order through both queues of the connection
(`Orderly`): at most one request to join is on the way, if the client is still in a
group a request to leave is ahead of it, and an answer to a join has been read before
the next one is sent. This needs that a client is behind one descriptor
(`OnePlace`: one place in the backlog or among the live descriptors, so that serving
one connection leaves every other client's order alone), and that a member's
descriptor is live (`Connections`: a descriptor given out by accept is in no group
yet, which is why `Disconnect` has to take the member out before it closes it).
`Scanning` says that the server only reads where there is something to read.
`RequestServed`, `JoinServed`, `Told`, `Says`, `AsksToJoin` and `ReplyRead` are what
each end of a queue does to the order; then there is one lemma per action.

The last two theorems relate what a client believes to what the server holds, with
both queues in between. Their invariant `Talks` adds to `RoomInv` what each client has
ahead of it (`Talking`): a list is asked for once and answered once; a request to join
is for the room the client remembers, and whatever request to leave is still on the
way is ahead of it; once its acceptance is on the way the client sits where it asked
to, and everything behind the acceptance was said there. So nothing from the group it
left can come between: what was said there is ahead of the answer and is read as an
unexpected packet. `Seated` is the set of clients that are members where they asked to
be; `OthersSit`, with `EnterSeats` and `LeaveSeats` about the lists, says that a step
takes no seat but that of the socket it serves, and `HearsOwnGroup` that the sockets a
text is relayed through are of one group only.

**ChatPort** (from `PortAssumption`; any servers and clients, in any order, with
servers that are killed):

* `PortOfOneServer`: `PortSpec => []OneServer`.
* `PortNamesServer`: `PortSpec => []ServerLinked`.

Both assume that each server is sent at most one signal (`OneSignal`), and only when it
serves (`~Early`): otherwise `cleanup` removes the link of another server (section 8).
The invariant `PortInv` adds to `ServerLinked` that a server in `cleanup` has received
its signal, so that none comes between its `unlink` and its `exit`, when the link may be
that of the next server. `OneServer` follows, as the link names one server. The names of
`ChatPort` differ from those of the room so that both fit in one module.

**MsgQueue** (from `QueueAssumption`; any finite set of clients, any `Depth` and
`Deaths`): `AlwaysEnough`: `Spec => []EnoughOnTheWay`. The property is inductive
once the variables have their types; the lemmas `OneComes` and `OneGoes` say how
the number of waiting clients follows one client that moves. The finiteness of
`Clients` is what makes that number one.

**Servers** (from `SocketAssumption` and `ServersAssumption`; any finite set of
clients, any number of messages and lines, any sizes of the arrays):

* `DescriptorsKept`: `Spec => []NoDescriptorLost`.
* `ReadsReturn`: `Spec => []NeverBlocked`.
* `CountCovers`: `Spec => []CountCoversArray`, if there are fewer clients than
  entries that `memset` has cleared (`Cardinality(Clients) < Set`). With more, an entry
  that never was -1 lies beyond `count`: the property's comment has this condition.
* `LinesToAll`: `Spec => LineToAll`, if at least two entries are cleared and the search
  for a free one sees all of them (`1 < Set`, `Set <= Searched`; 16 and 50 in the code).

The first two follow from `Inv`. Its part `SocketInv` says that every client is in one place: at
the end of one descriptor, or once in the queue of connections, or neither. So a
descriptor that is closed and given out again has a different client, and accept
always finds a free number. `SelectInv` and `EventsHold` say that what was reported and
is not yet served is still readable. They are inductive because clients only ever
make a descriptor more readable (`ClientsKeepInv`), a server step only changes the
descriptor it serves (`Kept`), and a number that is given out in the middle of a round
was not among the reported ones, or was served before (the point at which `select/`,
which looks at the new array with the old set, would go wrong). `PollInv` needs no such
part, and could not have it: in `poll/` a read may wait. There is one
lemma for each operation of `SocketServer` and one for each program
(`PollKeepsInv`, `SelectKeepsInv`, `EpollKeepsInv`, `EchoKeepsInv`) with a step for each
of its actions.

`CountCovers` is about what the double loop of `epoll/server.c:129-139` leaves in the
array. The model writes it as a recursive function of the index (`Without`); what its
last value is, is proved by the smallest index at which it would be something else
(`Smallest`, from the library's theorem about well-founded relations): `RoundKeeps`
says what one round of moves does, `RoundsExist` that the function is defined, and
`WithoutKeeps` that nothing beyond `count` is touched. That the first free entry is
found before `count` runs into it needs `count = Cardinality(Open)` of `EpollInv`.

`LinesToAll` is immediate for `select/`, whose array holds each open socket once. For
`epoll/` its invariant `FirstCount` says that, until a client leaves others behind, the
first `count` entries are the open sockets, each once, and the cleared ones after them
are free: a new client goes into the entry at `count` (`AcceptInOrder`), and the only
client leaves an array of free entries, which is where a second cleared entry is needed
(`LineStep`). `OneEntry` and `WrittenOnce` go from entries to writes.

**FileTransfer** (from `FileAssumption`; any clients, any file, any size of the
client's buffer, any number of lines, clients killed and writes failing at any point),
about the pieces that are sent, and not about the zeros the client writes between them:

* `NobodyMissesAnything`: `Fits /\ Spec => []NothingMissing`.

It assumes that the marker does not occur in the file (`NoMark`), since it is sent in
band, and that a file which is copied with `sendfile` is taken whole by one call
(`Fits`; the copying loop needs no such thing): with either broken the property fails
(section 8). What a client is due is the block of name, file and marker, over and over
(`Sent`). The invariant `FileInv` relates both ends of a connection by their position in
it (`Follows`): what is saved and what is on its way are consecutive pieces of it, from
where the first read left off, and the server goes on where they end (`Phase`). So a
client whose connection is open has missed none of them (`Starts`, `Reads`); one that read a
reset for a name has nothing to come. `Sends` is the step of the server, for each of its
three writes; `ReadOn` that of the client. That the marker is recognised only after a
whole file is `MarkAfterFile`: two consecutive pieces of the repeated block that are the
marker are at its end. It needs how remainders go on and wrap (`RemainderGrows`,
`RemainderWraps`), proved from the definition of division, and not by induction.

**ShareMem** (from `ShareAssumption`; any set of clients, any number of starts of
the server and of texts, any length of the queue, clients killed at any point):

* `SemaphoreHasOneHolder`: `Spec => []OneHolder`.
* `MemoryIsExclusive`: `Spec => []Exclusive`.
* `LastTextIsShown`: `Spec => []LastTextShown`.

Each assumes that the server is not among those killed: a server that is killed and
started again sets the semaphore under whoever has it (`shamem.c:120`, section 8).
The invariant is `ShareInv`. `Objects` and `Opened` say of which run of the server
the objects are that exist and that each process has opened: a client opens them one
after the other, so what it has may be of two or three runs, but later objects are
never of earlier runs, and only the memory can be missing. `Lock` is what `SEM_UNDO` is for: the semaphore is 1 and nobody
has or waits for it, or 0 and one process has it, whose exit would add exactly 1, and
which a client can only be if its semaphore is the one there is. From `Opened` and
`Lock` follows that nobody writes into the memory of a server that is starting, and
with it `Fresh`, of which `LastTextShown` is a consequence. The lemmas about the
queue of waiters (`RemoveFirstProperties`, `AppendSleeper`, `SettleOne`) say that a
waiter that is served, or killed while it waits, is in it once.

*Only model-checked*: liveness (`EveryTaskRuns`, `DestroyReturns`,
`RequestsAnswered`, `Granted`, `EveryoneAnswered`, `EveryoneServed`, `DataRead`,
`Delivered`), which needs fairness and `ENABLED`. Every safety property of a passing
run is stated by a theorem; where the theorem assumes more than the run's constants
say, the paragraph above names it.

## 7 Disagreements between code and comments

* **The mutex is kept.** `threadpool.c:275` has the author's own doubt whether all
  paths release the lock. `threadpool_destroy` (165-168) breaks out with
  `threadpool_shutdown` after taking the mutex and never releases it; the first
  destroyer's workers, which must take it to end, then wait for ever. Run
  `pool_mutex_kept`. It needs two threads that destroy one pool.
* **A client can end the server.** Comments at `chatserver.c:194` and `214` say
  that a client which disconnects is removed. Run `chat_death`: a text or reply
  for a connection that has just been closed raises SIGPIPE, which the server does
  not handle; and the disconnect code prints a name it may not have.
* **The saved file is not the file.** `file_transfer/zero_copy/client.c:74` says that
  the file is saved in `client_file`, and line 107 prints that it was received
  successfully. Line 91 writes the whole buffer of 4096 bytes after every read,
  however few bytes it returned, so each short read, and reads of a socket are short
  as a rule, puts zeros between what was sent. `file_tran/client.c` is the same. Run
  `file_zeros`; `NothingMissing` and its theorem speak of the pieces that were sent.
* **Comments about clients that leave or are many**, seen in the traces of variants of
  `Servers`, without a run of their own: `poll/server.c:155` says all sockets are
  checked, but `maxi` is decremented when any client leaves, and then the highest slot
  is not polled; `epoll/server.c:156` says a line is written to all clients, which
  the shifting at 129-139 prevents (section 8).

## 8 What other constants show

The models contain more than the runs check. With other constants TLC finds, and
the reader of the code may want to know:

* `ThreadPool` with `"threads"` in `MayFail`: `Reclaimed` fails, `threadpool_free`
  skips the arrays and leaks `queue`. With `"lock"` or `"notify"`:
  `NoUseAfterFree` fails, `threadpool_free` locks a mutex, or destroys a condition
  variable, that was not initialised.
* `ThreadPool` with `Overlap`: `NoUseAfterFree` fails; an add that has passed no
  test yet finds the pool freed.
* `ChatPort` with `Early`, or with both signals: `ServerLinked` and `OneServer`
  fail, as `cleanup` unlinks whatever link is there.
* `ShareMem` with the server in `Mortal`: `OneHolder` fails, since a restarted
  server sets a semaphore that is in use.
* `MsgQueue` with less `Depth`: the server waits for room for a reply while
  every client waits for one. The real queue has room for far more messages.
* `RedPacket` with more tasks than slots: the assert of `threadpool_add` fails;
  with a smaller packet draws fail more often.
* `PollServer`: the array is given to `poll` with one entry too many once a client was
  turned away (`PollBeyond`, which the run `servers` reaches). `NeverBlocked` and
  `LineToAll` fail for it, the first because of stale `revents`, and `DataRead` fails
  without the exceptions it makes: a client whose slot is above `maxi` is not read.
* `EpollServer`: without `shifted`, `LineToAll` fails: after a departure the entries of
  clients that remain are overwritten, and the first `count` entries are not the
  clients that are connected. With fewer cleared entries than clients (`Set` 1 or 2
  in the run) it fails without a departure: an entry that is not -1 is never taken.
* `SelectServer`: `LineToAll` holds for the lines that are written; with another word
  after the array they are never written at all (`SelectNoLine`).
* `EchoServer`: `DataRead` fails without the exception for a client that does not
  read. Writing to a client that has gone can kill the server.
* `FileTransfer`: with pieces of the file that equal the marker, or a file larger than
  `sendfile` takes at once (`SendMax`), `NothingMissing` fails. A client whose server
  died reports success with part of a file (`"cut"`). If the file is sent twice, the read that
  begins with the marker may go on into the second copy, which the client then appends. If no read happens to begin
  with the marker, a client never ends: the run reaches this too. `Delivered` from the
  first line on fails: a second one must be typed as well.
* `ChatRoom` as it is: a text that arrives after `/end` is taken for the reply to
  the next request, and the client gives up (`at[c] = "confused"`, which the run
  `chat` reaches). `TextsFromOwnGroup` therefore speaks of clients that chat.

Some hazards in `PROJECT.json` are met by the runs without a property that objects,
because the code does not recover from them: an accept that fails (`chatserver.c:294`;
`RequestsAnswered` takes the end of the server for an answer), a stale `revents`, a slot
above `maxi` and an echo to a client that does not read (`DataRead` excepts them), a
call with one entry past the table (`poll/server.c:72`), the entries that `epoll/server.c:129`
overwrites, and a client that never recognises the marker. Others are left out by the
constants: the signals that unlink another server's link, a server that is killed in
`ShareMem`, a message queue without room. The hazard's note says so in each case.

## 9 Not modelled

Components: see `PROJECT.json` for each. `fork_array/serve_lv.c` does not compile: it uses
an array whose declaration is commented out. In `tcp_base/` each process accepts,
forks, sends a greeting and closes, and shares only the listening socket. The test
clients of the socket servers are the environment of their servers' models;
`pthread_cond_test.c`, `linux_pra/` and `IPC/sema.c` are smaller uses of what
`ThreadPool`, `RedPacket` and `Semaphore` have; `fifo_read.c` and `wechat.sql` keep no
state.

Within modelled components: bytes, packet headers and partial reads (a packet is
read whole, so a server that waits for the rest of a packet is not in the model);
full socket buffers and writes that block; failing system calls where the text
above does not name them, among them `accept`; the end of standard input; a full table
of the file server; the descriptors it leaks when a write fails, since `continue` skips
the `close` (`zero_copy/server.c:213-217`, `245-248`), until it has none left; the code of `server_echo.c` for short writes, which the failing
`fcntl` makes unreachable; what is printed; wrong input at prompts that only makes
the program ask again or end.

## 10 Plan

The order is by importance: concurrency first, then servers whose tables are kept
by hand, then the small programs.

1. *Done.* `TaskPool`, `ThreadPool` and its first theorems; the chat room and the
   theorems about its table and the room; `ChatPort`; `PoolMain` and `RedPacket`; `ShareMem`;
   `MsgQueue` and its theorem; the socket servers and their theorems; the file
   transfer.
2. Theorems. *Done:* the pool and its refinement of `TaskPool`, the programs on it, the
   chat room, the linked lists of its table, the port, shared memory, the message queue,
   the arrays of the socket servers, the file transfer. What is left is liveness, which
   the provers do not reach.
3. Bounds on socket buffers, in the chat room first: a client that types and does not
   read can make the server wait (`chatlinker.c:227`, a hazard without a property).
