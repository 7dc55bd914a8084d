# lce: models, checks and proofs

lce is a C++ library for network servers on Linux: an epoll event loop with
timers and messages between threads, a TCP manager on top of it, a second manager
that spreads clients over worker threads, thread pools, buffers, queues and
caches. This directory holds TLA+ modules of its control logic, the TLC
configurations that check them, and TLAPS proofs about them. Paths below are
relative to the repository.

## 1. Inventory

### Components

| Part | State | Operations | Talks to |
|---|---|---|---|
| `CEvent` (`src/CEvent.cpp`) | `m_stFdEvents`, the epoll interest list, the timer set and its index, the message queue, its pipe and `m_lock` | `addFdEvent`, `delFdEvent`, `addTimer`, `delTimer`, `addMessage`, `run`, `stop` | the kernel; calls handlers |
| `CCommMgr` (`src/CCommMgr.cpp`) | `m_vecClients` (a slot per descriptor), `m_dwClientNum`, `m_vecServers` | `onAccept`, `onTcpRead`, `onConnect`, `write` (by the application, and on EPOLLOUT), `close`, `connect`, UDP, signals | `CEvent`, `CSocketBuf`, package filters; calls a `CProcessor` back, which calls it again |
| `CNetWorkerMgr`, `CNetWorker` | the manager: count, workers; a worker: ring, eventfd, `m_vecClients`, its own `CEvent` | `onAccept`, `watch`, `onEvent`, `onTcpRead`, `close`, `connect`, `write` | ring and eventfd between the manager's thread and the worker's; descriptors are the process's |
| `CCircleQueue` | array, `m_dwFront`, `m_dwRear` | `enque`, `deque` | one producer, one consumer, no lock |
| `CSocketBuf` | array, size, begin, end | `addData` (two), `addFreeBuf`, `removeData`, `reset` | `CCommMgr`, `CNetWorker` |
| `CTask`, `CThread`, `C*WorkerPool` | queue, mutex, condition, stop marks | `dispatch`, the threads' loop, `onRead`, `onWork`, `onMessage`, `stop` | `CCommMgr` (sessions), `CEvent` (messages) |
| `CBlockQueue` | ring under a mutex and a condition | `push`, `pop`, with and without a time limit | threads |
| `CLruCache` | list and map, expiry times | `set`, `get`, `del`, `clear` | - |
| `CAsyncLog`, `CLogBuffer`, `CFileLog` | two buffers, the one written now, files | `write`, the flushing thread, rotation | threads, files |
| `CBufferQueue` | header and bytes in shared memory | `push`, two `pop`, `attach`, `create` | one writer and one reader process, either of which may die |
| `CBitMap`, `CShm`, `CShmArray` | cells in words; a segment with its header | `get`, `set`, `clear`, `init`, `attach`, `create` | processes |
| `CTcpConnector`, `CUdpConnector` | descriptor, `m_bConnect` | `connect`, `write`, `read`, `readn`, `close` with time limits | the kernel |
| Package filters | none | `isWholePkg` | `onTcpRead` |
| `CHttpReader`, `CHttpWriter` | tables of heads, cookies, query and form values and files; the response put together | `setData` and the getters; `begin`, the setters, `end` | the HTTP pool |
| `CPackage`, `CAnyPackage`, `CAnyValue`, `CConfig`, `CMysql`, `CLog`, `Utils`, `StringHelper` | data | parse, format, wrap a system call | - |

### What is hard

- *Descriptors are names that are reused.* A session, an epoll entry, a slot, a
  worker's table and a response all name a connection by its descriptor. The
  kernel gives a closed descriptor to the next connection, within one batch of
  events, within one callback, or on another thread.
- *Callbacks call back.* Inside `onAccept`, `onRead`, `onConnect` and `onClose` the
  application may write, close and connect, on this connection or another; timer
  callbacks change the set the loop is walking; message handlers send messages.
- *Threads.* The ring has no lock; the message lock is taken by the loop and by
  everybody else; the pool's signal comes after its unlock; threads are cancelled
  wherever they are.
- *Failure in the middle.* The kernel may refuse an `EPOLL_CTL_ADD` after the
  tables were changed; a send may take some bytes, none, or fail; a rename in the middle
  of a rotation may fail; a connect, a write or a read may time out.
- *Processes that die.* Shared memory outlives its processes: a message half copied, a
  segment made and not yet filled in.
- *Objects used again.* A reader, a writer, a buffer and a connector serve one request
  after another, and what one leaves behind must not show in the next.
- *Limits.* The client limit, the queue limits, the send buffer's maximum, the
  pipe's size, the buffer that doubles.

### What makes each part correct

- `CEvent`: its table is the kernel's list; messages are handled once, in order,
  and none waits for a wake-up that was lost; a timer fires once, in order, on time.
- `CCommMgr`: every open connection can be reached by some event; what a peer
  receives is what was written, whole and in order; a slot is in use exactly while
  its descriptor is open; clients are counted right; no NULL buffer is followed.
- `CNetWorker*`: one owner for each connection; no client waits in a ring unseen.
- `CCircleQueue`: a bounded FIFO without data races.
- `CSocketBuf`: bytes in order; growing ends and stays within the maximum.
- `CBlockQueue`, `CBufferQueue`: a FIFO; a message is handed out once and whole, whoever
  dies in between.
- `CLruCache`: it holds exactly the keys set last that have neither expired nor been
  pushed out, each with its last value, and list and map agree.
- `CBitMap`, `CShmArray`: a cell holds what was last set in it; whoever gets an array
  gets one of the size it asked for, and none longer than the segment.
- Logs: a line that was accepted is written once and whole, or lost with a failed write
  only; rotation keeps the newest files, under the right numbers.
- Package filters: the packages handed out are the packages sent, wherever the
  stream is cut.
- Connectors: an answer read is one of this connection, in order; every socket made
  is closed once.
- HTTP: a request's tables hold what that request says, and a response what was set for it.
- Pools: a request is worked on once and answered to whoever sent it; no thread
  sleeps while it is needed.

PROJECT.json lists the hazards at their lines with the properties that cover them.

## 2. Modules

| Module | Models | Role |
|---|---|---|
| `FdEvents` | `addFdEvent`, `delFdEvent`, the interest list, refusals | extended by `CommMgr` |
| `CommMgr`, `CommMgrMC`, `CommMgrProofs` | the loop over one batch, and all TCP handlers and calls of `CCommMgr` | composed with `FdEvents`, kernel, peers and application |
| `NetWorker`, `NetWorkerMC`, `NetWorkerProofs` | the manager and its workers | its ring is the abstract queue of `BoundedFifo` |
| `BoundedFifo` | what a bounded queue promises | abstract specification |
| `CircleQueue`, `CircleQueueMC` | the ring, each shared access a step | implements `BoundedFifo` |
| `EventMessages`, `EventMessagesMC`, `EventMessagesProofs` | `addMessage` and the loop's message part | |
| `EventTimers`, `EventTimersMC`, `EventTimersProofs` | the timer part of the loop | |
| `SocketBuf`, `SocketBufMC` | the buffer | `CommMgr` uses a sequence for it |
| `WorkerClient` | one connection a worker makes: `connect`, `onTcpConnect`, `write`, `onWrite`, `close` | the write path of `CNetWorker`, which `NetWorker` leaves out |
| `BlockQueue`, `BlockQueueMC` | `CBlockQueue`, the mutex and the condition | implements `BoundedFifo` while no `pop` goes on without the mutex |
| `BufferQueue` | the queue in shared memory, each store of an index a step | |
| `LruCache` | both cache classes | |
| `BitMap` | the seven widths, on bits | |
| `ShmArray` | `CShm` and `CShmArray` among processes | |
| `LogFiles` | `CFileLog`, and the files of `CAsyncLog` | |
| `AsyncLog` | the two buffers of `CAsyncLog`, its thread, `flush` | |
| `PackageFilters` | the four filters and the loop of `onTcpRead` that uses them | `CommMgr` has the loop with packages as model values |
| `Connector` | both connectors and the kernel they talk to | |
| `HttpExchange` | reader and writer | |
| `WorkerPool`, `WorkerPoolMC`, `WorkerPoolProofs` | the queue, the pool threads, the loop's side of a pool | `addMessage` is one step here |
| `StoreProofs` | - | proofs about `CircleQueue`, `BufferQueue`, `LruCache` and `LogFiles` |
| `SocketProofs` | - | proofs about `SocketBuf`, `WorkerClient`, `Connector`, `PackageFilters` and `HttpExchange` |
| `SharedProofs` | - | proofs about `ShmArray`, `BlockQueue`, `AsyncLog` and `BitMap` |

Names are the code's where TLA+ allows it. A definition `X_Something` next to a
definition `X` is a plausible mistake in `X`; PROJECT.json says which property finds it.

### How state and actions correspond to the code

**FdEvents, CommMgr.** `fdEvents` is `m_stFdEvents` (types set, write handler);
`interest` is what epoll really has; `client` is `m_vecClients` with the two buffers
as sequences or `NoBuf` for NULL. `pc` says where the loop is: between two entries of
the batch (`loop`), in `onAccept`'s loop, in `onTcpRead`'s package loop (`parse`), or in
a callback; `call` says which. An action is one handler up to the callback it makes, and
`Return...` is what follows the callback. `App...` actions are the application's calls,
possible in any callback and, for timers and messages, between two entries. `conn`,
`net` and `backlog` are the kernel: which connection a descriptor stands for, and what
has been sent and received on it. Connections are numbered as they come into being, so
that a reused descriptor can be told from its last owner. A write sends one unit of two
pieces; `sent` is what the kernel took, `owed` what `write` answered 0 for, `whole` whether no
write on the connection answered -1.

**NetWorker.** The manager's `onAccept` up to `watch`'s `enque` is one step and the write
of the eventfd the next; a worker takes clients out of its ring one at a time, calls
back, and watches; `events` and `interest` are its `CEvent`. `m_dwClientNum`, which
the constructor does not initialise, starts anywhere.

**EventMessages.** `addMessage` is: call, lock and push, write and unlock; the loop: woken,
lock, read one byte and take one message, call its handler, and so on until the pipe is empty.

**EventTimers.** The multiset is a sequence ordered by due time with equals in insertion
order. `now` goes on while handlers run and while the loop waits.

**SocketBuf.** The array with its contents; bytes are numbered as they come.

**CircleQueue.** `enque` is: test, store, publish; `deque`: test, load, release.

**WorkerPool.** The loop dispatches (lock, test and push, signal), a thread goes round
(test the stop mark, lock, sleep or take, work, answer), and the loop writes the answer to
the descriptor in the request's session. The three pools differ in how a request is read and
written; when it cannot be parsed the HTTP and AnyValue pools close the session (`Close`), and
the rest is the same code three times. `session` remembers whose the descriptor was.

**WorkerClient.** `client`, `bNeedClose`, `sendBuf`, `watchRead` and `watchWrite` are the slot of
`m_vecClients` and the handlers of its descriptor; `callback` says that `onConnect` is running.
Each piece is numbered, so `sent` and `owed` can be compared piece by piece.

**BlockQueue.** Each thread has a place in the code (`at`): before the mutex, with it, waiting on
the condition, waking (also with no signal), and, for `pop` without a limit after its wait, each
load and store of the size and the item. `pthread_mutex_unlock` frees the mutex whoever has it.

**BufferQueue.** All copies of one push, or of one pop, are a step, and so is each store of
`iBegin`, `iEnd` and `iNum`. The bytes a push copies lie outside what is published and those a pop
copies stay until `iBegin` is stored, so nobody sees how far the copies have come. `WriterDies` and `ReaderDies` stop a process between two steps, and it attaches again.

**LruCache.** Per shard the map from keys to nodes and the nodes with their `next` and `prev`, head and tail,
linked and unlinked as in the code; `recent` is the list of keys and values there should be.

**BitMap.** The memory as the set of bits that are one; masks and the places of a cell
as the code computes them for each width.

**ShmArray.** The segment (or none), its size and header, and for each process how far its
`create` and `init` have come; processes die anywhere, the segment stays.

**LogFiles, AsyncLog.** The directory as a function from names to sequences of lines; the two
buffers as sequences of cells; each rename, open and write may fail. A thread that
flushes is at the reading of the flag, the change of buffers (under the mutex), the write, the
reset or the store of the flag.

**PackageFilters.** The receive buffer in front of the bytes an earlier package left behind it,
which the HTTP filter's `strstr` reaches; a stream is cut at any place. One package may have a wrong
mark, or a length that is negative or shorter than an empty package's.

**Connector.** `kind`, `m_bConnect` and the descriptor; the kernel's sockets, what is open, and
what the server has answered on each.

**HttpExchange.** A request is what `setData`'s searches find in it; the tables as functions whose
entries bear the number of the request they are from.

## 3. Runs

| Run | Instance | Distinct states | Shows |
|---|---|---|---|
| `circle_queue` | one store in each behaviour: a ring of 3 places with 2 elements; 9 bytes of shared memory and messages of 1, 2 and 4; two shards of 2 nodes and 4 keys; 16 cells of every width; 2 processes and arrays of 1 and 2; 2 days and 3 files of 2 lines; two log buffers of 4 cells, the log's thread and a caller of `flush` | 239,823 | `NoSlotRace` and `ImplementsFifo`, the refinement of `BoundedFifo`; `QueueKeepsMessages`, `HoldsLastUsed`, `CellsAsWritten`, `ArrayAsAsked`, `LogKeepsNewest`, `AcceptedLinesKept` |
| `comm_mgr_io` | 1 descriptor, 2 connections in turn, 3 writes, a send buffer of 3 pieces, packages, oversize and invalid ones | 273,994 | `TablesAgree`, `ToldConnected`, `NoConnectionForgotten`, `NoNullBuffer`, `FrameIntegrity`, `DrainedWhole` |
| `comm_mgr_live` | the same with 2 writes, a buffer of 2, packages and invalid ones | 68,769 | `PeerGoneNoticed`, `QueueFlushed`, `ConnectAnswered` under fairness |
| `comm_mgr_fds` | 3 descriptors and connections, limit 1, one refused ADD | 438,279 | `ClientCount` |
| `net_worker` | 2 workers, rings of 1, 3 descriptors of which one is over the limit, 3 connections, one refusal | 59,010 | `OneOwner`, `NoNullClient`, `WakeupPending`; `HandedOver`, `GoneIsClosed` |
| `event_messages` | 2 threads and the loop, 4 messages, at most 2 pending, a pipe of 2 | 3,795 | `OneBytePerMessage`, `HandledInOrder`; `AllHandled` |
| `event_messages_full` | the same with 3 pending | - | `NeverBlocks` is violated |
| `event_timers` | 2 timers, delays 0, 1 and 3, a wait of 4 | 62,616 | `Punctual` (with the index that matches the set), `FiresRight`; `EveryTimerFires` |
| `socket_buf` | one channel in each behaviour: a buffer of 2 bytes with maximum 5 and 12 bytes; 2 packages of each filter; 3 requests out of 8; 2 questions and 3 sockets; 3 writes with send buffers of 1 and 3 pieces; 2 pushers and 2 poppers at a queue of 2 | 192,606 | `DataInOrder`, `ResizeFits`; `AddDataEnds`; `PackagesAsSent`, `HttpOfThisRequest`, `AnswersAndSockets`, `WorkerWrites`, `InOrderWithMutex` |
| `worker_pool` | 2 threads, a queue of 1 (so 2), 1 descriptor, 2 connections, 3 requests | 169,059 | `EachOnce`, `NoIdleWhileQueued`; `AllHandled` |
| `worker_pool_stale` | the same with 1 request | - | `AnswersReachAsker` is violated |
| `block_queue_pop` | 1 pusher, 1 popper without a limit, a queue of 2 | - | `PoppedInOrder` is violated |

`circle_queue` and `socket_buf` hold several modules that share no state: `part` is
chosen at the start and only that one moves, so their states add up and do not multiply.

### Bounds and why they are enough

- One descriptor in `comm_mgr_io` is the hardest case for reuse: every connection gets
  the last one's name, and two connections in turn are the one that ends and the one that
  inherits. So an EPOLLOUT that waits in the batch for a connection with a queue finds, when a timer or
  a message has closed that one and connected anew, a connect under way on the same descriptor:
  the case that `ToldConnected` excepts by `reopened`, and without which it fails there. Three descriptors in `comm_mgr_fds` let one batch hold an event of a connection that
  an earlier entry closed and of one that took its place. Three writes of two pieces against a
  buffer of three give every case of `write`: nothing queued, something queued, sent in part,
  not at all, no room.
- Rings of one place and two workers make the full ring, the hand-over to the other
  worker and the reuse of a descriptor across workers happen.
- A pipe of two bytes with at most two pending is the largest load that never blocks;
  three pending is the smallest that does.
- Delays 0, 1 and 3 with a clock to 7 give equal due times, timers due at once, and a
  wait that is cut short; `MaxBusy` is how long handlers may keep the loop from waiting.
- 2, 4, 5 are the sizes the buffer goes through: doubling, then the maximum that
  is no power of two times the first size.
- Nine bytes with marks of two and messages of up to four cut both marks and messages at the end
  of the memory at every place; three messages let the indices go round.
- Shards of two nodes that throw two away go through empty, one, full and evicting; the four
  keys collide three to one.
- 16 cells cover one whole group of every width and the next; the cells touched lie at the
  beginning of a group, in its middle, across its end, and one past the last.
- Two processes that ask for one and two nodes find no segment, one that is too small, one that
  is large enough, and one whose maker died before or while it filled in the header.
- Three files of two lines and seven lines rotate until the oldest goes, on each of two days.
- Buffers of four cells hold one line of two and its end, or two of one, so that writers change
  buffers on their own account as well as the flushing threads'.
- Send buffers of one and three pieces with messages of two: one that never holds a message whole,
  and one that holds it and part of the next.
- The bodies of packages hold the filters' own marks, and what is left in the buffer behind the
  data ends a head, or has a length in it.
- A queue that takes two and three requests with two threads give the refused
  dispatch, both threads asleep, both at work, and a signal for a thread that took the
  request already.

`CHECK_DEADLOCK FALSE` stands where the system may stop: the messages are all sent, the
clock has reached its bound, the pool is stopped, the connections are used up, the requests
are all served.

### Fairness

- The loop's thread runs for ever: weak fairness of its steps, strong where a step is
  disabled now and then by the batch (`CommMgr`'s handlers) or by a lock another thread
  holds. POSIX mutexes do not promise strong fairness; a thread that never gets a lock
  that is free infinitely often is a scheduler nobody runs on.
- Callbacks, `onRequest` included, return. Without this nothing can be said.
- `CommMgr`: a peer that is there reads, and a connect is answered (in the worst
  case by the kernel's own time limit); no peer is assumed to send or to close.
- `NetWorker`: reading comes to the end of what a peer that has gone had sent.
- `EventTimers`: time goes on.

## 4. Findings

1. *A response may go to somebody else* (`CRawWorkerPool.h:75`; the HTTP and AnyValue
   pools are the same). The pool keeps the session of a request while a thread works on
   it, `write` knows a connection by its descriptor only, and by then it may be the next
   client's. Run `worker_pool_stale` shows it with one request.
2. *Sending a message may block everybody* (`CEvent.cpp:258`). The pipe's writing
   end is blocking and the write happens under the lock which the loop needs to empty the
   pipe. Run `event_messages_full` shows the state; a pipe holds 65536 bytes on Linux, so
   it takes that many messages pending, or one handler that sends that many.
3. *An item may be popped twice* (`CBlockQueue.h:158`). After its wait `pop` unlocks the
   mutex and goes round without it; its updates of the size then race with `push`'s. Run
   `block_queue_pop` shows it with one thread on either side, as in `Test_BlockQueue.cpp`: 1, 2, 1
   comes out. The pop with a time limit has no such path, and `InOrderWithMutex` shows the queue
   is a FIFO as long as nobody has gone round without the mutex.

## 5. Proofs

For every value of the constants that satisfies the modules' assumptions. Every safety invariant and every action
property of the passing runs is stated by one of these theorems:

| Module | Theorem | Argument |
|---|---|---|
| `CommMgrProofs` | `TypeCorrect`, `CountsClients`, `TablesStayEqual`, `FollowsNoNull`, `TellsOfConnected`, `ForgetsNoConnection`, `KeepsFrames`, `DrainsWhole` | see below |
| `NetWorkerProofs` | `TypeCorrect`, `NoLostWakeup` | `AtClient` (a worker that calls back has a client) is added to the types |
| | `ReadsForItsClient`, `EveryConnectionOwned` | `Owned`: every entry of a ring and of a table is of the connection the descriptor stands for, and there is exactly one for each open descriptor. `NoNullClient` alone is not inductive: a close by one worker would free a descriptor that another still had |
| `EventMessagesProofs` | `TypeCorrect`, `OneLockHolder`, `WakeupPerMessage`, `InOrder` | `LockHolder` is what makes one byte per message inductive: the byte still to be written belongs to the one thread inside |
| `EventTimersProofs` | `NoneIsLate`, `FiresAsSet` | the bound on lateness alone is not inductive: `OnTime` adds that `epoll_wait` was told to give up in time, and that the loop's clock reading is behind by no more than its callbacks took; `Agree`, that index and set name the same entries, is needed because a callback changes both while a round walks the set |
| `WorkerPoolProofs` | `TypeCorrect`, `NoLostWakeup` | `InUse` (whatever is passed on is a request that was read) and `Held` (who dispatches or works has one); for the wake-ups, the threads on their way to the queue are counted: a push adds one request and one signal, a signal one thread, a take removes one of both |
| | `RequestsInOnePlace` | the places a request can be in (the loop's hand, the queue, a thread, the message, the answers, lost) are counted per request: the sum is one for a request that was read, and no step changes a sum |
| `SocketProofs`, on `SocketBuf` | `TypeCorrect`, `BytesInOrder`, `EveryResizeFits` | `Fits`, that the data and what is being added fit the maximum, makes the loop of `addData` sure to end with room; without it growth could reach the maximum too early |
| on `WorkerClient` | `ClientTypeCorrect`, `WritesInOrder` | `Inert` (a slot that is not open has no data and no handlers) and `MarksAgree` (a close that is due stands in `bNeedClose`; a callback is announced as it is) make `WorkerWrites` inductive. All ways through `write` end in `Outcome`, and `Outcome` preserves the invariant; pieces sent and kept are followed by cutting and joining sequences (`Cut`, `Grouped`) |
| on `Connector` | `AnswersInOrder` | what was read, what `readn` has gathered, what has come and what is still due are, joined, the answers of this connection; and the descriptors the kernel has open are the connector's own, once |
| on `PackageFilters` | `PackagesComeAsSent` | `PackageInv`: the packages handed out, the bytes received and the bytes on the wire are, joined, what was sent. Each filter says "whole" for the first package exactly when its last byte is there, and then gives its length, whatever lies behind it; the HTTP filter's searches are shown to find the package's own head end and length line |
| on `HttpExchange` | `HttpIsOfThisRequest` | a table entered item by item (`Entered`) has a name exactly when an item has it, with the last item's value; `HttpInv`: the reader's tables are those of the request just read, the files kept in `m_mapFiles` are of requests served, and a writer used since `begin` is for this request |
| `SharedProofs`, on `ShmArray` | `TypeCorrect`, `GivenAsAsked` | `HeaderFits` (the header never describes more than the segment holds, and as much when one maker has filled it in) and `KnowsSegment` (what a process between two steps knows of the segment is still so) are added to the types: the property speaks of processes that are done, and those depend on what the maker has yet to write |
| on `BlockQueue` | `MutexKeepsOrder` | at most one thread is past the mutex, the count is right but for what that thread has yet to do to it, and the ring from head to tail is what was pushed and not popped |
| | `QueueImplementsFifo` | so what lies behind `m_dwFront` is the numbers after those popped, in order, and a push appends to it, a pop takes its head; `MayPush` (a thread about to push is within the bound) is added. `FifoWithMutex` is proved only; the property is also true of the instance of `socket_buf` |
| on `AsyncLog` | `LinesAreKept` | the lines accepted are counted over file, the buffer that is not current, and the current one, cells in order; at most one flush has a buffer, the current one until it has switched and the other from then on; and while no buffer is on its way to the file, the one that is not current has only lines that fell back |
| on `BitMap` | `CellsAreAsWritten` | the first bit of cell `i` is `width * i`, so two cells share no bit; `get` is, bit by bit, what the cell's bits are, for the numbers below 256; `BitInv`: a cell not in `crossed` has the bits of the value written last, and a mask that is too wide reaches only cells that go into `crossed` |
| `StoreProofs`, on `CircleQueue` | `TypeCorrect`, `SlotRaceFree`, `TakesPublished` | `IInv` joins the types, that the producer's target slot is not among the published ones and that a published slot holds an element; needed because neither race freedom nor the content of a slot says what the other thread's half-done call has already decided |
| | `RingImplementsFifo` | under `IInv` publishing appends to the abstract queue, releasing takes its head, a store changes nothing of it, and full and empty mean what the abstract queue means |
| on `BufferQueue` | `MessagesAreKept` | the messages queued have places, counted on past the end of the block and cut there; each has its mark and bytes at its place; room once found stays, because the reader only frees; what a reader copied is whole until it stores `iBegin`; and a process that dies leaves the three indices at one of these places |
| on `LruCache` | `LastUsedIsHeld` | the list is an injective function from positions to nodes, linked by `next` and `prev` and closed by head and tail; the nodes on it bear the entries of `recent` in order, and the map and the nodes in use are named by it. `removeFromListTail` cuts it at a place that is never its front, which needs the assumption on `CACHE_REMOVE_NUM` |
| on `LogFiles` | `NewestAreKept` | a day's lines are what was removed, then the files read from the oldest, then what the stream has; files but the current one are full and numbered without a gap, save while renaming, when exactly the one to be written to next is free; nothing is written for a day before the current one |

**`CommMgrProofs`.** `Core` joins four parts: `FdInv` (of one descriptor, the client's slot, `CEvent`'s
entry and the kernel's agree; the count is the number of the server's slots in use), `KernelInv` (what a
descriptor stands for is alive and knows it; what waits for accept is as the peer made it), `LoopInv` (where the loop is)
and `CallInv` (a callback is about the connection its descriptor has, if any). `TablesAgree`,
`NoNullBuffer` and `ClientCount` follow from `Core`, and none is inductive without it: whether a slot may be
used depends on the callback the loop is in the middle of. Three invariants are proved on top of
`Core`: `News` for `ToldConnected` (an EPOLLOUT left in the batch is not meant for a connect under
way, unless the descriptor was given out since), `Reached` for `NoConnectionForgotten` (what `CEvent`'s table
says can reach an open connection, and arms a queue that is not empty), and `Balanced` for `FrameIntegrity` and
`DrainedWhole` (what was sent and what is queued are, joined, what was promised). There is one lemma for each kind of
step (it concerns one descriptor, one connection's record, no books at all), and each action is shown to be of
some kinds.

**Recursive functions and numbers.** The library's induction theorems take an operator as a parameter, which the
installed provers cannot instantiate. Where a proof needs induction over numbers it uses sets: a
nonempty set of naturals has a least element (`Least`), and a set that has 0 and with each number the next
has all (`SetInduction`), both proved here from what is known about finite sets. A
recursive function is a CHOICE; that a function satisfying its equation exists is shown by the same
induction, and from there on only the equation is used. So `ReadFrom` (`LogFiles`), `Turn` (`LruCache`), `Layout` and `At`
(`BufferQueue`), `Entered` (`HttpExchange`) and the joining of packages (`PackageFilters`) are proved about.

The assumptions, each named after its module and evaluated by TLC in the runs:

- `CommMgrAssumption` and `FdEventsAssumption`: finitely many descriptors, bounds that are naturals.
- `NetWorkerAssumption`: at least one worker, a ring of at least one place, bounds that are naturals.
- `EventMessagesAssumption`, `WorkerPoolAssumption`: finitely many threads; `EventTimersAssumption`: finitely many timers.
- `CircleQueueAssumption`: a natural size, and a value that is no element.
- `SocketBufAssumption`: the first size is between 1 and the maximum: what
  `createSrv`'s defaults satisfy; 0 makes `incBuf` go round for ever and a larger one makes `reSize` assert.
- `ShmArrayAssumption`, `BlockQueueAssumption`, `AsyncLogAssumption`, `BufferQueueAssumption`: sizes, lengths
  and bounds are naturals; what stands for "nothing" is no value.
- `LruCacheAssumption`: `CACHE_REMOVE_NUM` is at least 1 and at most the size of a list: 50 and 10000 in the code.
- `LogFilesAssumption`: a file takes at least one line, and there are at least two files.
- `PackageFiltersAssumption`: what a client sends are sequences of bytes whose length, with head and marks, fits the `int` or
  the `short` that carries it.
- `HttpExchangeAssumption`: a request is sequences of items, a name with or without a value; values are numbers.

`WorkerClient` and `Connector` are proved about with what their modules say of their constants and no more.

What is only model-checked, and why:

- `PeerGoneNoticed`, `QueueFlushed`, `ConnectAnswered`, `HandedOver`, `GoneIsClosed`, `AllHandled` (twice),
  `EveryTimerFires`, `AddDataEnds`: liveness under fairness, which needs ENABLED;
- the three runs that find a disagreement, which are about instances.

## 6. What the models leave out or fix

- *CommMgr.* Peers move between two entries of the batch only; what a peer sends
  before it is accepted arrives just after. A send does not fail between the two sends
  of one `write`. The application uses a session only while its connection, or nobody,
  has the descriptor, and calls `connect` only where the loop holds no descriptor of its
  own (`MayUse`, `MayConnect`): otherwise the loop takes data out of a NULL buffer
  (`CCommMgr.cpp:365`) or closes the new connection (`CCommMgr.cpp:384`), and a write to a
  connection that is still connecting removes its EV_WRITE, so that its connect is never
  answered. Finding 1 shows that the library's own pool does not keep to this. A connect
  that succeeds at once (`CCommMgr.cpp:857`, where nothing is watched afterwards) does not happen. UDP,
  signals (`onSignal` runs the application inside a signal handler), `rmSrv` (clients of a
  removed server follow a NULL entry) and `stop` are not modelled. What a closed connection had
  sent is forgotten. Every descriptor is below `m_dwMaxFdNum` (`CEvent.cpp:96` refuses
  others). A server without a package filter closes after the first data: for the tables that
  is an invalid package. `onError` after such a close is no callback of its own: the
  handler returns after it, so what the application does in it, it may do between two entries.
- *NetWorker.* The session in `onConnect` carries the eventfd's number
  (`CNetWorker.cpp:293`); the model has the application close there only through a
  right descriptor. When the eventfd cannot be written after `enque` took the client
  (`CNetWorker.cpp:264`) the manager deletes a client the ring still has; the eventfd of a
  worker that runs is never full. `NetWorker` writes nothing: that is `WorkerClient`.
- *WorkerClient.* A connect that succeeds at once is never put on epoll (`CNetWorker.cpp:150`), and
  a write before the connection is there takes the place of `onTcpConnect`, so that `onConnect` is
  never called and nothing is read: `Served` excepts both by `unwatched`. A send that fails returns -1
  and does not close. `addFdEvent` is taken to succeed.
- *EventTimers.* The clock does not step back, and no delay exceeds an `int` (`CEvent.cpp:320`
  gives the 64-bit wait to one).
- *WorkerPool.* `addMessage` is one step, but for a thread cancelled inside it; what happens
  inside is `EventMessages`. A request that cannot be parsed ends in `Close`.
- *CircleQueue.* Stores become visible in program order: g++ -O2 on x86-64. The
  members are not atomic, so the language does not promise it. *BufferQueue* takes the
  same for its shared memory.
- *BlockQueue.* `PastBare` says whether operations begin once a `pop` has gone on without the mutex;
  what the queue then does is finding 3. There the test of the size, the store of `m_dwFront` and the load
  of the item are one step, which only leaves out further ways to go wrong. `front` is not modelled: it gives the slot that the last pop emptied
  (`CBlockQueue.h:91`), and before the first one the place -1; nothing in the library calls it.
- *LruCache.* The clock does not step back. The constructor keeps 10000 nodes whatever size it is
  given (`CLruCache.h:40`), so that 50 nodes removed at once never empty a list; were they all the
  nodes, `removeFromListTail` would leave the head behind (`LruCacheAssumption`). `clear` of `CLruCacheV2` takes
  the shards one at a time.
- *BitMap.* For cells of 3 and 6 bits the masks are words of 32 bits on a word of 64, so
  that a set clears later cells; `CellsAsWritten` excepts a cell that a set crossed
  (`crossed`). An index equal to the size is accepted, as in the code.
- *ShmArray.* Two processes that both take themselves for the maker may leave a header of
  the other's size, and one that reads the header too early has no nodes: `ArrayAsAsked` excepts both
  (`made`, `early`). A process calls `init` with the same arguments again. Nobody removes the segment.
- *LogFiles.* One file (`m_uiLogFileNum` = 1) never rotates, and is left out. A stream whose fail bit
  is set writes nothing more; `CFileLog` never clears it. Where a step stands for several
  calls of `getDate` (`CFileLog.cpp:28`, `:46`) they give the same day. Formatting and `operator<<` are left out.
- *AsyncLog.* The model stops (`raced`) where two flushes overlap, or a reset meets a write into the same
  buffer: the code has no lock there, and what follows is undefined. A line that falls back into a buffer that has
  been written out and not yet reset is lost (`stray`), one in a buffer whose write failed too
  (`unwritten`); `AcceptedLinesKept` is about all others. A failed write loses its buffer whole.
  `CAsyncLog::writeFile(string)` has no caller. `CLog`'s level masks are left out.
- *PackageFilters.* Where a head has no end the HTTP filter adds 4 to NULL; the model takes it that
  no package comes of it.
- *Connector.* A write that takes a part returns it and the rest is the caller's. SIGPIPE is ignored, as
  the library's servers do; UDP loses and reorders but does not duplicate. A connect
  that succeeds at once leaves `m_bConnect` false.
- *HttpExchange.* The reader's `reset` keeps `m_mapFiles` and the command, the writer's `begin` keeps the head table:
  a file of an earlier request stays until one of its name is read, and `HttpOfThisRequest` says of each
  kept file which request it can be of; of the writer's head table it says nothing. HEAD keeps the query in the URI, and a multipart body
  is also read as values. Requests have a head's end, and numbers fit an `int`. Dates, caching
  and redirects are left out, and so is the text of the response.
- Bounds (`MaxConns`, `MaxWrites`, `MaxInbox`, `MaxRefusals`, `MaxMessages`, `MaxPending`,
  `MaxTime`, `MaxAdds`, `MaxBytes`, `MaxRequests`, `MaxPushes`, `MaxClears`, `MaxDeaths`, `MaxDay`,
  `MaxLines`, `MaxTexts`, `MaxPackages`, `MaxSets`, `MaxAsked`, `MaxSockets`) only stop counters.

### Not modelled

- `CPackage`, `CAnyPackage`, `CAnyValue`: values written to bytes or JSON and read back, one
  call after another on one object. What is worth saying is a round trip over the encodings, an
  algorithm on data; it is the next thing to model.
- `CRawWorker`, `CHttpWorker`, `CAnyWorker`: records; `WorkerPool` has the session of one and
  `HttpExchange` the reader and writer of another.
- `CConfig`, `CMysql`, `CLog`, `Utils`, `StringHelper`, `CSingleton`, `CLock`: wrappers of files, a database
  client, formatting and a mutex.
- `CEvent::stop`, which only clears a mark that `run` sets when it starts (`CEvent.cpp:279`), UDP,
  signals and `rmSrv` of `CCommMgr`.

## 7. Plan

1. `BoundedFifo` as what `BufferQueue` implements, for messages of one size; `NetWorker`'s steps on its ring
   are those of `BoundedFifo` already.
2. `CPackage` and `CAnyValue`: encoding and decoding as functions, what is written is what is read,
   over bounded values.
3. UDP and `rmSrv` in `CommMgr`; start and stop of the loop.
