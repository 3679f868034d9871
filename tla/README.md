# TLA+ models of RIO_IOCP_Server

This directory holds formal models of the concurrent core of RIO_IOCP_Server, a Windows game
server with two network back ends (I/O completion ports and Registered I/O) over one
library, `ServerCore`. The models are translated from the C++ source; paths below are
relative to the repository.

## The system

| part | state | operations | talks to |
|---|---|---|---|
| Reader-writer lock `ServerCore/Thread/RWLock` | `m_lockFlag` (id of the writer, count of readers), `m_writeCnt` | `ReadLock/Unlock`, `WriteLock/Unlock` through guards | `LThreadId`; used by `LockQueue`, `LockMap`, `LockUnorderedSet`, `Player` |
| Thread manager `ServerCore/Thread/ThreadManager`, `CoreTLS` | `m_threadCnt`, `m_threads`, `LThreadId` | `CreateThread`, `JoinThreads` | starts every worker and the accept thread |
| Job queues `ServerCore/Job`, worker loop in `ServerProxy::Start` | `m_jobCount`, `m_jobs`, `m_jobQueues`, `LEndTickCount`, `LCurrentJobQueue` | `Push`, `Execute`, the loop that pops queues | packet handlers push; jobs of `Room` and `Zone` run in it |
| RIO send path `RioSession`, `RioBuffer`, `RingBuffer` | send queue, ring positions, `m_sendCnt`, `m_lastSendTime` | `Send`, `SendDeferred`, `RegisterSend`, `SendCommit`, `ProcessSend` | any thread sends; the core thread posts and completes |
| Receive buffer `RingBuffer`, `OnRecv` | ring positions | `OnWriteBuffer`, `OnReadBuffer`, `AdjustPos`, framing | both kinds of session |
| RIO sessions and cores `RioSession`, `RioCore`, `RioServer` | `m_bConnected`, `m_bAllocated`, `m_sessions` | `Accept`, `ProcessConnect`, `Dispatch`, `Disconnect`, `AddSession`, `ReleaseSession` | accept thread and one thread per core |
| IOCP send path `IocpSession` | `m_sendBufferQueue`, `m_bSendRegistered`, `m_sendEvent` | `Send`, `RegisterSend`, `ProcessSend` | any thread sends; any worker completes |
| IOCP sessions `IocpSession`, `IocpService`, `IocpListener` | `m_bConnected`, session set, event owners | accept, connect, disconnect, receive | worker threads |
| World `RIOIOCPServer/Contents` | players, sectors, view lists, `m_loginCnt` | `Login`, `Logout`, `MovePlayer`, `Chat` | jobs on the room and zone queues |
| Server sessions, packet handlers `RIOIOCPServer/Session` | `m_ownPlayer`, `m_sessionId` | login, move, logout, chat, disconnect | push jobs, call the room |
| Object pool, containers, sockets, dummy client | see `PROJECT.json` | | |

What makes it hard: every worker thread runs handlers and jobs of every session; the lock is
hand-made, and re-entrancy hangs on thread ids; the job queues schedule themselves through a
counter that goes up before the job is stored; the RIO ring is filled, posted and freed at
three positions while the network card reads it; sessions end while other threads still use
them.

What makes each part correct:

* lock: exclusion, private nesting count, no lost reader or stale writer id, progress;
* thread ids: not 0, within 16 bits, and distinct but for the race;
* job queues: one executor per queue, no lost wakeup, exact count, first in first out, each
  job once, every job runs;
* RIO send: the byte stream is unchanged and in order, nothing stays in the ring, nothing
  stays deferred;
* receive buffer: always room to receive, bytes kept in order when moved;
* sessions: listed, told of their end and dropped once, in this order; no request on a
  closed socket; one user of the receive event; freed after their end; accepting goes on;
* IOCP send: one send at a time, no message left behind;
* world: a player is in the sector it stands in and in none after it left; `m_loginCnt` is
  right; view lists and what the clients were told agree.

The hazards behind these properties are listed in `PROJECT.json`, each at its line.

## The modules

| module | models | properties |
|---|---|---|
| `AbstractRWLock` | what the lock promises: a guard is taken in one step, when nobody conflicts | |
| `RWLock` | `RWLock.cpp`, one action per atomic access | `TypeOK` `Exclusion` `NoWriteCntRace` `FlagMatchesHolders` `LockFree` `AbstractSpec` |
| `CoreTLS` | the threads and their `LThreadId`, which `RWLock` and `ThreadManager` share | |
| `ThreadManager` | `CreateThread` with the racy id assignment, `JoinThreads` | `IdsInRange` `IdsDifferUnlessRaced` |
| `LockWithThreadIds` | `RWLock` with the ids `ThreadManager` gives | `SameThreadIsCorrect` |
| `SerialExecutor` | what a `JobQueue` promises to `Room` and `Zone` | |
| `JobQueue` | `JobQueue.cpp`, `GlobalQueue.cpp`, `LockQueue.h`, the loop of `ServerProxy::Start` | `TypeOK` `OneExecutor` `ScheduledOnce` `CountIsExact` `EveryJobRuns` `SerialSpec` |
| `SendStream` | what a session promises to senders: what they give leaves in order, and may end anywhere | |
| `RioSend` | the send path of one `RioSession` over `RioBuffer` | `TypeOK` `StreamSpec` `UnsentIsExact` `NothingLeftDeferred` `EverythingSent` |
| `IocpSend` | the send path of one `IocpSession` | `TypeOK` `OneSender` `StreamIntact` `NoneLeftBehind` `EverythingSent` `StreamSpec` |
| `RecvBuffer` | `RegisterRecv`, `ProcessRecv`, `OnRecv` of both sessions over `RingBuffer` | `TypeOK` `PacketsIntact` `RoomToReceive` `MovesApart` `AllReceived` |
| `SessionLife` | what the life of a session looks like to the list that keeps it | |
| `RioLifecycle` | `RioServer`, `RioCore` and the rest of `RioSession`: accept, connect, receive, disconnect, release | `TypeOK` `ReceiveIsOwned` `SendsWhenReady` `NoLateRequest` `LifeSpec` `Freed` `AcceptsAgain` |
| `IocpLifecycle` | `IocpService`, `IocpListener`, `IocpCore` and the rest of `IocpSession` | `TypeOK` `EventsAreOwned` `AcceptsAreKept` `LifeSpec` `Freed` |
| `World` | room, zones, sectors, view lists and the packet handlers of the RIO build | `TypeOK` `LoginCountIsExact` `SectorsHoldSerialPlayers` `SectorsHoldTheirPlayers` `KnownIsSeen` `MutualViewIsNear` `NobodyStays` |
| `RWLock_proofs`, `JobQueue_proofs`, `RioSend_proofs`, `IocpSend_proofs`, `RecvBuffer_proofs`, `RioLifecycle_proofs`, `IocpLifecycle_proofs`, `World_proofs` | theorems | |
| `RWLockMC`, `ThreadManagerMC`, `WorldMC` | symmetry sets and restrictions for TLC | |

`TypeOK` is a theorem of each module that has a module of proofs, and is not checked by the
runs again.

A definition marked *mutant* is a wrong version of the definition after it, as a plausible
bug would make it; no specification uses it. Each property is known to fail when the mutant
`PROJECT.json` pairs it with takes the place of the original.

### RWLock

`m_lockFlag` is a record of its two halves; `PlusOne` and `MinusOne` carry and borrow
between them as `+ 1` and `fetch_sub(1)` do on the 32-bit word. A method is a walk of `pc`:
`rl_load`, `rl_cas` for `ReadLock`; `wl_check`, `wl_cas`, `wl_cnt` for `WriteLock`;
`wu_check`, `wu_dec`, `wu_store` for `WriteUnlock`. `readGuards` and `writeDepth` stand for
the guard objects of the callers: a guard is alive from the return of the locking method to
the call of the unlocking one. `ReadLock` by a thread that holds the write lock, and
`WriteLock` by one that holds a read lock, spin for ever in the code; the constant `Mixed`
says whether callers may do that. None does, and the run does not; the theorems allow it.
`compare_exchange_weak` does not fail spuriously on the x64 build, and the order of atomics
is the default sequentially consistent one.

The ids of the threads are distinct in `RWLock`, which is what the code means them to be.
`LockWithThreadIds` puts the ids of `ThreadManager` in their place.

### JobQueue

One action is one atomic access of `m_jobCount` or one `LockQueue` operation, which
`AbstractRWLock` allows to take as atomic. `pc` of a worker is the call stack written flat:
`dispatch` (in `Dispatch`, where packet handlers push), `loop`, `pop_all`, `next_job`,
`running` (inside a job, which may push), `deadline`; and inside `Push` `enqueue`,
`enqueue_first`, `push_global`, returning to `back`. `slice` is the clock of the worker
against its `LEndTickCount`: before it, equal to it (`Execute` yields at `>=`, the loop goes
on until `>`), after it. `now` in the loop is a 32-bit count and `LEndTickCount` a 64-bit
one, so that 49.7 days after the start the loop never sees the end of its slice: `PopQueue`
may come in any slice. The loop of the RIO workers sets `LEndTickCount` at the end of the
loop, that of the IOCP workers before `Dispatch`; both are the reset in `BackToDispatch`.

A job may do anything to the world, which is not part of this module, and push to any queue.
A thread that is no worker pushes like a worker in `dispatch`.

### RioSend

The ring holds numbers of bytes instead of bytes; byte *n* is the *n*-th byte copied into
the ring, so that the stream is right when the wire carries 0, 1, 2, ... The loop in
`WriteBuffer` that copies up to the end of the ring and then from its start is one step: the
core thread is the only one that touches the ring. `requests`, `completions` and `deferred`
are Registered I/O, which is external: requests are sent in order, a deferred one possibly
early, and an entry of the queue is free again when its completion is dequeued. `Transmit`
reads the ring when it sends, so that a cell overwritten too early shows on the wire.
`written` and `posted` are history variables.

`SendSkipped` covers `COMMIT_TIME`: the clock is not modelled, any turn may come too early.
`RegisterSend` ends in success, in `WSAENOBUFS`, or in an error that disconnects; the branch
in which `OnSendBuffer` fails cannot be taken, as a chunk is part of what is to be sent.
After `Disconnect` the queued requests complete with no bytes. `Disconnect` inside
`DeferredSend` locks `m_sessionLock`, which the thread holds, again: the thread hangs
(`stuck`) or goes on.

### RioLifecycle

The threads are the accept thread (`Acceptor`) and one per core; `pc` is where a thread is,
`cur` the session it works on, `ret` where a `Disconnect` returns to. The accept thread goes
`accept`, `add` (waits for `m_sessionLock`), `connect`, `alloc`, `queue` (the two halves of
`InitSession`), `register`, `receive`: the session is on the core's list from `add` on, so
that the core's thread may meet it at any of these points. A core's thread goes `loop`,
`deferred` (locks, and visits `walk`), `send`, then `dispatch`, where each result is an
action (`ProcessRecv`, `ProcessSend`, `ProcessSendOfNothing`), `onrecv` (the packets: sends,
or a logout, which disconnects) and `register` again. Everything can fail where the code
looks: `accept`, `AllocBuffer`, `CreateRequestQueue`, `RIOReceive`, a send or its commit,
`SetLinger`. A session is alive while it is listed, in use by a thread, or named by an event
in flight (`shared_ptr`), and free after that.

`ReleaseSession` locks `m_sessionLock`, which `DeferredSend` holds when the send of a
session fails: a `std::mutex` locked twice by one thread is undefined, and `ReleaseHangs`
and `ReleaseThrows` are what the library may do (the thread waits for ever; the process
ends).

Abstract: a `SendDeferred` posts and commits in one step, since `RioSend` has its parts, and
a request of `RIO_MSG_COMMIT_ONLY` carries nothing and is not counted by `NoLateRequest`.
`InitServer` and `Start` run before the threads.

### IocpLifecycle

`work` says for each thread at which point of which call it is, for which session and which
accept event. `inFlight` holds the requests of which no worker has dequeued the completion,
`owned` the events whose `m_owner` is set: the two differ between the request and the code
after it, which is what `EventsAreOwned` is about. A server starts its accept events one
after the other, each of which is registered again on every way out of `ProcessAccept`; a
client calls `ConnectNewSession`. `Init` chooses between them. `Dequeue` is a
`GetQueuedCompletionStatus`: any idle worker, any completion. `DispatchConnect` hands a
failed `ConnectEx` on like a good one, as the code does. `refused` remembers the sessions
whose `WSARecv` or `DisconnectEx` failed at once.

`AcceptsAreKept` says that an accept event that was registered is in one place: in flight,
or with one thread that is about to register it again; and that two of them in flight accept
into two sessions.

Abstract: `Send` is one step, `IocpSend` has its parts. The session an accept event names
(`m_session`) does not keep the session alive for `Freed`: the next `RegisterAccept`
replaces it. `Stop` and `DisconnectAllSession` are left out, for only destructors that run
after the workers call them.

Both modules implement `SessionLife`: with a list per core, and with the one list of the
service. `Freed` is, in both, about what `ServerCore` holds: the list, the requests and the
threads. A `Player` also refers to its session, so that a player whom a sector keeps for
ever (see `world_race`) keeps the memory of its session too.

### IocpSend

A message is its number in the order of `m_sendBufferQueue`. `pc` of a thread walks through
`Send` (`push`), `RegisterSend` (`register`, `drain`, `wsasend`, `unregister`) and
`ProcessSend` (`check`, `disconnect`). What happens under `m_sendBufLock` is one step: the
push with the exchange of `m_bSendRegistered`, the drain, the look at the queue that clears
the flag or goes on. A thread fills `m_sendEvent` outside the lock, which is why `OneSender`
matters. `WSASend` and its completion are external (`Transmit`, `Abort`): a send completes
with all its bytes or with none, in which case `ProcessSend` disconnects. A `WSASend` that
fails at once loses what it carried, clears the flag and leaves the session connected; the
history variable `failed` remembers it.

Both `RioSend` and `IocpSend` implement `SendStream`, the one over bytes, the other over
messages.

### RecvBuffer

A byte is its number in the stream of the peer, and `size` maps the first byte of each
packet that was sent to the packet's size; `OnRecv` reads it where the code reads
`header.size`. The peer sends well-formed packets, smaller than the buffer. One receive is
posted at a time, so that `pc` is the session's receiving as a whole: `register`, `pending`
(the network writes into the piece at `m_headPos`), `received`, `parse`, `adjust`, and
`register` again, or `ended` when nobody posts a receive any more. Both sessions have the
same code here but for one thing: when the receive cannot be posted, `RioSession`
disconnects and `IocpSession` does not, and `RegisterRecvFails` allows both.

The model gives `memcpy` the result of `memmove`. They differ only where the pieces overlap,
which C leaves undefined, and `MovesApart` says that they do not as long as no packet is
larger than a third of the buffer. For larger ones `PacketsIntact` rests on the `memcpy` of
the build and would not notice one that copies in another order.

`AdjustPos` is three actions, one for each way through it. What it copies when the head has
wrapped includes the piece at the front, although the module shows that this piece is empty.

### World

Three kinds of actors run in parallel: the packet handlers of each session (`session`, one
packet at a time, as a RIO core serves a session), the zones and the room (`pc`, one job at
a time, which is what `SerialExecutor` promises). `jobs` holds whose `MovePlayer` or
`Logout` is queued; the first one runs. What others can see between two steps of a job or of
`Room::Login` separates them into actions: the erase from the old sector, the insert into
the new one, the index, each sector that is walked through under its `ReadLock`, each player
met there, the leaves, the view list.

A player is its session, which logs in once. The map is a line: both axes are treated alike.
A client is `known`: the players it was told of by `S2C_ENTER` and not told to forget by
`S2C_LEAVE`. `overlapped` remembers whose jobs ran at the same time, since much is right
only without that: `SectorsHoldSerialPlayers`, `KnownIsSeen` and `MutualViewIsNear` say that
such overlaps are all that can go wrong there, and `SectorsHoldTheirPlayers` drops the
condition. `LoginCountIsExact` has another condition: `Handle_LOGOUT` queues a `Logout`, and
`OnDisconnected` a second one if the first has not run.

`OnDisconnected` clears `m_ownPlayer`, and the code uses it afterwards in two places, where
the model stops (`crashed`). A zone's job dereferences it in `SendMoveResultMsg`. And the
handlers are still called: `OnRecv` goes on with the packets behind a `C2S_LOGOUT`
(`RioSession.cpp:390`), and `ProcessRecv` is called for what had arrived before a send that
failed ended the session (`HandleLatePacket`: a late move or chat dereferences a null
pointer, a late `C2S_LOGOUT` hands one to `Room::Logout`). Left out: `Chat`, which changes no state; `Zone::Login` and
`Zone::Logout`, which nobody calls; the unlocked read of `m_players` in `SendLeave`, taken
as atomic; and the IOCP build (see below).

## The runs

| run | configuration | shows |
|---|---|---|
| `rwlock` | 3 threads, 2 nested guards, no mixed modes, fair | exclusion, exact word and count, `LockFree`, refinement of `AbstractRWLock` |
| `thread_ids` | 4 threads, started in any order, joined and started again | ids stay in range, and differ unless a race gave them |
| `lock_with_thread_ids` | 2 threads | **violation**: two threads with one id write at once |
| `jobqueue` | 2 workers, 2 queues, 3 jobs, fair | one executor, scheduled once, exact count; every job runs; refinement of `SerialExecutor` |
| `rio_send` | ring of 5, packets of 1 or 2, 3 requests, 8 bytes, fair | stream, exact unsent size, nothing deferred, everything sent |
| `rio_send_full` | ring of 6, packets up to 4 | **violation**: a ring full of unsent bytes looks empty |
| `iocp_send` | 3 threads, 4 messages, `WSASend` may fail, fair | one sender, stream intact, no message left behind, everything is sent; refinement of `SendStream` |
| `rio_life` | 2 sessions, 1 core and the accept thread, 1 send per session, fair | one user of the receive event, sends only when ready, no late request, sessions freed, accepting goes on; refinement of `SessionLife` |
| `iocp_life` | 2 workers, the starter, 1 accept event, 2 sessions, server or client, fair | events own their session, no accept event is lost or registered twice, sessions freed; refinement of `SessionLife` |
| `world` | 2 players, 2 positions in 2 zones, 3 packets | counter, sectors, view lists and clients agree; nobody stays |
| `world_race` | 2 players, 3 positions in 2 zones | **violation**: a player who left is held by a sector |
| `recv` | buffer of 6, header of 2, packets of 2 and 5, 14 bytes, fair | packets arrive whole and in order, there is room, small packets are moved without overlap, all is read |

The bounds. In `world`, one of two zones ends at the border of the map, both positions are
two sectors apart and out of each other's sight, and three packets let both players see each
other and one of them leave, or log out. Three threads are the least with which a third one
runs between two steps of two others; two nested guards are the least for which the count
matters. `FieldMax` 6 is the least that holds the readers of `rwlock`. `RWLockMC` takes the
ids 1, 2, 3: they are only compared. In `jobqueue` one worker pushes, from a job or a packet
handler, while the other executes, counts off or hands over the same queue; three jobs fill
a batch and the next one, or both queues. What more workers could add the theorems cover. In
the ring of five with packets of one and two bytes, packets and pieces wrap round the end at
every position, the request queue fills up, bytes pile up behind it, and a call ends at
`MAX_POST_CNT`. In `iocp_send` one thread completes a send while one queues and one is about
to drain, and four messages make three sends in a row, one of them of two messages. The
receive buffer of `recv` stands to its largest packet as 65536 does to 65535, and 14 bytes
go round it twice, with a packet cut at every byte. In `rio_life` one session is prepared by
the accept thread while the other one is served, and both meet in the list, the lock and the
results of one core; cores share only the accept thread. In `iocp_life` two workers handle
two completions of one session (a receive and a send, a send and the disconnect), and the
accept event goes from one session to the next; with one accept event the run can see it
lost or registered twice, and that two of them never share a session is left to the theorem.

Deadlock is checked, except where a thread may wait for itself: in the runs of `RioSend`
(`stuck`), and where everything is done: in those of `RecvBuffer`, whose session ends, of
`IocpSend`, where all messages are sent, of `RioLifecycle` and `IocpLifecycle`, where every
session was used or the process has ended, and of `World`, where everybody has left or the
process has crashed.

### Fairness

* `RWLock`: a thread inside a method runs on, and guards are released: they are local
  objects whose scopes end. No thread is promised the lock; `LockFree` says that while
  somebody waits, somebody is granted it again and again.
* `JobQueue`: every worker runs on, and jobs and handlers return. The strong fairness of
  `PopQueue` in the slice and of `DispatchDone` in time says that a worker's `Dispatch`
  leaves some of the slice again and again: it waits 10 ms at most (`ServerProxy.cpp:80`)
  and the slice is 64 ms. RIO workers do not wait in `Dispatch`.
* `RioSend`: the core thread loops; `COMMIT_TIME` passes, so that `SendDeferred` is not
  skipped for ever; `Dispatch` takes what is complete; the peer takes the data of committed
  requests. A request that is only deferred is not assumed to be sent.
* `IocpSend`: threads run on, a pending `WSASend` completes, and some worker dequeues the
  completion. Nobody has to call `Send` or to disconnect.
* `RecvBuffer`: bytes that were sent arrive, and the thread that has the completion goes on
  to the next receive.
* `RioLifecycle`: the threads run on; the accept thread gets a lock that is free again and
  again; a receive whose connection is gone completes, as does a send that carries nothing
  any more, and `Dispatch` gets to it. Nobody has to connect, to send or to leave.
* `IocpLifecycle`: the threads run on, and some worker dequeues what has completed of a
  session whose connection is gone. Nothing is promised of requests on a good connection.

## What the runs found

* `ThreadManager.cpp:38-39` gives thread ids through a data race. Two threads that start
  together may get the same id; the lock takes the second for the first ("if same thread =>
  correct!", `RWLock.cpp:57`) and lets both write. `StartCoreWork` and the IOCP server start
  all workers in a loop.
* `RioBuffer::GetSendDataSize` ("Returns the size of data should be sent",
  `RioBuffer.cpp:43`) returns 0 for a ring that is full of bytes not yet posted, and the
  session then never sends again. This needs a packet at least as large as what a full
  request queue (256 requests) has in flight, or as what is left above `SEND_LIMIT` of the
  ring: several kilobytes. Moves, enters and leaves have some hundred bytes; the length of a
  chat is not limited below the 65535 of `PacketHeader.size`. `PacketsFit` states the sizes
  for which it cannot happen.
* `Zone::MovePlayer` and `Room::Logout` change one player from two queues. A move that found
  the player valid may insert it into a sector after the logout erased it from another one;
  the sector ("sector에 속한 플레이어들", the players that belong to it, `Sector.h:24`) then holds
  it, and with it its session, for ever.

Not a run, as no document of the repository says otherwise, but met on the way: when a
player walks out of sight, both clients get `S2C_LEAVE` but only the mover's view list is
renewed (`Zone.cpp:106-118`). The other list still names the one who left, so that when it
comes back that client gets `S2C_MOVE` instead of `S2C_ENTER`. Three moves one after the
other suffice. `KnownIsSeen` and `MutualViewIsNear` are what remains true.

Of the lives of sessions, with no document that says otherwise; the properties name these as
the only exceptions:

* `RioCore::DeferredSend` holds `m_sessionLock` while a failing send disconnects, and
  `ReleaseSession` locks it again (`RioCore.cpp:84` and `:108`): the core hangs, and the
  accept thread with it at that core's turn, or the process ends.
* `RioSession::Disconnect` returns when `SetLinger` fails, with `m_bConnected` cleared
  (`RioSession.cpp:52`): the socket stays open and the session in its core.
* A `DisconnectEx` or `WSARecv` that fails at once (`IocpSession.cpp:196`, `:229`) has no
  completion: nobody releases the session. A failed `ConnectEx` ends there too, as
  `IocpCore::Dispatch` does not look at the result of a connect event.
* One `accept` that fails ends the accept thread (`RioServer.cpp:155`).

## The proofs

TLC checks small instances; the theorems hold for every value of the constants that meets
the assumptions named in the modules (finite sets of threads and workers, `nullptr` not a
queue, room for the readers in the word).

`RWLock_proofs`. The inductive invariant is `TypeOK /\ FlagMatchesHolders`. `Exclusion`
alone is not inductive: a compare-exchange is safe only because the word is known to mirror
the guards, and the store of `EMPTY_FLAG` only because `m_writeCnt` is known to be the
nesting. From it follow `TypeCorrect`, `FlagCorrect`, `MutualExclusion`, `CountIsPrivate`,
and `Refinement`: each step maps to a step of `AbstractRWLock` or to a stutter.

All of that takes the lock's threads to be told apart by their ids, and the ids are what
`ThreadManager` gives. The same module goes on to them: `IdsInv` (no value of the counter
exceeds the stores made; until two threads start at once, the one that starts has the counter
for itself) gives `EveryIdInRange` and `OnlyTheRaceRepeatsAnId`. Then it composes the two.
By `CompositionStartsThreads` a behaviour of `LockWithThreadIds` is one of `ThreadManager`;
`OnlyTheRaceBreaksTheLock` says that `SameThreadIsCorrect`, which the run
finds violated, holds as long as no two threads have raced for an id, and
`OnlyTheRaceRacesTheCount` the same of `m_writeCnt`. So the plain `threadNum` is the only way
in which the lock loses exclusion. The invariant there is `UnracedLock`, the lock's own over
the threads that run so far; the lemma `CallKeepsLock` serves both uses of the lock.

`JobQueue_proofs`. The inductive invariant joins `TypeOK`, `LocalsOK` (what a worker's
locals hold at each point of its code), `ScheduledOnce` and `CountIsExact`. The last two
need each other: that the `fetch_sub` of `Execute` leaves 0 exactly when the queue may be
let go rests on the count being exact, and that the count is exact rests on there being one
executor to count jobs off. The lemmas `TypeStep`, `ScheduledStep` and `CountStep` prove the
parts, action by action. `TypeCorrect`, `ExclusiveExecution`, `NoLostWakeup` and
`ExactCount` follow. `Refinement` adds `FreshJobs` (no two workers push the same job) and
maps the jobs a worker has popped and not begun, chained with those stored, to the abstract
queue: `PopAll`, `CountOff` and `YieldQueue` change the two parts and not the chain.

`IocpSend_proofs`. The inductive invariant joins `TypeOK`, `OneSender`, `EventInUse` (the
event has buffers only between a drain and the completion), `NoneLeftBehind` and
`StreamIntact`. `OneSender` carries the rest: that a drain finds the buffer empty, and that
clearing the flag is done by the only sender. `Refinement` assumes that no `WSASend` fails
at once and needs one more fact, that after an aborted send nobody sends again (`LastSend`):
its completion leaves the flag set.

`RecvBuffer_proofs`. The inductive invariant joins `TypeOK`, `Framed` (the packets lie end
to end in the stream, and parsing stands at the start of one) and `Laid` (where the unread
bytes lie at each point). `PacketsIntact` needs both: that what lies at `buffer[processLen]`
is the number of the stream's byte there, and that a packet starts at this byte.
`TypeCorrect`, `PacketsAreIntact` and `AlwaysRoom` hold for every packet smaller than the
buffer; `CopiesDoNotOverlap` assumes that three of the largest packets fit in the buffer:
without that the data left over may be longer than what was read before it, and `memcpy` is
given overlapping pieces, for which `PacketsAreIntact` takes it to copy as `memmove` does.

`RioSend_proofs`. `TypeCorrect` needs nothing but the constants; `NothingLeftDeferred`
follows from `Deferring`: a request without a commit was posted by the `SendDeferred` that
is running. `UnsentIsExact` is proved for packets that fit (`PacketsFit`). The inductive
invariant `UInv` joins `TypeOK`, `UnsentIsExact`, `RoomForOne` (but while it posts, the
bytes that wait do not fill the ring even with another packet) and `Laid` (the pieces in
flight lie end to end, from the oldest byte in the ring up to `posted`, each of at least a
byte). When the request queue refuses a piece it is full, so that what is in flight is
larger than a packet: the bytes that wait cannot have the rest of the ring.
`StreamRefinement` maps `RioSend` to `SendStream` for every size, with packets that fit or
not. Its invariant `StreamInv` joins `TypeOK`, `RingHolds` (the ring holds the last `m_size`
bytes copied), `Due` and `Placed`: there are functions that say how many bytes were given
when each queued packet was, and at which byte each piece in flight starts. With them an
offset in the ring and a place in the stream are compared one by one, without an induction
over sequences.

`RioLifecycle_proofs`. The inductive invariant joins `TypeOK`; `Control` (which thread can
be at which label); `Fresh` (a session nobody made has nothing); `CoresApart` and
`AcceptorAlone` (two cores' threads never work on one session; the one the accept thread
prepares has no request and no packet yet, and is in nobody else's call); `Accepting`,
`Connected` (a session that is connected is listed and not told), `Owned` and `Sending`.
`Connected` carries `LifeSpec`: `OnDisconnected` and `ReleaseSession` run in the one thread
whose exchange of `m_bConnected` found it set.

`IocpLifecycle_proofs`. Any worker may work on any session, so that the invariant says of
each label who else may be at which: `AcceptedAlone`, `ConnectedAlone` and `StartedAlone`
(before its first receive one thread has the session), `Linked` and `Leaving` (connected and
listed, or one thread disconnects), `Ending` (one disconnect event, then one release),
`Receiving` (a receive is in flight or one thread is about to make it), `Accepting` (where
each accept event is, and for whom; `AcceptsAreKept` follows from it), with `TypeOK`, `Halting` and `Fresh`.

`World_proofs`. `TypeCorrect` rests on the sectors and zones of all positions lying in the
map (`Indices`). The inductive invariant `LInv` joins it with `Lifecycle` (what a session's
stage says of its player: one that is in the room is on its way in, `Connected`, or has a
`Logout` to take it out), `LogoutErased`, `OneLogout` (if no client sends `C2S_LOGOUT`, a
player has one `Logout` and is in the room until it runs) and `CountRight`.
`LoginCountIsExact` needs `OneLogout` for its equality: two queued `Logout`s count one
player off twice. `NobodyStays` follows from `Lifecycle`.

What sectors, view lists and clients hold is promised for players of whom no two jobs ran at
once. The invariant `WInv` adds to `LInv`:

* `Beside`: jobs that run at once are noted in `overlapped`.
* `LocalsFit`, `Newcomers`, `NobodyKnowsItself`: a zone's `newViewList` is empty between jobs;
  a player whose login is not over has no job and nobody has seen it; nobody sees itself.
* `SectorsFit`: a player past its login lies in the sector of its index and no other; while a
  zone moves it, in what the label says (the old one, none, the new one). That sector is the
  one of its position, or a job of the player is still queued (`Pending`).
* `ViewsNear`: whom a running job has in `newViewList`, and between jobs who are in each
  other's view lists, are near each other or one of the two has a job queued.
* `KnownInView`: if a client shows the other player, one has the other in its view list, or in
  the new one while its job runs; once the leaves are sent, only the new one counts.

`SectorsAlwaysHoldSerialPlayers`, `MutualViewsAreNear` and `KnownAlwaysSeen` follow, for every
map, sector size and number of players: nothing but jobs that overlap leaves a player in a
wrong sector, in the view of somebody far off, or on a client that is never told to forget
it. The hard case is a move that a zone drops because the player's index is no longer valid:
a position that changed would then wait for a job that does nothing. `DroppedStillWaits`
settles it: such a player is out of the room, or has a job to come or a `Logout` running.

Every state invariant, action property and refinement that a passing run checks is thus a
theorem. Only model-checked: the liveness properties (`LockFree`, `EveryJobRuns`,
`EverythingSent`, `AllReceived`, `Freed`, `AcceptsAgain`), which rest on fairness, and
fairness on ENABLED, which the prover does not treat; and the runs that find a violation,
whose counterexample is the result.

## Not modelled

* The IOCP build of the world. `IocpServerSession` is the same code as `RioServerSession`,
  but `OnDisconnected` runs on whichever worker dequeues the completion of `DisconnectEx`,
  beside the session's handler. The handler may find `m_ownPlayer` null
  (`PacketHandler.h:157`) in the middle of a packet too, and not only in packets after the
  session's end as in the RIO build, where `World` models it; and a `Logout` may read the index that
  `Room::Login` is about to set. No document promises anything there, and everything that
  `World` checks is of the RIO build.
* A second login of one session, a move before the login: `World` has clients that log in
  once and first.
* `Stop` and `DisconnectAllSession` of `IocpService`: the destructors call them when no
  worker is left.
* Object pool: two counters around the interlocked list of Windows, which is what makes it
  correct.
* Sockets and addresses: calls of Winsock without state of their own.
* Server program: creates the global objects and starts the threads, once.
* Dummy client: a load generator over the same `ServerCore`, whose own state is a table
  under one lock.
* Protocol messages: generated code, and with the headers of the library it comes from
  nearly all lines of the repository.
* The clock behind `COMMIT_TIME` and the time slices: any turn may come early or late.

What is left to do: the IOCP build of the world, if a document ever says what it promises; a
reader of the lock that mixes its modes, which no caller does.
