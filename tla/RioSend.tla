------------------------------ MODULE RioSend ------------------------------
(***************************************************************************)
(* The send path of one RioSession (RioSession.cpp, RioBuffer.cpp, the     *)
(* ring of RingBuffer.cpp).  Any thread queues packets with Send.  The     *)
(* session's core thread loops over DeferredSend, which copies packets     *)
(* into the registered ring buffer and posts its pieces with RIO_MSG_DEFER *)
(* before it commits them, and Dispatch, which frees what was sent.        *)
(*                                                                         *)
(* The network card reads a posted piece out of the ring when it sends it, *)
(* not when it is posted.  Registered I/O (external) sends and completes   *)
(* the requests of one queue in order, may send a deferred request before  *)
(* its commit, and refuses a request with WSAENOBUFS when                  *)
(* MAX_SEND_RQ_SIZE are outstanding.                                       *)
(*                                                                         *)
(* Bytes are numbered in the order in which their packets enter the ring.  *)
(***************************************************************************)
EXTENDS Naturals, Sequences

CONSTANTS BUFFER_SIZE,      \* capacity of the ring
          SEND_LIMIT,       \* bytes from which SendDeferred posts at once
          MAX_POST_CNT,     \* posts after which it stops
          MAX_SEND_RQ_SIZE, \* send requests outstanding at most
          MaxPacket,        \* size of the largest packet
          MaxBytes          \* bound: bytes given to Send in a behaviour

ASSUME SizesAssumption ==
    {BUFFER_SIZE, SEND_LIMIT, MAX_POST_CNT, MAX_SEND_RQ_SIZE, MaxPacket, MaxBytes}
        \subseteq Nat \ {0}

\* What keeps the ring from filling up with bytes that are not posted: a
\* packet is smaller than the rest of the ring when SEND_LIMIT bytes wait, and
\* than what a full request queue has in flight (a byte a request at least).
PacketsFit ==
    /\ SEND_LIMIT + MaxPacket <= BUFFER_SIZE
    /\ MaxPacket < MAX_SEND_RQ_SIZE
    /\ MAX_SEND_RQ_SIZE <= MAX_POST_CNT

VARIABLES
    m_bConnected,   \* the session is connected
    m_sendBufQueue, \* sizes of the packets queued by Send
    m_headPos, m_tailPos, m_sendPos, m_size, \* the ring's positions
    m_buffer,       \* number of the byte in each cell of the ring
    m_sendCnt,      \* posts since the last commit
    pc,             \* where the core thread is
    sendCount,      \* local of SendDeferred
    requests,       \* posted, not sent yet: RIO's request queue
    completions,    \* sent, not dequeued yet: RIO's completion queue
    deferred,       \* requests at the end of the queue that await a commit
    wire,           \* bytes that left the machine
    produced,       \* bytes given to Send
    written,        \* bytes copied to the ring, ever
    posted          \* bytes posted, ever

queueVars == <<m_sendBufQueue, produced>>
ringVars == <<m_headPos, m_tailPos, m_size, m_buffer, written>>
postVars == <<m_sendPos, m_sendCnt, sendCount, posted>>
rioVars == <<requests, completions, deferred, wire>>

vars == <<m_bConnected, queueVars, ringVars, postVars, rioVars, pc>>

Cells == 0 .. BUFFER_SIZE - 1

Init ==
    /\ m_bConnected = TRUE
    /\ m_sendBufQueue = <<>>
    /\ m_headPos = 0 /\ m_tailPos = 0 /\ m_sendPos = 0 /\ m_size = 0
    /\ m_buffer = [c \in Cells |-> 0]
    /\ m_sendCnt = 0
    /\ pc = "loop"
    /\ sendCount = 0
    /\ requests = <<>> /\ completions = <<>> /\ deferred = 0
    /\ wire = <<>>
    /\ produced = 0 /\ written = 0 /\ posted = 0

Goto(from, to) == pc = from /\ pc' = to
-----------------------------------------------------------------------------
\* RioBuffer and RingBuffer.
GetFreeSizePosted == BUFFER_SIZE - (written - posted) \* mutant: posted is free
GetFreeSize == BUFFER_SIZE - m_size

GetChunkSendSize == IF m_headPos >= m_sendPos THEN m_headPos - m_sendPos
                                              ELSE BUFFER_SIZE - m_sendPos

GetSendDataSize == IF m_headPos >= m_sendPos THEN m_headPos - m_sendPos
                                             ELSE BUFFER_SIZE - m_sendPos + m_headPos

\* The copy loop of WriteBuffer fills the next cells, round the end: how far
\* a cell is from the first of them.
Ahead(c) == (c + BUFFER_SIZE - m_headPos) % BUFFER_SIZE

WriteBuffer(size) ==
    /\ m_buffer' = [c \in Cells |-> IF Ahead(c) < size THEN written + Ahead(c)
                                                       ELSE m_buffer[c]]
    /\ m_headPos' = (m_headPos + size) % BUFFER_SIZE
    /\ m_size' = m_size + size
    /\ written' = written + size
    /\ UNCHANGED m_tailPos

\* Mutant: what was posted is not passed.
OnSendBufferKeeps(size) == posted' = posted + size /\ UNCHANGED m_sendPos
OnSendBuffer(size) ==
    /\ m_sendPos' = (m_sendPos + size) % BUFFER_SIZE
    /\ posted' = posted + size

OnReadBuffer(size) ==
    /\ m_tailPos' = (m_tailPos + size) % BUFFER_SIZE
    /\ m_size' = m_size - size
    /\ UNCHANGED <<m_headPos, m_buffer, written>>
-----------------------------------------------------------------------------
\* RioSession::Send, from any thread.
Send ==
    /\ m_bConnected
    /\ \E size \in 1 .. MaxPacket :
          /\ produced + size <= MaxBytes
          /\ m_sendBufQueue' = Append(m_sendBufQueue, size)
          /\ produced' = produced + size
    /\ UNCHANGED <<m_bConnected, ringVars, postVars, rioVars, pc>>

\* RioSession::Disconnect.  Inside DeferredSend the core thread holds
\* m_sessionLock, which ReleaseSession locks again: undefined, the thread
\* hangs or goes on.
DisconnectInDeferredSend(next) ==
    /\ m_bConnected' = FALSE
    /\ pc' \in {next, "stuck"}
-----------------------------------------------------------------------------
\* RioCore::DeferredSend and RioSession::SendDeferred.
SendDeferred ==
    /\ m_bConnected
    /\ Goto("loop", "dequeue")
    /\ sendCount' = 0
    /\ UNCHANGED <<m_bConnected, queueVars, ringVars, m_sendPos, m_sendCnt,
                   posted, rioVars>>

\* Not connected, or the last commit is not COMMIT_TIME old.
SendSkipped ==
    /\ Goto("loop", "dispatch")
    /\ UNCHANGED <<m_bConnected, queueVars, ringVars, postVars, rioVars>>

\* Under m_sendQueueLock: the first packet goes to the ring if it fits.
Dequeue ==
    /\ m_sendBufQueue # <<>>
    /\ Head(m_sendBufQueue) <= GetFreeSize
    /\ WriteBuffer(Head(m_sendBufQueue))
    /\ m_sendBufQueue' = Tail(m_sendBufQueue)
    /\ UNCHANGED <<m_bConnected, produced, postVars, rioVars>>
    /\ Goto("dequeue", IF GetSendDataSize' < SEND_LIMIT THEN "dequeue" ELSE "post")

AfterDequeueNoFlush == "commit" \* mutant: less than SEND_LIMIT is not posted
AfterDequeue == IF sendCount < MAX_POST_CNT THEN "flush" ELSE "commit"

DequeueStops ==
    /\ \/ m_sendBufQueue = <<>>
       \/ m_sendBufQueue # <<>> /\ Head(m_sendBufQueue) > GetFreeSize
    /\ Goto("dequeue", AfterDequeue)
    /\ UNCHANGED <<m_bConnected, queueVars, ringVars, postVars, rioVars>>

Outstanding == Len(requests) + Len(completions)

\* RegisterSend posts the chunk at m_sendPos and moves m_sendPos past it.
RegisterSend ==
    /\ m_bConnected
    /\ Outstanding < MAX_SEND_RQ_SIZE
    /\ requests' = Append(requests, [offset |-> m_sendPos, length |-> GetChunkSendSize])
    /\ deferred' = deferred + 1
    /\ m_sendCnt' = m_sendCnt + 1
    /\ OnSendBuffer(GetChunkSendSize)
    /\ sendCount' = sendCount + 1
    /\ UNCHANGED <<m_bConnected, queueVars, ringVars, completions, wire>>

\* It returns false: not connected, WSAENOBUFS, or an error that disconnects.
RegisterSendFails(next) ==
    /\ \/ /\ ~m_bConnected \/ Outstanding = MAX_SEND_RQ_SIZE
          /\ pc' = next
          /\ UNCHANGED m_bConnected
       \/ /\ m_bConnected
          /\ DisconnectInDeferredSend(next)
    /\ UNCHANGED <<queueVars, ringVars, postVars, rioVars>>

AfterPosts == IF sendCount >= MAX_POST_CNT THEN "commit" ELSE "dequeue"

\* The inner loop, while more than SEND_LIMIT waited.
Post ==
    /\ pc = "post"
    /\ GetSendDataSize > 0
    /\ \/ RegisterSend /\ UNCHANGED pc
       \/ RegisterSendFails(AfterPosts)

PostDone ==
    /\ GetSendDataSize = 0
    /\ Goto("post", AfterPosts)
    /\ UNCHANGED <<m_bConnected, queueVars, ringVars, postVars, rioVars>>

\* The last loop, for what is left below SEND_LIMIT.
Flush ==
    /\ pc = "flush"
    /\ GetSendDataSize > 0
    /\ \/ RegisterSend /\ pc' = IF sendCount' >= MAX_POST_CNT THEN "commit" ELSE "flush"
       \/ RegisterSendFails("commit")

FlushDone ==
    /\ GetSendDataSize = 0
    /\ Goto("flush", "commit")
    /\ UNCHANGED <<m_bConnected, queueVars, ringVars, postVars, rioVars>>

CommitNeededOffByOne == sendCount > 1 /\ m_sendCnt > 0 \* mutant
CommitNeeded == sendCount > 0 /\ m_sendCnt > 0

\* SendCommit, if this call posted anything.
SendCommit ==
    /\ pc = "commit"
    /\ IF CommitNeeded
       THEN /\ \/ m_bConnected /\ deferred' = 0 /\ pc' = "dispatch"
                               /\ UNCHANGED m_bConnected
               \/ m_bConnected /\ DisconnectInDeferredSend("dispatch")
                               /\ UNCHANGED deferred
               \/ ~m_bConnected /\ pc' = "dispatch"
                                /\ UNCHANGED <<m_bConnected, deferred>>
            /\ m_sendCnt' = 0
       ELSE pc' = "dispatch" /\ UNCHANGED <<m_bConnected, deferred, m_sendCnt>>
    /\ UNCHANGED <<queueVars, ringVars, m_sendPos, sendCount, posted,
                   requests, completions, wire>>
-----------------------------------------------------------------------------
\* RioCore::Dispatch and RioSession::ProcessSend: a completion of no bytes is
\* an error.
ProcessSend ==
    LET bytes == Head(completions).length IN
    /\ pc = "dispatch"
    /\ completions # <<>>
    /\ completions' = Tail(completions)
    /\ IF bytes = 0 \/ bytes > m_size
       THEN m_bConnected' = FALSE /\ UNCHANGED ringVars
       ELSE OnReadBuffer(bytes) /\ UNCHANGED m_bConnected
    /\ UNCHANGED <<queueVars, postVars, requests, deferred, wire, pc>>

\* Another completion of the session (a receive, a request to log out) ends it.
OtherDisconnect ==
    /\ pc = "dispatch"
    /\ m_bConnected
    /\ m_bConnected' = FALSE
    /\ UNCHANGED <<queueVars, ringVars, postVars, rioVars, pc>>

DispatchDone ==
    /\ Goto("dispatch", "loop")
    /\ UNCHANGED <<m_bConnected, queueVars, ringVars, postVars, rioVars>>

\* Registered I/O sends the first request: it reads the ring now.
Transmit ==
    LET first == Head(requests) IN
    /\ requests # <<>>
    /\ requests' = Tail(requests)
    /\ IF m_bConnected
       THEN /\ completions' = Append(completions, first)
            /\ wire' = wire \o [i \in 1 .. first.length |->
                                   m_buffer[(first.offset + i - 1) % BUFFER_SIZE]]
       ELSE /\ completions' = Append(completions, [first EXCEPT !.length = 0])
            /\ UNCHANGED wire
    /\ deferred' = IF deferred = Len(requests) THEN deferred - 1 ELSE deferred
    /\ UNCHANGED <<m_bConnected, queueVars, ringVars, postVars, pc>>
-----------------------------------------------------------------------------
Core == \/ SendDeferred \/ SendSkipped \/ Dequeue \/ DequeueStops
        \/ Post \/ PostDone \/ Flush \/ FlushDone \/ SendCommit
        \/ ProcessSend \/ OtherDisconnect \/ DispatchDone

Next == Send \/ Core \/ Transmit

Spec == Init /\ [][Next]_vars

\* The core thread keeps running, COMMIT_TIME passes (SendDeferred does not
\* skip for ever), Dispatch dequeues what is complete, and the peer takes
\* the data of committed requests.
Fairness ==
    /\ WF_vars(pc # "dispatch" /\ Core)
    /\ WF_vars(DispatchDone)
    /\ SF_vars(SendDeferred)
    /\ SF_vars(ProcessSend)
    /\ WF_vars(Transmit /\ deferred < Len(requests))

FairSpec == Spec /\ Fairness
-----------------------------------------------------------------------------
PCs == {"loop", "dequeue", "post", "flush", "commit", "dispatch", "stuck"}
Requests == [offset : Cells, length : 0 .. BUFFER_SIZE]

\* Every variable has its type: the ring's size is never negative nor beyond
\* its capacity, and no request reaches beyond the end of the ring.
TypeOK ==
    /\ m_bConnected \in BOOLEAN
    /\ m_sendBufQueue \in Seq(1 .. MaxPacket)
    /\ m_headPos \in Cells /\ m_tailPos \in Cells /\ m_sendPos \in Cells
    /\ m_size \in 0 .. BUFFER_SIZE
    /\ m_buffer \in [Cells -> Nat]
    /\ m_sendCnt \in Nat /\ sendCount \in Nat
    /\ produced \in Nat /\ written \in Nat /\ posted \in Nat
    /\ pc \in PCs
    /\ requests \in Seq(Requests) /\ completions \in Seq(Requests)
    /\ \A i \in DOMAIN requests :
          requests[i].offset + requests[i].length <= BUFFER_SIZE
    /\ deferred \in 0 .. Len(requests)
    /\ wire \in Seq(Nat)

\* The bytes leave in the order in which Send took them, each once and
\* unchanged: a packet is not copied over a piece that is still to be sent,
\* the pieces follow each other in the ring, and a piece refused is posted
\* again in its place.
Stream == INSTANCE SendStream WITH given <- produced
StreamSpec == Stream!Spec

\* GetSendDataSize "returns the size of data should be sent"
\* (RioBuffer.cpp:43): what is in the ring and not posted.  The positions
\* alone cannot tell a ring full of such bytes from one without any; a ring
\* that fills up with them is never sent.  Holds for PacketsFit only.
UnsentIsExact == m_bConnected => GetSendDataSize = written - posted

\* Whenever the core thread is not in SendDeferred, everything posted has
\* been committed: no request waits for a commit that nobody will make.
NothingLeftDeferred ==
    m_bConnected /\ pc \in {"loop", "dispatch"} => deferred = 0

\* Every byte given to Send leaves the machine, unless the session ends.
EverythingSent ==
    \A n \in 1 .. MaxBytes :
        produced >= n ~> Len(wire) >= n \/ ~m_bConnected
=============================================================================
