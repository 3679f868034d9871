---------------------------- MODULE RioLifecycle ----------------------------
(***************************************************************************)
(* The life of the sessions of a RioServer: the accept thread takes        *)
(* connections and gives each to a RioCore in turn; the thread of a core   *)
(* sends for its sessions (DeferredSend), handles what their requests      *)
(* completed with (Dispatch) and disconnects them.  A session lives for as *)
(* long as the core lists it or a request in flight names it as m_owner.   *)
(*                                                                         *)
(* The results of a turn are handled one by one in any order, and what     *)
(* completes meanwhile in the same turn or a later one; a request that has *)
(* completed with nothing, and a send, is in flight until it is handled.   *)
(* What the sends carry is RioSend's matter, what is received RecvBuffer's *)
(* (whose read and write errors never happen), the jobs between two turns  *)
(* JobQueue's.                                                             *)
(***************************************************************************)
EXTENDS Integers, FiniteSets

CONSTANTS Sessions, \* the sessions that m_sessionFactory may make
          CoreCnt,  \* m_coreCnt
          MaxSends  \* bound: sends queued and in flight per session

ASSUME ConstantsAssumption ==
    Sessions # {} /\ CoreCnt \in Nat \ {0} /\ MaxSends \in Nat

Cores == 0 .. CoreCnt - 1
Acceptor == CoreCnt          \* the accept thread; thread c < CoreCnt is core c's
Threads == 0 .. CoreCnt
Free == CoreCnt + 1          \* nobody holds the lock

VARIABLES
    socket,             \* m_socket: none, open, reset (the peer is gone), closed
    m_rioCore, m_bConnected, m_bAllocated,
    prepared,           \* what InitSession has made: nothing, buffers, queue
    recvOwner,          \* whether m_recvEvent.m_owner is set
    recv,               \* the RIOReceive: none, posted, or completed with data
    m_sendBufQueue,     \* packets queued
    posted,             \* RIOSends in flight
    m_sessions, m_sessionCnt, m_sessionLock, \* per core
    m_currAllocCoreNum,
    told,               \* history: sessions whose OnDisconnected was called
    known,              \* history: sessions of which a packet was received
    pc,
    cur,                \* per thread, the session it works on
    ret,                \* per thread, where Disconnect returns to
    walk                \* per core, sessions DeferredSend has still to visit

linkVars == <<socket, m_rioCore, m_bConnected, told>>
initVars == <<prepared, m_bAllocated>>
recvVars == <<recvOwner, recv>>
sendVars == <<m_sendBufQueue, posted, known>>
listVars == <<m_sessions, m_sessionCnt>>
coreVars == <<m_sessionLock, walk, m_currAllocCoreNum>>
threadVars == <<pc, cur, ret>>
vars == <<linkVars, initVars, recvVars, sendVars, listVars, coreVars, threadVars>>

Init ==
    /\ socket = [s \in Sessions |-> "none"]
    /\ m_rioCore = [s \in Sessions |-> 0]
    /\ m_bConnected = [s \in Sessions |-> FALSE] /\ told = {}
    /\ m_bAllocated = [s \in Sessions |-> FALSE]
    /\ prepared = [s \in Sessions |-> "nothing"]
    /\ recvOwner = [s \in Sessions |-> FALSE] /\ recv = [s \in Sessions |-> "none"]
    /\ m_sendBufQueue = [s \in Sessions |-> 0] /\ posted = [s \in Sessions |-> 0]
    /\ known = {}
    /\ m_sessions = [c \in Cores |-> {}] /\ m_sessionCnt = [c \in Cores |-> 0]
    /\ m_sessionLock = [c \in Cores |-> Free] /\ walk = [c \in Cores |-> {}]
    /\ m_currAllocCoreNum = 0
    /\ pc = [t \in Threads |-> IF t = Acceptor THEN "accept" ELSE "loop"]
    /\ cur = [t \in Threads |-> CHOOSE s \in Sessions : TRUE]
    /\ ret = [t \in Threads |-> "none"]

Goto(t, label) == pc' = [pc EXCEPT ![t] = label]
Home(t) == IF t = Acceptor THEN "accept" ELSE "dispatch"

\* Disconnect is called: it works on cur[t] and returns to label.
CallDisconnect(t, label) ==
    /\ Goto(t, "disconnect")
    /\ ret' = [ret EXCEPT ![t] = label]

Return(t) ==
    /\ Goto(t, ret[t])
    /\ ret' = [ret EXCEPT ![t] = "none"]
-----------------------------------------------------------------------------
\* The accept loop.
Accept(s) ==
    /\ pc[Acceptor] = "accept" /\ socket[s] = "none"
    /\ socket' = [socket EXCEPT ![s] = "open"]
    /\ m_rioCore' = [m_rioCore EXCEPT ![s] = m_currAllocCoreNum]
    /\ cur' = [cur EXCEPT ![Acceptor] = s]
    /\ Goto(Acceptor, "add")
    /\ UNCHANGED <<m_bConnected, told, initVars, recvVars, sendVars, listVars,
                   coreVars, ret>>

\* One accept that fails ends the loop.
AcceptFails ==
    /\ pc[Acceptor] = "accept" /\ Goto(Acceptor, "stopped")
    /\ UNCHANGED <<linkVars, initVars, recvVars, sendVars, listVars, coreVars, cur, ret>>

AddSession ==
    LET c == m_currAllocCoreNum IN
    /\ pc[Acceptor] = "add" /\ m_sessionLock[c] = Free
    /\ m_sessions' = [m_sessions EXCEPT ![c] = @ \cup {cur[Acceptor]}]
    /\ m_sessionCnt' = [m_sessionCnt EXCEPT ![c] = @ + 1]
    /\ m_currAllocCoreNum' = (c + 1) % CoreCnt
    /\ Goto(Acceptor, "connect")
    /\ UNCHANGED <<linkVars, initVars, recvVars, sendVars, m_sessionLock, walk, cur, ret>>

ProcessConnect ==
    /\ pc[Acceptor] = "connect"
    /\ m_bConnected' = [m_bConnected EXCEPT ![cur[Acceptor]] = TRUE]
    /\ Goto(Acceptor, "alloc")
    /\ UNCHANGED <<socket, m_rioCore, told, initVars, recvVars, sendVars, listVars,
                   coreVars, cur, ret>>

\* Mutant: the session is allocated once its buffers are.
AllocBufferIsEnough(done) ==
    /\ pc[Acceptor] = "alloc"
    /\ prepared' = [prepared EXCEPT ![cur[Acceptor]] = IF done THEN "buffers" ELSE @]
    /\ m_bAllocated' = [m_bAllocated EXCEPT ![cur[Acceptor]] = done]
    /\ Goto(Acceptor, IF done THEN "queue" ELSE "register")
    /\ UNCHANGED <<linkVars, recvVars, sendVars, listVars, coreVars, cur, ret>>

\* InitSession may fail in either half; ProcessConnect goes on regardless.
AllocBuffer(done) ==
    /\ pc[Acceptor] = "alloc"
    /\ prepared' = [prepared EXCEPT ![cur[Acceptor]] = IF done THEN "buffers" ELSE @]
    /\ Goto(Acceptor, IF done THEN "queue" ELSE "register")
    /\ UNCHANGED <<linkVars, m_bAllocated, recvVars, sendVars, listVars, coreVars, cur, ret>>

CreateRequestQueue(done) ==
    /\ pc[Acceptor] = "queue"
    /\ prepared' = [prepared EXCEPT ![cur[Acceptor]] = IF done THEN "queue" ELSE @]
    /\ m_bAllocated' = [m_bAllocated EXCEPT ![cur[Acceptor]] = done]
    /\ Goto(Acceptor, "register")
    /\ UNCHANGED <<linkVars, recvVars, sendVars, listVars, coreVars, cur, ret>>
-----------------------------------------------------------------------------
\* Mutant: m_bConnected is not looked at.
RegisterRecvAlways(t) ==
    /\ pc[t] = "register"
    /\ recvOwner' = [recvOwner EXCEPT ![cur[t]] = TRUE]
    /\ Goto(t, "receive")
    /\ UNCHANGED <<linkVars, initVars, recv, sendVars, listVars, coreVars, cur, ret>>

\* Mutant: the owner is set by the first RegisterRecv only.
RegisterRecvOnce(t) ==
    /\ pc[t] = "register"
    /\ recvOwner' = [recvOwner EXCEPT ![cur[t]] = @ \/ (t = Acceptor /\ m_bConnected[cur[t]])]
    /\ Goto(t, IF m_bConnected[cur[t]] THEN "receive" ELSE Home(t))
    /\ UNCHANGED <<linkVars, initVars, recv, sendVars, listVars, coreVars, cur, ret>>

\* RegisterRecv, by the accept thread at first and by the core's thread then.
RegisterRecv(t) ==
    /\ pc[t] = "register"
    /\ recvOwner' = [recvOwner EXCEPT ![cur[t]] = m_bConnected[cur[t]] \/ @]
    /\ Goto(t, IF m_bConnected[cur[t]] THEN "receive" ELSE Home(t))
    /\ UNCHANGED <<linkVars, initVars, recv, sendVars, listVars, coreVars, cur, ret>>

RIOReceive(t) ==
    /\ pc[t] = "receive" /\ prepared[cur[t]] = "queue"
    /\ recv' = [recv EXCEPT ![cur[t]] = "posted"]
    /\ Goto(t, Home(t))
    /\ UNCHANGED <<linkVars, initVars, recvOwner, sendVars, listVars, coreVars, cur, ret>>

RIOReceiveFails(t) ==
    /\ pc[t] = "receive"
    /\ recvOwner' = [recvOwner EXCEPT ![cur[t]] = FALSE]
    /\ CallDisconnect(t, Home(t))
    /\ UNCHANGED <<linkVars, initVars, recv, sendVars, listVars, coreVars, cur>>
-----------------------------------------------------------------------------
\* exchange(false) lets one call of Disconnect go on: SetLinger, Close and
\* OnDisconnected.  Nobody else changes what they change.
Closes(t) ==
    /\ m_bConnected' = [m_bConnected EXCEPT ![cur[t]] = FALSE]
    /\ socket' = [socket EXCEPT ![cur[t]] = "closed"]
    /\ told' = told \cup {cur[t]}
    /\ Goto(t, "release")
    /\ UNCHANGED <<m_rioCore, ret>>

\* Mutant: m_bConnected is not looked at.
DisconnectAlways(t) ==
    /\ pc[t] = "disconnect"
    /\ Closes(t)
    /\ UNCHANGED <<initVars, recvVars, sendVars, listVars, coreVars, cur>>

Disconnect(t) ==
    /\ pc[t] = "disconnect"
    /\ IF m_bConnected[cur[t]] THEN Closes(t) ELSE Return(t) /\ UNCHANGED linkVars
    /\ UNCHANGED <<initVars, recvVars, sendVars, listVars, coreVars, cur>>

SetLingerFails(t) ==
    /\ pc[t] = "disconnect" /\ m_bConnected[cur[t]]
    /\ m_bConnected' = [m_bConnected EXCEPT ![cur[t]] = FALSE]
    /\ Return(t)
    /\ UNCHANGED <<socket, m_rioCore, told, initVars, recvVars, sendVars, listVars,
                   coreVars, cur>>

ReleaseSession(t) ==
    LET s == cur[t]
        c == m_rioCore[s] IN
    /\ pc[t] = "release" /\ m_sessionLock[c] = Free
    /\ m_sessions' = [m_sessions EXCEPT ![c] = @ \ {s}]
    /\ m_sessionCnt' = [m_sessionCnt EXCEPT ![c] = @ - 1]
    /\ Return(t)
    /\ UNCHANGED <<linkVars, initVars, recvVars, sendVars, coreVars, cur>>

\* Called by SendDeferred it locks the mutex that DeferredSend holds, which is
\* undefined: the thread hangs, or an exception nobody catches ends the server.
LockHeldAlready(t) == pc[t] = "release" /\ m_sessionLock[m_rioCore[cur[t]]] = t

ReleaseHangs(t) ==
    /\ LockHeldAlready(t) /\ Goto(t, "hung")
    /\ UNCHANGED <<linkVars, initVars, recvVars, sendVars, listVars, coreVars, cur, ret>>

ReleaseThrows(t) ==
    /\ LockHeldAlready(t) /\ pc' = [u \in Threads |-> "ended"]
    /\ UNCHANGED <<linkVars, initVars, recvVars, sendVars, listVars, coreVars, cur, ret>>
-----------------------------------------------------------------------------
\* A turn of core c begins: DeferredSend walks through the sessions.
DeferredSend(c) ==
    /\ pc[c] = "loop" /\ m_sessionLock[c] = Free
    /\ m_sessionLock' = [m_sessionLock EXCEPT ![c] = c]
    /\ walk' = [walk EXCEPT ![c] = m_sessions[c]]
    /\ Goto(c, "deferred")
    /\ UNCHANGED <<linkVars, initVars, recvVars, sendVars, listVars,
                   m_currAllocCoreNum, cur, ret>>

SendDeferred(c, s) ==
    /\ pc[c] = "deferred" /\ s \in walk[c]
    /\ walk' = [walk EXCEPT ![c] = @ \ {s}]
    /\ IF m_bConnected[s] /\ m_bAllocated[s]
       THEN Goto(c, "send") /\ cur' = [cur EXCEPT ![c] = s]
       ELSE UNCHANGED <<pc, cur>>
    /\ UNCHANGED <<linkVars, initVars, recvVars, sendVars, listVars, m_sessionLock,
                   m_currAllocCoreNum, ret>>

\* RegisterSend posts some of what is queued, as far as the request queue has
\* room and COMMIT_TIME is over.
Post(s) ==
    \E n \in 0 .. m_sendBufQueue[s] :
        /\ m_sendBufQueue' = [m_sendBufQueue EXCEPT ![s] = @ - n]
        /\ posted' = [posted EXCEPT ![s] = @ + n]
        /\ UNCHANGED known

RegisterSends(c) ==
    /\ pc[c] = "send"
    /\ Post(cur[c])
    /\ Goto(c, "deferred")
    /\ UNCHANGED <<linkVars, initVars, recvVars, listVars, coreVars, cur, ret>>

\* RIOSend fails for want of anything but room, or the commit does.
RegisterSendFails(c) ==
    /\ pc[c] = "send" /\ m_sendBufQueue[cur[c]] > 0
    /\ Post(cur[c])
    /\ CallDisconnect(c, "deferred")
    /\ UNCHANGED <<linkVars, initVars, recvVars, listVars, coreVars, cur>>

\* Mutant: a walk that found no session returns with the lock held.
DeferredSendKeepsLock(c) ==
    /\ pc[c] = "deferred" /\ walk[c] = {}
    /\ m_sessionLock' = [m_sessionLock EXCEPT ![c] = IF m_sessions[c] = {} THEN @ ELSE Free]
    /\ Goto(c, "dispatch")
    /\ UNCHANGED <<linkVars, initVars, recvVars, sendVars, listVars, walk,
                   m_currAllocCoreNum, cur, ret>>

DeferredSendReturns(c) ==
    /\ pc[c] = "deferred" /\ walk[c] = {}
    /\ m_sessionLock' = [m_sessionLock EXCEPT ![c] = Free]
    /\ Goto(c, "dispatch")
    /\ UNCHANGED <<linkVars, initVars, recvVars, sendVars, listVars, walk,
                   m_currAllocCoreNum, cur, ret>>
-----------------------------------------------------------------------------
\* Mutant: a receive of nothing is taken for a packet.
ProcessRecvGoesOn(c, s) ==
    /\ pc[c] = "dispatch" /\ m_rioCore[s] = c
    /\ recv[s] = "data" \/ (recv[s] = "posted" /\ socket[s] # "open")
    /\ recv' = [recv EXCEPT ![s] = "none"]
    /\ recvOwner' = [recvOwner EXCEPT ![s] = FALSE]
    /\ cur' = [cur EXCEPT ![c] = s]
    /\ Goto(c, "onrecv")
    /\ UNCHANGED <<linkVars, initVars, sendVars, listVars, coreVars, ret>>

\* Dispatch: the result of a receive, nothing once the peer is gone or the
\* socket closed.  A result without owner is dropped.
ProcessRecv(c, s) ==
    /\ pc[c] = "dispatch" /\ m_rioCore[s] = c
    /\ recv[s] = "data" \/ (recv[s] = "posted" /\ socket[s] # "open")
    /\ recv' = [recv EXCEPT ![s] = "none"]
    /\ recvOwner' = [recvOwner EXCEPT ![s] = FALSE]
    /\ cur' = [cur EXCEPT ![c] = s]
    /\ IF ~recvOwner[s] THEN UNCHANGED <<pc, ret>>
       ELSE IF recv[s] = "posted" THEN CallDisconnect(c, "dispatch")
       ELSE Goto(c, "onrecv") /\ UNCHANGED ret
    /\ UNCHANGED <<linkVars, initVars, sendVars, listVars, coreVars>>

OnRecv(c) ==
    /\ pc[c] = "onrecv" /\ Goto(c, "register")
    /\ known' = known \cup {cur[c]}
    /\ UNCHANGED <<linkVars, initVars, recvVars, m_sendBufQueue, posted, listVars, coreVars,
                   cur, ret>>

\* A handler or a zone's job, on any thread, queues a packet for a player; a
\* session has none before its first packet.
Send(s) ==
    /\ m_bConnected[s] /\ s \in known /\ m_sendBufQueue[s] + posted[s] < MaxSends
    /\ m_sendBufQueue' = [m_sendBufQueue EXCEPT ![s] = @ + 1]
    /\ UNCHANGED <<linkVars, initVars, recvVars, posted, known, listVars, coreVars, threadVars>>

\* Handle_LOGOUT disconnects from within OnRecv.
HandleLogout(c) ==
    /\ pc[c] = "onrecv" /\ CallDisconnect(c, "register")
    /\ UNCHANGED <<linkVars, initVars, recvVars, sendVars, listVars, coreVars, cur>>

ProcessSend(c, s) ==
    /\ pc[c] = "dispatch" /\ m_rioCore[s] = c /\ posted[s] > 0
    /\ posted' = [posted EXCEPT ![s] = @ - 1]
    /\ UNCHANGED <<linkVars, initVars, recvVars, m_sendBufQueue, known, listVars, coreVars,
                   threadVars>>

ProcessSendOfNothing(c, s) ==
    /\ pc[c] = "dispatch" /\ m_rioCore[s] = c /\ posted[s] > 0 /\ socket[s] # "open"
    /\ posted' = [posted EXCEPT ![s] = @ - 1]
    /\ cur' = [cur EXCEPT ![c] = s]
    /\ CallDisconnect(c, "dispatch")
    /\ UNCHANGED <<linkVars, initVars, recvVars, m_sendBufQueue, known, listVars, coreVars>>

DispatchReturns(c) ==
    /\ pc[c] = "dispatch" /\ Goto(c, "loop")
    /\ UNCHANGED <<linkVars, initVars, recvVars, sendVars, listVars, coreVars, cur, ret>>
-----------------------------------------------------------------------------
\* The peer leaves, or sends.
PeerCloses(s) ==
    /\ socket[s] = "open" /\ socket' = [socket EXCEPT ![s] = "reset"]
    /\ UNCHANGED <<m_rioCore, m_bConnected, told, initVars, recvVars, sendVars, listVars,
                   coreVars, threadVars>>

DataArrives(s) ==
    /\ recv[s] = "posted" /\ socket[s] = "open"
    /\ recv' = [recv EXCEPT ![s] = "data"]
    /\ UNCHANGED <<linkVars, initVars, recvOwner, sendVars, listVars, coreVars, threadVars>>
-----------------------------------------------------------------------------
AcceptThread ==
    \/ AddSession \/ ProcessConnect
    \/ \E done \in BOOLEAN : AllocBuffer(done) \/ CreateRequestQueue(done)

CoreThread(c) ==
    \/ DeferredSend(c) \/ RegisterSends(c) \/ RegisterSendFails(c)
    \/ (\E s \in Sessions : SendDeferred(c, s)) \/ DeferredSendReturns(c)
    \/ OnRecv(c) \/ HandleLogout(c) \/ DispatchReturns(c)

\* A thread goes on with what it is doing.
Runs(t) ==
    \/ RegisterRecv(t) \/ RIOReceive(t) \/ RIOReceiveFails(t)
    \/ Disconnect(t) \/ SetLingerFails(t)
    \/ ReleaseSession(t) \/ ReleaseHangs(t) \/ ReleaseThrows(t)
    \/ t = Acceptor /\ AcceptThread
    \/ t \in Cores /\ CoreThread(t)

Results(c, s) == ProcessRecv(c, s) \/ ProcessSend(c, s) \/ ProcessSendOfNothing(c, s)

Next ==
    \/ (\E s \in Sessions : Accept(s)) \/ AcceptFails
    \/ \E t \in Threads : Runs(t)
    \/ \E c \in Cores, s \in Sessions : Results(c, s)
    \/ \E s \in Sessions : Send(s) \/ PeerCloses(s) \/ DataArrives(s)

Spec == Init /\ [][Next]_vars

\* Threads run on, and the accept thread gets a lock that is free again and
\* again; a request completes at the latest when its connection has ended, and
\* its result is dequeued in some turn.
Fairness ==
    /\ SF_vars(Runs(Acceptor)) /\ \A c \in Cores : WF_vars(Runs(c))
    /\ \A s \in Sessions : SF_vars(\E c \in Cores : ProcessRecv(c, s) \/ ProcessSendOfNothing(c, s))

FairSpec == Spec /\ Fairness
-----------------------------------------------------------------------------
Labels == {"accept", "stopped", "add", "connect", "alloc", "queue", "register",
           "receive", "disconnect", "release", "hung", "ended", "loop", "deferred",
           "send", "dispatch", "onrecv"}

\* Every variable has its type.
TypeOK ==
    /\ socket \in [Sessions -> {"none", "open", "reset", "closed"}]
    /\ m_rioCore \in [Sessions -> Cores] /\ told \subseteq Sessions /\ known \subseteq Sessions
    /\ m_bConnected \in [Sessions -> BOOLEAN] /\ m_bAllocated \in [Sessions -> BOOLEAN]
    /\ prepared \in [Sessions -> {"nothing", "buffers", "queue"}]
    /\ recvOwner \in [Sessions -> BOOLEAN]
    /\ recv \in [Sessions -> {"none", "posted", "data"}]
    /\ m_sendBufQueue \in [Sessions -> Nat] /\ posted \in [Sessions -> Nat]
    /\ m_sessions \in [Cores -> SUBSET Sessions] /\ m_sessionCnt \in [Cores -> Int]
    /\ m_sessionLock \in [Cores -> Threads \cup {Free}]
    /\ walk \in [Cores -> SUBSET Sessions] /\ m_currAllocCoreNum \in Cores
    /\ pc \in [Threads -> Labels]
    /\ ret \in [Threads -> {"none", "accept", "deferred", "dispatch", "register"}]
    /\ cur \in [Threads -> Sessions]

\* Between a receive's result and the next RIOReceive.
Receives(t) ==
    \/ pc[t] \in {"onrecv", "register", "receive"}
    \/ pc[t] \in {"disconnect", "release"} /\ ret[t] = "register"

\* There is one m_recvEvent: while its RIOReceive is in flight or its result
\* waits it names its owner, so that Dispatch finds the session and the session
\* stays alive; and nobody, neither the accept thread nor the core's, then
\* touches it or the receive buffer.
ReceiveIsOwned ==
    /\ \A s \in Sessions : recv[s] # "none" => recvOwner[s]
    /\ \A t \in Threads : Receives(t) => recv[cur[t]] = "none"
    /\ \A t, u \in Threads : Receives(t) /\ Receives(u) /\ cur[t] = cur[u] => t = u

\* The core's thread visits sessions the accept thread is still preparing: it
\* sends only where the request queue exists, and for its own sessions.
SendsWhenReady ==
    \A c \in Cores : pc[c] = "send" => /\ prepared[cur[c]] = "queue"
                                       /\ m_rioCore[cur[c]] = c

\* No request is made on a socket that Disconnect has closed.
NoLateRequest ==
    [][\A s \in Sessions :
        (recv'[s] = "posted" /\ recv[s] # "posted") \/ posted'[s] > posted[s]
            => socket[s] \in {"open", "reset"}]_vars

\* Whoever disconnects, and however often: a core lists a session once, calls
\* its OnDisconnected once and before it drops it, and counts it right.
Life == INSTANCE SessionLife WITH
    Lists <- Cores, listed <- m_sessions, count <- m_sessionCnt
LifeSpec == Life!Spec

Alive(s) ==
    \/ \E c \in Cores : s \in m_sessions[c]
    \/ recvOwner[s] \/ posted[s] > 0
    \/ \E t \in Threads : /\ cur[t] = s
                          /\ pc[t] \notin {"accept", "stopped", "loop", "deferred", "dispatch"}

\* SetLinger failed: the socket is never closed, the session never dropped
\* (RioSession.cpp:52).
Stranded(s) ==
    /\ s \in m_sessions[m_rioCore[s]] /\ ~m_bConnected[s] /\ socket[s] # "closed"
    /\ \A t \in Threads : cur[t] = s => pc[t] # "connect"

\* A session whose connection has ended is freed: neither its core nor a thread
\* nor a request refers to it any more (a Player that a sector keeps still does:
\* World), unless SetLinger failed or a send that failed has stopped its core (RioCore.cpp:84).
Freed ==
    \A s \in Sessions :
        socket[s] \in {"reset", "closed"}
            ~> ~Alive(s) \/ Stranded(s) \/ pc[m_rioCore[s]] \in {"hung", "ended"}

\* The server goes on to take connections, unless an accept failed or a core
\* has stopped, and with it the accept thread at its turn.
AcceptsAgain ==
    []<>(pc[Acceptor] \in {"accept", "stopped"} \/ \E c \in Cores : pc[c] \in {"hung", "ended"})
=============================================================================
