------------------------ MODULE RioLifecycle_proofs ------------------------
(***************************************************************************)
(* What RioLifecycle's runs check on two sessions and one core, proved for *)
(* any sessions and any number of cores.  The argument: a core works only  *)
(* on sessions that were given to it, so no two cores meet; and a core     *)
(* finds nothing to do for a session that the accept thread still works    *)
(* on, but to look whether it has something to send.                       *)
(***************************************************************************)
EXTENDS RioLifecycle, TLAPS

AcceptorLabels == {"add", "connect", "alloc", "queue", "register", "receive",
                   "disconnect", "release"}
CoreLabels == {"onrecv", "register", "receive", "disconnect", "release"}

\* Both kinds of threads keep to their own part of the code.
Control ==
    /\ pc[Acceptor] \in AcceptorLabels \cup {"accept", "stopped", "hung", "ended"}
    /\ pc[Acceptor] \in {"disconnect", "release"} => ret[Acceptor] = "accept"
    /\ \A c \in Cores :
        /\ pc[c] \in CoreLabels \cup {"loop", "deferred", "send", "dispatch", "hung", "ended"}
        /\ pc[c] \in {"disconnect", "release"} => ret[c] \in {"deferred", "dispatch", "register"}

\* Nothing is known of a session that was not accepted.
Fresh ==
    \A s \in Sessions : socket[s] = "none" =>
        /\ recv[s] = "none" /\ posted[s] = 0 /\ m_sendBufQueue[s] = 0
        /\ s \notin known /\ s \notin told
        /\ ~m_bConnected[s] /\ ~m_bAllocated[s] /\ prepared[s] # "queue"

\* A core has sessions that were given to it, and works on those only.
CoresApart ==
    \A c \in Cores :
        /\ \A s \in m_sessions[c] \cup walk[c] : m_rioCore[s] = c /\ socket[s] # "none"
        /\ pc[c] \in CoreLabels \cup {"send"} =>
               m_rioCore[cur[c]] = c /\ socket[cur[c]] # "none"

\* The accept thread is alone with its session.
AcceptorAlone ==
    LET s == cur[Acceptor] IN
    pc[Acceptor] \in AcceptorLabels =>
        /\ socket[s] # "none"
        /\ recv[s] = "none" /\ posted[s] = 0 /\ m_sendBufQueue[s] = 0 /\ s \notin known
        /\ \A c \in Cores : pc[c] \in CoreLabels => cur[c] # s

\* What the accept thread has done so far for its session.
Accepting ==
    LET s == cur[Acceptor] IN
    /\ pc[Acceptor] \in {"add", "connect", "alloc", "queue"} =>
           ~m_bAllocated[s] /\ prepared[s] # "queue"
    /\ pc[Acceptor] \in {"add", "connect"} =>
           socket[s] # "closed" /\ s \notin told /\ ~m_bConnected[s]
    /\ pc[Acceptor] = "add" =>
           m_rioCore[s] = m_currAllocCoreNum /\ \A c \in Cores : s \notin m_sessions[c]
    /\ pc[Acceptor] = "connect" => s \in m_sessions[m_rioCore[s]]

\* A session that is connected has a socket and is listed, until the one call
\* of Disconnect that goes on.
Connected ==
    /\ \A s \in Sessions : m_bConnected[s] =>
        /\ socket[s] \in {"open", "reset"}
        /\ s \in m_sessions[m_rioCore[s]] /\ s \notin told
    /\ \A t \in Threads : pc[t] = "release" =>
        /\ ~m_bConnected[cur[t]]
        /\ cur[t] \in m_sessions[m_rioCore[cur[t]]] /\ cur[t] \in told

\* The receive's event has its owner.
Owned ==
    /\ \A s \in Sessions : recv[s] # "none" => recvOwner[s]
    /\ \A t \in Threads : pc[t] = "receive" => recvOwner[cur[t]] /\ m_bConnected[cur[t]]
    /\ \A c \in Cores : Receives(c) => recv[cur[c]] = "none"

\* Whoever is about to send has a request queue, and a socket or nothing to send.
Sending ==
    /\ \A s \in Sessions : m_bAllocated[s] => prepared[s] = "queue"
    /\ \A c \in Cores : pc[c] = "send" =>
        /\ prepared[cur[c]] = "queue"
        /\ m_bConnected[cur[c]] \/ m_sendBufQueue[cur[c]] = 0

IInv ==
    /\ TypeOK /\ Control /\ Fresh /\ CoresApart /\ AcceptorAlone /\ Accepting
    /\ Connected /\ Owned /\ Sending
-----------------------------------------------------------------------------
LEMMA Ids ==
  /\ Acceptor \in Threads /\ Acceptor \notin Cores /\ Cores \subseteq Threads
  /\ \A t \in Threads : t = Acceptor \/ t \in Cores
  /\ Free \notin Threads /\ 0 \in Cores
    BY ConstantsAssumption DEF Acceptor, Cores, Threads, Free

LEMMA NextCore == \A c \in Cores : (c + 1) % CoreCnt \in Cores
    BY ConstantsAssumption, Z3 DEF Cores

USE Ids DEF linkVars, initVars, recvVars, sendVars, listVars, coreVars, threadVars,
            AcceptorLabels, CoreLabels

\* No two threads are in the middle of something for the same session.
LEMMA Apart ==
  ASSUME IInv, NEW t \in Threads, NEW u \in Threads, t # u,
         pc[t] \in AcceptorLabels \cup CoreLabels, pc[u] \in AcceptorLabels \cup CoreLabels
  PROVE  cur[t] # cur[u]
<1>1. \A c \in Cores : pc[c] \in AcceptorLabels \cup CoreLabels =>
          pc[c] \in CoreLabels /\ m_rioCore[cur[c]] = c
    BY DEF IInv, Control, CoresApart
<1>2. \A c \in Cores : pc[Acceptor] \in AcceptorLabels /\ pc[c] \in CoreLabels
          => cur[c] # cur[Acceptor]
    BY DEF IInv, AcceptorAlone
<1>3. pc[Acceptor] \in AcceptorLabels \cup CoreLabels => pc[Acceptor] \in AcceptorLabels
    BY DEF IInv, Control
<1> QED BY <1>1, <1>2, <1>3

\* The two outcomes of Disconnect.
LEMMA DisconnectCases ==
  ASSUME NEW t \in Threads, Disconnect(t)
  PROVE  \/ m_bConnected[cur[t]] /\ Closes(t)
         \/ ~m_bConnected[cur[t]] /\ Return(t) /\ socket' = socket /\ m_rioCore' = m_rioCore
              /\ m_bConnected' = m_bConnected /\ told' = told
    BY DEF Disconnect

LEMMA SendDeferredCases ==
  ASSUME NEW c \in Cores, NEW s \in Sessions, SendDeferred(c, s)
  PROVE  \/ m_bConnected[s] /\ m_bAllocated[s] /\ Goto(c, "send") /\ cur' = [cur EXCEPT ![c] = s]
         \/ pc' = pc /\ cur' = cur
    BY DEF SendDeferred

\* A core about to send for a session another thread works on finds nothing queued.
LEMMA SenderApart ==
  ASSUME IInv, NEW t \in Threads, pc[t] = "disconnect",
         NEW c \in Cores, pc[c] = "send", cur[c] = cur[t]
  PROVE  m_sendBufQueue[cur[t]] = 0
<1>1. CASE t = Acceptor
    BY <1>1 DEF IInv, AcceptorAlone
<1>2. CASE t \in Cores
    BY <1>2 DEF IInv, CoresApart
<1> QED BY <1>1, <1>2

LEMMA AcceptStep ==
  ASSUME IInv, NEW s \in Sessions, Accept(s)
  PROVE  IInv'
<1>1. TypeOK'
    BY DEF IInv, TypeOK, Labels, Accept, Goto
<1>2. Control'
    BY DEF IInv, Control, Accept, Goto
<1>3. Fresh'
    BY DEF IInv, Fresh, Accept, Goto
<1>4. CoresApart'
    BY DEF IInv, CoresApart, Accept, Goto
<1>5. AcceptorAlone'
    BY DEF IInv, TypeOK, Control, CoresApart, Fresh, AcceptorAlone, Accept, Goto
<1>6. Accepting'
    BY DEF IInv, TypeOK, Control, Fresh, CoresApart, AcceptorAlone, Accepting, Connected,
           Accept, Goto
<1>7. Connected'
    BY DEF IInv, TypeOK, Control, Fresh, CoresApart, AcceptorAlone, Accepting, Connected,
           Accept, Goto
<1>8. Owned'
    BY DEF IInv, Owned, Receives, Accept, Goto
<1>9. Sending'
    BY DEF IInv, Sending, Accept, Goto
<1> QED BY <1>1, <1>2, <1>3, <1>4, <1>5, <1>6, <1>7, <1>8, <1>9 DEF IInv

LEMMA AcceptFailsStep ==
  ASSUME IInv, AcceptFails
  PROVE  IInv'
<1>1. TypeOK'
    BY DEF IInv, TypeOK, Labels, AcceptFails, Goto
<1>2. Control'
    BY DEF IInv, Control, AcceptFails, Goto
<1>3. Fresh'
    BY DEF IInv, Fresh, AcceptFails, Goto
<1>4. CoresApart'
    BY DEF IInv, CoresApart, AcceptFails, Goto
<1>5. AcceptorAlone'
    BY DEF IInv, AcceptorAlone, AcceptFails, Goto
<1>6. Accepting'
    BY DEF IInv, Accepting, AcceptFails, Goto
<1>7. Connected'
    BY DEF IInv, Connected, AcceptFails, Goto
<1>8. Owned'
    BY DEF IInv, Owned, Receives, AcceptFails, Goto
<1>9. Sending'
    BY DEF IInv, Sending, AcceptFails, Goto
<1> QED BY <1>1, <1>2, <1>3, <1>4, <1>5, <1>6, <1>7, <1>8, <1>9 DEF IInv

LEMMA AddSessionStep ==
  ASSUME IInv, AddSession
  PROVE  IInv'
<1>1. TypeOK'
    BY NextCore DEF IInv, TypeOK, Labels, AddSession, Goto
<1>2. Control'
    BY DEF IInv, Control, AddSession, Goto
<1>3. Fresh'
    BY DEF IInv, Fresh, AddSession, Goto
<1>4. CoresApart'
  <2> DEFINE a == m_currAllocCoreNum
             s == cur[Acceptor]
  <2>1. /\ a \in Cores /\ s \in Sessions
        /\ m_sessions' = [m_sessions EXCEPT ![a] = @ \cup {s}]
        /\ m_rioCore[s] = a /\ socket[s] # "none"
      BY DEF IInv, TypeOK, AddSession, AcceptorAlone, Accepting
  <2>2. \A c \in Cores : m_sessions'[c] \subseteq m_sessions[c] \cup (IF c = a THEN {s} ELSE {})
      BY <2>1 DEF IInv, TypeOK
  <2> QED BY <2>1, <2>2 DEF IInv, TypeOK, CoresApart, AddSession, Goto
<1>5. AcceptorAlone'
    BY DEF IInv, AcceptorAlone, AddSession, Goto
<1>6. Accepting'
    BY DEF IInv, TypeOK, Accepting, AddSession, Goto
<1>7. Connected'
    BY DEF IInv, Connected, AddSession, Goto
<1>8. Owned'
    BY DEF IInv, Owned, Receives, AddSession, Goto
<1>9. Sending'
    BY DEF IInv, Sending, AddSession, Goto
<1> QED BY <1>1, <1>2, <1>3, <1>4, <1>5, <1>6, <1>7, <1>8, <1>9 DEF IInv

LEMMA ProcessConnectStep ==
  ASSUME IInv, ProcessConnect
  PROVE  IInv'
<1>1. TypeOK'
    BY DEF IInv, TypeOK, Labels, ProcessConnect, Goto
<1>2. Control'
    BY DEF IInv, Control, ProcessConnect, Goto
<1>3. Fresh'
    BY DEF IInv, TypeOK, Fresh, AcceptorAlone, CoresApart, Accepting, ProcessConnect, Goto
<1>4. CoresApart'
    BY DEF IInv, CoresApart, ProcessConnect, Goto
<1>5. AcceptorAlone'
    BY DEF IInv, AcceptorAlone, ProcessConnect, Goto
<1>6. Accepting'
    BY DEF IInv, TypeOK, Accepting, ProcessConnect, Goto
<1>7. Connected'
    BY DEF IInv, TypeOK, Control, Fresh, CoresApart, AcceptorAlone, Accepting, Connected,
           ProcessConnect, Goto
<1>8. Owned'
    BY DEF IInv, Owned, Receives, ProcessConnect, Goto
<1>9. Sending'
    BY DEF IInv, Sending, ProcessConnect, Goto
<1> QED BY <1>1, <1>2, <1>3, <1>4, <1>5, <1>6, <1>7, <1>8, <1>9 DEF IInv

LEMMA AllocBufferStep ==
  ASSUME IInv, NEW done \in BOOLEAN, AllocBuffer(done)
  PROVE  IInv'
<1>1. TypeOK'
    BY DEF IInv, TypeOK, Labels, AllocBuffer, Goto
<1>2. Control'
    BY DEF IInv, Control, AllocBuffer, Goto
<1>3. Fresh'
    BY DEF IInv, Fresh, AllocBuffer, Goto
<1>4. CoresApart'
    BY DEF IInv, CoresApart, AllocBuffer, Goto
<1>5. AcceptorAlone'
    BY DEF IInv, AcceptorAlone, AllocBuffer, Goto
<1>6. Accepting'
    BY DEF IInv, Accepting, AllocBuffer, Goto
<1>7. Connected'
    BY DEF IInv, Connected, AllocBuffer, Goto
<1>8. Owned'
    BY DEF IInv, Owned, Receives, AllocBuffer, Goto
<1>9. Sending'
    BY DEF IInv, TypeOK, Control, Fresh, CoresApart, AcceptorAlone, Accepting, Sending,
           AllocBuffer, Goto
<1> QED BY <1>1, <1>2, <1>3, <1>4, <1>5, <1>6, <1>7, <1>8, <1>9 DEF IInv

LEMMA CreateRequestQueueStep ==
  ASSUME IInv, NEW done \in BOOLEAN, CreateRequestQueue(done)
  PROVE  IInv'
<1>1. TypeOK'
    BY DEF IInv, TypeOK, Labels, CreateRequestQueue, Goto
<1>2. Control'
    BY DEF IInv, Control, CreateRequestQueue, Goto
<1>3. Fresh'
    BY DEF IInv, TypeOK, Fresh, AcceptorAlone, CoresApart, Accepting, CreateRequestQueue,
           Goto
<1>4. CoresApart'
    BY DEF IInv, CoresApart, CreateRequestQueue, Goto
<1>5. AcceptorAlone'
    BY DEF IInv, AcceptorAlone, CreateRequestQueue, Goto
<1>6. Accepting'
    BY DEF IInv, TypeOK, Accepting, CreateRequestQueue, Goto
<1>7. Connected'
    BY DEF IInv, Connected, CreateRequestQueue, Goto
<1>8. Owned'
    BY DEF IInv, Owned, Receives, CreateRequestQueue, Goto
<1>9. Sending'
    BY DEF IInv, TypeOK, Sending, CreateRequestQueue, Goto
<1> QED BY <1>1, <1>2, <1>3, <1>4, <1>5, <1>6, <1>7, <1>8, <1>9 DEF IInv

LEMMA RegisterRecvStep ==
  ASSUME IInv, NEW t \in Threads, RegisterRecv(t)
  PROVE  IInv'
<1>1. TypeOK'
    BY DEF IInv, TypeOK, Labels, RegisterRecv, Goto, Home
<1>2. Control'
    BY DEF IInv, Control, RegisterRecv, Goto, Home
<1>3. Fresh'
    BY DEF IInv, Fresh, RegisterRecv, Goto, Home
<1>4. CoresApart'
    BY DEF IInv, CoresApart, RegisterRecv, Goto, Home
<1>5. AcceptorAlone'
    BY DEF IInv, AcceptorAlone, RegisterRecv, Goto, Home
<1>6. Accepting'
    BY DEF IInv, Accepting, RegisterRecv, Goto, Home
<1>7. Connected'
    BY DEF IInv, Connected, RegisterRecv, Goto, Home
<1>8. Owned'
    BY DEF IInv, TypeOK, Owned, Receives, RegisterRecv, Goto, Home
<1>9. Sending'
    BY DEF IInv, Sending, RegisterRecv, Goto, Home
<1> QED BY <1>1, <1>2, <1>3, <1>4, <1>5, <1>6, <1>7, <1>8, <1>9 DEF IInv

LEMMA RIOReceiveStep ==
  ASSUME IInv, NEW t \in Threads, RIOReceive(t)
  PROVE  IInv'
<1>1. TypeOK'
    BY DEF IInv, TypeOK, Labels, RIOReceive, Goto, Home
<1>2. Control'
    BY DEF IInv, Control, RIOReceive, Goto, Home
<1>3. Fresh'
    BY DEF IInv, Fresh, RIOReceive, Goto, Home
<1>4. CoresApart'
    BY DEF IInv, CoresApart, RIOReceive, Goto, Home
<1>5. AcceptorAlone'
    BY DEF IInv, TypeOK, AcceptorAlone, RIOReceive, Goto, Home
<1>6. Accepting'
    BY DEF IInv, Accepting, RIOReceive, Goto, Home
<1>7. Connected'
    BY DEF IInv, Connected, RIOReceive, Goto, Home
<1>8. Owned'
    BY DEF IInv, TypeOK, Control, Fresh, CoresApart, AcceptorAlone, Owned, Receives,
           RIOReceive, Goto, Home
<1>9. Sending'
    BY DEF IInv, Sending, RIOReceive, Goto, Home
<1> QED BY <1>1, <1>2, <1>3, <1>4, <1>5, <1>6, <1>7, <1>8, <1>9 DEF IInv

LEMMA RIOReceiveFailsStep ==
  ASSUME IInv, NEW t \in Threads, RIOReceiveFails(t)
  PROVE  IInv'
<1>1. TypeOK'
    BY DEF IInv, TypeOK, Labels, RIOReceiveFails, CallDisconnect, Goto, Home
<1>2. Control'
    BY DEF IInv, TypeOK, Control, RIOReceiveFails, CallDisconnect, Goto, Home
<1>3. Fresh'
    BY DEF IInv, Fresh, RIOReceiveFails, CallDisconnect, Goto, Home
<1>4. CoresApart'
    BY DEF IInv, CoresApart, RIOReceiveFails, CallDisconnect, Goto, Home
<1>5. AcceptorAlone'
    BY DEF IInv, AcceptorAlone, RIOReceiveFails, CallDisconnect, Goto, Home
<1>6. Accepting'
    BY DEF IInv, Accepting, RIOReceiveFails, CallDisconnect, Goto, Home
<1>7. Connected'
    BY DEF IInv, Connected, RIOReceiveFails, CallDisconnect, Goto, Home
<1>8. Owned'
  <2>1. \A u \in Threads \ {t} : pc[u] \in AcceptorLabels \cup CoreLabels => cur[u] # cur[t]
      BY Apart DEF RIOReceiveFails
  <2>2. recv[cur[t]] = "none"
      BY DEF IInv, AcceptorAlone, Owned, Receives, RIOReceiveFails
  <2> QED BY <2>1, <2>2 DEF IInv, TypeOK, Control, Owned, Receives, RIOReceiveFails,
                            CallDisconnect, Goto, Home
<1>9. Sending'
    BY DEF IInv, Sending, RIOReceiveFails, CallDisconnect, Goto, Home
<1> QED BY <1>1, <1>2, <1>3, <1>4, <1>5, <1>6, <1>7, <1>8, <1>9 DEF IInv

LEMMA DisconnectStep ==
  ASSUME IInv, NEW t \in Threads, Disconnect(t)
  PROVE  IInv'
<1>1. TypeOK'
  <2>1. CASE m_bConnected[cur[t]] /\ Closes(t)
    <3>1. cur[t] \in Sessions /\ pc' = [pc EXCEPT ![t] = "release"]
        BY <2>1 DEF IInv, TypeOK, Closes, Goto
    <3> QED BY <2>1, <3>1 DEF IInv, TypeOK, Labels, Disconnect, Closes
  <2>2. CASE ~m_bConnected[cur[t]] /\ Return(t) /\ socket' = socket /\ m_rioCore' = m_rioCore
               /\ m_bConnected' = m_bConnected /\ told' = told
      BY <2>2 DEF IInv, TypeOK, Control, Labels, Disconnect, Return, Goto
  <2> QED BY <2>1, <2>2, DisconnectCases
<1>2. Control'
    BY DEF IInv, TypeOK, Control, Disconnect, Closes, Goto, Return
<1>3. Fresh'
    BY DEF IInv, TypeOK, Fresh, Disconnect, Closes, Goto, Return
<1>4. CoresApart'
    BY DEF IInv, TypeOK, CoresApart, Disconnect, Closes, Goto, Return
<1>5. AcceptorAlone'
    BY DEF IInv, TypeOK, AcceptorAlone, Disconnect, Closes, Goto, Return
<1>6. Accepting'
    BY DEF IInv, TypeOK, Control, Accepting, Disconnect, Closes, Goto, Return
<1>7. Connected'
  <2>1. CASE m_bConnected[cur[t]] /\ Closes(t)
    <3>1. \A u \in Threads \ {t} : pc[u] = "release" => cur[u] # cur[t]
        BY Apart DEF Disconnect
    <3>2. pc' = [pc EXCEPT ![t] = "release"] /\ told' = told \cup {cur[t]}
          /\ m_bConnected' = [m_bConnected EXCEPT ![cur[t]] = FALSE]
          /\ socket' = [socket EXCEPT ![cur[t]] = "closed"] /\ m_rioCore' = m_rioCore
        BY <2>1 DEF Closes, Goto
    <3> QED BY <2>1, <3>1, <3>2 DEF IInv, TypeOK, Connected, Disconnect
  <2>2. CASE ~m_bConnected[cur[t]] /\ Return(t) /\ socket' = socket /\ m_rioCore' = m_rioCore
               /\ m_bConnected' = m_bConnected /\ told' = told
      BY <2>2 DEF IInv, TypeOK, Control, Connected, Disconnect, Return, Goto
  <2> QED BY <2>1, <2>2, DisconnectCases
<1>8. Owned'
    BY DEF IInv, TypeOK, Control, Fresh, CoresApart, AcceptorAlone, Owned, Receives,
           Disconnect, Closes, Goto, Return
<1>9. Sending'
  <2>1. CASE m_bConnected[cur[t]] /\ Closes(t)
    <3>1. \A c \in Cores : pc[c] = "send" /\ cur[c] = cur[t] => m_sendBufQueue[cur[t]] = 0
        BY SenderApart DEF Disconnect
    <3>2. pc' = [pc EXCEPT ![t] = "release"]
          /\ m_bConnected' = [m_bConnected EXCEPT ![cur[t]] = FALSE]
        BY <2>1 DEF Closes, Goto
    <3> QED BY <2>1, <3>1, <3>2 DEF IInv, TypeOK, Sending, Disconnect
  <2>2. CASE ~m_bConnected[cur[t]] /\ Return(t) /\ socket' = socket /\ m_rioCore' = m_rioCore
               /\ m_bConnected' = m_bConnected /\ told' = told
      BY <2>2 DEF IInv, TypeOK, Control, Sending, Disconnect, Return, Goto
  <2> QED BY <2>1, <2>2, DisconnectCases
<1> QED BY <1>1, <1>2, <1>3, <1>4, <1>5, <1>6, <1>7, <1>8, <1>9 DEF IInv

LEMMA SetLingerFailsStep ==
  ASSUME IInv, NEW t \in Threads, SetLingerFails(t)
  PROVE  IInv'
<1>1. TypeOK'
    BY DEF IInv, TypeOK, Control, Labels, SetLingerFails, Goto, Return
<1>2. Control'
    BY DEF IInv, TypeOK, Control, SetLingerFails, Goto, Return
<1>3. Fresh'
    BY DEF IInv, Fresh, SetLingerFails, Goto, Return
<1>4. CoresApart'
    BY DEF IInv, CoresApart, SetLingerFails, Goto, Return
<1>5. AcceptorAlone'
    BY DEF IInv, AcceptorAlone, SetLingerFails, Goto, Return
<1>6. Accepting'
    BY DEF IInv, TypeOK, Accepting, SetLingerFails, Goto, Return
<1>7. Connected'
    BY Apart DEF IInv, TypeOK, Control, Connected, SetLingerFails, Return, Goto
<1>8. Owned'
  <2>1. \A u \in Threads \ {t} : pc[u] \in AcceptorLabels \cup CoreLabels => cur[u] # cur[t]
      BY Apart DEF SetLingerFails
  <2>2. /\ \A u \in Threads \ {t} : pc'[u] = pc[u] /\ ret'[u] = ret[u]
        /\ pc'[t] = ret[t] /\ ret'[t] = "none" /\ cur' = cur /\ recv' = recv
        /\ recvOwner' = recvOwner
        /\ \A s \in Sessions \ {cur[t]} : m_bConnected'[s] = m_bConnected[s]
      BY DEF IInv, TypeOK, SetLingerFails, Return, Goto
  <2>3. pc'[t] \notin {"receive", "onrecv", "disconnect", "release"}
      BY <2>2 DEF IInv, Control, SetLingerFails
  <2>4. \A u \in Threads : pc'[u] = "receive" => recvOwner[cur[u]] /\ m_bConnected'[cur[u]]
      BY <2>1, <2>2, <2>3 DEF IInv, TypeOK, Owned
  <2>5. \A c \in Cores : Receives(c)' => recv[cur[c]] = "none"
      BY <2>2, <2>3 DEF IInv, Owned, Receives, SetLingerFails
  <2> QED BY <2>2, <2>4, <2>5 DEF IInv, Owned
<1>9. Sending'
  <2>1. \A c \in Cores : pc[c] = "send" /\ cur[c] = cur[t] => m_sendBufQueue[cur[t]] = 0
      BY SenderApart DEF SetLingerFails
  <2> QED BY <2>1 DEF IInv, TypeOK, Control, Sending, SetLingerFails, Return, Goto
<1> QED BY <1>1, <1>2, <1>3, <1>4, <1>5, <1>6, <1>7, <1>8, <1>9 DEF IInv

LEMMA ReleaseSessionStep ==
  ASSUME IInv, NEW t \in Threads, ReleaseSession(t)
  PROVE  IInv'
<1>1. TypeOK'
    BY DEF IInv, TypeOK, Control, Labels, ReleaseSession, Goto, Return
<1>2. Control'
    BY DEF IInv, TypeOK, Control, ReleaseSession, Goto, Return
<1>3. Fresh'
    BY DEF IInv, Fresh, ReleaseSession, Goto, Return
<1>4. CoresApart'
    BY DEF IInv, CoresApart, ReleaseSession, Goto, Return
<1>5. AcceptorAlone'
    BY DEF IInv, AcceptorAlone, ReleaseSession, Goto, Return
<1>6. Accepting'
    BY DEF IInv, TypeOK, Control, Fresh, CoresApart, AcceptorAlone, Accepting, Connected,
           ReleaseSession, Goto, Return
<1>7. Connected'
  <2> DEFINE s == cur[t]
  <2>1. \A u \in Threads \ {t} : pc[u] = "release" => cur[u] # s
      BY Apart DEF ReleaseSession
  <2>2. ~m_bConnected[s] /\ s \in told
      BY DEF IInv, Connected, ReleaseSession
  <2>3. \A r \in Sessions \ {s} : r \in m_sessions[m_rioCore[r]]
                                 => r \in m_sessions'[m_rioCore[r]]
      BY DEF IInv, TypeOK, ReleaseSession
  <2>4. pc'[t] # "release" /\ \A u \in Threads \ {t} : pc'[u] = pc[u]
      BY DEF IInv, TypeOK, Control, ReleaseSession, Return, Goto
  <2> QED BY <2>1, <2>2, <2>3, <2>4 DEF IInv, TypeOK, Connected, ReleaseSession
<1>8. Owned'
    BY DEF IInv, TypeOK, Owned, Receives, ReleaseSession, Goto, Return
<1>9. Sending'
    BY DEF IInv, TypeOK, Sending, ReleaseSession, Goto, Return
<1> QED BY <1>1, <1>2, <1>3, <1>4, <1>5, <1>6, <1>7, <1>8, <1>9 DEF IInv

LEMMA ReleaseHangsStep ==
  ASSUME IInv, NEW t \in Threads, ReleaseHangs(t)
  PROVE  IInv'
<1>1. TypeOK'
    BY DEF IInv, TypeOK, Labels, ReleaseHangs, Goto, LockHeldAlready
<1>2. Control'
    BY DEF IInv, Control, ReleaseHangs, Goto, LockHeldAlready
<1>3. Fresh'
    BY DEF IInv, Fresh, ReleaseHangs, Goto, LockHeldAlready
<1>4. CoresApart'
    BY DEF IInv, CoresApart, ReleaseHangs, Goto, LockHeldAlready
<1>5. AcceptorAlone'
    BY DEF IInv, AcceptorAlone, ReleaseHangs, Goto, LockHeldAlready
<1>6. Accepting'
    BY DEF IInv, Accepting, ReleaseHangs, Goto, LockHeldAlready
<1>7. Connected'
    BY DEF IInv, Connected, ReleaseHangs, Goto, LockHeldAlready
<1>8. Owned'
    BY DEF IInv, Owned, Receives, ReleaseHangs, Goto, LockHeldAlready
<1>9. Sending'
    BY DEF IInv, Sending, ReleaseHangs, Goto, LockHeldAlready
<1> QED BY <1>1, <1>2, <1>3, <1>4, <1>5, <1>6, <1>7, <1>8, <1>9 DEF IInv

LEMMA ReleaseThrowsStep ==
  ASSUME IInv, NEW t \in Threads, ReleaseThrows(t)
  PROVE  IInv'
<1>1. TypeOK'
    BY DEF IInv, TypeOK, Labels, ReleaseThrows, LockHeldAlready
<1>2. Control'
    BY DEF IInv, Control, ReleaseThrows, LockHeldAlready
<1>3. Fresh'
    BY DEF IInv, Fresh, ReleaseThrows, LockHeldAlready
<1>4. CoresApart'
    BY DEF IInv, CoresApart, ReleaseThrows, LockHeldAlready
<1>5. AcceptorAlone'
    BY DEF IInv, AcceptorAlone, ReleaseThrows, LockHeldAlready
<1>6. Accepting'
    BY DEF IInv, Accepting, ReleaseThrows, LockHeldAlready
<1>7. Connected'
    BY DEF IInv, Connected, ReleaseThrows, LockHeldAlready
<1>8. Owned'
    BY DEF IInv, Owned, Receives, ReleaseThrows, LockHeldAlready
<1>9. Sending'
    BY DEF IInv, Sending, ReleaseThrows, LockHeldAlready
<1> QED BY <1>1, <1>2, <1>3, <1>4, <1>5, <1>6, <1>7, <1>8, <1>9 DEF IInv

LEMMA DeferredSendStep ==
  ASSUME IInv, NEW c \in Cores, DeferredSend(c)
  PROVE  IInv'
<1>1. TypeOK'
    BY DEF IInv, TypeOK, Labels, DeferredSend, Goto
<1>2. Control'
    BY DEF IInv, Control, DeferredSend, Goto
<1>3. Fresh'
    BY DEF IInv, Fresh, DeferredSend, Goto
<1>4. CoresApart'
    BY DEF IInv, CoresApart, DeferredSend, Goto
<1>5. AcceptorAlone'
    BY DEF IInv, AcceptorAlone, DeferredSend, Goto
<1>6. Accepting'
    BY DEF IInv, Accepting, DeferredSend, Goto
<1>7. Connected'
    BY DEF IInv, Connected, DeferredSend, Goto
<1>8. Owned'
    BY DEF IInv, Owned, Receives, DeferredSend, Goto
<1>9. Sending'
    BY DEF IInv, Sending, DeferredSend, Goto
<1> QED BY <1>1, <1>2, <1>3, <1>4, <1>5, <1>6, <1>7, <1>8, <1>9 DEF IInv

LEMMA SendDeferredStep ==
  ASSUME IInv, NEW c \in Cores, NEW s \in Sessions, SendDeferred(c, s)
  PROVE  IInv'
<1>1. TypeOK'
  <2>1. CASE Goto(c, "send") /\ cur' = [cur EXCEPT ![c] = s]
      BY <2>1 DEF IInv, TypeOK, Labels, SendDeferred, Goto
  <2>2. CASE pc' = pc /\ cur' = cur
      BY <2>2 DEF IInv, TypeOK, SendDeferred
  <2> QED BY <2>1, <2>2, SendDeferredCases
<1>2. Control'
    BY DEF IInv, TypeOK, Control, SendDeferred, Goto
<1>3. Fresh'
    BY DEF IInv, Fresh, SendDeferred, Goto
<1>4. CoresApart'
    BY DEF IInv, TypeOK, CoresApart, SendDeferred, Goto
<1>5. AcceptorAlone'
    BY DEF IInv, TypeOK, AcceptorAlone, SendDeferred, Goto
<1>6. Accepting'
    BY DEF IInv, TypeOK, Accepting, SendDeferred, Goto
<1>7. Connected'
    BY DEF IInv, TypeOK, Connected, SendDeferred, Goto
<1>8. Owned'
  <2>1. pc[c] = "deferred" /\ recv' = recv /\ recvOwner' = recvOwner
        /\ m_bConnected' = m_bConnected /\ ret' = ret
      BY DEF SendDeferred
  <2>2. CASE Goto(c, "send") /\ cur' = [cur EXCEPT ![c] = s]
      BY <2>1, <2>2 DEF IInv, TypeOK, Owned, Receives, Goto
  <2>3. CASE pc' = pc /\ cur' = cur
      BY <2>1, <2>3 DEF IInv, Owned, Receives
  <2> QED BY <2>2, <2>3, SendDeferredCases
<1>9. Sending'
    BY DEF IInv, TypeOK, Sending, SendDeferred, Goto
<1> QED BY <1>1, <1>2, <1>3, <1>4, <1>5, <1>6, <1>7, <1>8, <1>9 DEF IInv

LEMMA RegisterSendsStep ==
  ASSUME IInv, NEW c \in Cores, RegisterSends(c)
  PROVE  IInv'
<1>1. TypeOK'
    BY DEF IInv, TypeOK, Labels, RegisterSends, Goto, Post
<1>2. Control'
    BY DEF IInv, Control, RegisterSends, Goto, Post
<1>3. Fresh'
    BY DEF IInv, Fresh, RegisterSends, Goto, Post
<1>4. CoresApart'
    BY DEF IInv, CoresApart, RegisterSends, Goto, Post
<1>5. AcceptorAlone'
    BY DEF IInv, AcceptorAlone, RegisterSends, Goto, Post
<1>6. Accepting'
    BY DEF IInv, Accepting, RegisterSends, Goto, Post
<1>7. Connected'
    BY DEF IInv, Connected, RegisterSends, Goto, Post
<1>8. Owned'
    BY DEF IInv, Owned, Receives, RegisterSends, Goto, Post
<1>9. Sending'
    BY DEF IInv, Sending, RegisterSends, Goto, Post
<1> QED BY <1>1, <1>2, <1>3, <1>4, <1>5, <1>6, <1>7, <1>8, <1>9 DEF IInv

LEMMA RegisterSendFailsStep ==
  ASSUME IInv, NEW c \in Cores, RegisterSendFails(c)
  PROVE  IInv'
<1>1. TypeOK'
    BY DEF IInv, TypeOK, Labels, RegisterSendFails, CallDisconnect, Goto, Post
<1>2. Control'
    BY DEF IInv, TypeOK, Control, RegisterSendFails, CallDisconnect, Goto, Post
<1>3. Fresh'
    BY DEF IInv, Fresh, RegisterSendFails, CallDisconnect, Goto, Post
<1>4. CoresApart'
    BY DEF IInv, CoresApart, RegisterSendFails, CallDisconnect, Goto, Post
<1>5. AcceptorAlone'
    BY DEF IInv, AcceptorAlone, RegisterSendFails, CallDisconnect, Goto, Post
<1>6. Accepting'
    BY DEF IInv, Accepting, RegisterSendFails, CallDisconnect, Goto, Post
<1>7. Connected'
    BY DEF IInv, Connected, RegisterSendFails, CallDisconnect, Goto, Post
<1>8. Owned'
    BY DEF IInv, TypeOK, Owned, Receives, RegisterSendFails, CallDisconnect, Goto, Post
<1>9. Sending'
    BY DEF IInv, Sending, RegisterSendFails, CallDisconnect, Goto, Post
<1> QED BY <1>1, <1>2, <1>3, <1>4, <1>5, <1>6, <1>7, <1>8, <1>9 DEF IInv

LEMMA DeferredSendReturnsStep ==
  ASSUME IInv, NEW c \in Cores, DeferredSendReturns(c)
  PROVE  IInv'
<1>1. TypeOK'
    BY DEF IInv, TypeOK, Labels, DeferredSendReturns, Goto
<1>2. Control'
    BY DEF IInv, Control, DeferredSendReturns, Goto
<1>3. Fresh'
    BY DEF IInv, Fresh, DeferredSendReturns, Goto
<1>4. CoresApart'
    BY DEF IInv, CoresApart, DeferredSendReturns, Goto
<1>5. AcceptorAlone'
    BY DEF IInv, AcceptorAlone, DeferredSendReturns, Goto
<1>6. Accepting'
    BY DEF IInv, Accepting, DeferredSendReturns, Goto
<1>7. Connected'
    BY DEF IInv, Connected, DeferredSendReturns, Goto
<1>8. Owned'
    BY DEF IInv, Owned, Receives, DeferredSendReturns, Goto
<1>9. Sending'
    BY DEF IInv, Sending, DeferredSendReturns, Goto
<1> QED BY <1>1, <1>2, <1>3, <1>4, <1>5, <1>6, <1>7, <1>8, <1>9 DEF IInv

LEMMA ProcessRecvStep ==
  ASSUME IInv, NEW c \in Cores, NEW s \in Sessions, ProcessRecv(c, s)
  PROVE  IInv'
<1>1. TypeOK'
  <2>1. CASE ~recvOwner[s]
      BY <2>1 DEF IInv, TypeOK, ProcessRecv
  <2>2. CASE recvOwner[s] /\ recv[s] = "posted"
      BY <2>2 DEF IInv, TypeOK, Labels, ProcessRecv, CallDisconnect, Goto
  <2>3. CASE recvOwner[s] /\ recv[s] # "posted"
      BY <2>3 DEF IInv, TypeOK, Labels, ProcessRecv, Goto
  <2> QED BY <2>1, <2>2, <2>3
<1>2. Control'
    BY DEF IInv, TypeOK, Control, ProcessRecv, CallDisconnect, Goto
<1>3. Fresh'
    BY DEF IInv, Fresh, ProcessRecv, CallDisconnect, Goto
<1>4. CoresApart'
    BY DEF IInv, TypeOK, Control, CoresApart, Fresh, Accepting, ProcessRecv, CallDisconnect,
           Goto
<1>5. AcceptorAlone'
    BY DEF IInv, TypeOK, AcceptorAlone, ProcessRecv, CallDisconnect, Goto
<1>6. Accepting'
    BY DEF IInv, TypeOK, Accepting, ProcessRecv, CallDisconnect, Goto
<1>7. Connected'
    BY DEF IInv, TypeOK, Connected, ProcessRecv, CallDisconnect, Goto
<1>8. Owned'
    BY DEF IInv, TypeOK, Control, Fresh, CoresApart, AcceptorAlone, Owned, Receives,
           ProcessRecv, CallDisconnect, Goto
<1>9. Sending'
    BY DEF IInv, TypeOK, Sending, ProcessRecv, CallDisconnect, Goto
<1> QED BY <1>1, <1>2, <1>3, <1>4, <1>5, <1>6, <1>7, <1>8, <1>9 DEF IInv

LEMMA OnRecvStep ==
  ASSUME IInv, NEW c \in Cores, OnRecv(c)
  PROVE  IInv'
<1>1. TypeOK'
    BY DEF IInv, TypeOK, Labels, OnRecv, Goto
<1>2. Control'
    BY DEF IInv, Control, OnRecv, Goto
<1>3. Fresh'
    BY DEF IInv, TypeOK, Fresh, AcceptorAlone, CoresApart, Accepting, OnRecv, Goto
<1>4. CoresApart'
    BY DEF IInv, CoresApart, OnRecv, Goto
<1>5. AcceptorAlone'
    BY DEF IInv, AcceptorAlone, OnRecv, Goto
<1>6. Accepting'
    BY DEF IInv, Accepting, OnRecv, Goto
<1>7. Connected'
    BY DEF IInv, Connected, OnRecv, Goto
<1>8. Owned'
    BY DEF IInv, Owned, Receives, OnRecv, Goto
<1>9. Sending'
    BY DEF IInv, Sending, OnRecv, Goto
<1> QED BY <1>1, <1>2, <1>3, <1>4, <1>5, <1>6, <1>7, <1>8, <1>9 DEF IInv

LEMMA HandleLogoutStep ==
  ASSUME IInv, NEW c \in Cores, HandleLogout(c)
  PROVE  IInv'
<1>1. TypeOK'
    BY DEF IInv, TypeOK, Labels, HandleLogout, CallDisconnect, Goto
<1>2. Control'
    BY DEF IInv, TypeOK, Control, HandleLogout, CallDisconnect, Goto
<1>3. Fresh'
    BY DEF IInv, Fresh, HandleLogout, CallDisconnect, Goto
<1>4. CoresApart'
    BY DEF IInv, CoresApart, HandleLogout, CallDisconnect, Goto
<1>5. AcceptorAlone'
    BY DEF IInv, AcceptorAlone, HandleLogout, CallDisconnect, Goto
<1>6. Accepting'
    BY DEF IInv, Accepting, HandleLogout, CallDisconnect, Goto
<1>7. Connected'
    BY DEF IInv, Connected, HandleLogout, CallDisconnect, Goto
<1>8. Owned'
    BY DEF IInv, Owned, Receives, HandleLogout, CallDisconnect, Goto
<1>9. Sending'
    BY DEF IInv, Sending, HandleLogout, CallDisconnect, Goto
<1> QED BY <1>1, <1>2, <1>3, <1>4, <1>5, <1>6, <1>7, <1>8, <1>9 DEF IInv

LEMMA SendStep ==
  ASSUME IInv, NEW s \in Sessions, Send(s)
  PROVE  IInv'
<1>1. TypeOK'
    BY DEF IInv, TypeOK, Labels, Send
<1>2. Control'
    BY DEF IInv, Control, Send
<1>3. Fresh'
    BY DEF IInv, Fresh, Send
<1>4. CoresApart'
    BY DEF IInv, CoresApart, Send
<1>5. AcceptorAlone'
    BY DEF IInv, AcceptorAlone, Send
<1>6. Accepting'
    BY DEF IInv, Accepting, Send
<1>7. Connected'
    BY DEF IInv, Connected, Send
<1>8. Owned'
    BY DEF IInv, Owned, Receives, Send
<1>9. Sending'
    BY DEF IInv, Sending, Send
<1> QED BY <1>1, <1>2, <1>3, <1>4, <1>5, <1>6, <1>7, <1>8, <1>9 DEF IInv

LEMMA ProcessSendStep ==
  ASSUME IInv, NEW c \in Cores, NEW s \in Sessions, ProcessSend(c, s)
  PROVE  IInv'
<1>1. TypeOK'
    BY DEF IInv, TypeOK, Labels, ProcessSend
<1>2. Control'
    BY DEF IInv, Control, ProcessSend
<1>3. Fresh'
    BY DEF IInv, Fresh, ProcessSend
<1>4. CoresApart'
    BY DEF IInv, CoresApart, ProcessSend
<1>5. AcceptorAlone'
    BY DEF IInv, AcceptorAlone, ProcessSend
<1>6. Accepting'
    BY DEF IInv, Accepting, ProcessSend
<1>7. Connected'
    BY DEF IInv, Connected, ProcessSend
<1>8. Owned'
    BY DEF IInv, Owned, Receives, ProcessSend
<1>9. Sending'
    BY DEF IInv, Sending, ProcessSend
<1> QED BY <1>1, <1>2, <1>3, <1>4, <1>5, <1>6, <1>7, <1>8, <1>9 DEF IInv

LEMMA ProcessSendOfNothingStep ==
  ASSUME IInv, NEW c \in Cores, NEW s \in Sessions, ProcessSendOfNothing(c, s)
  PROVE  IInv'
<1>1. TypeOK'
    BY DEF IInv, TypeOK, Labels, ProcessSendOfNothing, CallDisconnect, Goto
<1>2. Control'
    BY DEF IInv, TypeOK, Control, ProcessSendOfNothing, CallDisconnect, Goto
<1>3. Fresh'
    BY DEF IInv, Fresh, ProcessSendOfNothing, CallDisconnect, Goto
<1>4. CoresApart'
    BY DEF IInv, TypeOK, Control, CoresApart, Fresh, Accepting, ProcessSendOfNothing,
           CallDisconnect, Goto
<1>5. AcceptorAlone'
    BY DEF IInv, TypeOK, AcceptorAlone, ProcessSendOfNothing, CallDisconnect, Goto
<1>6. Accepting'
    BY DEF IInv, Accepting, ProcessSendOfNothing, CallDisconnect, Goto
<1>7. Connected'
    BY DEF IInv, Connected, ProcessSendOfNothing, CallDisconnect, Goto
<1>8. Owned'
    BY DEF IInv, TypeOK, Owned, Receives, ProcessSendOfNothing, CallDisconnect, Goto
<1>9. Sending'
    BY DEF IInv, Sending, ProcessSendOfNothing, CallDisconnect, Goto
<1> QED BY <1>1, <1>2, <1>3, <1>4, <1>5, <1>6, <1>7, <1>8, <1>9 DEF IInv

LEMMA DispatchReturnsStep ==
  ASSUME IInv, NEW c \in Cores, DispatchReturns(c)
  PROVE  IInv'
<1>1. TypeOK'
    BY DEF IInv, TypeOK, Labels, DispatchReturns, Goto
<1>2. Control'
    BY DEF IInv, Control, DispatchReturns, Goto
<1>3. Fresh'
    BY DEF IInv, Fresh, DispatchReturns, Goto
<1>4. CoresApart'
    BY DEF IInv, CoresApart, DispatchReturns, Goto
<1>5. AcceptorAlone'
    BY DEF IInv, AcceptorAlone, DispatchReturns, Goto
<1>6. Accepting'
    BY DEF IInv, Accepting, DispatchReturns, Goto
<1>7. Connected'
    BY DEF IInv, Connected, DispatchReturns, Goto
<1>8. Owned'
    BY DEF IInv, Owned, Receives, DispatchReturns, Goto
<1>9. Sending'
    BY DEF IInv, Sending, DispatchReturns, Goto
<1> QED BY <1>1, <1>2, <1>3, <1>4, <1>5, <1>6, <1>7, <1>8, <1>9 DEF IInv

LEMMA PeerClosesStep ==
  ASSUME IInv, NEW s \in Sessions, PeerCloses(s)
  PROVE  IInv'
<1>1. TypeOK'
    BY DEF IInv, TypeOK, Labels, PeerCloses
<1>2. Control'
    BY DEF IInv, Control, PeerCloses
<1>3. Fresh'
    BY DEF IInv, Fresh, PeerCloses
<1>4. CoresApart'
    BY DEF IInv, CoresApart, PeerCloses
<1>5. AcceptorAlone'
    BY DEF IInv, AcceptorAlone, PeerCloses
<1>6. Accepting'
    BY DEF IInv, Accepting, PeerCloses
<1>7. Connected'
    BY DEF IInv, Connected, PeerCloses
<1>8. Owned'
    BY DEF IInv, Owned, Receives, PeerCloses
<1>9. Sending'
    BY DEF IInv, Sending, PeerCloses
<1> QED BY <1>1, <1>2, <1>3, <1>4, <1>5, <1>6, <1>7, <1>8, <1>9 DEF IInv

LEMMA DataArrivesStep ==
  ASSUME IInv, NEW s \in Sessions, DataArrives(s)
  PROVE  IInv'
<1>1. TypeOK'
    BY DEF IInv, TypeOK, Labels, DataArrives
<1>2. Control'
    BY DEF IInv, Control, DataArrives
<1>3. Fresh'
    BY DEF IInv, Fresh, DataArrives
<1>4. CoresApart'
    BY DEF IInv, CoresApart, DataArrives
<1>5. AcceptorAlone'
    BY DEF IInv, AcceptorAlone, DataArrives
<1>6. Accepting'
    BY DEF IInv, Accepting, DataArrives
<1>7. Connected'
    BY DEF IInv, Connected, DataArrives
<1>8. Owned'
    BY DEF IInv, Owned, Receives, DataArrives
<1>9. Sending'
    BY DEF IInv, Sending, DataArrives
<1> QED BY <1>1, <1>2, <1>3, <1>4, <1>5, <1>6, <1>7, <1>8, <1>9 DEF IInv
-----------------------------------------------------------------------------
LEMMA InitInv == Init => IInv
<1> SUFFICES ASSUME Init PROVE IInv
    OBVIOUS
<1>1. TypeOK
    BY ConstantsAssumption DEF Init, TypeOK, Labels
<1>2. Control /\ Fresh /\ CoresApart
    BY <1>1 DEF Init, Control, Fresh, CoresApart, TypeOK
<1>3. AcceptorAlone /\ Accepting
    BY <1>1 DEF Init, AcceptorAlone, Accepting, TypeOK
<1>4. Connected /\ Owned /\ Sending
    BY <1>1 DEF Init, Connected, Owned, Sending, Receives, TypeOK
<1> QED BY <1>1, <1>2, <1>3, <1>4 DEF IInv

LEMMA RunsStep ==
  ASSUME IInv, NEW t \in Threads, Runs(t)
  PROVE  IInv'
<1>1. CASE t = Acceptor /\ AcceptThread
    BY <1>1, AddSessionStep, ProcessConnectStep, AllocBufferStep, CreateRequestQueueStep
    DEF AcceptThread
<1>2. CASE t \in Cores /\ CoreThread(t)
  <2>1. CASE \E s \in Sessions : SendDeferred(t, s)
      BY <1>2, <2>1, SendDeferredStep
  <2> QED BY <1>2, <2>1, DeferredSendStep, RegisterSendsStep, RegisterSendFailsStep,
             DeferredSendReturnsStep, OnRecvStep, HandleLogoutStep, DispatchReturnsStep
          DEF CoreThread
<1> QED BY <1>1, <1>2, RegisterRecvStep, RIOReceiveStep, RIOReceiveFailsStep, DisconnectStep,
           SetLingerFailsStep, ReleaseSessionStep, ReleaseHangsStep, ReleaseThrowsStep
        DEF Runs

LEMMA NextInv == IInv /\ [Next]_vars => IInv'
<1> SUFFICES ASSUME IInv, [Next]_vars PROVE IInv'
    OBVIOUS
<1>1. CASE UNCHANGED vars
    BY <1>1 DEF IInv, TypeOK, Control, Fresh, CoresApart, AcceptorAlone, Accepting,
                Connected, Owned, Receives, Sending, vars
<1>2. CASE \E s \in Sessions : Accept(s)
    BY <1>2, AcceptStep
<1>3. CASE AcceptFails
    BY <1>3, AcceptFailsStep
<1>4. CASE \E t \in Threads : Runs(t)
    BY <1>4, RunsStep
<1>5. CASE \E c \in Cores, s \in Sessions : Results(c, s)
    BY <1>5, ProcessRecvStep, ProcessSendStep, ProcessSendOfNothingStep DEF Results
<1>6. CASE \E s \in Sessions : Send(s) \/ PeerCloses(s) \/ DataArrives(s)
    BY <1>6, SendStep, PeerClosesStep, DataArrivesStep
<1> QED BY <1>1, <1>2, <1>3, <1>4, <1>5, <1>6 DEF Next

\* The invariant the others follow from.
THEOREM Invariance == Spec => []IInv
    BY InitInv, NextInv, PTL DEF Spec

\* Every variable of RioServer, its cores and sessions keeps its type.
THEOREM TypeCorrect == Spec => []TypeOK
<1>1. IInv => TypeOK
    BY DEF IInv
<1> QED BY <1>1, Invariance, PTL

\* RioSession's one m_recvEvent has its owner while a receive is in flight, and
\* nobody else touches it or the receive buffer meanwhile.
THEOREM ReceiveIsOwnedAlways == Spec => []ReceiveIsOwned
<1>1. ASSUME IInv PROVE ReceiveIsOwned
  <2>1. \A t \in Threads : Receives(t) => pc[t] \in AcceptorLabels \cup CoreLabels
      BY DEF Receives
  <2>2. \A t, u \in Threads : Receives(t) /\ Receives(u) /\ cur[t] = cur[u] => t = u
      BY <1>1, <2>1, Apart
  <2>3. \A t \in Threads : Receives(t) => recv[cur[t]] = "none"
    <3>1. Receives(Acceptor) => recv[cur[Acceptor]] = "none"
        BY <1>1, <2>1 DEF IInv, Control, AcceptorAlone
    <3>2. \A c \in Cores : Receives(c) => recv[cur[c]] = "none"
        BY <1>1 DEF IInv, Owned
    <3> QED BY <3>1, <3>2
  <2>4. \A s \in Sessions : recv[s] # "none" => recvOwner[s]
      BY <1>1 DEF IInv, Owned
  <2> QED BY <2>2, <2>3, <2>4 DEF ReceiveIsOwned
<1> QED BY <1>1, Invariance, PTL

\* SendDeferred comes to RegisterSend only with a request queue, whatever part
\* of ProcessConnect the accept thread is in, and for a session of the core.
THEOREM SendsWhenReadyAlways == Spec => []SendsWhenReady
<1>1. IInv => SendsWhenReady
    BY DEF IInv, SendsWhenReady, Sending, CoresApart
<1> QED BY <1>1, Invariance, PTL
-----------------------------------------------------------------------------
\* A request for s is made in this step.
Requests(s) == (recv'[s] = "posted" /\ recv[s] # "posted") \/ posted'[s] > posted[s]

LEMMA ReceiveHasSocket ==
  ASSUME IInv, NEW t \in Threads, RIOReceive(t), NEW s \in Sessions, Requests(s)
  PROVE  socket[s] \in {"open", "reset"}
<1>1. s = cur[t] /\ pc[t] = "receive"
    BY DEF IInv, TypeOK, RIOReceive, Requests
<1> QED BY <1>1 DEF IInv, Owned, Connected

LEMMA SendHasSocket ==
  ASSUME IInv, NEW c \in Cores, RegisterSends(c) \/ RegisterSendFails(c),
         NEW s \in Sessions, Requests(s)
  PROVE  socket[s] \in {"open", "reset"}
<1>1. s = cur[c] /\ pc[c] = "send" /\ m_sendBufQueue[s] # 0
    BY DEF IInv, TypeOK, RegisterSends, RegisterSendFails, Post, Requests
<1> QED BY <1>1 DEF IInv, Sending, Connected

LEMMA RequestHasSocket ==
  ASSUME IInv, [Next]_vars, NEW s \in Sessions, Requests(s)
  PROVE  socket[s] \in {"open", "reset"}
<1>1. posted[s] \in Nat
    BY DEF IInv, TypeOK
<1>2. CASE \E c \in Cores : RegisterSends(c) \/ RegisterSendFails(c)
    BY <1>2, SendHasSocket
<1>3. CASE \E t \in Threads : RIOReceive(t)
    BY <1>3, ReceiveHasSocket
<1>4. CASE \E c \in Cores, r \in Sessions : Results(c, r)
    BY <1>4 DEF IInv, TypeOK, Requests, Results, ProcessRecv, ProcessSend, ProcessSendOfNothing
<1>5. CASE \E r \in Sessions : DataArrives(r)
    BY <1>1, <1>5 DEF IInv, TypeOK, Requests, DataArrives
<1>6. CASE recv' = recv /\ posted' = posted
    BY <1>1, <1>6 DEF Requests
<1>7. ASSUME NEW t \in Threads, Runs(t)
      PROVE  \/ (recv' = recv /\ posted' = posted) \/ RIOReceive(t)
             \/ t \in Cores /\ (RegisterSends(t) \/ RegisterSendFails(t))
  <2>1. CASE AcceptThread
      BY <2>1 DEF AcceptThread, AddSession, ProcessConnect, AllocBuffer, CreateRequestQueue
  <2>2. CASE t \in Cores /\ CoreThread(t)
      BY <2>2 DEF CoreThread, DeferredSend, SendDeferred, DeferredSendReturns, OnRecv,
                  HandleLogout, DispatchReturns
  <2> QED BY <1>7, <2>1, <2>2 DEF Runs, RegisterRecv, RIOReceiveFails, Disconnect,
             SetLingerFails, ReleaseSession, ReleaseHangs, ReleaseThrows
<1>8. CASE UNCHANGED vars
    BY <1>6, <1>8 DEF vars
<1>9. CASE \/ AcceptFails \/ \E r \in Sessions : Accept(r) \/ Send(r) \/ PeerCloses(r)
    BY <1>6, <1>9 DEF AcceptFails, Accept, Send, PeerCloses
<1> QED BY <1>2, <1>3, <1>4, <1>5, <1>6, <1>7, <1>8, <1>9 DEF Next

\* RegisterRecv and RegisterSend look at m_bConnected first and make the request
\* later: the socket is not closed in between.
THEOREM NoLateRequestEver == Spec => NoLateRequest
<1>1. IInv /\ [Next]_vars =>
        [\A s \in Sessions : Requests(s) => socket[s] \in {"open", "reset"}]_vars
    BY RequestHasSocket
<1>2. Spec => [][\A s \in Sessions : Requests(s) => socket[s] \in {"open", "reset"}]_vars
    BY <1>1, Invariance, PTL DEF Spec
<1> QED BY <1>2 DEF NoLateRequest, Requests
-----------------------------------------------------------------------------
lifeVars == <<m_sessions, told, m_sessionCnt>>

LEMMA EnlistStep == ASSUME IInv, AddSession PROVE Life!Next
<1> DEFINE a == m_currAllocCoreNum
           s == cur[Acceptor]
<1>1. a \in Cores /\ s \in Sessions /\ s \notin told /\ \A k \in Cores : s \notin m_sessions[k]
    BY DEF IInv, TypeOK, AddSession, Accepting
<1>2. Life!Enlist(a, s)
    BY <1>1 DEF AddSession, Life!Enlist
<1> QED BY <1>1, <1>2 DEF Life!Next

LEMMA TellStep ==
  ASSUME IInv, NEW t \in Threads, Disconnect(t)
  PROVE  Life!Next \/ UNCHANGED lifeVars
<1> DEFINE s == cur[t]
<1>1. m_sessions' = m_sessions /\ m_sessionCnt' = m_sessionCnt
    BY DEF Disconnect
<1>2. CASE m_bConnected[s] /\ Closes(t)
  <2>1. /\ m_rioCore[s] \in Cores /\ s \in Sessions
        /\ s \in m_sessions[m_rioCore[s]] /\ s \notin told
      BY <1>2 DEF IInv, TypeOK, Connected
  <2>2. Life!Tell(m_rioCore[s], s)
      BY <1>1, <1>2, <2>1 DEF Closes, Life!Tell
  <2> QED BY <2>1, <2>2 DEF Life!Next
<1>3. CASE told' = told
    BY <1>1, <1>3 DEF lifeVars
<1> QED BY <1>2, <1>3, DisconnectCases

LEMMA ReleaseStep ==
  ASSUME IInv, NEW t \in Threads, ReleaseSession(t)
  PROVE  Life!Next
<1> DEFINE s == cur[t]
<1>1. /\ m_rioCore[s] \in Cores /\ s \in Sessions
      /\ s \in m_sessions[m_rioCore[s]] /\ s \in told
    BY DEF IInv, TypeOK, Connected, ReleaseSession
<1>2. Life!Release(m_rioCore[s], s)
    BY <1>1 DEF ReleaseSession, Life!Release
<1> QED BY <1>1, <1>2 DEF Life!Next

LEMMA LifeStep == IInv /\ [Next]_vars => [Life!Next]_lifeVars
<1> SUFFICES ASSUME IInv, [Next]_vars PROVE Life!Next \/ UNCHANGED lifeVars
    OBVIOUS
<1>1. ASSUME NEW t \in Threads, Runs(t)
      PROVE  Life!Next \/ UNCHANGED lifeVars
  <2>1. CASE AcceptThread
      BY <2>1, EnlistStep DEF AcceptThread, ProcessConnect, AllocBuffer, CreateRequestQueue, lifeVars
  <2>2. CASE t \in Cores /\ CoreThread(t)
      BY <2>2 DEF CoreThread, DeferredSend, SendDeferred, DeferredSendReturns, OnRecv,
                  RegisterSends, RegisterSendFails, HandleLogout, DispatchReturns, lifeVars
  <2> QED BY <1>1, <2>1, <2>2, TellStep, ReleaseStep
          DEF Runs, RegisterRecv, RIOReceive, RIOReceiveFails, SetLingerFails,
              ReleaseHangs, ReleaseThrows, lifeVars
<1>2. CASE \E c \in Cores, s \in Sessions : Results(c, s)
    BY <1>2 DEF Results, ProcessRecv, ProcessSend, ProcessSendOfNothing, lifeVars
<1>3. CASE \/ AcceptFails
           \/ \E s \in Sessions : Accept(s) \/ Send(s) \/ PeerCloses(s) \/ DataArrives(s)
    BY <1>3 DEF AcceptFails, Accept, Send, PeerCloses, DataArrives, lifeVars
<1>4. CASE UNCHANGED vars
    BY <1>4 DEF vars, lifeVars
<1> QED BY <1>1, <1>2, <1>3, <1>4 DEF Next

\* A RioServer with its cores keeps its sessions as SessionLife says: each is
\* listed once, told of its end once and dropped after that.
THEOREM Refinement == Spec => LifeSpec
<1>1. Init => Life!Init
    BY DEF Init, Life!Init
<1>2. IInv /\ [Next]_vars => [Life!Next]_(Life!lifeVars)
    BY LifeStep DEF lifeVars, Life!lifeVars
<1> QED BY <1>1, <1>2, Invariance, PTL DEF Spec, LifeSpec, Life!Spec
=============================================================================
