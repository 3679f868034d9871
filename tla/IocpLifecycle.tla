--------------------------- MODULE IocpLifecycle ---------------------------
(***************************************************************************)
(* The life of the sessions of an IocpService.  A server keeps a number of *)
(* AcceptEx requests in flight (IocpListener), a client connects sessions  *)
(* (IocpClient); from then on any worker may handle any completion, so     *)
(* that several work on one session at a time.  A session ends through     *)
(* DisconnectEx, and its completion releases it.  A session lives for as   *)
(* long as the service lists it or the event of a request names it.        *)
(*                                                                         *)
(* A send is one step here, IocpSend has its parts.  What is received is   *)
(* RecvBuffer's matter; its read and write errors never happen.  Stop and  *)
(* DisconnectAllSession are left out: only destructors that never run call *)
(* them.                                                                   *)
(***************************************************************************)
EXTENDS Integers

CONSTANTS Workers,      \* threads that call IocpCore::Dispatch
          Starter,      \* the thread that starts the server or connects the client
          AcceptEvents, \* m_acceptEvents
          Sessions,     \* bound: sessions that m_sessionFactory makes
          NoEvent       \* not an accept event

ASSUME ConstantsAssumption ==
    Starter \notin Workers /\ NoEvent \notin AcceptEvents /\ Sessions # {}

Threads == Workers \cup {Starter}
Kinds == {"connect", "disconnect", "recv", "send"}

VARIABLES
    m_serviceType,
    unstarted,     \* accept events StartAccept has still to register
    accepting,     \* accept events whose AcceptEx is in flight
    m_session,     \* per accept event
    socket,        \* none, unconnected, failed (to connect), open, reset (the
                   \* peer is gone), closed
    m_bConnected,
    owned,         \* <<kind, session>>: events whose m_owner is set
    inFlight,      \* <<kind, session>>: requests not yet dequeued
    m_serverSessions, m_sessionCnt,
    told,          \* history: sessions whose OnDisconnected was called
    refused,       \* history: sessions whose WSARecv or DisconnectEx failed at once
    work           \* per thread: at which point of which call it is, the session
                   \* and the accept event of the call, where Disconnect returns to

acceptVars == <<m_serviceType, unstarted, accepting, m_session>>
linkVars == <<socket, m_bConnected>>
requestVars == <<owned, inFlight, refused>>
listVars == <<m_serverSessions, m_sessionCnt, told>>
vars == <<acceptVars, linkVars, requestVars, listVars, work>>

Task(label, s, e) == [at |-> label, session |-> s, event |-> e, ret |-> "idle"]
Idle == Task("idle", CHOOSE s \in Sessions : TRUE, NoEvent)

Init ==
    /\ m_serviceType \in {"SERVER", "CLIENT"}
    /\ unstarted = IF m_serviceType = "SERVER" THEN AcceptEvents ELSE {}
    /\ accepting = {} /\ socket = [s \in Sessions |-> "none"]
    /\ m_session = [e \in AcceptEvents |-> CHOOSE s \in Sessions : TRUE]
    /\ m_bConnected = [s \in Sessions |-> FALSE]
    /\ owned = {} /\ inFlight = {} /\ refused = {}
    /\ m_serverSessions = {} /\ m_sessionCnt = 0 /\ told = {}
    /\ work = [t \in Threads |-> Idle]

Begin(t, task) == work[t] = Idle /\ work' = [work EXCEPT ![t] = task]
Finish(t) == work' = [work EXCEPT ![t] = Idle]
Goto(t, label) == work' = [work EXCEPT ![t].at = label]
End == work' = [t \in Threads |-> [Idle EXCEPT !.at = "ended"]]

\* CreateSession: a session that was not made before.
Created(s, state) == socket[s] = "none" /\ socket' = [socket EXCEPT ![s] = state]

\* RegisterRecv returns: an accept event whose session is connected goes on.
GoHome(t) == IF work[t].event = NoEvent THEN Finish(t) ELSE Goto(t, "accept")
-----------------------------------------------------------------------------
StartAccept(e) ==
    /\ e \in unstarted
    /\ unstarted' = unstarted \ {e}
    /\ Begin(Starter, Task("accept", Idle.session, e))
    /\ UNCHANGED <<m_serviceType, accepting, m_session, linkVars, requestVars, listVars>>

\* Mutant: the retry is made after a success too.
RegisterAcceptAgain(t, s) ==
    /\ work[t].at = "accept" /\ Created(s, "unconnected")
    /\ m_session' = [m_session EXCEPT ![work[t].event] = s]
    /\ accepting' = accepting \cup {work[t].event}
    /\ UNCHANGED <<m_serviceType, unstarted, m_bConnected, requestVars, listVars, work>>

RegisterAccept(t, s) ==
    /\ work[t].at = "accept" /\ Created(s, "unconnected")
    /\ m_session' = [m_session EXCEPT ![work[t].event] = s]
    /\ accepting' = accepting \cup {work[t].event}
    /\ Finish(t)
    /\ UNCHANGED <<m_serviceType, unstarted, m_bConnected, requestVars, listVars>>

\* AcceptEx fails at once: RegisterAccept calls itself, and the session it made
\* is dropped for the next one.
RegisterAcceptFails(t, s) ==
    /\ work[t].at = "accept" /\ Created(s, "closed")
    /\ UNCHANGED <<acceptVars, m_bConnected, requestVars, listVars, work>>

\* The bound: no more connections once every session was made.
NoSessionLeft(t) ==
    /\ work[t].at = "accept" /\ \A s \in Sessions : socket[s] # "none"
    /\ Finish(t)
    /\ UNCHANGED <<acceptVars, linkVars, requestVars, listVars>>

\* CreateSession returns nullptr and its callers use it: the process ends.
CreateSessionFails(t) ==
    /\ \/ work[t].at = "accept"
       \/ t = Starter /\ m_serviceType = "CLIENT" /\ work[t] = Idle
    /\ End
    /\ UNCHANGED <<acceptVars, linkVars, requestVars, listVars>>

\* An AcceptEx has completed, with a connection or one that is gone already.
ProcessAccept(w, e) ==
    /\ e \in accepting /\ accepting' = accepting \ {e}
    /\ \E state \in {"open", "reset"} : socket' = [socket EXCEPT ![m_session[e]] = state]
    /\ Begin(w, Task("connect", m_session[e], e))
    /\ UNCHANGED <<m_serviceType, unstarted, m_session, m_bConnected, requestVars,
                   listVars>>

\* Mutant: a failure returns without accepting again.
ProcessAcceptReturns(w, e) ==
    /\ work[w] = Idle /\ e \in accepting /\ accepting' = accepting \ {e}
    /\ socket' = [socket EXCEPT ![m_session[e]] = "closed"]
    /\ UNCHANGED <<m_serviceType, unstarted, m_session, m_bConnected, requestVars,
                   listVars, work>>

\* SetUpdateAcceptSocket fails: the session is dropped.
ProcessAcceptFails(w, e) ==
    /\ e \in accepting /\ accepting' = accepting \ {e}
    /\ socket' = [socket EXCEPT ![m_session[e]] = "closed"]
    /\ Begin(w, Task("accept", m_session[e], e))
    /\ UNCHANGED <<m_serviceType, unstarted, m_session, m_bConnected, requestVars,
                   listVars>>
-----------------------------------------------------------------------------
ConnectNewSession(s) ==
    /\ m_serviceType = "CLIENT" /\ work[Starter] = Idle /\ Created(s, "unconnected")
    /\ owned' = owned \cup {<<"connect", s>>}
    /\ inFlight' = inFlight \cup {<<"connect", s>>}
    /\ UNCHANGED <<acceptVars, m_bConnected, refused, listVars, work>>

\* An option, the bind or ConnectEx fails: the session is dropped.
ConnectNewSessionFails(s) ==
    /\ m_serviceType = "CLIENT" /\ work[Starter] = Idle /\ Created(s, "closed")
    /\ UNCHANGED <<acceptVars, m_bConnected, requestVars, listVars, work>>

\* IocpCore::Dispatch of a session's event, whose owner it calls: without one
\* it calls through a null pointer, and the process ends.
Dequeue(w, kind, s, label) ==
    /\ work[w] = Idle /\ <<kind, s>> \in inFlight
    /\ inFlight' = inFlight \ {<<kind, s>>}
    /\ owned' = owned \ {<<kind, s>>}
    /\ IF <<kind, s>> \notin owned THEN End
       ELSE work' = [work EXCEPT ![w] = IF label = "idle" THEN Idle ELSE Task(label, s, NoEvent)]

\* A ConnectEx that has failed is taken for one that has not.
DispatchConnect(w, s) ==
    /\ Dequeue(w, "connect", s, "connect")
    /\ \E state \in {"open", "failed"} : socket' = [socket EXCEPT ![s] = state]
    /\ UNCHANGED <<acceptVars, m_bConnected, refused, listVars>>

ProcessConnect(w) ==
    /\ work[w].at = "connect"
    /\ m_bConnected' = [m_bConnected EXCEPT ![work[w].session] = TRUE]
    /\ Goto(w, "add")
    /\ UNCHANGED <<acceptVars, socket, requestVars, listVars>>

AddSession(w) ==
    /\ work[w].at = "add"
    /\ m_serverSessions' = m_serverSessions \cup {work[w].session}
    /\ m_sessionCnt' = m_sessionCnt + 1
    /\ Goto(w, "register")
    /\ UNCHANGED <<acceptVars, linkVars, requestVars, told>>
-----------------------------------------------------------------------------
\* Mutant: the owner is set only when the first receive is registered.
RegisterRecvOnce(w) ==
    /\ work[w].at = "register"
    /\ IF m_bConnected[work[w].session]
       THEN /\ owned' = IF work[w].event # NoEvent THEN owned \cup {<<"recv", work[w].session>>} ELSE owned
            /\ Goto(w, "wsarecv")
       ELSE UNCHANGED owned /\ GoHome(w)
    /\ UNCHANGED <<acceptVars, linkVars, inFlight, refused, listVars>>

RegisterRecv(w) ==
    /\ work[w].at = "register"
    /\ IF m_bConnected[work[w].session]
       THEN owned' = owned \cup {<<"recv", work[w].session>>} /\ Goto(w, "wsarecv")
       ELSE UNCHANGED owned /\ GoHome(w)
    /\ UNCHANGED <<acceptVars, linkVars, inFlight, refused, listVars>>

WSARecv(w) ==
    /\ work[w].at = "wsarecv" /\ socket[work[w].session] # "failed"
    /\ inFlight' = inFlight \cup {<<"recv", work[w].session>>}
    /\ GoHome(w)
    /\ UNCHANGED <<acceptVars, linkVars, owned, refused, listVars>>

\* No completion will arrive, and nobody disconnects.
WSARecvFails(w) ==
    /\ work[w].at = "wsarecv"
    /\ owned' = owned \ {<<"recv", work[w].session>>}
    /\ refused' = refused \cup {work[w].session}
    /\ GoHome(w)
    /\ UNCHANGED <<acceptVars, linkVars, inFlight, listVars>>

\* Mutant: a receive of nothing is taken for a packet.
ProcessRecvGoesOn(w, s) ==
    /\ Dequeue(w, "recv", s, "onrecv")
    /\ UNCHANGED <<acceptVars, linkVars, refused, listVars>>

\* A receive completes with data, or with nothing once the connection is gone.
ProcessRecv(w, s) ==
    /\ Dequeue(w, "recv", s, IF socket[s] = "open" THEN "onrecv" ELSE "disconnect")
    /\ UNCHANGED <<acceptVars, linkVars, refused, listVars>>

OnRecv(w) ==
    /\ work[w].at = "onrecv" /\ Goto(w, "register")
    /\ UNCHANGED <<acceptVars, linkVars, requestVars, listVars>>

\* Handle_LOGOUT disconnects from within OnRecv.
HandleLogout(w) ==
    /\ work[w].at = "onrecv"
    /\ work' = [work EXCEPT ![w] = [@ EXCEPT !.at = "disconnect", !.ret = "register"]]
    /\ UNCHANGED <<acceptVars, linkVars, requestVars, listVars>>

\* Whoever sends to a session once it is listed.
Send(s) ==
    /\ m_bConnected[s] /\ s \in m_serverSessions /\ <<"send", s>> \notin inFlight
    /\ socket[s] # "failed"
    /\ inFlight' = inFlight \cup {<<"send", s>>}
    /\ owned' = owned \cup {<<"send", s>>}
    /\ UNCHANGED <<acceptVars, linkVars, refused, listVars, work>>

ProcessSend(w, s) ==
    /\ Dequeue(w, "send", s, "idle")
    /\ UNCHANGED <<acceptVars, linkVars, refused, listVars>>

ProcessSendOfNothing(w, s) ==
    /\ socket[s] # "open" /\ Dequeue(w, "send", s, "disconnect")
    /\ UNCHANGED <<acceptVars, linkVars, refused, listVars>>
-----------------------------------------------------------------------------
Return(w) ==
    IF work[w].ret = "idle" THEN Finish(w)
    ELSE work' = [work EXCEPT ![w].at = work[w].ret, ![w].ret = "idle"]

\* Mutant: m_bConnected is not looked at.
DisconnectAlways(w) ==
    /\ work[w].at = "disconnect"
    /\ m_bConnected' = [m_bConnected EXCEPT ![work[w].session] = FALSE]
    /\ Goto(w, "disconnectex")
    /\ UNCHANGED <<acceptVars, socket, requestVars, listVars>>

\* exchange(false): one of those who disconnect goes on.
Disconnect(w) ==
    /\ work[w].at = "disconnect"
    /\ m_bConnected' = [m_bConnected EXCEPT ![work[w].session] = FALSE]
    /\ IF m_bConnected[work[w].session] THEN Goto(w, "disconnectex") ELSE Return(w)
    /\ UNCHANGED <<acceptVars, socket, requestVars, listVars>>

RegisterDisconnect(w) ==
    /\ work[w].at = "disconnectex"
    /\ socket' = [socket EXCEPT ![work[w].session] = "closed"]
    /\ owned' = owned \cup {<<"disconnect", work[w].session>>}
    /\ inFlight' = inFlight \cup {<<"disconnect", work[w].session>>}
    /\ Return(w)
    /\ UNCHANGED <<acceptVars, m_bConnected, refused, listVars>>

\* DisconnectEx fails at once: no completion, and no other try.
DisconnectExFails(w) ==
    /\ work[w].at = "disconnectex"
    /\ refused' = refused \cup {work[w].session}
    /\ Return(w)
    /\ UNCHANGED <<acceptVars, linkVars, owned, inFlight, listVars>>

ProcessDisconnect(w, s) ==
    /\ Dequeue(w, "disconnect", s, "release")
    /\ told' = told \cup {s}
    /\ UNCHANGED <<acceptVars, linkVars, refused, m_serverSessions, m_sessionCnt>>

ReleaseSession(w) ==
    /\ work[w].at = "release"
    /\ m_serverSessions' = m_serverSessions \ {work[w].session}
    /\ m_sessionCnt' = m_sessionCnt - 1
    /\ Finish(w)
    /\ UNCHANGED <<acceptVars, linkVars, requestVars, told>>

PeerCloses(s) ==
    /\ socket[s] = "open" /\ socket' = [socket EXCEPT ![s] = "reset"]
    /\ UNCHANGED <<acceptVars, m_bConnected, requestVars, listVars, work>>
-----------------------------------------------------------------------------
Runs(t) ==
    \/ \E e \in AcceptEvents : t = Starter /\ StartAccept(e)
    \/ \E s \in Sessions : RegisterAccept(t, s) \/ RegisterAcceptFails(t, s)
    \/ NoSessionLeft(t)
    \/ ProcessConnect(t) \/ AddSession(t) \/ RegisterRecv(t) \/ WSARecv(t) \/ WSARecvFails(t)
    \/ OnRecv(t) \/ HandleLogout(t) \/ Disconnect(t) \/ RegisterDisconnect(t)
    \/ DisconnectExFails(t) \/ ReleaseSession(t)

Completes(w, s) ==
    \/ DispatchConnect(w, s) \/ ProcessRecv(w, s) \/ ProcessSend(w, s)
    \/ ProcessSendOfNothing(w, s) \/ ProcessDisconnect(w, s)

Next ==
    \/ \E t \in Threads : Runs(t) \/ CreateSessionFails(t)
    \/ \E w \in Workers :
        \/ \E s \in Sessions : Completes(w, s)
        \/ \E e \in AcceptEvents : ProcessAccept(w, e) \/ ProcessAcceptFails(w, e)
    \/ \E s \in Sessions :
        ConnectNewSession(s) \/ ConnectNewSessionFails(s) \/ Send(s) \/ PeerCloses(s)

Spec == Init /\ [][Next]_vars

\* Threads run on.  Once the connection is gone a receive completes, a send
\* does at the latest then, and what has completed some worker dequeues.
Fairness ==
    /\ \A t \in Threads : WF_vars(Runs(t))
    /\ \A s \in Sessions : SF_vars(\E w \in Workers :
        \/ socket[s] # "open" /\ ProcessRecv(w, s)
        \/ ProcessSendOfNothing(w, s) \/ ProcessDisconnect(w, s))

FairSpec == Spec /\ Fairness
-----------------------------------------------------------------------------
Labels == {"idle", "accept", "connect", "add", "register", "wsarecv", "onrecv",
           "disconnect", "disconnectex", "release", "ended"}

\* Every variable has its type.
TypeOK ==
    /\ m_serviceType \in {"SERVER", "CLIENT"}
    /\ unstarted \subseteq AcceptEvents /\ accepting \subseteq AcceptEvents
    /\ m_session \in [AcceptEvents -> Sessions]
    /\ socket \in [Sessions -> {"none", "unconnected", "failed", "open", "reset", "closed"}]
    /\ m_bConnected \in [Sessions -> BOOLEAN]
    /\ owned \subseteq Kinds \X Sessions /\ inFlight \subseteq Kinds \X Sessions
    /\ m_serverSessions \subseteq Sessions /\ m_sessionCnt \in Int
    /\ told \subseteq Sessions /\ refused \subseteq Sessions
    /\ work \in [Threads -> [at : Labels, session : Sessions,
                               event : AcceptEvents \cup {NoEvent}, ret : {"idle", "register"}]]

\* Between a receive's completion and the next WSARecv.
Receives(t) ==
    \/ work[t].at \in {"connect", "add", "register", "wsarecv", "onrecv"}
    \/ work[t].at \in {"disconnect", "disconnectex"} /\ work[t].ret = "register"

\* Whichever workers handle the completions of a session, an event whose
\* request is in flight names its owner, so that Dispatch has somebody to call
\* and the session stays alive, and m_recvEvent and the receive buffer have
\* one user at a time.
EventsAreOwned ==
    /\ inFlight \subseteq owned
    /\ \A t \in Threads : Receives(t) => <<"recv", work[t].session>> \notin inFlight
    /\ \A t, u \in Threads : Receives(t) /\ Receives(u) /\ work[t].session = work[u].session => t = u

NoneLeft == \A s \in Sessions : socket[s] # "none"
Ended == \E t \in Threads : work[t].at = "ended"

\* An accept event is never registered twice and never lost, however often
\* RegisterAccept retries and whichever way ProcessAccept returns: it waits for
\* StartAccept, its AcceptEx is in flight for a session of its own, or one
\* thread has it, as long as there are sessions to accept (IocpListener.cpp:116).
AcceptsAreKept ==
    /\ unstarted \cap accepting = {}
    /\ \A e, f \in accepting : m_session[e] = m_session[f] => e = f
    /\ \A t \in Threads : work[t].event # NoEvent =>
        /\ work[t].event \notin unstarted \cup accepting
        /\ \A u \in Threads : work[u].event = work[t].event => u = t
    /\ m_serviceType = "SERVER" => \A e \in AcceptEvents :
        \/ e \in unstarted \cup accepting \/ NoneLeft \/ Ended
        \/ \E t \in Threads : work[t].event = e

\* However the workers interleave, a session is listed once, told of its end
\* once and then dropped, and m_sessionCnt is the number of those listed.
Life == INSTANCE SessionLife WITH
    Lists <- {0}, listed <- [l \in {0} |-> m_serverSessions],
    count <- [l \in {0} |-> m_sessionCnt]
LifeSpec == Life!Spec

Alive(s) ==
    \/ s \in m_serverSessions
    \/ \E kind \in Kinds : <<kind, s>> \in owned
    \/ \E t \in Threads : work[t].session = s /\ work[t].at \notin {"idle", "ended"}

\* A session whose connection has ended, or was never made, is freed: neither
\* the service nor a request refers to it any more, unless its WSARecv or DisconnectEx failed at once
\* (IocpSession.cpp:196 and :229), as WSARecv must without a connection.
Freed ==
    \A s \in Sessions :
        socket[s] \in {"failed", "reset", "closed"} ~> ~Alive(s) \/ s \in refused \/ Ended
=============================================================================
