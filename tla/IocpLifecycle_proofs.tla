------------------------ MODULE IocpLifecycle_proofs -----------------------
(***************************************************************************)
(* What IocpLifecycle's run checks on two workers and two sessions, proved *)
(* for any threads, accept events and sessions.  The argument: until a     *)
(* session is listed one thread or one request has it alone; after that    *)
(* any number of workers may send for it or disconnect it, but one worker  *)
(* or one request has its receive, and one its end.                        *)
(***************************************************************************)
EXTENDS IocpLifecycle, TLAPS

\* A thread works on its session; at "accept" it is done with it.
Works(t) == work[t].at \notin {"idle", "accept", "ended"}
Ends(t) == work[t].at \in {"disconnectex", "release"}
Begins(t) == work[t].at \in {"connect", "add"}

\* A session that was not made yet is nowhere.
Fresh ==
    \A s \in Sessions : socket[s] = "none" =>
        /\ ~m_bConnected[s] /\ s \notin m_serverSessions /\ s \notin told
        /\ \A kind \in Kinds : <<kind, s>> \notin inFlight
        /\ \A t \in Threads : Works(t) => work[t].session # s
        /\ \A e \in accepting : m_session[e] # s

\* Nobody has touched s yet but who is about to connect it.
Untouched(s) ==
    /\ s \notin m_serverSessions /\ s \notin told
    /\ <<"disconnect", s>> \notin inFlight /\ <<"recv", s>> \notin inFlight
    /\ <<"send", s>> \notin inFlight

\* Before it is listed a session belongs to one accept event,
AcceptedAlone ==
    \A e \in accepting :
        /\ Untouched(m_session[e]) /\ ~m_bConnected[m_session[e]]
        /\ <<"connect", m_session[e]>> \notin inFlight
        /\ \A t \in Threads : Works(t) => work[t].session # m_session[e]
        /\ \A f \in accepting : m_session[f] = m_session[e] => f = e

\* to one ConnectEx
ConnectedAlone ==
    \A s \in Sessions : <<"connect", s>> \in inFlight =>
        /\ Untouched(s) /\ ~m_bConnected[s]
        /\ \A t \in Threads : Works(t) => work[t].session # s

\* or to one thread.
StartedAlone ==
    \A t \in Threads : Begins(t) =>
        /\ Untouched(work[t].session)
        /\ work[t].at = "connect" => ~m_bConnected[work[t].session]
        /\ \A u \in Threads : Works(u) /\ work[u].session = work[t].session => u = t

\* A session is connected until one call of Disconnect goes on,
Linked ==
    \A s \in Sessions : m_bConnected[s] =>
        /\ s \notin told /\ <<"disconnect", s>> \notin inFlight
        /\ \/ s \in m_serverSessions \/ Ended
           \/ \E t \in Threads : work[t].at = "add" /\ work[t].session = s
        /\ \A t \in Threads : Ends(t) => work[t].session # s

\* from then on its end is with one DisconnectEx
Leaving ==
    \A s \in Sessions : <<"disconnect", s>> \in inFlight =>
        /\ s \in m_serverSessions /\ s \notin told
        /\ \A t \in Threads : Ends(t) => work[t].session # s

\* or with one thread.
Ending ==
    \A t \in Threads : Ends(t) =>
        /\ work[t].session \in m_serverSessions
        /\ work[t].session \in told <=> work[t].at = "release"
        /\ \A u \in Threads : Ends(u) /\ work[u].session = work[t].session => u = t

\* The event whose WSARecv is about to be made has its owner.
Receiving ==
    /\ EventsAreOwned
    /\ \A t \in Threads : work[t].at = "wsarecv" => <<"recv", work[t].session>> \in owned

\* While there are sessions to accept each accept event is somewhere.
NoneLost ==
    m_serviceType = "SERVER" => \A e \in AcceptEvents :
        \/ e \in unstarted \cup accepting \/ NoneLeft \/ Ended
        \/ \E t \in Threads : work[t].event = e

\* An accept event waits, is in flight or is with one thread, until the
\* session it accepted is connected.
Accepting ==
    /\ unstarted \cap accepting = {}
    /\ \A t \in Threads :
        /\ work[t].at = "accept" => work[t].event # NoEvent
        /\ work[t].at \in {"idle", "onrecv", "disconnect", "disconnectex", "release"}
               => work[t].event = NoEvent
        /\ work[t].at = "idle" => work[t] = Idle
        /\ work[t].event # NoEvent =>
            /\ work[t].event \notin unstarted \cup accepting
            /\ \A u \in Threads : work[u].event = work[t].event => u = t
    /\ NoneLost

\* The process ends as a whole.
Halting == Ended => \A t \in Threads : work[t].at = "ended"

IInv ==
    /\ TypeOK /\ Halting /\ Fresh /\ AcceptedAlone /\ ConnectedAlone /\ StartedAlone
    /\ Linked /\ Leaving /\ Ending /\ Receiving /\ Accepting
-----------------------------------------------------------------------------
LEMMA Ids ==
  /\ Starter \in Threads /\ Starter \notin Workers /\ Workers \subseteq Threads
  /\ NoEvent \notin AcceptEvents /\ \A t \in Threads : t = Starter \/ t \in Workers
  /\ (CHOOSE s \in Sessions : TRUE) \in Sessions
    BY ConstantsAssumption DEF Threads

USE Ids DEF acceptVars, linkVars, requestVars, listVars, Kinds

\* What the steps do to the threads' work, field by field.
Others(t) == \A u \in Threads \ {t} : work'[u] = work[u]

Moves(t, label, r) ==
    /\ Others(t) /\ work'[t].at = label /\ work'[t].ret = r
    /\ work'[t].session = work[t].session /\ work'[t].event = work[t].event

Takes(t, label, s, e) ==
    /\ Others(t) /\ work[t] = Idle /\ work[t].at = "idle" /\ work[t].event = NoEvent
    /\ work'[t].at = label /\ work'[t].session = s /\ work'[t].event = e
    /\ work'[t].ret = "idle"

Rests(t) ==
    Others(t) /\ work'[t] = Idle /\ work'[t].at = "idle" /\ work'[t].event = NoEvent

GoesHome(t) ==
    \/ work[t].event = NoEvent /\ Rests(t)
    \/ work[t].event # NoEvent /\ Moves(t, "accept", work[t].ret)

GoesBack(t) == Rests(t) \/ (Moves(t, "register", "idle") /\ work[t].ret = "register")

LEMMA WorkSteps ==
  ASSUME TypeOK, NEW t \in Threads
  PROVE  /\ \A l : Goto(t, l) => Moves(t, l, work[t].ret)
         /\ \A l, s, e : Begin(t, Task(l, s, e)) => Takes(t, l, s, e)
         /\ Finish(t) => Rests(t)
         /\ GoHome(t) => GoesHome(t)
         /\ Return(t) => GoesBack(t)
<1> USE DEF Others, Idle, Task
<1>1. ASSUME NEW l, Goto(t, l) PROVE Moves(t, l, work[t].ret)
    BY <1>1 DEF TypeOK, Goto, Moves
<1>2. ASSUME NEW l, NEW s, NEW e, Begin(t, Task(l, s, e)) PROVE Takes(t, l, s, e)
    BY <1>2 DEF TypeOK, Begin, Takes
<1>3. Finish(t) => Rests(t)
    BY DEF TypeOK, Finish, Rests
<1>4. GoHome(t) => GoesHome(t)
    BY <1>1, <1>3 DEF GoHome, GoesHome
<1>5. ASSUME Return(t) PROVE GoesBack(t)
  <2>1. CASE work[t].ret = "idle"
      BY <1>3, <1>5, <2>1 DEF Return, GoesBack
  <2>2. CASE work[t].ret = "register"
      BY <1>5, <2>2 DEF TypeOK, Return, GoesBack, Moves
  <2> QED BY <2>1, <2>2 DEF TypeOK
<1> QED BY <1>1, <1>2, <1>3, <1>4, <1>5

LEMMA DequeueStep ==
  ASSUME IInv, NEW w \in Workers, NEW kind \in Kinds, NEW s \in Sessions, NEW label,
         Dequeue(w, kind, s, label)
  PROVE  /\ <<kind, s>> \in inFlight
         /\ inFlight' = inFlight \ {<<kind, s>>} /\ owned' = owned \ {<<kind, s>>}
         /\ IF label = "idle" THEN Rests(w) /\ work[w] = Idle /\ work[w].at = "idle"
                              ELSE Takes(w, label, s, NoEvent)
<1>1. <<kind, s>> \in inFlight /\ <<kind, s>> \in owned /\ work[w] = Idle
    BY DEF Dequeue, IInv, Receiving, EventsAreOwned
<1>2. CASE label = "idle"
  <2>1. work' = [work EXCEPT ![w] = Idle]
      BY <1>1, <1>2 DEF Dequeue
  <2>2. work[w].at = "idle" /\ Idle.at = "idle" /\ Idle.event = NoEvent
      BY <1>1 DEF Idle, Task
  <2> QED BY <1>1, <1>2, <2>1, <2>2 DEF IInv, TypeOK, Rests, Others, Dequeue
<1>3. CASE label # "idle"
    BY <1>1, <1>3 DEF Dequeue, IInv, TypeOK, Takes, Others, Idle, Task
<1> QED BY <1>1, <1>2, <1>3 DEF Dequeue

LEMMA StartAcceptStep ==
  ASSUME IInv, NEW e \in AcceptEvents, StartAccept(e)
  PROVE  IInv'
<1>0. Takes(Starter, "accept", Idle.session, e)
    BY WorkSteps DEF IInv, StartAccept
<1>1. TypeOK'
    BY DEF IInv, TypeOK, Labels, Idle, Task, StartAccept, Begin
<1>2. Halting'
    BY <1>0 DEF IInv, Halting, Ended, StartAccept, Others, Takes
<1>3. Fresh'
    BY <1>0 DEF IInv, Fresh, Works, StartAccept, Others, Takes
<1>4. AcceptedAlone'
    BY <1>0 DEF IInv, AcceptedAlone, Works, Untouched, StartAccept, Others, Takes
<1>5. ConnectedAlone'
    BY <1>0 DEF IInv, ConnectedAlone, Works, Untouched, StartAccept, Others, Takes
<1>6. StartedAlone'
    BY <1>0 DEF IInv, StartedAlone, Works, Begins, Untouched, StartAccept, Others, Takes
<1>7. Linked'
    BY <1>0 DEF IInv, Linked, Ends, Ended, StartAccept, Others, Takes
<1>8. Leaving'
    BY <1>0 DEF IInv, Leaving, Ends, StartAccept, Others, Takes
<1>9. Ending'
    BY <1>0 DEF IInv, Ending, Ends, StartAccept, Others, Takes
<1>10. Receiving'
    BY <1>0 DEF IInv, Receiving, EventsAreOwned, Receives, StartAccept, Others, Takes
<1>11. Accepting'
    BY <1>0 DEF IInv, Accepting, NoneLost, NoneLeft, Ended, StartAccept, Others, Takes
<1> QED BY <1>1, <1>2, <1>3, <1>4, <1>5, <1>6, <1>7, <1>8, <1>9, <1>10, <1>11 DEF IInv

LEMMA RegisterAcceptStep ==
  ASSUME IInv, NEW t \in Threads, NEW s \in Sessions, RegisterAccept(t, s)
  PROVE  IInv'
<1>0. Rests(t) /\ work[t].event \in AcceptEvents
    BY WorkSteps DEF IInv, TypeOK, Accepting, RegisterAccept
<1>1. TypeOK'
  <2>1. work' \in [Threads -> [at : Labels, session : Sessions,
                               event : AcceptEvents \cup {NoEvent}, ret : {"idle", "register"}]]
      BY DEF IInv, TypeOK, Labels, Idle, Task, RegisterAccept, Finish
  <2> QED BY <1>0, <2>1 DEF IInv, TypeOK, RegisterAccept, Created
<1>2. Halting'
    BY <1>0 DEF IInv, Halting, Ended, RegisterAccept, Others, Rests
<1>3. Fresh'
  <2>1. /\ socket[s] = "none" /\ work[t].event \notin accepting
        /\ accepting' = accepting \cup {work[t].event} /\ m_session'[work[t].event] = s
        /\ \A f \in accepting : m_session'[f] = m_session[f]
      BY <1>0 DEF IInv, TypeOK, Accepting, RegisterAccept, Created
  <2>2. \A r \in Sessions : socket'[r] = "none" => socket[r] = "none" /\ r # s
      BY <2>1 DEF IInv, TypeOK, RegisterAccept, Created
  <2> QED BY <1>0, <2>1, <2>2 DEF IInv, Fresh, Works, RegisterAccept, Others, Rests
<1>4. AcceptedAlone'
  <2>1. /\ socket[s] = "none" /\ work[t].event \notin accepting
        /\ accepting' = accepting \cup {work[t].event} /\ m_session'[work[t].event] = s
        /\ \A f \in accepting : m_session'[f] = m_session[f]
      BY <1>0 DEF IInv, TypeOK, Accepting, RegisterAccept, Created
  <2>2. /\ Untouched(s) /\ ~m_bConnected[s] /\ <<"connect", s>> \notin inFlight
        /\ \A u \in Threads : Works(u) => work[u].session # s
        /\ \A f \in accepting : m_session[f] # s
      BY <2>1 DEF IInv, Fresh, Untouched
  <2>3. \A u \in Threads : Works(u)' => Works(u) /\ work'[u] = work[u]
      BY <1>0 DEF Works, Others, Rests
  <2> QED BY <1>0, <2>1, <2>2, <2>3 DEF IInv, AcceptedAlone, Untouched, RegisterAccept
<1>5. ConnectedAlone'
    BY <1>0 DEF IInv, ConnectedAlone, Works, Untouched, RegisterAccept, Others, Rests
<1>6. StartedAlone'
    BY <1>0 DEF IInv, StartedAlone, Works, Begins, Untouched, RegisterAccept, Others, Rests
<1>7. Linked'
    BY <1>0 DEF IInv, Linked, Ends, Ended, RegisterAccept, Others, Rests
<1>8. Leaving'
    BY <1>0 DEF IInv, Leaving, Ends, RegisterAccept, Others, Rests
<1>9. Ending'
    BY <1>0 DEF IInv, Ending, Ends, RegisterAccept, Others, Rests
<1>10. Receiving'
    BY <1>0 DEF IInv, Receiving, EventsAreOwned, Receives, RegisterAccept, Others, Rests
<1>11. Accepting'
  <2>1. /\ work[t].event \notin unstarted \cup accepting
        /\ accepting' = accepting \cup {work[t].event} /\ unstarted' = unstarted
        /\ m_serviceType' = m_serviceType
      BY <1>0 DEF IInv, Accepting, RegisterAccept
  <2>2. NoneLeft => NoneLeft'
      BY DEF IInv, TypeOK, NoneLeft, RegisterAccept, Created
  <2>3. Ended => Ended'
      BY DEF IInv, Halting, Ended, RegisterAccept
  <2>4. NoneLost'
      BY <1>0, <2>1, <2>2, <2>3 DEF IInv, Accepting, NoneLost, Others, Rests
  <2> QED BY <1>0, <2>1, <2>4 DEF IInv, Accepting, Others, Rests
<1> QED BY <1>1, <1>2, <1>3, <1>4, <1>5, <1>6, <1>7, <1>8, <1>9, <1>10, <1>11 DEF IInv

LEMMA RegisterAcceptFailsStep ==
  ASSUME IInv, NEW t \in Threads, NEW s \in Sessions, RegisterAcceptFails(t, s)
  PROVE  IInv'
<1>1. TypeOK'
    BY DEF IInv, TypeOK, Labels, Idle, Task, RegisterAcceptFails, Created
<1>2. Halting'
    BY DEF IInv, Halting, Ended, RegisterAcceptFails, Created
<1>3. Fresh'
    BY DEF IInv, Fresh, Works, RegisterAcceptFails, Created
<1>4. AcceptedAlone'
    BY DEF IInv, AcceptedAlone, Works, Untouched, RegisterAcceptFails, Created
<1>5. ConnectedAlone'
    BY DEF IInv, ConnectedAlone, Works, Untouched, RegisterAcceptFails, Created
<1>6. StartedAlone'
    BY DEF IInv, StartedAlone, Works, Begins, Untouched, RegisterAcceptFails, Created
<1>7. Linked'
    BY DEF IInv, Linked, Ends, Ended, RegisterAcceptFails, Created
<1>8. Leaving'
    BY DEF IInv, Leaving, Ends, RegisterAcceptFails, Created
<1>9. Ending'
    BY DEF IInv, Ending, Ends, RegisterAcceptFails, Created
<1>10. Receiving'
    BY DEF IInv, Receiving, EventsAreOwned, Receives, RegisterAcceptFails, Created
<1>11. Accepting'
    BY DEF IInv, Accepting, NoneLost, NoneLeft, Ended, RegisterAcceptFails, Created
<1> QED BY <1>1, <1>2, <1>3, <1>4, <1>5, <1>6, <1>7, <1>8, <1>9, <1>10, <1>11 DEF IInv

LEMMA NoSessionLeftStep ==
  ASSUME IInv, NEW t \in Threads, NoSessionLeft(t)
  PROVE  IInv'
<1>0. Rests(t)
    BY WorkSteps DEF IInv, NoSessionLeft
<1>1. TypeOK'
    BY DEF IInv, TypeOK, Labels, Idle, Task, NoSessionLeft, Finish
<1>2. Halting'
    BY <1>0 DEF IInv, Halting, Ended, NoSessionLeft, Others, Rests
<1>3. Fresh'
    BY <1>0 DEF IInv, Fresh, Works, NoSessionLeft, Others, Rests
<1>4. AcceptedAlone'
    BY <1>0 DEF IInv, AcceptedAlone, Works, Untouched, NoSessionLeft, Others, Rests
<1>5. ConnectedAlone'
    BY <1>0 DEF IInv, ConnectedAlone, Works, Untouched, NoSessionLeft, Others, Rests
<1>6. StartedAlone'
    BY <1>0 DEF IInv, StartedAlone, Works, Begins, Untouched, NoSessionLeft, Others, Rests
<1>7. Linked'
    BY <1>0 DEF IInv, Linked, Ends, Ended, NoSessionLeft, Others, Rests
<1>8. Leaving'
    BY <1>0 DEF IInv, Leaving, Ends, NoSessionLeft, Others, Rests
<1>9. Ending'
    BY <1>0 DEF IInv, Ending, Ends, NoSessionLeft, Others, Rests
<1>10. Receiving'
    BY <1>0 DEF IInv, Receiving, EventsAreOwned, Receives, NoSessionLeft, Others, Rests
<1>11. Accepting'
    BY <1>0 DEF IInv, Accepting, NoneLost, NoneLeft, Ended, NoSessionLeft, Others,
           Rests
<1> QED BY <1>1, <1>2, <1>3, <1>4, <1>5, <1>6, <1>7, <1>8, <1>9, <1>10, <1>11 DEF IInv

LEMMA CreateSessionFailsStep ==
  ASSUME IInv, NEW t \in Threads, CreateSessionFails(t)
  PROVE  IInv'
<1>0. \A u \in Threads : /\ work'[u].at = "ended" /\ work'[u].event = NoEvent
                        /\ work'[u].ret = "idle"
    BY WorkSteps DEF IInv, End, Idle, Task, CreateSessionFails
<1>1. TypeOK'
    BY DEF IInv, TypeOK, Labels, Idle, Task, CreateSessionFails, End
<1>2. Halting'
    BY <1>0 DEF IInv, Halting, Ended, CreateSessionFails, Others
<1>3. Fresh'
    BY <1>0 DEF IInv, Fresh, Works, CreateSessionFails, Others
<1>4. AcceptedAlone'
    BY <1>0 DEF IInv, AcceptedAlone, Works, Untouched, CreateSessionFails, Others
<1>5. ConnectedAlone'
    BY <1>0 DEF IInv, ConnectedAlone, Works, Untouched, CreateSessionFails, Others
<1>6. StartedAlone'
    BY <1>0 DEF IInv, StartedAlone, Works, Begins, Untouched, CreateSessionFails, Others
<1>7. Linked'
    BY <1>0 DEF IInv, Linked, Ends, Ended, CreateSessionFails, Others
<1>8. Leaving'
    BY <1>0 DEF IInv, Leaving, Ends, CreateSessionFails, Others
<1>9. Ending'
    BY <1>0 DEF IInv, Ending, Ends, CreateSessionFails, Others
<1>10. Receiving'
    BY <1>0 DEF IInv, Receiving, EventsAreOwned, Receives, CreateSessionFails, Others
<1>11. Accepting'
    BY <1>0 DEF IInv, Accepting, NoneLost, NoneLeft, Ended, CreateSessionFails, Others
<1> QED BY <1>1, <1>2, <1>3, <1>4, <1>5, <1>6, <1>7, <1>8, <1>9, <1>10, <1>11 DEF IInv

LEMMA ProcessAcceptStep ==
  ASSUME IInv, NEW w \in Workers, NEW e \in AcceptEvents, ProcessAccept(w, e)
  PROVE  IInv'
<1>0. Takes(w, "connect", m_session[e], e)
    BY WorkSteps DEF IInv, ProcessAccept
<1>1. TypeOK'
    BY DEF IInv, TypeOK, Labels, Idle, Task, ProcessAccept, Begin
<1>2. Halting'
    BY <1>0 DEF IInv, Halting, Ended, ProcessAccept, Others, Takes
<1>3. Fresh'
    BY <1>0 DEF IInv, Fresh, Works, ProcessAccept, Others, Takes
<1>4. AcceptedAlone'
    BY <1>0 DEF IInv, AcceptedAlone, Works, Untouched, ProcessAccept, Others, Takes
<1>5. ConnectedAlone'
  <2> DEFINE r == m_session[e]
  <2>1. /\ r \in Sessions /\ ~m_bConnected[r] /\ <<"connect", r>> \notin inFlight
        /\ r \notin m_serverSessions /\ r \notin told
        /\ <<"disconnect", r>> \notin inFlight /\ <<"recv", r>> \notin inFlight
        /\ <<"send", r>> \notin inFlight
        /\ \A t \in Threads : Works(t) => work[t].session # r
      BY DEF IInv, TypeOK, AcceptedAlone, Untouched, ProcessAccept
  <2> QED BY <1>0, <2>1 DEF IInv, ConnectedAlone, Works, Untouched, ProcessAccept, Others, Takes
<1>6. StartedAlone'
  <2> DEFINE r == m_session[e]
  <2>1. /\ r \in Sessions /\ ~m_bConnected[r] /\ <<"connect", r>> \notin inFlight
        /\ r \notin m_serverSessions /\ r \notin told
        /\ <<"disconnect", r>> \notin inFlight /\ <<"recv", r>> \notin inFlight
        /\ <<"send", r>> \notin inFlight
        /\ \A t \in Threads : Works(t) => work[t].session # r
      BY DEF IInv, TypeOK, AcceptedAlone, Untouched, ProcessAccept
  <2>2. \A u \in Threads : Works(u)' => u = w \/ (Works(u) /\ work'[u] = work[u])
      BY <1>0 DEF Works, Others, Takes
  <2>3. \A u \in Threads : Begins(u)' => u = w \/ (Begins(u) /\ work'[u] = work[u])
      BY <1>0 DEF Begins, Others, Takes
  <2>4. \A u \in Threads : Begins(u) => Works(u)
      BY DEF Begins, Works
  <2> HIDE DEF r
  <2>5. work'[w].session = r
      BY <1>0 DEF Takes, r
  <2> QED BY <2>1, <2>2, <2>3, <2>4, <2>5 DEF IInv, StartedAlone, Untouched, ProcessAccept
<1>7. Linked'
    BY <1>0 DEF IInv, Linked, Ends, Ended, ProcessAccept, Others, Takes
<1>8. Leaving'
    BY <1>0 DEF IInv, Leaving, Ends, ProcessAccept, Others, Takes
<1>9. Ending'
    BY <1>0 DEF IInv, Ending, Ends, ProcessAccept, Others, Takes
<1>10. Receiving'
  <2> DEFINE r == m_session[e]
  <2>1. /\ r \in Sessions /\ ~m_bConnected[r] /\ <<"connect", r>> \notin inFlight
        /\ r \notin m_serverSessions /\ r \notin told
        /\ <<"disconnect", r>> \notin inFlight /\ <<"recv", r>> \notin inFlight
        /\ <<"send", r>> \notin inFlight
        /\ \A t \in Threads : Works(t) => work[t].session # r
      BY DEF IInv, TypeOK, AcceptedAlone, Untouched, ProcessAccept
  <2>2. \A u \in Threads : Receives(u)' => u = w \/ (Receives(u) /\ Works(u) /\ work'[u] = work[u])
      BY <1>0 DEF Receives, Works, Others, Takes
  <2>3. work'[w].at # "wsarecv" /\ \A u \in Threads \ {w} : work'[u] = work[u]
      BY <1>0 DEF Others, Takes
  <2> HIDE DEF r
  <2>4. work'[w].session = r
      BY <1>0 DEF Takes, r
  <2> QED BY <2>1, <2>2, <2>3, <2>4 DEF IInv, Receiving, EventsAreOwned, ProcessAccept
<1>11. Accepting'
    BY <1>0 DEF IInv, Accepting, NoneLost, NoneLeft, Ended, ProcessAccept, Others,
           Takes
<1> QED BY <1>1, <1>2, <1>3, <1>4, <1>5, <1>6, <1>7, <1>8, <1>9, <1>10, <1>11 DEF IInv

LEMMA ProcessAcceptFailsStep ==
  ASSUME IInv, NEW w \in Workers, NEW e \in AcceptEvents, ProcessAcceptFails(w, e)
  PROVE  IInv'
<1>0. Takes(w, "accept", m_session[e], e)
    BY WorkSteps DEF IInv, ProcessAcceptFails
<1>1. TypeOK'
    BY DEF IInv, TypeOK, Labels, Idle, Task, ProcessAcceptFails, Begin
<1>2. Halting'
    BY <1>0 DEF IInv, Halting, Ended, ProcessAcceptFails, Others, Takes
<1>3. Fresh'
    BY <1>0 DEF IInv, Fresh, Works, ProcessAcceptFails, Others, Takes
<1>4. AcceptedAlone'
    BY <1>0 DEF IInv, AcceptedAlone, Works, Untouched, ProcessAcceptFails, Others, Takes
<1>5. ConnectedAlone'
    BY <1>0 DEF IInv, ConnectedAlone, Works, Untouched, ProcessAcceptFails, Others, Takes
<1>6. StartedAlone'
    BY <1>0 DEF IInv, StartedAlone, Works, Begins, Untouched, ProcessAcceptFails, Others,
           Takes
<1>7. Linked'
    BY <1>0 DEF IInv, Linked, Ends, Ended, ProcessAcceptFails, Others, Takes
<1>8. Leaving'
    BY <1>0 DEF IInv, Leaving, Ends, ProcessAcceptFails, Others, Takes
<1>9. Ending'
    BY <1>0 DEF IInv, Ending, Ends, ProcessAcceptFails, Others, Takes
<1>10. Receiving'
    BY <1>0 DEF IInv, Receiving, EventsAreOwned, Receives, ProcessAcceptFails, Others, Takes
<1>11. Accepting'
    BY <1>0 DEF IInv, Accepting, NoneLost, NoneLeft, Ended, ProcessAcceptFails,
           Others, Takes
<1> QED BY <1>1, <1>2, <1>3, <1>4, <1>5, <1>6, <1>7, <1>8, <1>9, <1>10, <1>11 DEF IInv

LEMMA ConnectNewSessionStep ==
  ASSUME IInv, NEW s \in Sessions, ConnectNewSession(s)
  PROVE  IInv'
<1>1. TypeOK'
    BY DEF IInv, TypeOK, Labels, Idle, Task, ConnectNewSession, Created
<1>2. Halting'
    BY DEF IInv, Halting, Ended, ConnectNewSession, Created
<1>3. Fresh'
    BY DEF IInv, TypeOK, Fresh, Works, ConnectNewSession, Created
<1>4. AcceptedAlone'
    BY DEF IInv, TypeOK, Fresh, AcceptedAlone, ConnectedAlone, StartedAlone, Works,
           Untouched, ConnectNewSession, Created
<1>5. ConnectedAlone'
    BY DEF IInv, TypeOK, Fresh, AcceptedAlone, ConnectedAlone, StartedAlone, Works,
           Untouched, ConnectNewSession, Created
<1>6. StartedAlone'
    BY DEF IInv, StartedAlone, Works, Begins, Untouched, ConnectNewSession, Created
<1>7. Linked'
    BY DEF IInv, Linked, Ends, Ended, ConnectNewSession, Created
<1>8. Leaving'
    BY DEF IInv, Leaving, Ends, ConnectNewSession, Created
<1>9. Ending'
    BY DEF IInv, Ending, Ends, ConnectNewSession, Created
<1>10. Receiving'
    BY DEF IInv, Receiving, EventsAreOwned, Receives, ConnectNewSession, Created
<1>11. Accepting'
    BY DEF IInv, Accepting, NoneLost, NoneLeft, Ended, ConnectNewSession, Created
<1> QED BY <1>1, <1>2, <1>3, <1>4, <1>5, <1>6, <1>7, <1>8, <1>9, <1>10, <1>11 DEF IInv

LEMMA ConnectNewSessionFailsStep ==
  ASSUME IInv, NEW s \in Sessions, ConnectNewSessionFails(s)
  PROVE  IInv'
<1>1. TypeOK'
    BY DEF IInv, TypeOK, Labels, Idle, Task, ConnectNewSessionFails, Created
<1>2. Halting'
    BY DEF IInv, Halting, Ended, ConnectNewSessionFails, Created
<1>3. Fresh'
    BY DEF IInv, Fresh, Works, ConnectNewSessionFails, Created
<1>4. AcceptedAlone'
    BY DEF IInv, AcceptedAlone, Works, Untouched, ConnectNewSessionFails, Created
<1>5. ConnectedAlone'
    BY DEF IInv, ConnectedAlone, Works, Untouched, ConnectNewSessionFails, Created
<1>6. StartedAlone'
    BY DEF IInv, StartedAlone, Works, Begins, Untouched, ConnectNewSessionFails, Created
<1>7. Linked'
    BY DEF IInv, Linked, Ends, Ended, ConnectNewSessionFails, Created
<1>8. Leaving'
    BY DEF IInv, Leaving, Ends, ConnectNewSessionFails, Created
<1>9. Ending'
    BY DEF IInv, Ending, Ends, ConnectNewSessionFails, Created
<1>10. Receiving'
    BY DEF IInv, Receiving, EventsAreOwned, Receives, ConnectNewSessionFails, Created
<1>11. Accepting'
    BY DEF IInv, Accepting, NoneLost, NoneLeft, Ended, ConnectNewSessionFails, Created
<1> QED BY <1>1, <1>2, <1>3, <1>4, <1>5, <1>6, <1>7, <1>8, <1>9, <1>10, <1>11 DEF IInv

LEMMA DispatchConnectStep ==
  ASSUME IInv, NEW w \in Workers, NEW s \in Sessions, DispatchConnect(w, s)
  PROVE  IInv'
<1>0. /\ <<"connect", s>> \in inFlight /\ inFlight' = inFlight \ {<<"connect", s>>}
      /\ owned' = owned \ {<<"connect", s>>} /\ Takes(w, "connect", s, NoEvent)
    BY DequeueStep DEF DispatchConnect
<1>1. TypeOK'
    BY DEF IInv, TypeOK, Labels, Idle, Task, DispatchConnect, Dequeue, End
<1>2. Halting'
    BY <1>0 DEF IInv, Halting, Ended, DispatchConnect, Others, Takes
<1>3. Fresh'
    BY <1>0 DEF IInv, Fresh, Works, DispatchConnect, Others, Takes
<1>4. AcceptedAlone'
    BY <1>0 DEF IInv, AcceptedAlone, Works, Untouched, DispatchConnect, Others, Takes
<1>5. ConnectedAlone'
    BY <1>0 DEF IInv, ConnectedAlone, Works, Untouched, DispatchConnect, Others, Takes
<1>6. StartedAlone'
  <2>1. /\ ~m_bConnected[s] /\ s \notin m_serverSessions /\ s \notin told
        /\ <<"disconnect", s>> \notin inFlight /\ <<"recv", s>> \notin inFlight
        /\ <<"send", s>> \notin inFlight
        /\ \A t \in Threads : Works(t) => work[t].session # s
      BY <1>0 DEF IInv, ConnectedAlone, Untouched
  <2>2. \A u \in Threads : Works(u)' => u = w \/ (Works(u) /\ work'[u] = work[u])
      BY <1>0 DEF Works, Others, Takes
  <2>3. \A u \in Threads : Begins(u)' => u = w \/ (Begins(u) /\ work'[u] = work[u])
      BY <1>0 DEF Begins, Others, Takes
  <2>4. \A u \in Threads : Begins(u) => Works(u)
      BY DEF Begins, Works
  <2>5. work'[w].session = s
      BY <1>0 DEF Takes
  <2> QED BY <1>0, <2>1, <2>2, <2>3, <2>4, <2>5 DEF IInv, StartedAlone, Untouched, DispatchConnect
<1>7. Linked'
    BY <1>0 DEF IInv, Linked, Ends, Ended, DispatchConnect, Others, Takes
<1>8. Leaving'
    BY <1>0 DEF IInv, Leaving, Ends, DispatchConnect, Others, Takes
<1>9. Ending'
    BY <1>0 DEF IInv, Ending, Ends, DispatchConnect, Others, Takes
<1>10. Receiving'
  <2>1. /\ ~m_bConnected[s] /\ s \notin m_serverSessions /\ s \notin told
        /\ <<"disconnect", s>> \notin inFlight /\ <<"recv", s>> \notin inFlight
        /\ <<"send", s>> \notin inFlight
        /\ \A t \in Threads : Works(t) => work[t].session # s
      BY <1>0 DEF IInv, ConnectedAlone, Untouched
  <2>2. \A u \in Threads : Receives(u)' => u = w \/ (Receives(u) /\ Works(u) /\ work'[u] = work[u])
      BY <1>0 DEF Receives, Works, Others, Takes
  <2>3. work'[w].at # "wsarecv" /\ \A u \in Threads \ {w} : work'[u] = work[u]
      BY <1>0 DEF Others, Takes
  <2>4. work'[w].session = s
      BY <1>0 DEF Takes
  <2> QED BY <1>0, <2>1, <2>2, <2>3, <2>4 DEF IInv, Receiving, EventsAreOwned
<1>11. Accepting'
    BY <1>0 DEF IInv, Accepting, NoneLost, NoneLeft, Ended, DispatchConnect, Others,
           Takes
<1> QED BY <1>1, <1>2, <1>3, <1>4, <1>5, <1>6, <1>7, <1>8, <1>9, <1>10, <1>11 DEF IInv

LEMMA ProcessConnectStep ==
  ASSUME IInv, NEW t \in Threads, ProcessConnect(t)
  PROVE  IInv'
<1>0. Moves(t, "add", work[t].ret)
    BY WorkSteps DEF IInv, ProcessConnect
<1>1. TypeOK'
    BY DEF IInv, TypeOK, Labels, Idle, Task, ProcessConnect, Goto
<1>2. Halting'
    BY <1>0 DEF IInv, Halting, Ended, ProcessConnect, Others, Moves
<1>3. Fresh'
    BY <1>0 DEF IInv, Fresh, Works, ProcessConnect, Others, Moves
<1>4. AcceptedAlone'
    BY <1>0 DEF IInv, AcceptedAlone, Works, Untouched, ProcessConnect, Others, Moves
<1>5. ConnectedAlone'
    BY <1>0 DEF IInv, ConnectedAlone, Works, Untouched, ProcessConnect, Others, Moves
<1>6. StartedAlone'
    BY <1>0 DEF IInv, StartedAlone, Works, Begins, Untouched, ProcessConnect, Others, Moves
<1>7. Linked'
  <2> DEFINE s == work[t].session
  <2>1. /\ s \in Sessions /\ s \notin told /\ <<"disconnect", s>> \notin inFlight
        /\ \A u \in Threads : Works(u) /\ work[u].session = s => u = t
      BY DEF IInv, TypeOK, StartedAlone, Begins, Untouched, ProcessConnect
  <2>2. /\ work'[t].at = "add" /\ work'[t].session = s /\ ~Ends(t)'
        /\ \A u \in Threads \ {t} : work'[u] = work[u]
      BY <1>0 DEF Moves, Others, Ends
  <2>3. \A u \in Threads : Ends(u) => Works(u)
      BY DEF Ends, Works
  <2>4. Ended => Ended'
      BY DEF IInv, Halting, Ended, ProcessConnect
  <2>5. \A r \in Sessions \ {s} : m_bConnected'[r] = m_bConnected[r]
      BY DEF IInv, TypeOK, ProcessConnect
  <2>6. work[t].at = "connect" /\ told' = told /\ inFlight' = inFlight
        /\ m_serverSessions' = m_serverSessions
      BY DEF ProcessConnect
  <2> HIDE DEF s
  <2> QED BY <2>1, <2>2, <2>3, <2>4, <2>5, <2>6 DEF IInv, Linked, Ends
<1>8. Leaving'
    BY <1>0 DEF IInv, Leaving, Ends, ProcessConnect, Others, Moves
<1>9. Ending'
    BY <1>0 DEF IInv, Ending, Ends, ProcessConnect, Others, Moves
<1>10. Receiving'
    BY <1>0 DEF IInv, Receiving, EventsAreOwned, Receives, ProcessConnect, Others, Moves
<1>11. Accepting'
    BY <1>0 DEF IInv, Accepting, NoneLost, NoneLeft, Ended, ProcessConnect, Others,
           Moves
<1> QED BY <1>1, <1>2, <1>3, <1>4, <1>5, <1>6, <1>7, <1>8, <1>9, <1>10, <1>11 DEF IInv

LEMMA AddSessionStep ==
  ASSUME IInv, NEW t \in Threads, AddSession(t)
  PROVE  IInv'
<1>0. Moves(t, "register", work[t].ret)
    BY WorkSteps DEF IInv, AddSession
<1>1. TypeOK'
    BY DEF IInv, TypeOK, Labels, Idle, Task, AddSession, Goto
<1>2. Halting'
    BY <1>0 DEF IInv, Halting, Ended, AddSession, Others, Moves
<1>3. Fresh'
    BY <1>0 DEF IInv, Fresh, Works, AddSession, Others, Moves
<1>4. AcceptedAlone'
    BY <1>0 DEF IInv, AcceptedAlone, Works, Untouched, AddSession, Others, Moves
<1>5. ConnectedAlone'
    BY <1>0 DEF IInv, ConnectedAlone, Works, Untouched, AddSession, Others, Moves
<1>6. StartedAlone'
    BY <1>0 DEF IInv, StartedAlone, Works, Begins, Untouched, AddSession, Others, Moves
<1>7. Linked'
    BY <1>0 DEF IInv, Linked, Ends, Ended, AddSession, Others, Moves
<1>8. Leaving'
    BY <1>0 DEF IInv, Leaving, Ends, AddSession, Others, Moves
<1>9. Ending'
    BY <1>0 DEF IInv, Ending, Ends, AddSession, Others, Moves
<1>10. Receiving'
    BY <1>0 DEF IInv, Receiving, EventsAreOwned, Receives, AddSession, Others, Moves
<1>11. Accepting'
    BY <1>0 DEF IInv, Accepting, NoneLost, NoneLeft, Ended, AddSession, Others, Moves
<1> QED BY <1>1, <1>2, <1>3, <1>4, <1>5, <1>6, <1>7, <1>8, <1>9, <1>10, <1>11 DEF IInv

LEMMA RegisterRecvStep ==
  ASSUME IInv, NEW t \in Threads, RegisterRecv(t)
  PROVE  IInv'
<1>0. \/ /\ m_bConnected[work[t].session] /\ owned' = owned \cup {<<"recv", work[t].session>>}
         /\ Moves(t, "wsarecv", work[t].ret)
      \/ ~m_bConnected[work[t].session] /\ owned' = owned /\ GoesHome(t)
    BY WorkSteps DEF IInv, RegisterRecv
<1>1. TypeOK'
    BY DEF IInv, TypeOK, Labels, Idle, Task, RegisterRecv, Finish, GoHome, Goto
<1>2. Halting'
    BY <1>0 DEF IInv, Halting, Ended, RegisterRecv, Others, Moves, GoesHome, Rests
<1>3. Fresh'
    BY <1>0 DEF IInv, Fresh, Works, RegisterRecv, Others, Moves, GoesHome, Rests
<1>4. AcceptedAlone'
    BY <1>0 DEF IInv, AcceptedAlone, Works, Untouched, RegisterRecv, Others, Moves,
           GoesHome, Rests
<1>5. ConnectedAlone'
    BY <1>0 DEF IInv, ConnectedAlone, Works, Untouched, RegisterRecv, Others, Moves,
           GoesHome, Rests
<1>6. StartedAlone'
    BY <1>0 DEF IInv, StartedAlone, Works, Begins, Untouched, RegisterRecv, Others, Moves,
           GoesHome, Rests
<1>7. Linked'
    BY <1>0 DEF IInv, Linked, Ends, Ended, RegisterRecv, Others, Moves, GoesHome, Rests
<1>8. Leaving'
    BY <1>0 DEF IInv, Leaving, Ends, RegisterRecv, Others, Moves, GoesHome, Rests
<1>9. Ending'
    BY <1>0 DEF IInv, Ending, Ends, RegisterRecv, Others, Moves, GoesHome, Rests
<1>10. Receiving'
    BY <1>0 DEF IInv, Receiving, EventsAreOwned, Receives, RegisterRecv, Others, Moves,
           GoesHome, Rests
<1>11. Accepting'
    BY <1>0 DEF IInv, Accepting, NoneLost, NoneLeft, Ended, RegisterRecv, Others,
           Moves, GoesHome, Rests
<1> QED BY <1>1, <1>2, <1>3, <1>4, <1>5, <1>6, <1>7, <1>8, <1>9, <1>10, <1>11 DEF IInv

LEMMA WSARecvStep ==
  ASSUME IInv, NEW t \in Threads, WSARecv(t)
  PROVE  IInv'
<1>0. GoesHome(t)
    BY WorkSteps DEF IInv, WSARecv
<1>1. TypeOK'
    BY DEF IInv, TypeOK, Labels, Idle, Task, WSARecv, Finish, GoHome, Goto
<1>2. Halting'
    BY <1>0 DEF IInv, Halting, Ended, WSARecv, Others, GoesHome, Moves, Rests
<1>3. Fresh'
    BY <1>0 DEF IInv, Fresh, Works, WSARecv, Others, GoesHome, Moves, Rests
<1>4. AcceptedAlone'
    BY <1>0 DEF IInv, AcceptedAlone, Works, Untouched, WSARecv, Others, GoesHome, Moves,
           Rests
<1>5. ConnectedAlone'
    BY <1>0 DEF IInv, ConnectedAlone, Works, Untouched, WSARecv, Others, GoesHome, Moves,
           Rests
<1>6. StartedAlone'
    BY <1>0 DEF IInv, StartedAlone, Works, Begins, Untouched, WSARecv, Others, GoesHome,
           Moves, Rests
<1>7. Linked'
    BY <1>0 DEF IInv, Linked, Ends, Ended, WSARecv, Others, GoesHome, Moves, Rests
<1>8. Leaving'
    BY <1>0 DEF IInv, Leaving, Ends, WSARecv, Others, GoesHome, Moves, Rests
<1>9. Ending'
    BY <1>0 DEF IInv, Ending, Ends, WSARecv, Others, GoesHome, Moves, Rests
<1>10. Receiving'
    BY <1>0 DEF IInv, Receiving, EventsAreOwned, Receives, WSARecv, Others, GoesHome, Moves,
           Rests
<1>11. Accepting'
    BY <1>0 DEF IInv, Accepting, NoneLost, NoneLeft, Ended, WSARecv, Others, GoesHome,
           Moves, Rests
<1> QED BY <1>1, <1>2, <1>3, <1>4, <1>5, <1>6, <1>7, <1>8, <1>9, <1>10, <1>11 DEF IInv

LEMMA WSARecvFailsStep ==
  ASSUME IInv, NEW t \in Threads, WSARecvFails(t)
  PROVE  IInv'
<1>0. GoesHome(t)
    BY WorkSteps DEF IInv, WSARecvFails
<1>1. TypeOK'
    BY DEF IInv, TypeOK, Labels, Idle, Task, WSARecvFails, Finish, GoHome, Goto
<1>2. Halting'
    BY <1>0 DEF IInv, Halting, Ended, WSARecvFails, Others, GoesHome, Moves, Rests
<1>3. Fresh'
    BY <1>0 DEF IInv, Fresh, Works, WSARecvFails, Others, GoesHome, Moves, Rests
<1>4. AcceptedAlone'
    BY <1>0 DEF IInv, AcceptedAlone, Works, Untouched, WSARecvFails, Others, GoesHome,
           Moves, Rests
<1>5. ConnectedAlone'
    BY <1>0 DEF IInv, ConnectedAlone, Works, Untouched, WSARecvFails, Others, GoesHome,
           Moves, Rests
<1>6. StartedAlone'
    BY <1>0 DEF IInv, StartedAlone, Works, Begins, Untouched, WSARecvFails, Others,
           GoesHome, Moves, Rests
<1>7. Linked'
    BY <1>0 DEF IInv, Linked, Ends, Ended, WSARecvFails, Others, GoesHome, Moves, Rests
<1>8. Leaving'
    BY <1>0 DEF IInv, Leaving, Ends, WSARecvFails, Others, GoesHome, Moves, Rests
<1>9. Ending'
    BY <1>0 DEF IInv, Ending, Ends, WSARecvFails, Others, GoesHome, Moves, Rests
<1>10. Receiving'
    BY <1>0 DEF IInv, Receiving, EventsAreOwned, Receives, WSARecvFails, Others, GoesHome,
           Moves, Rests
<1>11. Accepting'
    BY <1>0 DEF IInv, Accepting, NoneLost, NoneLeft, Ended, WSARecvFails, Others,
           GoesHome, Moves, Rests
<1> QED BY <1>1, <1>2, <1>3, <1>4, <1>5, <1>6, <1>7, <1>8, <1>9, <1>10, <1>11 DEF IInv

LEMMA ProcessRecvStep ==
  ASSUME IInv, NEW w \in Workers, NEW s \in Sessions, ProcessRecv(w, s)
  PROVE  IInv'
<1>0. /\ <<"recv", s>> \in inFlight /\ inFlight' = inFlight \ {<<"recv", s>>}
      /\ owned' = owned \ {<<"recv", s>>} /\ (Takes(w, "onrecv", s, NoEvent) \/ Takes(w, "disconnect", s, NoEvent))
    BY DequeueStep DEF ProcessRecv
<1>1. TypeOK'
    BY DEF IInv, TypeOK, Labels, Idle, Task, ProcessRecv, Dequeue, End
<1>2. Halting'
    BY <1>0 DEF IInv, Halting, Ended, ProcessRecv, Others, Takes
<1>3. Fresh'
    BY <1>0 DEF IInv, Fresh, Works, ProcessRecv, Others, Takes
<1>4. AcceptedAlone'
    BY <1>0 DEF IInv, AcceptedAlone, Works, Untouched, ProcessRecv, Others, Takes
<1>5. ConnectedAlone'
    BY <1>0 DEF IInv, ConnectedAlone, Works, Untouched, ProcessRecv, Others, Takes
<1>6. StartedAlone'
    BY <1>0 DEF IInv, StartedAlone, Works, Begins, Untouched, ProcessRecv, Others, Takes
<1>7. Linked'
    BY <1>0 DEF IInv, Linked, Ends, Ended, ProcessRecv, Others, Takes
<1>8. Leaving'
    BY <1>0 DEF IInv, Leaving, Ends, ProcessRecv, Others, Takes
<1>9. Ending'
    BY <1>0 DEF IInv, Ending, Ends, ProcessRecv, Others, Takes
<1>10. Receiving'
    BY <1>0 DEF IInv, Receiving, EventsAreOwned, Receives, ProcessRecv, Others, Takes
<1>11. Accepting'
    BY <1>0 DEF IInv, Accepting, NoneLost, NoneLeft, Ended, ProcessRecv, Others, Takes
<1> QED BY <1>1, <1>2, <1>3, <1>4, <1>5, <1>6, <1>7, <1>8, <1>9, <1>10, <1>11 DEF IInv

LEMMA OnRecvStep ==
  ASSUME IInv, NEW t \in Threads, OnRecv(t)
  PROVE  IInv'
<1>0. Moves(t, "register", work[t].ret)
    BY WorkSteps DEF IInv, OnRecv
<1>1. TypeOK'
    BY DEF IInv, TypeOK, Labels, Idle, Task, OnRecv, Goto
<1>2. Halting'
    BY <1>0 DEF IInv, Halting, Ended, OnRecv, Others, Moves
<1>3. Fresh'
    BY <1>0 DEF IInv, Fresh, Works, OnRecv, Others, Moves
<1>4. AcceptedAlone'
    BY <1>0 DEF IInv, AcceptedAlone, Works, Untouched, OnRecv, Others, Moves
<1>5. ConnectedAlone'
    BY <1>0 DEF IInv, ConnectedAlone, Works, Untouched, OnRecv, Others, Moves
<1>6. StartedAlone'
    BY <1>0 DEF IInv, StartedAlone, Works, Begins, Untouched, OnRecv, Others, Moves
<1>7. Linked'
    BY <1>0 DEF IInv, Linked, Ends, Ended, OnRecv, Others, Moves
<1>8. Leaving'
    BY <1>0 DEF IInv, Leaving, Ends, OnRecv, Others, Moves
<1>9. Ending'
    BY <1>0 DEF IInv, Ending, Ends, OnRecv, Others, Moves
<1>10. Receiving'
    BY <1>0 DEF IInv, Receiving, EventsAreOwned, Receives, OnRecv, Others, Moves
<1>11. Accepting'
    BY <1>0 DEF IInv, Accepting, NoneLost, NoneLeft, Ended, OnRecv, Others, Moves
<1> QED BY <1>1, <1>2, <1>3, <1>4, <1>5, <1>6, <1>7, <1>8, <1>9, <1>10, <1>11 DEF IInv

LEMMA HandleLogoutStep ==
  ASSUME IInv, NEW t \in Threads, HandleLogout(t)
  PROVE  IInv'
<1>0. work[t].at = "onrecv" /\ Moves(t, "disconnect", "register")
      /\ UNCHANGED <<acceptVars, linkVars, requestVars, listVars>>
    BY DEF IInv, TypeOK, HandleLogout, Moves, Others
<1>1. TypeOK'
  <2>1. [work[t] EXCEPT !.at = "disconnect", !.ret = "register"] \in
          [at : Labels, session : Sessions, event : AcceptEvents \cup {NoEvent},
           ret : {"idle", "register"}]
      BY DEF IInv, TypeOK, Labels
  <2> QED BY <2>1 DEF IInv, TypeOK, HandleLogout
<1>2. Halting'
    BY <1>0 DEF IInv, Halting, Ended, Others, Moves
<1>3. Fresh'
    BY <1>0 DEF IInv, Fresh, Works, Others, Moves
<1>4. AcceptedAlone'
    BY <1>0 DEF IInv, AcceptedAlone, Works, Untouched, Others, Moves
<1>5. ConnectedAlone'
    BY <1>0 DEF IInv, ConnectedAlone, Works, Untouched, Others, Moves
<1>6. StartedAlone'
    BY <1>0 DEF IInv, StartedAlone, Works, Begins, Untouched, Others, Moves
<1>7. Linked'
    BY <1>0 DEF IInv, Linked, Ends, Ended, Others, Moves
<1>8. Leaving'
    BY <1>0 DEF IInv, Leaving, Ends, Others, Moves
<1>9. Ending'
    BY <1>0 DEF IInv, Ending, Ends, Others, Moves
<1>10. Receiving'
    BY <1>0 DEF IInv, Receiving, EventsAreOwned, Receives, Others, Moves
<1>11. Accepting'
    BY <1>0 DEF IInv, Accepting, NoneLost, NoneLeft, Ended, Others, Moves
<1> QED BY <1>1, <1>2, <1>3, <1>4, <1>5, <1>6, <1>7, <1>8, <1>9, <1>10, <1>11 DEF IInv

LEMMA SendStep ==
  ASSUME IInv, NEW s \in Sessions, Send(s)
  PROVE  IInv'
<1>1. TypeOK'
    BY DEF IInv, TypeOK, Labels, Idle, Task, Send
<1>2. Halting'
    BY DEF IInv, Halting, Ended, Send
<1>3. Fresh'
    BY DEF IInv, Fresh, Works, Send
<1>4. AcceptedAlone'
    BY DEF IInv, AcceptedAlone, Works, Untouched, Send
<1>5. ConnectedAlone'
    BY DEF IInv, ConnectedAlone, Works, Untouched, Send
<1>6. StartedAlone'
    BY DEF IInv, StartedAlone, Works, Begins, Untouched, Send
<1>7. Linked'
    BY DEF IInv, Linked, Ends, Ended, Send
<1>8. Leaving'
    BY DEF IInv, Leaving, Ends, Send
<1>9. Ending'
    BY DEF IInv, Ending, Ends, Send
<1>10. Receiving'
    BY DEF IInv, Receiving, EventsAreOwned, Receives, Send
<1>11. Accepting'
    BY DEF IInv, Accepting, NoneLost, NoneLeft, Ended, Send
<1> QED BY <1>1, <1>2, <1>3, <1>4, <1>5, <1>6, <1>7, <1>8, <1>9, <1>10, <1>11 DEF IInv

LEMMA ProcessSendStep ==
  ASSUME IInv, NEW w \in Workers, NEW s \in Sessions, ProcessSend(w, s)
  PROVE  IInv'
<1>0. /\ <<"send", s>> \in inFlight /\ inFlight' = inFlight \ {<<"send", s>>}
      /\ owned' = owned \ {<<"send", s>>} /\ Rests(w) /\ work[w] = Idle /\ work[w].at = "idle"
    BY DequeueStep DEF ProcessSend
<1>1. TypeOK'
    BY DEF IInv, TypeOK, Labels, Idle, Task, ProcessSend, Dequeue, End
<1>2. Halting'
    BY <1>0 DEF IInv, Halting, Ended, ProcessSend, Others, Rests
<1>3. Fresh'
    BY <1>0 DEF IInv, Fresh, Works, ProcessSend, Others, Rests
<1>4. AcceptedAlone'
    BY <1>0 DEF IInv, AcceptedAlone, Works, Untouched, ProcessSend, Others, Rests
<1>5. ConnectedAlone'
    BY <1>0 DEF IInv, ConnectedAlone, Works, Untouched, ProcessSend, Others, Rests
<1>6. StartedAlone'
    BY <1>0 DEF IInv, StartedAlone, Works, Begins, Untouched, ProcessSend, Others, Rests
<1>7. Linked'
    BY <1>0 DEF IInv, Linked, Ends, Ended, ProcessSend, Others, Rests
<1>8. Leaving'
    BY <1>0 DEF IInv, Leaving, Ends, ProcessSend, Others, Rests
<1>9. Ending'
    BY <1>0 DEF IInv, Ending, Ends, ProcessSend, Others, Rests
<1>10. Receiving'
    BY <1>0 DEF IInv, Receiving, EventsAreOwned, Receives, ProcessSend, Others, Rests
<1>11. Accepting'
    BY <1>0 DEF IInv, Accepting, NoneLost, NoneLeft, Ended, ProcessSend, Others, Rests
<1> QED BY <1>1, <1>2, <1>3, <1>4, <1>5, <1>6, <1>7, <1>8, <1>9, <1>10, <1>11 DEF IInv

LEMMA ProcessSendOfNothingStep ==
  ASSUME IInv, NEW w \in Workers, NEW s \in Sessions, ProcessSendOfNothing(w, s)
  PROVE  IInv'
<1>0. /\ <<"send", s>> \in inFlight /\ inFlight' = inFlight \ {<<"send", s>>}
      /\ owned' = owned \ {<<"send", s>>} /\ Takes(w, "disconnect", s, NoEvent)
    BY DequeueStep DEF ProcessSendOfNothing
<1>1. TypeOK'
    BY DEF IInv, TypeOK, Labels, Idle, Task, ProcessSendOfNothing, Dequeue, End
<1>2. Halting'
    BY <1>0 DEF IInv, Halting, Ended, ProcessSendOfNothing, Others, Takes
<1>3. Fresh'
    BY <1>0 DEF IInv, Fresh, Works, ProcessSendOfNothing, Others, Takes
<1>4. AcceptedAlone'
    BY <1>0 DEF IInv, AcceptedAlone, Works, Untouched, ProcessSendOfNothing, Others, Takes
<1>5. ConnectedAlone'
    BY <1>0 DEF IInv, ConnectedAlone, Works, Untouched, ProcessSendOfNothing, Others, Takes
<1>6. StartedAlone'
    BY <1>0 DEF IInv, StartedAlone, Works, Begins, Untouched, ProcessSendOfNothing, Others,
           Takes
<1>7. Linked'
    BY <1>0 DEF IInv, Linked, Ends, Ended, ProcessSendOfNothing, Others, Takes
<1>8. Leaving'
    BY <1>0 DEF IInv, Leaving, Ends, ProcessSendOfNothing, Others, Takes
<1>9. Ending'
    BY <1>0 DEF IInv, Ending, Ends, ProcessSendOfNothing, Others, Takes
<1>10. Receiving'
    BY <1>0 DEF IInv, Receiving, EventsAreOwned, Receives, ProcessSendOfNothing, Others,
           Takes
<1>11. Accepting'
    BY <1>0 DEF IInv, Accepting, NoneLost, NoneLeft, Ended, ProcessSendOfNothing,
           Others, Takes
<1> QED BY <1>1, <1>2, <1>3, <1>4, <1>5, <1>6, <1>7, <1>8, <1>9, <1>10, <1>11 DEF IInv

LEMMA DisconnectStep ==
  ASSUME IInv, NEW t \in Threads, Disconnect(t)
  PROVE  IInv'
<1>0. \/ m_bConnected[work[t].session] /\ Moves(t, "disconnectex", work[t].ret)
      \/ ~m_bConnected[work[t].session] /\ GoesBack(t)
    BY WorkSteps DEF IInv, Disconnect
<1>1. TypeOK'
    BY DEF IInv, TypeOK, Labels, Idle, Task, Disconnect, Finish, Goto, Return
<1>2. Halting'
    BY <1>0 DEF IInv, Halting, Ended, Disconnect, Others, Moves, GoesBack, Rests
<1>3. Fresh'
    BY <1>0 DEF IInv, Fresh, Works, Disconnect, Others, Moves, GoesBack, Rests
<1>4. AcceptedAlone'
    BY <1>0 DEF IInv, AcceptedAlone, Works, Untouched, Disconnect, Others, Moves, GoesBack,
           Rests
<1>5. ConnectedAlone'
    BY <1>0 DEF IInv, ConnectedAlone, Works, Untouched, Disconnect, Others, Moves, GoesBack,
           Rests
<1>6. StartedAlone'
    BY <1>0 DEF IInv, StartedAlone, Works, Begins, Untouched, Disconnect, Others, Moves,
           GoesBack, Rests
<1>7. Linked'
    BY <1>0 DEF IInv, TypeOK, Linked, Ends, Ended, Disconnect, Others, Moves, GoesBack,
           Rests
<1>8. Leaving'
    BY <1>0 DEF IInv, TypeOK, Halting, StartedAlone, Linked, Leaving, Ending, Ends,
           Disconnect, Others, Moves, GoesBack, Rests
<1>9. Ending'
  <2>1. CASE m_bConnected[work[t].session] /\ Moves(t, "disconnectex", work[t].ret)
    <3> DEFINE s == work[t].session
    <3>1. \A u \in Threads : Works(u) /\ Begins(u) /\ work[u].session = s => FALSE
        BY DEF IInv, StartedAlone, Works, Begins, Disconnect
    <3>2. work[t].at = "disconnect" /\ m_bConnected[s] /\ s \in Sessions
        BY <2>1 DEF IInv, TypeOK, Disconnect
    <3>3. ~Ended
        BY <3>2 DEF IInv, Halting
    <3>4. ~\E u \in Threads : work[u].at = "add" /\ work[u].session = s
        BY <3>1 DEF Works, Begins
    <3>5. /\ s \in m_serverSessions /\ s \notin told
          /\ \A u \in Threads : Ends(u) => work[u].session # s
        BY <3>2, <3>3, <3>4 DEF IInv, Linked
    <3> QED BY <2>1, <3>2, <3>5 DEF IInv, Ending, Ends, Moves, Others, Disconnect
  <2>2. CASE GoesBack(t)
      BY <2>2 DEF IInv, Ending, Ends, GoesBack, Rests, Moves, Others, Disconnect
  <2> QED BY <1>0, <2>1, <2>2
<1>10. Receiving'
    BY <1>0 DEF IInv, Receiving, EventsAreOwned, Receives, Disconnect, Others, Moves,
           GoesBack, Rests
<1>11. Accepting'
    BY <1>0 DEF IInv, Accepting, NoneLost, NoneLeft, Ended, Disconnect, Others, Moves,
           GoesBack, Rests
<1> QED BY <1>1, <1>2, <1>3, <1>4, <1>5, <1>6, <1>7, <1>8, <1>9, <1>10, <1>11 DEF IInv

LEMMA RegisterDisconnectStep ==
  ASSUME IInv, NEW t \in Threads, RegisterDisconnect(t)
  PROVE  IInv'
<1>0. GoesBack(t)
    BY WorkSteps DEF IInv, RegisterDisconnect
<1>1. TypeOK'
    BY DEF IInv, TypeOK, Labels, Idle, Task, RegisterDisconnect, Finish, Return
<1>2. Halting'
    BY <1>0 DEF IInv, Halting, Ended, RegisterDisconnect, Others, GoesBack, Moves, Rests
<1>3. Fresh'
    BY <1>0 DEF IInv, Fresh, Works, RegisterDisconnect, Others, GoesBack, Moves, Rests
<1>4. AcceptedAlone'
    BY <1>0 DEF IInv, AcceptedAlone, Works, Untouched, RegisterDisconnect, Others, GoesBack,
           Moves, Rests
<1>5. ConnectedAlone'
    BY <1>0 DEF IInv, ConnectedAlone, Works, Untouched, RegisterDisconnect, Others,
           GoesBack, Moves, Rests
<1>6. StartedAlone'
    BY <1>0 DEF IInv, StartedAlone, Works, Begins, Untouched, RegisterDisconnect, Others,
           GoesBack, Moves, Rests
<1>7. Linked'
    BY <1>0 DEF IInv, Linked, Ends, Ended, RegisterDisconnect, Others, GoesBack, Moves,
           Rests
<1>8. Leaving'
    BY <1>0 DEF IInv, TypeOK, Halting, StartedAlone, Linked, Leaving, Ending, Ends,
           RegisterDisconnect, Others, GoesBack, Moves, Rests
<1>9. Ending'
    BY <1>0 DEF IInv, Ending, Ends, RegisterDisconnect, Others, GoesBack, Moves, Rests
<1>10. Receiving'
    BY <1>0 DEF IInv, Receiving, EventsAreOwned, Receives, RegisterDisconnect, Others,
           GoesBack, Moves, Rests
<1>11. Accepting'
    BY <1>0 DEF IInv, Accepting, NoneLost, NoneLeft, Ended, RegisterDisconnect,
           Others, GoesBack, Moves, Rests
<1> QED BY <1>1, <1>2, <1>3, <1>4, <1>5, <1>6, <1>7, <1>8, <1>9, <1>10, <1>11 DEF IInv

LEMMA DisconnectExFailsStep ==
  ASSUME IInv, NEW t \in Threads, DisconnectExFails(t)
  PROVE  IInv'
<1>0. GoesBack(t)
    BY WorkSteps DEF IInv, DisconnectExFails
<1>1. TypeOK'
    BY DEF IInv, TypeOK, Labels, Idle, Task, DisconnectExFails, Finish, Return
<1>2. Halting'
    BY <1>0 DEF IInv, Halting, Ended, DisconnectExFails, Others, GoesBack, Moves, Rests
<1>3. Fresh'
    BY <1>0 DEF IInv, Fresh, Works, DisconnectExFails, Others, GoesBack, Moves, Rests
<1>4. AcceptedAlone'
    BY <1>0 DEF IInv, AcceptedAlone, Works, Untouched, DisconnectExFails, Others, GoesBack,
           Moves, Rests
<1>5. ConnectedAlone'
    BY <1>0 DEF IInv, ConnectedAlone, Works, Untouched, DisconnectExFails, Others, GoesBack,
           Moves, Rests
<1>6. StartedAlone'
    BY <1>0 DEF IInv, StartedAlone, Works, Begins, Untouched, DisconnectExFails, Others,
           GoesBack, Moves, Rests
<1>7. Linked'
    BY <1>0 DEF IInv, Linked, Ends, Ended, DisconnectExFails, Others, GoesBack, Moves, Rests
<1>8. Leaving'
    BY <1>0 DEF IInv, Leaving, Ends, DisconnectExFails, Others, GoesBack, Moves, Rests
<1>9. Ending'
    BY <1>0 DEF IInv, Ending, Ends, DisconnectExFails, Others, GoesBack, Moves, Rests
<1>10. Receiving'
    BY <1>0 DEF IInv, Receiving, EventsAreOwned, Receives, DisconnectExFails, Others,
           GoesBack, Moves, Rests
<1>11. Accepting'
    BY <1>0 DEF IInv, Accepting, NoneLost, NoneLeft, Ended, DisconnectExFails, Others,
           GoesBack, Moves, Rests
<1> QED BY <1>1, <1>2, <1>3, <1>4, <1>5, <1>6, <1>7, <1>8, <1>9, <1>10, <1>11 DEF IInv

LEMMA ProcessDisconnectStep ==
  ASSUME IInv, NEW w \in Workers, NEW s \in Sessions, ProcessDisconnect(w, s)
  PROVE  IInv'
<1>0. /\ <<"disconnect", s>> \in inFlight /\ inFlight' = inFlight \ {<<"disconnect", s>>}
      /\ owned' = owned \ {<<"disconnect", s>>} /\ Takes(w, "release", s, NoEvent)
    BY DequeueStep DEF ProcessDisconnect
<1>1. TypeOK'
    BY DEF IInv, TypeOK, Labels, Idle, Task, ProcessDisconnect, Dequeue, End
<1>2. Halting'
    BY <1>0 DEF IInv, Halting, Ended, ProcessDisconnect, Others, Takes
<1>3. Fresh'
    BY <1>0 DEF IInv, Fresh, Works, ProcessDisconnect, Others, Takes
<1>4. AcceptedAlone'
    BY <1>0 DEF IInv, AcceptedAlone, Works, Untouched, ProcessDisconnect, Others, Takes
<1>5. ConnectedAlone'
    BY <1>0 DEF IInv, ConnectedAlone, Works, Untouched, ProcessDisconnect, Others, Takes
<1>6. StartedAlone'
    BY <1>0 DEF IInv, StartedAlone, Works, Begins, Untouched, ProcessDisconnect, Others,
           Takes
<1>7. Linked'
    BY <1>0 DEF IInv, Linked, Ends, Ended, ProcessDisconnect, Others, Takes
<1>8. Leaving'
    BY <1>0 DEF IInv, Leaving, Ends, ProcessDisconnect, Others, Takes
<1>9. Ending'
    BY <1>0 DEF IInv, TypeOK, Halting, StartedAlone, Linked, Leaving, Ending, Ends,
           ProcessDisconnect, Others, Takes
<1>10. Receiving'
    BY <1>0 DEF IInv, Receiving, EventsAreOwned, Receives, ProcessDisconnect, Others, Takes
<1>11. Accepting'
    BY <1>0 DEF IInv, Accepting, NoneLost, NoneLeft, Ended, ProcessDisconnect, Others,
           Takes
<1> QED BY <1>1, <1>2, <1>3, <1>4, <1>5, <1>6, <1>7, <1>8, <1>9, <1>10, <1>11 DEF IInv

LEMMA ReleaseSessionStep ==
  ASSUME IInv, NEW t \in Threads, ReleaseSession(t)
  PROVE  IInv'
<1>0. Rests(t)
    BY WorkSteps DEF IInv, ReleaseSession
<1>1. TypeOK'
    BY DEF IInv, TypeOK, Labels, Idle, Task, ReleaseSession, Finish
<1>2. Halting'
    BY <1>0 DEF IInv, Halting, Ended, ReleaseSession, Others, Rests
<1>3. Fresh'
    BY <1>0 DEF IInv, Fresh, Works, ReleaseSession, Others, Rests
<1>4. AcceptedAlone'
    BY <1>0 DEF IInv, AcceptedAlone, Works, Untouched, ReleaseSession, Others, Rests
<1>5. ConnectedAlone'
    BY <1>0 DEF IInv, ConnectedAlone, Works, Untouched, ReleaseSession, Others, Rests
<1>6. StartedAlone'
    BY <1>0 DEF IInv, StartedAlone, Works, Begins, Untouched, ReleaseSession, Others, Rests
<1>7. Linked'
    BY <1>0 DEF IInv, Linked, Ends, Ended, ReleaseSession, Others, Rests
<1>8. Leaving'
    BY <1>0 DEF IInv, Leaving, Ends, ReleaseSession, Others, Rests
<1>9. Ending'
    BY <1>0 DEF IInv, Ending, Ends, ReleaseSession, Others, Rests
<1>10. Receiving'
    BY <1>0 DEF IInv, Receiving, EventsAreOwned, Receives, ReleaseSession, Others, Rests
<1>11. Accepting'
    BY <1>0 DEF IInv, Accepting, NoneLost, NoneLeft, Ended, ReleaseSession, Others,
           Rests
<1> QED BY <1>1, <1>2, <1>3, <1>4, <1>5, <1>6, <1>7, <1>8, <1>9, <1>10, <1>11 DEF IInv

LEMMA PeerClosesStep ==
  ASSUME IInv, NEW s \in Sessions, PeerCloses(s)
  PROVE  IInv'
<1>1. TypeOK'
    BY DEF IInv, TypeOK, Labels, Idle, Task, PeerCloses
<1>2. Halting'
    BY DEF IInv, Halting, Ended, PeerCloses
<1>3. Fresh'
    BY DEF IInv, Fresh, Works, PeerCloses
<1>4. AcceptedAlone'
    BY DEF IInv, AcceptedAlone, Works, Untouched, PeerCloses
<1>5. ConnectedAlone'
    BY DEF IInv, ConnectedAlone, Works, Untouched, PeerCloses
<1>6. StartedAlone'
    BY DEF IInv, StartedAlone, Works, Begins, Untouched, PeerCloses
<1>7. Linked'
    BY DEF IInv, Linked, Ends, Ended, PeerCloses
<1>8. Leaving'
    BY DEF IInv, Leaving, Ends, PeerCloses
<1>9. Ending'
    BY DEF IInv, Ending, Ends, PeerCloses
<1>10. Receiving'
    BY DEF IInv, Receiving, EventsAreOwned, Receives, PeerCloses
<1>11. Accepting'
    BY DEF IInv, Accepting, NoneLost, NoneLeft, Ended, PeerCloses
<1> QED BY <1>1, <1>2, <1>3, <1>4, <1>5, <1>6, <1>7, <1>8, <1>9, <1>10, <1>11 DEF IInv
-----------------------------------------------------------------------------
LEMMA InitInv == Init => IInv
<1> SUFFICES ASSUME Init PROVE IInv
    OBVIOUS
<1>1. \A t \in Threads : work[t] = Idle /\ work[t].at = "idle" /\ work[t].event = NoEvent
    BY DEF Init, Idle, Task
<1>2. TypeOK
    BY DEF Init, TypeOK, Idle, Task, Labels
<1>3. Halting /\ Fresh /\ AcceptedAlone /\ ConnectedAlone /\ StartedAlone
    BY <1>1 DEF Init, Halting, Ended, Fresh, Works, AcceptedAlone, ConnectedAlone,
                StartedAlone, Begins
<1>4. Linked /\ Leaving /\ Ending
    BY <1>1 DEF Init, Linked, Leaving, Ending, Ends
<1>5. Receiving
    BY <1>1 DEF Init, Receiving, EventsAreOwned, Receives
<1>6. Accepting
    BY <1>1 DEF Init, Accepting, NoneLost
<1> QED BY <1>2, <1>3, <1>4, <1>5, <1>6 DEF IInv

LEMMA RunsStep ==
  ASSUME IInv, NEW t \in Threads, Runs(t)
  PROVE  IInv'
<1>1. CASE \E s \in Sessions : RegisterAccept(t, s) \/ RegisterAcceptFails(t, s)
    BY <1>1, RegisterAcceptStep, RegisterAcceptFailsStep
<1>2. CASE \E e \in AcceptEvents : t = Starter /\ StartAccept(e)
    BY <1>2, StartAcceptStep
<1> QED BY <1>1, <1>2, NoSessionLeftStep, ProcessConnectStep, AddSessionStep, RegisterRecvStep,
           WSARecvStep, WSARecvFailsStep, OnRecvStep, HandleLogoutStep, DisconnectStep,
           RegisterDisconnectStep, DisconnectExFailsStep, ReleaseSessionStep DEF Runs

LEMMA NextInv == IInv /\ [Next]_vars => IInv'
<1> SUFFICES ASSUME IInv, [Next]_vars PROVE IInv'
    OBVIOUS
<1>1. CASE UNCHANGED vars
  <2>1. TypeOK' /\ Halting' /\ Fresh' /\ AcceptedAlone' /\ ConnectedAlone'
      BY <1>1 DEF IInv, TypeOK, Halting, Ended, Fresh, AcceptedAlone, ConnectedAlone,
                  Untouched, Works, vars
  <2>2. StartedAlone' /\ Linked' /\ Leaving' /\ Ending'
      BY <1>1 DEF IInv, StartedAlone, Linked, Leaving, Ending, Untouched, Works, Begins,
                  Ends, Ended, vars
  <2>3. Receiving' /\ Accepting'
      BY <1>1 DEF IInv, Receiving, EventsAreOwned, Receives, Accepting, NoneLost,
                  NoneLeft, Ended, vars
  <2> QED BY <2>1, <2>2, <2>3 DEF IInv
<1>2. CASE \E t \in Threads : Runs(t) \/ CreateSessionFails(t)
    BY <1>2, RunsStep, CreateSessionFailsStep
<1>3. CASE \E w \in Workers, s \in Sessions : Completes(w, s)
    BY <1>3, DispatchConnectStep, ProcessRecvStep, ProcessSendStep, ProcessSendOfNothingStep,
       ProcessDisconnectStep DEF Completes
<1>4. CASE \E w \in Workers, e \in AcceptEvents : ProcessAccept(w, e) \/ ProcessAcceptFails(w, e)
    BY <1>4, ProcessAcceptStep, ProcessAcceptFailsStep
<1>5. CASE \E s \in Sessions :
        ConnectNewSession(s) \/ ConnectNewSessionFails(s) \/ Send(s) \/ PeerCloses(s)
    BY <1>5, ConnectNewSessionStep, ConnectNewSessionFailsStep, SendStep, PeerClosesStep
<1> QED BY <1>1, <1>2, <1>3, <1>4, <1>5 DEF Next

\* The invariant the others follow from.
THEOREM Invariance == Spec => []IInv
    BY InitInv, NextInv, PTL DEF Spec

\* Every variable of an IocpService, its listener and its sessions keeps its type.
THEOREM TypeCorrect == Spec => []TypeOK
<1>1. IInv => TypeOK
    BY DEF IInv
<1> QED BY <1>1, Invariance, PTL

\* A request in flight names its owner, and one worker at a time has the
\* receive event and the receive buffer of an IocpSession.
THEOREM EventsAreOwnedAlways == Spec => []EventsAreOwned
<1>1. IInv => EventsAreOwned
    BY DEF IInv, Receiving
<1> QED BY <1>1, Invariance, PTL

\* IocpListener loses none of its accept events and registers none of them
\* twice, whatever fails.
THEOREM AcceptsAreKeptAlways == Spec => []AcceptsAreKept
<1>1. IInv => AcceptsAreKept
    BY DEF IInv, Accepting, AcceptedAlone, NoneLost, AcceptsAreKept
<1> QED BY <1>1, Invariance, PTL
-----------------------------------------------------------------------------
lifeVars == <<[l \in {0} |-> m_serverSessions], told, [l \in {0} |-> m_sessionCnt]>>

LEMMA EnlistStep == ASSUME IInv, NEW t \in Threads, AddSession(t) PROVE Life!Next
<1> DEFINE s == work[t].session
<1>1. s \in Sessions /\ s \notin m_serverSessions /\ s \notin told
    BY DEF IInv, TypeOK, StartedAlone, Begins, Untouched, AddSession
<1>2. Life!Enlist(0, s)
    BY <1>1 DEF AddSession, Life!Enlist
<1> QED BY <1>1, <1>2 DEF Life!Next

LEMMA TellStep ==
  ASSUME IInv, NEW w \in Workers, NEW s \in Sessions, ProcessDisconnect(w, s)
  PROVE  Life!Next
<1>1. s \in m_serverSessions /\ s \notin told
    BY DEF IInv, Leaving, ProcessDisconnect, Dequeue
<1>2. Life!Tell(0, s)
    BY <1>1 DEF ProcessDisconnect, Life!Tell
<1> QED BY <1>2 DEF Life!Next

LEMMA ReleaseStep == ASSUME IInv, NEW t \in Threads, ReleaseSession(t) PROVE Life!Next
<1> DEFINE s == work[t].session
<1>1. s \in Sessions /\ s \in m_serverSessions /\ s \in told
    BY DEF IInv, TypeOK, Ending, Ends, ReleaseSession
<1>2. Life!Release(0, s)
    BY <1>1 DEF ReleaseSession, Life!Release
<1> QED BY <1>1, <1>2 DEF Life!Next

LEMMA LifeStep == IInv /\ [Next]_vars => [Life!Next]_lifeVars
<1> SUFFICES ASSUME IInv, [Next]_vars PROVE Life!Next \/ UNCHANGED lifeVars
    OBVIOUS
<1> DEFINE Same == UNCHANGED <<m_serverSessions, m_sessionCnt, told>>
<1>1. Same => UNCHANGED lifeVars
    BY DEF lifeVars
<1>2. ASSUME NEW t \in Threads, Runs(t) \/ CreateSessionFails(t)
      PROVE  Life!Next \/ Same
    BY <1>2, EnlistStep, ReleaseStep
    DEF Runs, CreateSessionFails, StartAccept, RegisterAccept, RegisterAcceptFails, NoSessionLeft,
        ProcessConnect, RegisterRecv, WSARecv, WSARecvFails, OnRecv, HandleLogout, Disconnect,
        RegisterDisconnect, DisconnectExFails
<1>3. ASSUME NEW w \in Workers, NEW s \in Sessions, Completes(w, s)
      PROVE  Life!Next \/ Same
    BY <1>3, TellStep
    DEF Completes, DispatchConnect, ProcessRecv, ProcessSend, ProcessSendOfNothing
<1>4. ASSUME NEW w \in Workers, NEW e \in AcceptEvents, ProcessAccept(w, e) \/ ProcessAcceptFails(w, e)
      PROVE  Same
    BY <1>4 DEF ProcessAccept, ProcessAcceptFails
<1>5. ASSUME NEW s \in Sessions,
             ConnectNewSession(s) \/ ConnectNewSessionFails(s) \/ Send(s) \/ PeerCloses(s)
      PROVE  Same
    BY <1>5 DEF ConnectNewSession, ConnectNewSessionFails, Send, PeerCloses
<1>6. CASE UNCHANGED vars
    BY <1>1, <1>6 DEF vars
<1> QED BY <1>1, <1>2, <1>3, <1>4, <1>5, <1>6 DEF Next

\* An IocpService keeps its sessions as SessionLife says: each is listed once,
\* told of its end once, by the completion of DisconnectEx, and then dropped.
THEOREM Refinement == Spec => LifeSpec
<1>1. Init => Life!Init
    BY DEF Init, Life!Init
<1>2. IInv /\ [Next]_vars => [Life!Next]_(Life!lifeVars)
    BY LifeStep DEF lifeVars, Life!lifeVars
<1> QED BY <1>1, <1>2, Invariance, PTL DEF Spec, LifeSpec, Life!Spec
=============================================================================
