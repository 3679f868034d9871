-------------------------- MODULE IocpSend_proofs --------------------------
(***************************************************************************)
(* Theorems about IocpSend, for every set of threads and every number of   *)
(* messages.                                                               *)
(***************************************************************************)
EXTENDS IocpSend, SequenceTheorems, TLAPS

\* The buffer of m_sendEvent is filled between the drain and the completion
\* only, and its owner is set before; a sender gives up after a failure only.
EventInUse ==
    /\ m_sendBuffer = <<>> \/ pending # "none" \/ (\E t \in Threads : pc[t] = "wsasend")
    /\ \A t \in Threads : pc[t] \in {"drain", "wsasend"} => m_owner
    /\ \A t \in Threads : pc[t] = "unregister" => failed

IInv == TypeOK /\ OneSender /\ EventInUse /\ NoneLeftBehind /\ StreamIntact

Numbers(n) == [i \in 1 .. n |-> i - 1]

LEMMA InitIInv == Init => IInv
<1> SUFFICES ASSUME Init PROVE IInv
  OBVIOUS
<1>1. TypeOK
  <2>1. InFlight = <<>> /\ Len(InFlight) = 0 /\ <<>> \in Seq(Nat)
    BY DEF Init, InFlight
  <2>2. pc \in [Threads -> Labels]
    BY DEF Init, Labels
  <2>3. Len(wire) + Len(InFlight) + Len(m_sendBufferQueue) <= pushed
    BY <2>1 DEF Init
  <2>4. QED
    BY <2>1, <2>2, <2>3 DEF Init, TypeOK
<1>2. OneSender /\ EventInUse /\ NoneLeftBehind
  BY DEF Init, OneSender, Sender, EventInUse, NoneLeftBehind
<1>3. StreamIntact
  BY DEF Init, StreamIntact, InFlight
<1>4. QED
  BY <1>1, <1>2, <1>3 DEF IInv

\* Where a sender is between its completion and its next drain, or gives up,
\* the buffer is empty.
LEMMA BufferIsEmpty ==
    ASSUME IInv, NEW t \in Threads, pc[t] \in {"register", "drain", "unregister", "check"}
    PROVE  m_sendBuffer = <<>> /\ pending = "none"
  BY DEF IInv, OneSender, Sender, EventInUse

\* Appending and chaining commute; the first numbers grow by the next one.
LEMMA AppendConcat ==
    ASSUME NEW p \in Seq(Nat), NEW q \in Seq(Nat), NEW n \in Nat
    PROVE  p \o Append(q, n) = Append(p \o q, n)
  OBVIOUS

LEMMA NumbersGrow ==
    ASSUME NEW n \in Nat
    PROVE  Append(Numbers(n), n) = Numbers(n + 1)
<1>1. Numbers(n) \in Seq(Nat) /\ Len(Numbers(n)) = n
  BY DEF Numbers
<1>2. /\ Append(Numbers(n), n) \in Seq(Nat)
      /\ Len(Append(Numbers(n), n)) = n + 1
      /\ \A i \in 1 .. n : Append(Numbers(n), n)[i] = Numbers(n)[i]
      /\ Append(Numbers(n), n)[n + 1] = n
  BY <1>1, AppendProperties
<1>3. Numbers(n + 1) \in Seq(Nat) /\ Len(Numbers(n + 1)) = n + 1
  BY DEF Numbers
<1>4. \A i \in 1 .. n + 1 : Append(Numbers(n), n)[i] = Numbers(n + 1)[i]
  BY <1>2 DEF Numbers
<1>5. QED
  BY <1>2, <1>3, <1>4, SeqEqual

\* Queueing one more extends the stream by its number.
LEMMA StreamGrows ==
    ASSUME NEW p \in Seq(Nat), NEW q \in Seq(Nat), NEW n \in Nat,
           p \o q = Numbers(n)
    PROVE  p \o Append(q, n) = Numbers(n + 1)
<1>1. p \o Append(q, n) = Append(Numbers(n), n)
  BY AppendConcat
<1>2. QED
  BY <1>1, NumbersGrow

LEMMA StepIInv == IInv /\ [Next]_vars => IInv'
<1> SUFFICES ASSUME IInv, [Next]_vars PROVE IInv'
  OBVIOUS
<1> USE DEF IInv
<1>1. ASSUME NEW t \in Threads, Send(t) PROVE IInv'
  <2>1. TypeOK'
    BY <1>1 DEF Send, Goto, TypeOK, Labels, InFlight
  <2>2. OneSender'
    BY <1>1 DEF Send, Goto, TypeOK, OneSender, Sender
  <2>3. EventInUse'
    BY <1>1 DEF Send, Goto, TypeOK, OneSender, Sender, EventInUse
  <2>4. NoneLeftBehind'
    BY <1>1 DEF Send, Goto, NoneLeftBehind, OneSender, Sender
  <2>5. StreamIntact'
    BY <1>1 DEF Send, Goto, StreamIntact, InFlight
  <2>6. QED
    BY <2>1, <2>2, <2>3, <2>4, <2>5
<1>2. ASSUME NEW t \in Threads, Push(t) PROVE IInv'
  <2>1. /\ pc[t] = "push" /\ pushed \in Nat /\ m_sendBufferQueue \in Seq(Nat)
        /\ wire \in Seq(Nat) /\ InFlight \in Seq(Nat) /\ pc \in [Threads -> Labels]
        /\ m_sendBufferQueue' = Append(m_sendBufferQueue, pushed)
        /\ pushed' = pushed + 1 /\ m_bSendRegistered' = TRUE
        /\ pc' = [pc EXCEPT ![t] = IF m_bSendRegistered THEN "idle" ELSE "register"]
        /\ UNCHANGED <<m_bConnected, m_owner, m_sendBuffer, pending, wire, failed, refused>>
        /\ InFlight' = InFlight
    BY <1>2 DEF Push, AfterPush, Goto, TypeOK, InFlight
  <2>2. TypeOK'
    <3>1. pc' \in [Threads -> Labels]
      BY <2>1 DEF Labels
    <3>2. /\ m_sendBufferQueue' \in Seq(Nat)
          /\ Len(m_sendBufferQueue') = Len(m_sendBufferQueue) + 1
      BY <2>1, AppendProperties
    <3>3. Len(wire') + Len(InFlight') + Len(m_sendBufferQueue') <= pushed'
      BY <2>1, <3>2 DEF TypeOK
    <3>4. QED
      BY <2>1, <3>1, <3>2, <3>3 DEF TypeOK
  <2>3. OneSender'
    <3>1. CASE m_bSendRegistered
      BY <2>1, <3>1 DEF OneSender, Sender
    <3>2. CASE ~m_bSendRegistered
      <4>1. \A u \in Threads : ~Sender(u)
        BY <3>2 DEF OneSender
      <4>2. \A u \in Threads : Sender(u)' => u = t
        BY <2>1, <4>1 DEF Sender
      <4>3. pending = "none"
        BY <3>2 DEF OneSender
      <4>4. QED
        BY <2>1, <4>2, <4>3 DEF OneSender
    <3>3. QED
      BY <3>1, <3>2
  <2>4. EventInUse'
    BY <2>1 DEF EventInUse
  <2>5. NoneLeftBehind'
    BY <2>1 DEF NoneLeftBehind
  <2>6. StreamIntact'
    <3>1. ASSUME ~failed'
          PROVE  (wire' \o InFlight') \o m_sendBufferQueue' = Numbers(pushed')
      <4>1. (wire \o InFlight) \o m_sendBufferQueue = Numbers(pushed)
        BY <2>1, <3>1 DEF StreamIntact, Numbers
      <4>2. wire \o InFlight \in Seq(Nat) /\ m_sendBufferQueue \in Seq(Nat) /\ pushed \in Nat
        BY ConcatProperties DEF TypeOK, InFlight
      <4>3. (wire \o InFlight) \o Append(m_sendBufferQueue, pushed) = Numbers(pushed + 1)
        BY <4>1, <4>2, StreamGrows
      <4>4. QED
        BY <2>1, <4>3
    <3>2. QED
      BY <3>1 DEF StreamIntact, Numbers
  <2>7. QED
    BY <2>2, <2>3, <2>4, <2>5, <2>6
<1>3. ASSUME NEW t \in Threads, RegisterSend(t) PROVE IInv'
  <2>1. TypeOK'
    BY <1>3 DEF RegisterSend, Goto, TypeOK, Labels, InFlight
  <2>2. OneSender'
    BY <1>3 DEF RegisterSend, Goto, TypeOK, OneSender, Sender
  <2>3. EventInUse'
    BY <1>3 DEF RegisterSend, Goto, TypeOK, OneSender, Sender, EventInUse
  <2>4. NoneLeftBehind'
    BY <1>3 DEF RegisterSend, Goto, NoneLeftBehind, OneSender, Sender
  <2>5. StreamIntact'
    BY <1>3 DEF RegisterSend, Goto, StreamIntact, InFlight
  <2>6. QED
    BY <2>1, <2>2, <2>3, <2>4, <2>5
<1>4. ASSUME NEW t \in Threads, Drain(t) PROVE IInv'
  <2>1. TypeOK'
    BY <1>4 DEF Drain, Goto, TypeOK, Labels, InFlight
  <2>2. OneSender'
    BY <1>4 DEF Drain, Goto, TypeOK, OneSender, Sender
  <2>3. EventInUse'
    BY <1>4 DEF Drain, Goto, TypeOK, OneSender, Sender, EventInUse
  <2>4. NoneLeftBehind'
    BY <1>4 DEF Drain, Goto, NoneLeftBehind, OneSender, Sender
  <2>5. StreamIntact'
    <3>1. /\ m_sendBuffer = <<>> /\ InFlight = <<>>
          /\ m_sendBuffer' = m_sendBufferQueue /\ InFlight' = m_sendBufferQueue
          /\ m_sendBufferQueue' = <<>> /\ UNCHANGED <<wire, pushed, failed>>
          /\ wire \in Seq(Nat) /\ m_sendBufferQueue \in Seq(Nat)
      BY <1>4, BufferIsEmpty, ConcatEmptySeq DEF Drain, TypeOK, InFlight
    <3>2. /\ (wire \o <<>>) \o m_sendBufferQueue = wire \o m_sendBufferQueue
          /\ (wire \o m_sendBufferQueue) \o <<>> = wire \o m_sendBufferQueue
      BY <3>1, ConcatEmptySeq, ConcatProperties
    <3>3. QED
      BY <3>1, <3>2 DEF StreamIntact
  <2>6. QED
    BY <2>1, <2>2, <2>3, <2>4, <2>5
<1>5. ASSUME NEW t \in Threads, WSASend(t) PROVE IInv'
  <2>1. TypeOK'
    <3>1. pending = "none"
      BY <1>5 DEF WSASend, OneSender, Sender
    <3>2. InFlight' = InFlight
      BY <1>5, <3>1 DEF WSASend, InFlight
    <3>3. pc' \in [Threads -> Labels]
      BY <1>5 DEF WSASend, Goto, TypeOK, Labels
    <3>4. QED
      BY <1>5, <3>2, <3>3 DEF WSASend, TypeOK
  <2>2. OneSender'
    BY <1>5 DEF WSASend, Goto, TypeOK, OneSender, Sender, EventInUse
  <2>3. EventInUse'
    BY <1>5 DEF WSASend, Goto, TypeOK, OneSender, Sender, EventInUse
  <2>4. NoneLeftBehind'
    BY <1>5 DEF WSASend, Goto, NoneLeftBehind, OneSender, Sender
  <2>5. StreamIntact'
    BY <1>5 DEF WSASend, Goto, StreamIntact, InFlight, OneSender, Sender
  <2>6. QED
    BY <2>1, <2>2, <2>3, <2>4, <2>5
<1>6. ASSUME NEW t \in Threads, WSASendError(t) PROVE IInv'
  <2>1. TypeOK'
    <3>1. /\ InFlight' = <<>> /\ <<>> \in Seq(Nat) /\ Len(<<>>) = 0
          /\ Len(InFlight) \in Nat /\ Len(wire) \in Nat /\ Len(m_sendBufferQueue) \in Nat
      BY <1>6 DEF WSASendError, TypeOK, InFlight
    <3>2. pc' \in [Threads -> Labels]
      BY <1>6 DEF WSASendError, Goto, TypeOK, Labels
    <3>3. Len(wire') + Len(InFlight') + Len(m_sendBufferQueue') <= pushed'
      BY <1>6, <3>1 DEF WSASendError, TypeOK
    <3>4. QED
      BY <1>6, <3>1, <3>2, <3>3 DEF WSASendError, TypeOK
  <2>2. OneSender'
    BY <1>6 DEF WSASendError, Goto, TypeOK, OneSender, Sender
  <2>3. EventInUse'
    BY <1>6 DEF WSASendError, Goto, TypeOK, OneSender, Sender, EventInUse
  <2>4. NoneLeftBehind'
    BY <1>6 DEF WSASendError, Goto, NoneLeftBehind, OneSender, Sender
  <2>5. StreamIntact'
    BY <1>6 DEF WSASendError, Goto, StreamIntact, InFlight
  <2>6. QED
    BY <2>1, <2>2, <2>3, <2>4, <2>5
<1>7. ASSUME NEW t \in Threads, Unregister(t) PROVE IInv'
  <2>1. TypeOK'
    BY <1>7 DEF Unregister, Goto, TypeOK, Labels, InFlight
  <2>2. OneSender'
    BY <1>7 DEF Unregister, Goto, TypeOK, OneSender, Sender
  <2>3. EventInUse'
    BY <1>7 DEF Unregister, Goto, TypeOK, OneSender, Sender, EventInUse
  <2>4. NoneLeftBehind'
    BY <1>7 DEF Unregister, Goto, NoneLeftBehind, EventInUse
  <2>5. StreamIntact'
    BY <1>7 DEF Unregister, Goto, StreamIntact, InFlight
  <2>6. QED
    BY <2>1, <2>2, <2>3, <2>4, <2>5
<1>8. ASSUME NEW t \in Threads, CheckQueue(t) PROVE IInv'
  <2>1. TypeOK'
    BY <1>8 DEF CheckQueue, Goto, TypeOK, Labels, InFlight
  <2>2. OneSender'
    BY <1>8 DEF CheckQueue, Goto, TypeOK, OneSender, Sender
  <2>3. EventInUse'
    BY <1>8 DEF CheckQueue, Goto, TypeOK, OneSender, Sender, EventInUse
  <2>4. NoneLeftBehind'
    BY <1>8 DEF CheckQueue, Goto, NoneLeftBehind, OneSender, Sender
  <2>5. StreamIntact'
    BY <1>8 DEF CheckQueue, Goto, StreamIntact, InFlight
  <2>6. QED
    BY <2>1, <2>2, <2>3, <2>4, <2>5
<1>9. ASSUME NEW t \in Threads, ProcessSend(t) PROVE IInv'
  <2>1. TypeOK'
    <3>1. /\ InFlight' = <<>> /\ <<>> \in Seq(Nat) /\ Len(<<>>) = 0
          /\ Len(InFlight) \in Nat /\ Len(wire) \in Nat /\ Len(m_sendBufferQueue) \in Nat
      BY <1>9 DEF ProcessSend, TypeOK, InFlight
    <3>2. pc' \in [Threads -> Labels]
      BY <1>9 DEF ProcessSend, Goto, TypeOK, Labels
    <3>3. Len(wire') + Len(InFlight') + Len(m_sendBufferQueue') <= pushed'
      BY <1>9, <3>1 DEF ProcessSend, TypeOK
    <3>4. QED
      BY <1>9, <3>1, <3>2, <3>3 DEF ProcessSend, TypeOK
  <2>2. OneSender'
    BY <1>9 DEF ProcessSend, Goto, TypeOK, OneSender, Sender
  <2>3. EventInUse'
    BY <1>9 DEF ProcessSend, Goto, TypeOK, OneSender, Sender, EventInUse
  <2>4. NoneLeftBehind'
    BY <1>9 DEF ProcessSend, Goto, NoneLeftBehind, OneSender, Sender
  <2>5. StreamIntact'
    BY <1>9 DEF ProcessSend, Goto, StreamIntact, InFlight
  <2>6. QED
    BY <2>1, <2>2, <2>3, <2>4, <2>5
<1>10. ASSUME NEW t \in Threads, Disconnect(t) PROVE IInv'
  <2>1. TypeOK'
    BY <1>10 DEF Disconnect, Goto, TypeOK, Labels, InFlight
  <2>2. OneSender'
    BY <1>10 DEF Disconnect, Goto, TypeOK, OneSender, Sender
  <2>3. EventInUse'
    BY <1>10 DEF Disconnect, Goto, TypeOK, OneSender, Sender, EventInUse
  <2>4. NoneLeftBehind'
    BY <1>10 DEF Disconnect, Goto, NoneLeftBehind, OneSender, Sender
  <2>5. StreamIntact'
    BY <1>10 DEF Disconnect, Goto, StreamIntact, InFlight
  <2>6. QED
    BY <2>1, <2>2, <2>3, <2>4, <2>5
<1>11. ASSUME Transmit PROVE IInv'
  <2>1. TypeOK'
    BY <1>11 DEF Transmit, TypeOK, InFlight
  <2>2. OneSender'
    BY <1>11 DEF Transmit, OneSender, Sender
  <2>3. EventInUse'
    BY <1>11 DEF Transmit, EventInUse
  <2>4. NoneLeftBehind'
    BY <1>11 DEF Transmit, NoneLeftBehind
  <2>5. StreamIntact'
    BY <1>11 DEF Transmit, StreamIntact, InFlight
  <2>6. QED
    BY <2>1, <2>2, <2>3, <2>4, <2>5
<1>12. ASSUME Abort PROVE IInv'
  <2>1. TypeOK'
    BY <1>12 DEF Abort, TypeOK, InFlight
  <2>2. OneSender'
    BY <1>12 DEF Abort, OneSender, Sender
  <2>3. EventInUse'
    BY <1>12 DEF Abort, EventInUse
  <2>4. NoneLeftBehind'
    BY <1>12 DEF Abort, NoneLeftBehind
  <2>5. StreamIntact'
    BY <1>12 DEF Abort, StreamIntact, InFlight
  <2>6. QED
    BY <2>1, <2>2, <2>3, <2>4, <2>5
<1>13. CASE UNCHANGED vars
  BY <1>13 DEF vars, TypeOK, OneSender, Sender, EventInUse, NoneLeftBehind, StreamIntact, InFlight
<1>14. QED
  BY <1>1, <1>2, <1>3, <1>4, <1>5, <1>6, <1>7, <1>8, <1>9, <1>10, <1>11, <1>12, <1>13 DEF Next, Sending
THEOREM Invariant == Spec => []IInv
<1>1. QED
  BY InitIInv, StepIInv, PTL DEF Spec

\* Every variable keeps its type, and no more is sent than was queued.
THEOREM TypeCorrect == Spec => []TypeOK
<1>1. IInv => TypeOK
  BY DEF IInv
<1>2. QED
  BY <1>1, Invariant, PTL

\* However many threads send, disconnect and handle completions, m_sendEvent
\* has one user at a time, and a completion finds its session.
THEOREM SingleSender == Spec => []OneSender
<1>1. IInv => OneSender
  BY DEF IInv
<1>2. QED
  BY <1>1, Invariant, PTL

\* A message queued while somebody sends is never forgotten.
THEOREM NoLostMessage == Spec => []NoneLeftBehind
<1>1. IInv => NoneLeftBehind
  BY DEF IInv
<1>2. QED
  BY <1>1, Invariant, PTL

\* Messages leave in the order of the queue, none lost and none twice, until a
\* WSASend fails.
THEOREM StreamIsIntact == Spec => []StreamIntact
<1>1. IInv => StreamIntact
  BY DEF IInv
<1>2. QED
  BY <1>1, Invariant, PTL
-----------------------------------------------------------------------------
\* Where no WSASend fails at once, one that fails later is the last one.
LastSend ==
    /\ ~refused
    /\ failed => /\ pending = "none" /\ m_bSendRegistered
                 /\ \A t \in Threads : ~Sender(t)

LEMMA PrefixOfNumbers ==
    ASSUME NEW x \in Seq(Nat), NEW q \in Seq(Nat), NEW n \in Nat, x \o q = Numbers(n)
    PROVE  Len(x) <= n /\ x = Numbers(Len(x))
<1>1. /\ Len(x) \in Nat /\ Len(q) \in Nat /\ Len(x \o q) = Len(x) + Len(q)
      /\ \A i \in 1 .. Len(x) : (x \o q)[i] = x[i]
  BY ConcatProperties
<1>2. Len(Numbers(n)) = n /\ (\A i \in 1 .. n : Numbers(n)[i] = i - 1)
  BY DEF Numbers
<1>3. Len(x) <= n /\ (\A i \in 1 .. Len(x) : x[i] = i - 1)
  BY <1>1, <1>2
<1>4. x = [i \in 1 .. Len(x) |-> x[i]]
  OBVIOUS
<1>5. QED
  BY <1>3, <1>4 DEF Numbers

LEMMA StepLastSend == IInv /\ ~WSASendFails /\ LastSend /\ [Next]_vars => LastSend'
<1> SUFFICES ASSUME IInv, ~WSASendFails, LastSend, [Next]_vars PROVE LastSend'
  OBVIOUS
<1> USE DEF IInv
<1>1. ASSUME NEW t \in Threads, Send(t) \/ RegisterSend(t) \/ Drain(t) \/ Disconnect(t)
      PROVE  LastSend'
  BY <1>1 DEF Send, RegisterSend, Drain, Disconnect, Goto, LastSend, Sender, TypeOK
<1>2. ASSUME NEW t \in Threads, Push(t) PROVE LastSend'
  BY <1>2 DEF Push, AfterPush, Goto, LastSend, Sender, TypeOK
<1>3. ASSUME NEW t \in Threads, WSASend(t) \/ WSASendError(t) \/ Unregister(t)
      PROVE  LastSend'
  BY <1>3 DEF WSASend, WSASendError, Unregister, Goto, LastSend, Sender, TypeOK, EventInUse
<1>4. ASSUME NEW t \in Threads, CheckQueue(t) PROVE LastSend'
  BY <1>4 DEF CheckQueue, Goto, LastSend, Sender, TypeOK
<1>5. ASSUME NEW t \in Threads, ProcessSend(t) PROVE LastSend'
  BY <1>5 DEF ProcessSend, Goto, LastSend, OneSender, Sender, TypeOK
<1>6. CASE Transmit \/ Abort
  BY <1>6 DEF Transmit, Abort, LastSend, Sender
<1>7. CASE UNCHANGED vars
  BY <1>7 DEF vars, LastSend, Sender
<1>8. QED
  BY <1>1, <1>2, <1>3, <1>4, <1>5, <1>6, <1>7 DEF Next, Sending

LEMMA InitStream == Init => Stream!Init
  BY DEF Init, Unbroken, Stream!Init

LEMMA StepStream ==
    IInv /\ LastSend /\ ~WSASendFails /\ [Next]_vars => [Stream!Next]_<<pushed, Unbroken>>
<1> SUFFICES ASSUME IInv, LastSend, ~WSASendFails, [Next]_vars PROVE [Stream!Next]_<<pushed, Unbroken>>
  OBVIOUS
<1> USE DEF IInv
<1>1. ASSUME NEW t \in Threads, Push(t) PROVE Stream!Give
  BY <1>1 DEF Push, Stream!Give, TypeOK, Unbroken
<1>2. ASSUME Transmit PROVE [Stream!Next]_<<pushed, Unbroken>>
  <2>1. /\ wire \in Seq(Nat) /\ m_sendBuffer \in Seq(Nat) /\ m_sendBufferQueue \in Seq(Nat)
        /\ wire' = wire \o m_sendBuffer /\ UNCHANGED pushed /\ pushed \in Nat
        /\ pending = "sending" /\ Unbroken = wire /\ Unbroken' = wire'
    BY <1>2 DEF Transmit, TypeOK, LastSend, Unbroken
  <2>2. (wire \o m_sendBuffer) \o m_sendBufferQueue = Numbers(pushed)
    BY <2>1 DEF LastSend, StreamIntact, InFlight, Numbers
  <2>3. wire' \in Seq(Nat) /\ Len(wire') = Len(wire) + Len(m_sendBuffer)
    BY <2>1, ConcatProperties
  <2>4. wire' \o m_sendBufferQueue = Numbers(pushed)
    BY <2>1, <2>2
  <2>5. Len(wire') <= pushed /\ wire' = Numbers(Len(wire'))
    BY <2>1, <2>3, <2>4, PrefixOfNumbers
  <2>6. CASE m_sendBuffer = <<>>
    BY <2>1, <2>6, ConcatEmptySeq
  <2>7. CASE m_sendBuffer # <<>>
    <3>1. Len(m_sendBuffer) \in Nat \ {0} /\ Len(wire) \in Nat
      BY <2>1, <2>7, EmptySeq
    <3>2. Len(wire') \in Len(wire) + 1 .. pushed
      BY <2>1, <2>3, <2>5, <3>1
    <3>3. Stream!Leave
      BY <2>1, <2>5, <3>2 DEF Stream!Leave, Numbers
    <3>4. QED
      BY <3>3 DEF Stream!Next
  <2>8. QED
    BY <2>6, <2>7
<1>3. ASSUME NEW t \in Threads,
             \/ Send(t) \/ RegisterSend(t) \/ Drain(t) \/ WSASend(t)
             \/ Unregister(t) \/ CheckQueue(t) \/ ProcessSend(t) \/ Disconnect(t)
      PROVE  UNCHANGED <<pushed, Unbroken>>
  BY <1>3 DEF Send, RegisterSend, Drain, WSASend, Unregister, CheckQueue,
              ProcessSend, Disconnect, Unbroken
<1>4. CASE Abort
  BY <1>4 DEF Abort, Unbroken
<1>5. CASE UNCHANGED vars
  BY <1>5 DEF vars, Unbroken
<1>6. QED
  BY <1>1, <1>2, <1>3, <1>4, <1>5 DEF Next, Sending, WSASendError, Stream!Next

\* Where no WSASend fails at once, the session implements SendStream: what
\* leaves is a prefix of what was given, even after an aborted send.
THEOREM Refinement == ASSUME ~WSASendFails PROVE Spec => StreamSpec
<1>1. Init => LastSend
  BY DEF Init, LastSend
<1>2. IInv /\ LastSend /\ [Next]_vars => LastSend'
  BY StepLastSend
<1>3. QED
  BY <1>1, <1>2, InitStream, StepStream, Invariant, PTL DEF Spec, StreamSpec, Stream!Spec
=============================================================================
